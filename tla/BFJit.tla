--------------------------------- MODULE BFJit ---------------------------------
(***************************************************************************)
(* The JIT compiler: emit_jit_function turns the instructions into basic   *)
(* blocks, one instruction at a time, and the function it emitted is then  *)
(* run.                                                                    *)
(*                                                                         *)
(* A block is the positions of the instructions whose code was appended to *)
(* it, and its terminator: none yet, a conditional branch with its         *)
(* targets, or the return.  The blocks of a loop are named after the       *)
(* position of its opening bracket.  The optimiser and the code            *)
(* generator of LLVM are taken to keep what the function does.             *)
(***************************************************************************)
EXTENDS BFProgram

Entry   == <<"entry", 0>>
Body(i) == <<"loop_body", i>>
Exit(i) == <<"loop_exit", i>>

VARIABLES
  prog,
  pc,                  \* the instruction to emit
  blocks,              \* jit_fn: block -> [ops, term]
  insertPoint,         \* the block the builder appends to
  open_bracket_stack,
  phase,               \* "emitting", "running", or "undefined" after an access outside memory
  block,               \* where the emitted function is: its block,
  k,                   \* ... and how many instructions of it were run, plus 1
  dataptr,
  memory,
  unread,              \* what getchar would read
  output               \* what putchar wrote

emitVars == <<pc, blocks, insertPoint, open_bracket_stack>>
runVars  == <<block, k, dataptr, memory, unread, output>>
vars     == <<prog, emitVars, phase, runVars>>

NoTerm == [kind |-> "none"]
Branch(p, zero, nonzero) == [kind |-> "br", pc |-> p, zero |-> zero, nonzero |-> nonzero]
Return == [kind |-> "ret"]

Empty == [ops |-> <<>>, term |-> NoTerm]

Init ==
  /\ prog \in Programs
  /\ pc = 1
  /\ blocks = [b \in {Entry} |-> Empty]
  /\ insertPoint = Entry
  /\ open_bracket_stack = <<>>
  /\ phase = "emitting"
  /\ block = Entry
  /\ k = 1
  /\ dataptr = 0
  /\ memory = [a \in Addresses |-> 0]
  /\ unread = prog.input
  /\ output = <<>>

-------------------------------------------------------------------------------
(* emit_jit_function *)

Emitting(cs) ==
  /\ phase = "emitting"
  /\ pc \in PositionsOf(prog, cs)
  /\ pc' = pc + 1
  /\ UNCHANGED <<prog, phase, runVars>>

EmitPlain ==
  /\ Emitting(Instructions \ Brackets)
  /\ blocks' = [blocks EXCEPT ![insertPoint].ops = Append(@, pc)]
  /\ UNCHANGED <<insertPoint, open_bracket_stack>>

EmitOpen ==
  /\ Emitting({"["})
  /\ blocks' = [b \in DOMAIN blocks \cup {Body(pc), Exit(pc)} |->
                  IF b = insertPoint
                  THEN [blocks[b] EXCEPT !.term = Branch(pc, Exit(pc), Body(pc))]
                  ELSE IF b \in DOMAIN blocks THEN blocks[b] ELSE Empty]
  /\ open_bracket_stack' = Append(open_bracket_stack, <<Body(pc), Exit(pc)>>)
  /\ insertPoint' = Body(pc)

Top == open_bracket_stack[Len(open_bracket_stack)]
Popped == SubSeq(open_bracket_stack, 1, Len(open_bracket_stack) - 1)

\* a slip, for the mutants: the builder goes on in the body
EmitCloseInBody ==
  /\ Emitting({"]"})
  /\ blocks' = [blocks EXCEPT ![insertPoint].term = Branch(pc, Top[2], Top[1])]
  /\ open_bracket_stack' = Popped
  /\ insertPoint' = Top[1]

EmitClose ==
  /\ Emitting({"]"})
  /\ blocks' = [blocks EXCEPT ![insertPoint].term = Branch(pc, Top[2], Top[1])]
  /\ open_bracket_stack' = Popped
  /\ insertPoint' = Top[2]

\* CreateRetVoid; the module is optimised and compiled, and the function is called
EmitReturn ==
  /\ phase = "emitting"
  /\ pc = Len(prog.code) + 1
  /\ blocks' = [blocks EXCEPT ![insertPoint].term = Return]
  /\ phase' = "running"
  /\ UNCHANGED <<prog, pc, insertPoint, open_bracket_stack, runVars>>

-------------------------------------------------------------------------------
(* The emitted function *)

Here == blocks[block]
AtOp == k <= Len(Here.ops)

Op(cs) ==
  /\ phase = "running"
  /\ AtOp
  /\ prog.code[Here.ops[k]] \in cs
  /\ k' = k + 1
  /\ UNCHANGED <<prog, emitVars, phase, block>>

\* a slip, for the mutants: the data pointer stops at the left edge
MoveClamped ==
  /\ Op(Moves)
  /\ dataptr' = IF dataptr = 0 /\ prog.code[Here.ops[k]] = "<" THEN 0
                ELSE (dataptr + Step(prog.code[Here.ops[k]])) % Int32Space
  /\ UNCHANGED <<memory, unread, output>>

Move ==
  /\ Op(Moves)
  /\ dataptr' = (dataptr + Step(prog.code[Here.ops[k]])) % Int32Space
  /\ UNCHANGED <<memory, unread, output>>

Change ==
  /\ Op(Changes)
  /\ dataptr \in Addresses
  /\ memory' = [memory EXCEPT ![dataptr] = (@ + Step(prog.code[Here.ops[k]])) % CellSize]
  /\ UNCHANGED <<dataptr, unread, output>>

PutChar ==
  /\ Op({"."})
  /\ dataptr \in Addresses
  /\ output' = Append(output, memory[dataptr])
  /\ UNCHANGED <<dataptr, memory, unread>>

GetChar ==
  /\ Op({","})
  /\ dataptr \in Addresses
  /\ memory' = [memory EXCEPT ![dataptr] = NextChar(unread) % CellSize]
  /\ unread' = AfterNext(unread)
  /\ UNCHANGED <<dataptr, output>>

AtBranch == phase = "running" /\ ~ AtOp /\ Here.term.kind = "br"

\* a slip, for the mutants: ICmpEQ for ICmpNE
CondBrInverted ==
  /\ AtBranch
  /\ dataptr \in Addresses
  /\ block' = IF memory[dataptr] = 0 THEN Here.term.nonzero ELSE Here.term.zero
  /\ k' = 1
  /\ UNCHANGED <<prog, emitVars, phase, dataptr, memory, unread, output>>

CondBr ==
  /\ AtBranch
  /\ dataptr \in Addresses
  /\ block' = IF memory[dataptr] = 0 THEN Here.term.zero ELSE Here.term.nonzero
  /\ k' = 1
  /\ UNCHANGED <<prog, emitVars, phase, dataptr, memory, unread, output>>

AccessOutside ==
  /\ phase = "running"
  /\ AtBranch \/ (AtOp /\ prog.code[Here.ops[k]] \notin Moves)
  /\ dataptr \notin Addresses
  /\ phase' = "undefined"
  /\ UNCHANGED <<prog, emitVars, runVars>>

Next ==
  \/ EmitPlain \/ EmitOpen \/ EmitClose \/ EmitReturn
  \/ Move \/ Change \/ PutChar \/ GetChar \/ CondBr \/ AccessOutside

Spec == Init /\ [][Next]_vars

-------------------------------------------------------------------------------
(* Properties. *)

(***************************************************************************)
(* The position of the code that the function executes next.               *)
(***************************************************************************)
At ==
  IF phase = "emitting" THEN 1
  ELSE IF AtOp THEN Here.ops[k]
  ELSE IF Here.term.kind = "br" THEN Here.term.pc
  ELSE Len(prog.code) + 1

TypeOK ==
  /\ prog \in Programs
  /\ pc \in 1..(Len(prog.code) + 1)
  /\ {insertPoint, block} \subseteq DOMAIN blocks
  /\ \A b \in DOMAIN blocks :
       blocks[b].ops \in Seq(1..Len(prog.code))
  /\ phase \in {"emitting", "running", "undefined"}
  /\ k \in Nat \ {0}
  /\ dataptr \in 0..(Int32Space - 1)
  /\ memory \in [Addresses -> Cells]
  /\ unread \in Seq(Cells)
  /\ output \in Seq(Cells)

(***************************************************************************)
(* The function is well formed when it is handed to the optimiser, whose   *)
(* verdict (verifyFunction, main.cpp:199) nobody reads: every block ends   *)
(* in a terminator, one of them in the return, branches stay inside the    *)
(* function, and the code of every instruction is in exactly one block.    *)
(***************************************************************************)
EndsIn(kind) == {b \in DOMAIN blocks : blocks[b].term.kind = kind}

BlocksOf(i) ==
  {b \in DOMAIN blocks : \/ \E n \in DOMAIN blocks[b].ops : blocks[b].ops[n] = i
                         \/ b \in EndsIn("br") /\ blocks[b].term.pc = i}

FunctionIsWellFormed ==
  phase # "emitting" =>
    /\ EndsIn("none") = {}
    /\ \E b \in DOMAIN blocks : EndsIn("ret") = {b}
    /\ \A b \in EndsIn("br") : {blocks[b].term.zero, blocks[b].term.nonzero} \subseteq DOMAIN blocks
    /\ \A i \in 1..Len(prog.code) : \E b \in DOMAIN blocks : BlocksOf(i) = {b}

(***************************************************************************)
(* The emitted function does what the program says.                        *)
(***************************************************************************)
Machine == INSTANCE BFMachine
             WITH AddressSpace <- Int32Space, at <- At, ptr <- dataptr, mem <- memory,
                  defined <- (phase # "undefined")

ImplementsMachine == Machine!Spec
===============================================================================
