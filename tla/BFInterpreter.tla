----------------------------- MODULE BFInterpreter -----------------------------
(***************************************************************************)
(* BFInterpreter::interp: the instructions are loaded one by one, brackets *)
(* being paired with a stack, and then executed.                           *)
(*                                                                         *)
(* instructions_ is the part of prog.code that has been loaded, all of it  *)
(* when pc_ starts to move.  pc_ is a size_t: jump_table_[pc_] - 1 wraps   *)
(* around for a bracket at 0 and pc_++ wraps it back.                      *)
(***************************************************************************)
EXTENDS BFProgram

VARIABLES
  prog,
  loaded,        \* instructions_.size()
  stack,         \* the open brackets
  jump_table_,
  phase,         \* "loading", "running", or "undefined" after an access outside memory_
  pc_,
  data_ptr_,
  memory_,
  unread,        \* what std::cin still holds
  output         \* what std::cout received

loadVars == <<loaded, stack, jump_table_>>
runVars  == <<pc_, data_ptr_, memory_, unread, output>>
vars     == <<prog, loadVars, phase, runVars>>

Init ==
  /\ prog \in Programs
  /\ loaded = 0
  /\ stack = <<>>
  /\ jump_table_ = <<>>
  /\ phase = "loading"
  /\ pc_ = 1
  /\ data_ptr_ = 0
  /\ memory_ = [a \in Addresses |-> 0]
  /\ unread = prog.input
  /\ output = <<>>

-------------------------------------------------------------------------------

\* a slip, for the mutants: the pair is entered one way only
PairedOneWay(i, j) == [k \in DOMAIN jump_table_ \cup {i} |-> IF k = i THEN j ELSE jump_table_[k]]

\* jump_table_.emplace, both ways
Paired(i, j) ==
  [k \in DOMAIN jump_table_ \cup {i, j} |->
     IF k \in DOMAIN jump_table_ THEN jump_table_[k] ELSE IF k = i THEN j ELSE i]

Popped == SubSeq(stack, 1, Len(stack) - 1)

Load ==
  LET n == loaded + 1
  IN  /\ phase = "loading"
      /\ loaded < Len(prog.code)
      /\ loaded' = n
      /\ \/ /\ prog.code[n] = "["
            /\ stack' = Append(stack, n)
            /\ UNCHANGED jump_table_
         \/ /\ prog.code[n] = "]"
            /\ jump_table_' = Paired(stack[Len(stack)], n)
            /\ stack' = Popped
         \/ /\ prog.code[n] \notin Brackets
            /\ UNCHANGED <<stack, jump_table_>>
      /\ UNCHANGED <<prog, phase, runVars>>

\* assert(stack.empty()), and the loop over instructions_ begins
Start ==
  /\ phase = "loading"
  /\ loaded = Len(prog.code)
  /\ stack = <<>>
  /\ phase' = "running"
  /\ UNCHANGED <<prog, loadVars, runVars>>

-------------------------------------------------------------------------------

\* one round of the loop: instruction is in cs, and pc_ is set to pc and incremented
Round(cs, pc) ==
  /\ phase = "running"
  /\ pc_ <= loaded
  /\ prog.code[pc_] \in cs
  /\ pc_' = pc + 1
  /\ UNCHANGED <<prog, loadVars>>

Move ==
  /\ Round(Moves, pc_)
  /\ data_ptr_' = (data_ptr_ + Step(prog.code[pc_])) % SizeTSpace
  /\ UNCHANGED <<phase, memory_, unread, output>>

Change ==
  /\ Round(Changes, pc_)
  /\ data_ptr_ \in Addresses
  /\ memory_' = [memory_ EXCEPT ![data_ptr_] = (@ + Step(prog.code[pc_])) % CellSize]
  /\ UNCHANGED <<phase, data_ptr_, unread, output>>

Put ==
  /\ Round({"."}, pc_)
  /\ data_ptr_ \in Addresses
  /\ output' = Append(output, memory_[data_ptr_])
  /\ UNCHANGED <<phase, data_ptr_, memory_, unread>>

\* a slip, for the mutants: the cell keeps the int that get returns
GetInt ==
  /\ Round({","}, pc_)
  /\ data_ptr_ \in Addresses
  /\ memory_' = [memory_ EXCEPT ![data_ptr_] = NextChar(unread)]
  /\ unread' = AfterNext(unread)
  /\ UNCHANGED <<phase, data_ptr_, output>>

Get ==
  /\ Round({","}, pc_)
  /\ data_ptr_ \in Addresses
  /\ memory_' = [memory_ EXCEPT ![data_ptr_] = NextChar(unread) % CellSize]
  /\ unread' = AfterNext(unread)
  /\ UNCHANGED <<phase, data_ptr_, output>>

\* a slip, for the mutants: one too short, as if it were the jump back
OpenBracketShort ==
  /\ data_ptr_ \in Addresses
  /\ Round({"["}, IF memory_[data_ptr_] = 0 THEN jump_table_[pc_] - 1 ELSE pc_)
  /\ UNCHANGED <<phase, data_ptr_, memory_, unread, output>>

OpenBracket ==
  /\ data_ptr_ \in Addresses
  /\ Round({"["}, IF memory_[data_ptr_] = 0 THEN jump_table_[pc_] ELSE pc_)
  /\ UNCHANGED <<phase, data_ptr_, memory_, unread, output>>

\* the jump goes back to the opening bracket, whose test is made again
CloseBracket ==
  /\ data_ptr_ \in Addresses
  /\ Round({"]"}, IF memory_[data_ptr_] # 0 THEN jump_table_[pc_] - 1 ELSE pc_)
  /\ UNCHANGED <<phase, data_ptr_, memory_, unread, output>>

AccessOutside ==
  /\ phase = "running"
  /\ pc_ <= loaded
  /\ prog.code[pc_] \notin Moves
  /\ data_ptr_ \notin Addresses
  /\ phase' = "undefined"
  /\ UNCHANGED <<prog, loadVars, runVars>>

Next ==
  \/ Load \/ Start
  \/ Move \/ Change \/ Put \/ Get \/ OpenBracket \/ CloseBracket \/ AccessOutside

Spec == Init /\ [][Next]_vars

-------------------------------------------------------------------------------
(* Properties. *)

(***************************************************************************)
(* The open brackets wait on the stack, innermost last; the others that    *)
(* were loaded are in the jump table, each with its partner.               *)
(***************************************************************************)
Brackets1 == PositionsOf(prog, {"["})
BothLoaded == {i \in PositionsOf(prog, Brackets) : i <= loaded /\ prog.match[i] <= loaded}

BracketsPairUp ==
  /\ \A s, t \in DOMAIN stack : s < t => stack[s] < stack[t]
  /\ {stack[s] : s \in DOMAIN stack} = {i \in Brackets1 : i <= loaded /\ loaded < prog.match[i]}
  /\ DOMAIN jump_table_ = BothLoaded
  /\ \A i \in BothLoaded : jump_table_[i] = prog.match[i]

TypeOK ==
  /\ prog \in Programs
  /\ loaded \in 0..Len(prog.code)
  /\ stack \in Seq(1..Len(prog.code))
  /\ phase \in {"loading", "running", "undefined"}
  /\ phase # "loading" => loaded = Len(prog.code)
  /\ pc_ \in 1..(Len(prog.code) + 1)
  /\ data_ptr_ \in 0..(SizeTSpace - 1)
  /\ memory_ \in [Addresses -> Cells]
  /\ unread \in Seq(Cells)
  /\ output \in Seq(Cells)

(***************************************************************************)
(* assert(stack.empty()) (BFInterpreter.cpp:54) holds where it is made.    *)
(***************************************************************************)
AssertionHolds == phase = "loading" /\ loaded = Len(prog.code) => stack = <<>>

(***************************************************************************)
(* The interpreter does what the program says.                             *)
(***************************************************************************)
Machine == INSTANCE BFMachine
             WITH AddressSpace <- SizeTSpace, at <- pc_, ptr <- data_ptr_, mem <- memory_,
                  defined <- (phase # "undefined")

ImplementsMachine == Machine!Spec
===============================================================================
