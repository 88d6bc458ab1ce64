------------------------------- MODULE BFEngines -------------------------------
(***************************************************************************)
(* The interpreter and the JIT compiler side by side on one program and    *)
(* one input: two processes that share nothing, each at its own pace.      *)
(***************************************************************************)
EXTENDS BFProgram, SequencesExt

VARIABLES
  prog,
  loaded, stack, jump_table_, iphase, pc_, data_ptr_, memory_, cin, cout,
  pc, blocks, insertPoint, open_bracket_stack, jphase, block, k, dataptr, memory,
  unread, output

ivars == <<loaded, stack, jump_table_, iphase, pc_, data_ptr_, memory_, cin, cout>>
jvars == <<pc, blocks, insertPoint, open_bracket_stack, jphase, block, k, dataptr, memory,
           unread, output>>
vars  == <<prog, ivars, jvars>>

Interpreter == INSTANCE BFInterpreter
  WITH phase <- iphase, unread <- cin, output <- cout

Jit == INSTANCE BFJit WITH phase <- jphase

Init == Interpreter!Init /\ Jit!Init

InterpreterSteps == Interpreter!Next /\ UNCHANGED jvars
JitSteps         == Jit!Next /\ UNCHANGED ivars

Next == InterpreterSteps \/ JitSteps

\* each process runs on until it has nothing left to do
Spec == Init /\ [][Next]_vars /\ WF_vars(InterpreterSteps) /\ WF_vars(JitSteps)

-------------------------------------------------------------------------------

TypeOK == Interpreter!TypeOK /\ Jit!TypeOK

BracketsPairUp       == Interpreter!BracketsPairUp
AssertionHolds       == Interpreter!AssertionHolds
FunctionIsWellFormed == Jit!FunctionIsWellFormed

\* no row of moves takes a data pointer all the way around
ShortPrograms ==
  \A p \in Programs : \A width \in {SizeTSpace, Int32Space} : Len(p.code) + MemorySize <= width

(***************************************************************************)
(* The JIT compiler does what the interpreter does.  Whatever the pace of  *)
(* the two, the output of one is the beginning of the other's; once both   *)
(* are through, cells, output and the input left are the same, and if one  *)
(* accessed a cell outside its memory so did the other, although they wrap *)
(* their data pointers at different widths and repeat a loop's test        *)
(* differently.                                                            *)
(***************************************************************************)
InterpreterEnded == iphase = "undefined" \/ (iphase = "running" /\ pc_ > loaded)
JitEnded == jphase = "undefined" \/ (jphase = "running" /\ Jit!At > Len(prog.code))

EnginesAgree ==
  /\ IsPrefix(cout, output) \/ IsPrefix(output, cout)
  /\ InterpreterEnded /\ JitEnded =>
       /\ iphase = jphase
       /\ <<memory_, cin, cout>> = <<memory, unread, output>>

(***************************************************************************)
(* A program that one of them ends, or loses in undefined behaviour, the   *)
(* other ends or loses too; otherwise both loop for ever.                  *)
(***************************************************************************)
EnginesEndTogether ==
  /\ InterpreterEnded ~> JitEnded
  /\ JitEnded ~> InterpreterEnded

(***************************************************************************)
(* Each does what the program says.                                        *)
(***************************************************************************)
InterpreterImplementsMachine == Interpreter!ImplementsMachine
JitImplementsMachine         == Jit!ImplementsMachine
===============================================================================
