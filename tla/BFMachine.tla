------------------------------- MODULE BFMachine -------------------------------
(***************************************************************************)
(* What a brainfuck program does: the abstract specification that the      *)
(* interpreter and the compiled function both implement.                   *)
(*                                                                         *)
(* The data pointer wraps around at AddressSpace, the width of its type.   *)
(* Reading or writing a cell outside the memory is undefined behaviour in  *)
(* both implementations; nothing is said of what follows it.               *)
(***************************************************************************)
EXTENDS BFProgram

CONSTANT AddressSpace   \* the values of the data pointer

VARIABLES
  prog,     \* the program that runs
  at,       \* the position of its next instruction
  ptr,      \* the data pointer
  mem,      \* the cells
  unread,   \* the input that is left
  output,   \* what has been written
  defined   \* FALSE once a cell outside the memory was accessed

vars == <<prog, at, ptr, mem, unread, output, defined>>

Init ==
  /\ prog \in Programs
  /\ at = 1
  /\ ptr = 0
  /\ mem = [a \in Addresses |-> 0]
  /\ unread = prog.input
  /\ output = <<>>
  /\ defined = TRUE

Next1(cs) ==
  /\ defined
  /\ at \in PositionsOf(prog, cs)
  /\ UNCHANGED prog

Move ==
  /\ Next1(Moves)
  /\ ptr' = (ptr + Step(prog.code[at])) % AddressSpace
  /\ at' = at + 1
  /\ UNCHANGED <<mem, unread, output, defined>>

Change ==
  /\ Next1(Changes)
  /\ ptr \in Addresses
  /\ mem' = [mem EXCEPT ![ptr] = (@ + Step(prog.code[at])) % CellSize]
  /\ at' = at + 1
  /\ UNCHANGED <<ptr, unread, output, defined>>

Write ==
  /\ Next1({"."})
  /\ ptr \in Addresses
  /\ output' = Append(output, mem[ptr])
  /\ at' = at + 1
  /\ UNCHANGED <<ptr, mem, unread, defined>>

Read ==
  /\ Next1({","})
  /\ ptr \in Addresses
  /\ mem' = [mem EXCEPT ![ptr] = NextChar(unread) % CellSize]
  /\ unread' = AfterNext(unread)
  /\ at' = at + 1
  /\ UNCHANGED <<ptr, output, defined>>

\* a loop is entered at its first instruction, or left behind its closing bracket
Open ==
  /\ Next1({"["})
  /\ ptr \in Addresses
  /\ at' = (IF mem[ptr] = 0 THEN prog.match[at] ELSE at) + 1
  /\ UNCHANGED <<ptr, mem, unread, output, defined>>

\* it may be repeated from its opening bracket, whose test then succeeds, or behind it
Close ==
  /\ Next1({"]"})
  /\ ptr \in Addresses
  /\ at' \in IF mem[ptr] = 0 THEN {at + 1} ELSE {prog.match[at], prog.match[at] + 1}
  /\ UNCHANGED <<ptr, mem, unread, output, defined>>

AccessOutside ==
  /\ Next1(Instructions \ Moves)
  /\ ptr \notin Addresses
  /\ defined' = FALSE
  /\ UNCHANGED <<at, ptr, mem, unread, output>>

Next == Move \/ Change \/ Write \/ Read \/ Open \/ Close \/ AccessOutside

Spec == Init /\ [][Next]_vars
===============================================================================
