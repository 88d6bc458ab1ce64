------------------------------- MODULE BFProgram -------------------------------
(***************************************************************************)
(* Brainfuck programs with their input, and the machine sizes, as the      *)
(* interpreter and the JIT compiler of building-a-JIT-for-BF see them.     *)
(*                                                                         *)
(* A program is its sequence of instructions: both readers drop every      *)
(* other character one at a time, which changes nothing else.  Positions   *)
(* count from 1 here and from 0 in the code.  Brackets of a program pair   *)
(* up, match being the pairing: both readers take it for granted (they pop *)
(* a stack they do not test, BFInterpreter.cpp:47 and main.cpp:159).       *)
(***************************************************************************)
EXTENDS Integers, Sequences

CONSTANTS Programs,     \* records [code, match, input]
          MemorySize,   \* MEMORY_SIZE, 30000 in the code
          CellSize,     \* values of a cell, 256 in the code
          SizeTSpace,   \* values of a size_t, the interpreter's data pointer: 2^64
          Int32Space    \* values of an i32, the emitted function's data pointer: 2^32

Moves    == {">", "<"}
Changes  == {"+", "-"}
Brackets == {"[", "]"}
Instructions == Moves \cup Changes \cup Brackets \cup {".", ","}

PositionsOf(p, cs) == {i \in 1..Len(p.code) : p.code[i] \in cs}

\* the bracket pairs nest: this determines match
WellNested(p) ==
  LET opens  == PositionsOf(p, {"["})
      closes == PositionsOf(p, {"]"})
  IN  /\ p.match \in [opens \cup closes -> opens \cup closes]
      /\ \A i \in opens : p.match[i] \in closes /\ i < p.match[i]
      /\ \A j \in closes : p.match[j] \in opens
      /\ \A i \in opens \cup closes : p.match[p.match[i]] = i
      /\ \A i, k \in opens : ~ (i < k /\ k < p.match[i] /\ p.match[i] < p.match[k])

ASSUME SizeAssumption ==
  {MemorySize, CellSize, SizeTSpace, Int32Space} \subseteq Nat \ {0}

ASSUME ProgramAssumption ==
  \A p \in Programs : /\ p.code \in Seq(Instructions)
                      /\ p.input \in Seq(0..(CellSize - 1))
                      /\ WellNested(p)

Addresses == 0..(MemorySize - 1)
Cells     == 0..(CellSize - 1)

EOF == -1
NextChar(unread) == IF unread = <<>> THEN EOF ELSE Head(unread)
AfterNext(unread) == IF unread = <<>> THEN <<>> ELSE Tail(unread)

Step(c) == IF c \in {">", "+"} THEN 1 ELSE -1
===============================================================================
