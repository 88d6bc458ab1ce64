----------------------------- MODULE BFJit_proofs -----------------------------
(***************************************************************************)
(* Theorems about the JIT compiler, for every well-nested program, every   *)
(* input and every size of memory, cell and pointer: the function it emits *)
(* is well formed and does what the program says.                          *)
(*                                                                         *)
(* A block holds the code of consecutive instructions: the entry block     *)
(* from the first one, a loop's body from behind its opening bracket, its  *)
(* exit from behind its closing one.  So a place in the emitted function   *)
(* is a place in the program, and a branch leads where the program goes.   *)
(***************************************************************************)
EXTENDS BFJit, SequenceTheorems, TLAPS

-------------------------------------------------------------------------------
(* What is used of a program: arithmetic of cells, and the pairing of       *)
(* brackets.                                                                *)

(* A remainder is below its modulus: cells and the data pointer keep their  *)
(* width (BFInterpreter.cpp:62-71).                                         *)
LEMMA ModRange ==
  ASSUME NEW n \in Int, NEW m \in Nat \ {0}
  PROVE  n % m \in 0..(m - 1)
  OBVIOUS

(* The brackets of a program and their partners are positions of its code,  *)
(* and partners point at each other.                                        *)
LEMMA ProgramFacts ==
  ASSUME NEW p \in Programs
  PROVE  /\ p.code \in Seq(Instructions)
         /\ Len(p.code) \in Nat
         /\ p.input \in Seq(Cells)
         /\ \A i \in PositionsOf(p, {"["}) :
              /\ p.match[i] \in PositionsOf(p, {"]"})
              /\ i < p.match[i]
              /\ p.match[p.match[i]] = i
         /\ \A j \in PositionsOf(p, {"]"}) :
              /\ p.match[j] \in PositionsOf(p, {"["})
              /\ p.match[j] < j
              /\ p.match[p.match[j]] = j
         /\ \A i, j \in PositionsOf(p, {"["}) :
              ~ (i < j /\ j < p.match[i] /\ p.match[i] < p.match[j])
<1>1. WellNested(p) /\ p.code \in Seq(Instructions) /\ p.input \in Seq(Cells)
  BY ProgramAssumption DEF Cells
<1>2. \A i \in PositionsOf(p, {"["}) \cup PositionsOf(p, {"]"}) : p.match[p.match[i]] = i
  BY <1>1 DEF WellNested
<1>3. \A i \in PositionsOf(p, {"["}) : p.match[i] \in PositionsOf(p, {"]"}) /\ i < p.match[i]
  BY <1>1 DEF WellNested
<1>4. \A j \in PositionsOf(p, {"]"}) : p.match[j] \in PositionsOf(p, {"["}) /\ p.match[j] < j
  BY <1>1, <1>2, <1>3 DEF WellNested
<1>5. \A i, j \in PositionsOf(p, {"["}) :
              ~ (i < j /\ j < p.match[i] /\ p.match[i] < p.match[j])
  BY <1>1 DEF WellNested
<1> QED BY <1>1, <1>2, <1>3, <1>4, <1>5

(* What std::cin.get() leaves in a cell and in the stream.                  *)
LEMMA InputFacts ==
  ASSUME NEW u \in Seq(Cells)
  PROVE  NextChar(u) % CellSize \in Cells /\ AfterNext(u) \in Seq(Cells)
<1>1. NextChar(u) \in Int
  BY SizeAssumption DEF NextChar, EOF, Cells
<1>2. AfterNext(u) \in Seq(Cells)
  BY DEF AfterNext
<1> QED BY <1>1, <1>2, ModRange, SizeAssumption DEF Cells

-------------------------------------------------------------------------------
(* Blocks and the parts of the program they stand for. *)

Opens(p)  == PositionsOf(p, {"["})
Closes(p) == PositionsOf(p, {"]"})

\* the loops around position n, and the loop that a bracket belongs to
OpenLoops(p, n) == {i \in Opens(p) : i < n /\ n <= p.match[i]}
Loop(p, j) == IF p.code[j] = "[" THEN j ELSE p.match[j]

\* the blocks there are when the instructions before n have been emitted
Opened(p, n) == {i \in Opens(p) : i < n}
Names(p, n)  == {Entry} \cup {Body(i) : i \in Opened(p, n)} \cup {Exit(i) : i \in Opened(p, n)}

\* the position of the first instruction of block b, and the one behind those of its B.ops
Start(p, b) ==
  IF b = Entry THEN 1 ELSE IF b = Body(b[2]) THEN b[2] + 1 ELSE p.match[b[2]] + 1
After(p, b, B) == Start(p, b) + Len(B.ops)

IsBlock(p, b, B) ==
  /\ B = [ops |-> B.ops, term |-> B.term]
  /\ B.ops \in Seq(1..Len(p.code))
  /\ \A n \in DOMAIN B.ops : B.ops[n] = Start(p, b) + n - 1 /\ p.code[B.ops[n]] \notin Brackets

\* a bracket before n follows the instructions of block b, which branches to its loop's blocks
Branches(p, b, B, n) ==
  \E j \in PositionsOf(p, Brackets) :
    j < n /\ After(p, b, B) = j /\ B.term = Branch(j, Exit(Loop(p, j)), Body(Loop(p, j)))

\* the exit of a loop that is not closed yet
Waits(p, b, B, n) == B = Empty /\ \E i \in OpenLoops(p, n) : b = Exit(i)

HasCode(B, i) == (\E n \in DOMAIN B.ops : B.ops[n] = i) \/ (B.term.kind = "br" /\ B.term.pc = i)

(* Blocks have different names, and begin where their kind says.            *)
LEMMA NameFacts ==
  /\ \A i, j : /\ Body(i) # Entry /\ Exit(i) # Entry /\ Body(i) # Exit(j)
               /\ Body(i) = Body(j) => i = j
               /\ Exit(i) = Exit(j) => i = j
  /\ \A p : Start(p, Entry) = 1
  /\ \A p, i : Start(p, Body(i)) = i + 1 /\ Start(p, Exit(i)) = p.match[i] + 1
<1>1. \A i, j : /\ Body(i) # Entry /\ Exit(i) # Entry /\ Body(i) # Exit(j)
                /\ Body(i) = Body(j) => i = j
                /\ Exit(i) = Exit(j) => i = j
  BY DEF Body, Exit, Entry
<1>2. \A i : Body(i)[2] = i /\ Exit(i)[2] = i
  BY DEF Body, Exit
<1> QED BY <1>1, <1>2 DEF Start

(* A block begins in the program or behind it; the entry at 1, every other  *)
(* behind a bracket of its own.                                             *)
LEMMA StartFacts ==
  ASSUME NEW p \in Programs, NEW n \in Int, NEW b \in Names(p, n)
  PROVE  /\ Start(p, b) \in 1..(Len(p.code) + 1)
         /\ b = Entry \/ (Start(p, b) - 1 \in PositionsOf(p, Brackets))
         /\ \A c \in Names(p, n) : Start(p, b) = Start(p, c) => b = c
<1> DEFINE L == Len(p.code)
<1>0. L \in Nat
  BY ProgramFacts
<1>1. \A i \in Opens(p) : i \in 1..L /\ p.match[i] \in 1..L /\ p.match[i] \in Closes(p)
                          /\ p.match[p.match[i]] = i
  BY ProgramFacts DEF Opens, Closes, PositionsOf
<1>2. Opens(p) \cap Closes(p) = {} /\ PositionsOf(p, Brackets) = Opens(p) \cup Closes(p)
  BY DEF Opens, Closes, PositionsOf, Brackets
<1>3. \A c \in Names(p, n) : \/ c = Entry /\ Start(p, c) = 1
                             \/ \E i \in Opens(p) : c = Body(i) /\ Start(p, c) = i + 1
                             \/ \E i \in Opens(p) : c = Exit(i) /\ Start(p, c) = p.match[i] + 1
  BY NameFacts DEF Names, Opened
<1>4. \A c \in Names(p, n) : c = Entry \/ (Start(p, c) - 1 \in PositionsOf(p, Brackets))
  BY <1>1, <1>2, <1>3
<1>5. \A c \in Names(p, n) : Start(p, c) \in 1..(L + 1)
  BY <1>0, <1>1, <1>3
<1>6. ASSUME NEW c \in Names(p, n), Start(p, b) = Start(p, c) PROVE b = c
  <2>1. CASE b = Entry
    <3>1. Start(p, c) = 1
      BY <1>6, <2>1, NameFacts
    <3>2. ~ \E i \in Opens(p) : Start(p, c) = i + 1 \/ Start(p, c) = p.match[i] + 1
      BY <1>1, <3>1
    <3> QED BY <1>3, <2>1, <3>2
  <2>2. ASSUME NEW i \in Opens(p), b = Body(i), Start(p, b) = i + 1 PROVE b = c
    <3>1. Start(p, c) # 1 /\ \A j \in Opens(p) : Start(p, c) # p.match[j] + 1
      BY <1>1, <1>2, <1>6, <2>2
    <3>2. \A j \in Opens(p) : Start(p, c) = j + 1 => j = i
      BY <1>1, <1>6, <2>2
    <3> QED BY <1>3, <2>2, <3>1, <3>2
  <2>3. ASSUME NEW i \in Opens(p), b = Exit(i), Start(p, b) = p.match[i] + 1 PROVE b = c
    <3>1. Start(p, c) # 1 /\ \A j \in Opens(p) : Start(p, c) # j + 1
      BY <1>1, <1>2, <1>6, <2>3
    <3>2. \A j \in Opens(p) : Start(p, c) = p.match[j] + 1 => j = i
      <4> SUFFICES ASSUME NEW j \in Opens(p), Start(p, c) = p.match[j] + 1 PROVE j = i
        OBVIOUS
      <4>1. p.match[j] = p.match[i]
        BY <1>1, <1>6, <2>3
      <4> QED BY <1>1, <4>1
    <3> QED BY <1>3, <2>3, <3>1, <3>2
  <2> QED BY <1>3, <2>1, <2>2, <2>3
<1> QED BY <1>4, <1>5, <1>6

(* What one more instruction does to the loops around and the blocks.       *)
LEMMA Advance ==
  ASSUME NEW p \in Programs, NEW n \in 1..Len(p.code)
  PROVE  /\ p.code[n] \notin Brackets =>
              OpenLoops(p, n + 1) = OpenLoops(p, n) /\ Names(p, n + 1) = Names(p, n)
         /\ p.code[n] = "[" =>
              /\ n \in Opens(p) /\ n \notin Opened(p, n)
              /\ OpenLoops(p, n + 1) = OpenLoops(p, n) \cup {n}
              /\ Names(p, n + 1) = Names(p, n) \cup {Body(n), Exit(n)}
         /\ p.code[n] = "]" =>
              /\ p.match[n] \in OpenLoops(p, n)
              /\ p.match[p.match[n]] = n
              /\ OpenLoops(p, n + 1) = OpenLoops(p, n) \ {p.match[n]}
              /\ Names(p, n + 1) = Names(p, n)
<1> DEFINE L == Len(p.code)
<1>0. L \in Nat
  BY ProgramFacts
<1>1. \A i \in Opens(p) : /\ i \in 1..L /\ p.match[i] \in 1..L /\ i < p.match[i]
                          /\ p.match[i] \in Closes(p) /\ p.match[p.match[i]] = i
  BY ProgramFacts DEF Opens, Closes, PositionsOf
<1>2. \A j \in Closes(p) : p.match[j] \in Opens(p) /\ p.match[j] < j /\ p.match[p.match[j]] = j
  BY ProgramFacts DEF Opens, Closes
<1>3. /\ n \in Opens(p) <=> p.code[n] = "["
      /\ n \in Closes(p) <=> p.code[n] = "]"
  BY DEF Opens, Closes, PositionsOf
<1>4. CASE p.code[n] \notin Brackets
  <2>1. n \notin Opens(p) /\ n \notin Closes(p)
    BY <1>3, <1>4 DEF Brackets
  <2>2. Opened(p, n + 1) = Opened(p, n)
    BY <1>0, <1>1, <2>1 DEF Opened
  <2>3. OpenLoops(p, n + 1) = OpenLoops(p, n)
    BY <1>0, <1>1, <2>1 DEF OpenLoops
  <2> QED BY <1>4, <2>2, <2>3 DEF Names, Brackets
<1>5. CASE p.code[n] = "["
  <2>1. n \in Opens(p) /\ n \notin Closes(p)
    BY <1>3, <1>5
  <2>2. Opened(p, n + 1) = Opened(p, n) \cup {n} /\ n \notin Opened(p, n)
    BY <1>0, <1>1, <2>1 DEF Opened
  <2>3. OpenLoops(p, n + 1) = OpenLoops(p, n) \cup {n}
    BY <1>0, <1>1, <2>1 DEF OpenLoops
  <2>4. Names(p, n + 1) = Names(p, n) \cup {Body(n), Exit(n)}
    BY <2>2 DEF Names
  <2> QED BY <1>5, <2>1, <2>2, <2>3, <2>4 DEF Brackets
<1>6. CASE p.code[n] = "]"
  <2>1. n \notin Opens(p) /\ n \in Closes(p)
    BY <1>3, <1>6
  <2>2. p.match[n] \in Opens(p) /\ p.match[n] < n /\ p.match[p.match[n]] = n
    BY <1>2, <2>1
  <2>3. p.match[n] \in OpenLoops(p, n)
    BY <2>2 DEF OpenLoops
  <2>4. Opened(p, n + 1) = Opened(p, n)
    BY <1>0, <1>1, <2>1 DEF Opened
  <2>5. \A i \in Opens(p) : p.match[i] = n => i = p.match[n]
    BY <1>1
  <2>6. OpenLoops(p, n + 1) = OpenLoops(p, n) \ {p.match[n]}
    BY <1>0, <1>1, <2>1, <2>2, <2>5 DEF OpenLoops
  <2> QED BY <1>6, <2>2, <2>3, <2>4, <2>6 DEF Names, Brackets
<1> QED BY <1>4, <1>5, <1>6

-------------------------------------------------------------------------------
(* The inductive invariant. *)

BlocksInv ==
  /\ DOMAIN blocks = Names(prog, pc)
  /\ \A b \in DOMAIN blocks : IsBlock(prog, b, blocks[b])
  /\ \A b \in DOMAIN blocks \ {insertPoint} :
       Branches(prog, b, blocks[b], pc) \/ Waits(prog, b, blocks[b], pc)
  /\ \A i \in 1..(pc - 1) : \E b \in DOMAIN blocks : HasCode(blocks[b], i)

InsertInv ==
  /\ insertPoint \in DOMAIN blocks
  /\ After(prog, insertPoint, blocks[insertPoint]) = pc
  /\ blocks[insertPoint].term = IF phase = "emitting" THEN NoTerm ELSE Return

\* the stack holds the blocks of the loops around pc, the innermost last
StackInv ==
  /\ open_bracket_stack \in Seq({<<Body(i), Exit(i)>> : i \in OpenLoops(prog, pc)})
  /\ \A s, t \in DOMAIN open_bracket_stack :
       s < t => open_bracket_stack[s][1][2] < open_bracket_stack[t][1][2]
  /\ \A i \in OpenLoops(prog, pc) :
       \E s \in DOMAIN open_bracket_stack : open_bracket_stack[s] = <<Body(i), Exit(i)>>

\* nothing runs before all is emitted, and then inside a block or at its terminator
PlaceInv ==
  /\ phase \in {"emitting", "running", "undefined"}
  /\ phase = "emitting" => block = Entry /\ k = 1
  /\ phase # "emitting" => pc = Len(prog.code) + 1
  /\ block \in DOMAIN blocks
  /\ k \in 1..(Len(Here.ops) + 1)

DataInv ==
  /\ dataptr \in 0..(Int32Space - 1)
  /\ memory \in [Addresses -> Cells]
  /\ unread \in Seq(Cells)
  /\ output \in Seq(Cells)

Inv ==
  /\ prog \in Programs
  /\ pc \in 1..(Len(prog.code) + 1)
  /\ BlocksInv /\ InsertInv /\ StackInv /\ PlaceInv /\ DataInv

(* At the start there is the entry block, without code.                     *)
LEMMA InvInit == Init => Inv
<1> SUFFICES ASSUME Init PROVE Inv
  OBVIOUS
<1>1. prog \in Programs /\ Len(prog.code) \in Nat /\ prog.input \in Seq(Cells)
  BY ProgramFacts DEF Init
<1>2. Opened(prog, 1) = {} /\ OpenLoops(prog, 1) = {}
  BY <1>1 DEF Opened, OpenLoops, Opens, PositionsOf
<1>3. Names(prog, pc) = {Entry}
  BY <1>2 DEF Names, Init
<1>4. DOMAIN blocks = {Entry} /\ blocks[Entry] = Empty
  BY DEF Init
<1>5. IsBlock(prog, Entry, Empty) /\ After(prog, Entry, Empty) = 1
  BY <1>1, NameFacts DEF IsBlock, After, Empty
<1>6. BlocksInv
  BY <1>3, <1>4, <1>5 DEF BlocksInv, Init
<1>7. InsertInv
  BY <1>4, <1>5 DEF InsertInv, Init, Empty
<1>8. StackInv
  BY <1>2 DEF StackInv, Init
<1>9. PlaceInv
  BY <1>4 DEF PlaceInv, Here, Init, Empty
<1>10. DataInv
  BY <1>1, SizeAssumption DEF DataInv, Init, Cells
<1> QED BY <1>1, <1>6, <1>7, <1>8, <1>9, <1>10 DEF Inv, Init

-------------------------------------------------------------------------------
(* Emitting an instruction. *)

(* What holds wherever an instruction is emitted.                           *)
LEMMA EmitFacts ==
  ASSUME Inv, NEW cs, Emitting(cs)
  PROVE  /\ prog \in Programs /\ Len(prog.code) \in Nat
         /\ pc \in 1..Len(prog.code) /\ prog.code[pc] \in cs
         /\ prog' = prog /\ pc' = pc + 1 /\ phase = "emitting" /\ phase' = phase
         /\ insertPoint \in DOMAIN blocks /\ insertPoint \in Names(prog, pc)
         /\ IsBlock(prog, insertPoint, blocks[insertPoint])
         /\ blocks[insertPoint].ops \in Seq(1..Len(prog.code))
         /\ blocks[insertPoint] = [ops |-> blocks[insertPoint].ops, term |-> NoTerm]
         /\ After(prog, insertPoint, blocks[insertPoint]) = pc
         /\ Start(prog, insertPoint) \in 1..pc
<1>1. prog \in Programs /\ Len(prog.code) \in Nat
  BY ProgramFacts DEF Inv
<1>2. /\ pc \in 1..Len(prog.code) /\ prog.code[pc] \in cs
      /\ prog' = prog /\ pc' = pc + 1 /\ phase = "emitting" /\ phase' = phase
  BY DEF Emitting, PositionsOf
<1>3. /\ insertPoint \in DOMAIN blocks /\ insertPoint \in Names(prog, pc)
      /\ IsBlock(prog, insertPoint, blocks[insertPoint])
      /\ After(prog, insertPoint, blocks[insertPoint]) = pc
      /\ blocks[insertPoint].term = NoTerm
  BY <1>2 DEF Inv, BlocksInv, InsertInv
<1>4. /\ blocks[insertPoint].ops \in Seq(1..Len(prog.code))
      /\ blocks[insertPoint] = [ops |-> blocks[insertPoint].ops, term |-> NoTerm]
  BY <1>3 DEF IsBlock
<1>5. Start(prog, insertPoint) \in 1..(Len(prog.code) + 1)
  BY <1>1, <1>2, <1>3, StartFacts
<1>6. Start(prog, insertPoint) <= pc
  BY <1>1, <1>2, <1>3, <1>4, <1>5 DEF After
<1> QED BY <1>1, <1>2, <1>3, <1>4, <1>5, <1>6

(* Blocks that are neither written to nor next to be written to stay as     *)
(* they are described: a loop closed by n has the next insertion point as   *)
(* its exit.                                                                *)
LEMMA OtherBlocks ==
  ASSUME NEW p \in Programs, NEW n \in 1..Len(p.code), NEW b, NEW B,
         Branches(p, b, B, n) \/ Waits(p, b, B, n),
         p.code[n] = "]" => b # Exit(p.match[n])
  PROVE  Branches(p, b, B, n + 1) \/ Waits(p, b, B, n + 1)
<1>0. Len(p.code) \in Nat /\ n \in Int
  BY ProgramFacts
<1>1. CASE Branches(p, b, B, n)
  <2>1. \A j \in PositionsOf(p, Brackets) : j < n => j < n + 1
    BY <1>0 DEF PositionsOf
  <2> QED BY <1>1, <2>1 DEF Branches
<1>2. ASSUME NEW i \in OpenLoops(p, n), b = Exit(i), B = Empty PROVE Waits(p, b, B, n + 1)
  <2>1. i \in OpenLoops(p, n + 1)
    <3>1. CASE p.code[n] \notin Brackets
      BY <3>1, Advance
    <3>2. CASE p.code[n] = "["
      BY <3>2, Advance
    <3>3. CASE p.code[n] = "]"
      BY <1>2, <3>3, Advance
    <3> QED BY <3>1, <3>2, <3>3 DEF Brackets
  <2> QED BY <1>2, <2>1 DEF Waits
<1> QED BY <1>1, <1>2 DEF Waits

(* The state of the running function is untouched while code is emitted.    *)
LEMMA EmitKeepsData ==
  ASSUME Inv, NEW cs, Emitting(cs),
         Entry \in DOMAIN blocks', Len(blocks'[Entry].ops) \in Nat
  PROVE  PlaceInv' /\ DataInv'
<1>1. /\ phase = "emitting" /\ phase' = phase /\ prog' = prog /\ block' = block /\ k' = k
      /\ dataptr' = dataptr /\ memory' = memory /\ unread' = unread /\ output' = output
  BY DEF Emitting, runVars
<1>2. block = Entry /\ k = 1
  BY <1>1 DEF Inv, PlaceInv
<1>3. PlaceInv'
  BY <1>1, <1>2 DEF PlaceInv, Here
<1> QED BY <1>1, <1>3 DEF Inv, DataInv

(* The code of a plain instruction goes behind that of its predecessors.    *)
LEMMA EmitPlainStep ==
  ASSUME Inv, EmitPlain
  PROVE  BlocksInv' /\ InsertInv' /\ StackInv' /\ PlaceInv' /\ DataInv'
<1> DEFINE p == prog
           n == pc
           b0 == insertPoint
           B0 == [ops |-> Append(blocks[b0].ops, n), term |-> NoTerm]
<1>1. /\ p \in Programs /\ Len(p.code) \in Nat
      /\ n \in 1..Len(p.code) /\ p.code[n] \in Instructions \ Brackets
      /\ prog' = p /\ pc' = n + 1 /\ phase = "emitting" /\ phase' = phase
      /\ b0 \in DOMAIN blocks /\ b0 \in Names(p, n)
      /\ IsBlock(p, b0, blocks[b0])
      /\ blocks[b0].ops \in Seq(1..Len(p.code))
      /\ blocks[b0] = [ops |-> blocks[b0].ops, term |-> NoTerm]
      /\ After(p, b0, blocks[b0]) = n
      /\ Start(p, b0) \in 1..n
  BY EmitFacts DEF EmitPlain
<1>2. Emitting(Instructions \ Brackets) /\ insertPoint' = b0 /\ open_bracket_stack' = open_bracket_stack
  BY DEF EmitPlain
<1>3. [blocks[b0] EXCEPT !.ops = Append(@, n)] = B0
  <2> DEFINE o == blocks[b0].ops
             B == blocks[b0]
             a == Append(o, n)
  <2>1. B = [ops |-> o, term |-> NoTerm]
    BY <1>1
  <2> HIDE DEF B, o, a
  <2>2. [B EXCEPT !.ops = a] = [ops |-> a, term |-> NoTerm]
    BY <2>1
  <2> USE DEF B, o, a
  <2> QED BY <2>2
<1>4. blocks' = [blocks EXCEPT ![b0] = B0]
  BY <1>3 DEF EmitPlain
<1>5. /\ DOMAIN blocks' = DOMAIN blocks /\ blocks'[b0] = B0
      /\ \A b \in DOMAIN blocks \ {b0} : blocks'[b] = blocks[b]
  BY <1>1, <1>4
<1>6. OpenLoops(p, n + 1) = OpenLoops(p, n) /\ Names(p, n + 1) = Names(p, n)
  BY <1>1, Advance
<1>7. IsBlock(p, b0, B0) /\ After(p, b0, B0) = n + 1
  <2>1. Start(p, b0) + Len(blocks[b0].ops) = n /\ Len(blocks[b0].ops) \in Nat
    BY <1>1 DEF After
  <2>2. /\ B0.ops \in Seq(1..Len(p.code)) /\ Len(B0.ops) = Len(blocks[b0].ops) + 1
        /\ DOMAIN B0.ops = 1..(Len(blocks[b0].ops) + 1)
        /\ B0.ops[Len(blocks[b0].ops) + 1] = n
        /\ \A m \in DOMAIN blocks[b0].ops : B0.ops[m] = blocks[b0].ops[m]
    BY <1>1
  <2>3. DOMAIN blocks[b0].ops = 1..Len(blocks[b0].ops)
    BY <1>1
  <2>4. \A m \in DOMAIN B0.ops : B0.ops[m] = Start(p, b0) + m - 1 /\ p.code[B0.ops[m]] \notin Brackets
    <3> SUFFICES ASSUME NEW m \in DOMAIN B0.ops
                 PROVE  B0.ops[m] = Start(p, b0) + m - 1 /\ p.code[B0.ops[m]] \notin Brackets
      OBVIOUS
    <3> HIDE DEF B0
    <3>1. CASE m = Len(blocks[b0].ops) + 1
      BY <1>1, <2>1, <2>2, <3>1
    <3>2. CASE m # Len(blocks[b0].ops) + 1
      <4>1. m \in DOMAIN blocks[b0].ops
        BY <2>1, <2>2, <2>3, <3>2
      <4>2. B0.ops[m] = blocks[b0].ops[m]
        BY <2>2, <4>1
      <4> QED BY <1>1, <4>1, <4>2 DEF IsBlock
    <3> QED BY <3>1, <3>2
  <2>5. After(p, b0, B0) = n + 1
    <3> HIDE DEF B0
    <3>1. Start(p, b0) + Len(B0.ops) = n + 1
      <4>1. \A x, y \in Int : x + y = n => x + (y + 1) = n + 1
        BY <1>1
      <4>2. Start(p, b0) \in Int
        BY <1>1
      <4> QED BY <2>1, <2>2, <4>1, <4>2
    <3> QED BY <3>1 DEF After
  <2> QED BY <2>2, <2>4, <2>5 DEF IsBlock
<1>8. BlocksInv'
  <2>1. \A b \in DOMAIN blocks' : IsBlock(p, b, blocks'[b])
    BY <1>5, <1>7 DEF Inv, BlocksInv
  <2>2. \A b \in DOMAIN blocks' \ {b0} : Branches(p, b, blocks'[b], n + 1) \/ Waits(p, b, blocks'[b], n + 1)
    <3>1. p.code[n] # "]"
      BY <1>1 DEF Brackets
    <3>2. \A b \in DOMAIN blocks \ {b0} : Branches(p, b, blocks[b], n) \/ Waits(p, b, blocks[b], n)
      BY DEF Inv, BlocksInv
    <3> QED BY <1>1, <1>5, <3>1, <3>2, OtherBlocks
  <2>3. \A i \in 1..n : \E b \in DOMAIN blocks' : HasCode(blocks'[b], i)
    <3> SUFFICES ASSUME NEW i \in 1..n PROVE \E b \in DOMAIN blocks' : HasCode(blocks'[b], i)
      OBVIOUS
    <3>1. CASE i = n
      <4>1. Len(B0.ops) \in DOMAIN B0.ops /\ B0.ops[Len(B0.ops)] = n
        BY <1>1
      <4> QED BY <1>1, <1>5, <3>1, <4>1 DEF HasCode
    <3>2. CASE i # n
      <4>1. PICK b \in DOMAIN blocks : HasCode(blocks[b], i)
        BY <1>1, <3>2 DEF Inv, BlocksInv
      <4>2. CASE b = b0
        <5>1. PICK m \in DOMAIN blocks[b0].ops : blocks[b0].ops[m] = i
          BY <1>1, <4>1, <4>2 DEF HasCode, NoTerm
        <5>2. m \in DOMAIN B0.ops /\ B0.ops[m] = i
          BY <1>1, <5>1
        <5> QED BY <1>1, <1>5, <5>2 DEF HasCode
      <4>3. CASE b # b0
        BY <1>5, <4>1, <4>3
      <4> QED BY <4>2, <4>3
    <3> QED BY <3>1, <3>2
  <2>4. DOMAIN blocks' = Names(p, n + 1)
    BY <1>5, <1>6 DEF Inv, BlocksInv
  <2>5. pc' - 1 = n
    BY <1>1
  <2> HIDE DEF p, n, b0
  <2> QED BY <1>1, <1>2, <2>1, <2>2, <2>3, <2>4, <2>5 DEF BlocksInv
<1>9. InsertInv'
  BY <1>1, <1>2, <1>5, <1>7 DEF InsertInv
<1>10. StackInv'
  BY <1>1, <1>2, <1>6 DEF StackInv, Inv
<1>11. PlaceInv' /\ DataInv'
  <2>1. Entry \in DOMAIN blocks'
    BY <1>5 DEF Inv, BlocksInv, Names
  <2>2. blocks'[Entry].ops \in Seq(1..Len(p.code))
    BY <1>5, <1>7, <2>1 DEF IsBlock, Inv, BlocksInv
  <2>3. Len(blocks'[Entry].ops) \in Nat
    BY <2>2
  <2> QED BY <1>2, <2>1, <2>3, EmitKeepsData
<1> QED BY <1>8, <1>9, <1>10, <1>11

(* The block that is ended by a bracket at n becomes one that branches to   *)
(* the blocks of the bracket's loop.                                        *)
LEMMA EndBlock ==
  ASSUME Inv, Emitting(Brackets),
         NEW t, t = Branch(pc, Exit(Loop(prog, pc)), Body(Loop(prog, pc))),
         NEW B, B = [ops |-> blocks[insertPoint].ops, term |-> t]
  PROVE  /\ [blocks[insertPoint] EXCEPT !.term = t] = B
         /\ IsBlock(prog, insertPoint, B)
         /\ Branches(prog, insertPoint, B, pc + 1)
         /\ HasCode(B, pc)
         /\ \A i : HasCode(blocks[insertPoint], i) => HasCode(B, i)
<1> DEFINE o == blocks[insertPoint].ops
           A == blocks[insertPoint]
<1>1. /\ prog \in Programs /\ Len(prog.code) \in Nat
      /\ pc \in 1..Len(prog.code) /\ prog.code[pc] \in Brackets
      /\ IsBlock(prog, insertPoint, A)
      /\ A = [ops |-> o, term |-> NoTerm]
      /\ After(prog, insertPoint, A) = pc
  BY EmitFacts
<1>2. B = [ops |-> o, term |-> t]
  OBVIOUS
<1>3. B.ops = o /\ B.term = t /\ B = [ops |-> B.ops, term |-> B.term]
  BY <1>2
<1>4. A.term = NoTerm
  BY <1>1
<1> HIDE DEF o
<1>5. IsBlock(prog, insertPoint, B) /\ After(prog, insertPoint, B) = pc
  BY <1>1, <1>3 DEF IsBlock, After, o
<1> HIDE DEF A
<1>6. [A EXCEPT !.term = t] = B
  BY <1>1, <1>2
<1>7. pc \in PositionsOf(prog, Brackets) /\ pc < pc + 1
  BY <1>1 DEF PositionsOf
<1>8. Branches(prog, insertPoint, B, pc + 1)
  BY <1>3, <1>5, <1>7 DEF Branches
<1>9. HasCode(B, pc)
  BY <1>3 DEF HasCode, Branch
<1>10. \A i : HasCode(A, i) => HasCode(B, i)
  <2>1. A.ops = B.ops /\ A.term.kind # "br"
    BY <1>3, <1>4 DEF A, o, NoTerm
  <2> QED BY <2>1 DEF HasCode
<1> QED BY <1>5, <1>6, <1>8, <1>9, <1>10 DEF A

(* An opening bracket ends the block and makes two, of which the body comes *)
(* next.                                                                    *)
LEMMA EmitOpenStep ==
  ASSUME Inv, EmitOpen
  PROVE  BlocksInv' /\ InsertInv' /\ StackInv' /\ PlaceInv' /\ DataInv'
<1> DEFINE p == prog
           n == pc
           b0 == insertPoint
           t == Branch(n, Exit(n), Body(n))
           B0 == [ops |-> blocks[b0].ops, term |-> t]
<1>1. /\ p \in Programs /\ Len(p.code) \in Nat
      /\ n \in 1..Len(p.code) /\ p.code[n] = "["
      /\ prog' = p /\ pc' = n + 1 /\ phase = "emitting" /\ phase' = phase
      /\ b0 \in DOMAIN blocks /\ b0 \in Names(p, n)
  BY EmitFacts DEF EmitOpen
<1>2. /\ Emitting({"["}) /\ Emitting(Brackets) /\ insertPoint' = Body(n)
      /\ open_bracket_stack' = Append(open_bracket_stack, <<Body(n), Exit(n)>>)
  BY DEF EmitOpen, Emitting, PositionsOf, Brackets
<1>3. Loop(p, n) = n
  BY <1>1 DEF Loop
<1>4. /\ [blocks[b0] EXCEPT !.term = t] = B0
      /\ IsBlock(p, b0, B0) /\ Branches(p, b0, B0, n + 1) /\ HasCode(B0, n)
      /\ \A i : HasCode(blocks[b0], i) => HasCode(B0, i)
  BY <1>2, <1>3, EndBlock
<1>5. /\ n \in Opens(p) /\ n \notin Opened(p, n) /\ DOMAIN blocks = Names(p, n)
      /\ OpenLoops(p, n + 1) = OpenLoops(p, n) \cup {n}
      /\ Names(p, n + 1) = Names(p, n) \cup {Body(n), Exit(n)}
  BY <1>1, Advance DEF Inv, BlocksInv
<1>6. Body(n) \notin DOMAIN blocks /\ Exit(n) \notin DOMAIN blocks
  BY <1>5, NameFacts DEF Names
<1>7. /\ DOMAIN blocks' = DOMAIN blocks \cup {Body(n), Exit(n)}
      /\ blocks'[b0] = B0 /\ blocks'[Body(n)] = Empty /\ blocks'[Exit(n)] = Empty
      /\ \A b \in DOMAIN blocks \ {b0} : blocks'[b] = blocks[b]
  <2> DEFINE T == [blocks[b0] EXCEPT !.term = t]
  <2>1. blocks' = [b \in DOMAIN blocks \cup {Body(n), Exit(n)} |->
                     IF b = b0 THEN [blocks[b] EXCEPT !.term = t]
                     ELSE IF b \in DOMAIN blocks THEN blocks[b] ELSE Empty]
    BY DEF EmitOpen
  <2>2. b0 \in DOMAIN blocks /\ b0 # Body(n) /\ b0 # Exit(n)
    BY <1>1, <1>6
  <2>3. DOMAIN blocks' = DOMAIN blocks \cup {Body(n), Exit(n)}
    BY <2>1
  <2>4. blocks'[b0] = T
    BY <2>1, <2>2
  <2>5. blocks'[Body(n)] = Empty /\ blocks'[Exit(n)] = Empty
    BY <2>1, <2>2, <1>6
  <2>6. \A b \in DOMAIN blocks \ {b0} : blocks'[b] = blocks[b]
    BY <2>1
  <2> QED BY <1>4, <2>3, <2>4, <2>5, <2>6
<1>8. \A b : IsBlock(p, b, Empty)
  BY <1>1 DEF IsBlock, Empty
<1>9. BlocksInv'
  <2>1. \A b \in DOMAIN blocks' : IsBlock(p, b, blocks'[b])
    BY <1>4, <1>7, <1>8 DEF Inv, BlocksInv
  <2>2. \A b \in DOMAIN blocks' \ {Body(n)} : Branches(p, b, blocks'[b], n + 1) \/ Waits(p, b, blocks'[b], n + 1)
    <3> SUFFICES ASSUME NEW b \in DOMAIN blocks' \ {Body(n)}
                 PROVE  Branches(p, b, blocks'[b], n + 1) \/ Waits(p, b, blocks'[b], n + 1)
      OBVIOUS
    <3>1. CASE b = b0
      BY <1>4, <1>7, <3>1
    <3>2. CASE b = Exit(n)
      BY <1>5, <1>7, <3>2 DEF Waits
    <3>3. CASE b \in DOMAIN blocks \ {b0}
      <4>1. Branches(p, b, blocks[b], n) \/ Waits(p, b, blocks[b], n)
        BY <3>3 DEF Inv, BlocksInv
      <4>2. p.code[n] # "]"
        BY <1>1
      <4>3. Branches(p, b, blocks[b], n + 1) \/ Waits(p, b, blocks[b], n + 1)
        BY <1>1, <4>1, <4>2, OtherBlocks
      <4> QED BY <1>7, <3>3, <4>3
    <3> QED BY <1>7, <3>1, <3>2, <3>3
  <2>3. \A i \in 1..n : \E b \in DOMAIN blocks' : HasCode(blocks'[b], i)
    <3> SUFFICES ASSUME NEW i \in 1..n PROVE \E b \in DOMAIN blocks' : HasCode(blocks'[b], i)
      OBVIOUS
    <3>1. CASE i = n
      BY <1>1, <1>4, <1>7, <3>1
    <3>2. CASE i # n
      <4>1. PICK b \in DOMAIN blocks : HasCode(blocks[b], i)
        BY <1>1, <3>2 DEF Inv, BlocksInv
      <4>2. HasCode(blocks'[b], i)
        BY <1>4, <1>7, <4>1
      <4> QED BY <1>7, <4>2
    <3> QED BY <3>1, <3>2
  <2>4. DOMAIN blocks' = Names(p, n + 1)
    BY <1>5, <1>7
  <2>5. pc' - 1 = n
    BY <1>1
  <2> HIDE DEF p, n, b0
  <2> QED BY <1>1, <1>2, <2>1, <2>2, <2>3, <2>4, <2>5 DEF BlocksInv
<1>10. InsertInv'
  <2>1. After(p, Body(n), Empty) = n + 1
    BY <1>1, NameFacts DEF After, Empty
  <2> QED BY <1>1, <1>2, <1>7, <2>1 DEF InsertInv, Empty
<1>11. StackInv'
  <2> DEFINE S == open_bracket_stack
             e == <<Body(n), Exit(n)>>
             P(m) == {<<Body(i), Exit(i)>> : i \in OpenLoops(p, m)}
  <2>1. S \in Seq(P(n)) /\ P(n + 1) = P(n) \cup {e}
    BY <1>5 DEF Inv, StackInv
  <2>2. S' \in Seq(P(n + 1))
    <3> HIDE DEF P, e
    <3>1. S \in Seq(P(n + 1)) /\ e \in P(n + 1)
      BY <2>1
    <3>2. Append(S, e) \in Seq(P(n + 1))
      BY <3>1
    <3> USE DEF e
    <3> QED BY <1>2, <3>2
  <2>3. /\ Len(S) \in Nat /\ DOMAIN S = 1..Len(S) /\ DOMAIN S' = 1..(Len(S) + 1)
        /\ S'[Len(S) + 1] = e /\ \A s \in DOMAIN S : S'[s] = S[s]
    <3> HIDE DEF P, e
    <3>1. S' = Append(S, e)
      BY <1>2 DEF e
    <3> QED BY <2>1, <3>1
  <2>4. \A s \in DOMAIN S : S[s][1][2] \in OpenLoops(p, n)
    <3> SUFFICES ASSUME NEW s \in DOMAIN S PROVE S[s][1][2] \in OpenLoops(p, n)
      OBVIOUS
    <3>1. S[s] \in P(n)
      BY <2>1, ElementOfSeq
    <3>2. PICK i \in OpenLoops(p, n) : S[s] = <<Body(i), Exit(i)>>
      BY <3>1
    <3>3. S[s][1] = Body(i)
      BY <3>2
    <3> QED BY <3>3 DEF Body
  <2>5. \A i \in OpenLoops(p, n) : i \in Int /\ i < n
    BY DEF OpenLoops, Opens, PositionsOf
  <2>6. e[1][2] = n
    BY DEF Body
  <2>7. \A s, u \in DOMAIN S' : s < u => S'[s][1][2] < S'[u][1][2]
    <3> SUFFICES ASSUME NEW s \in DOMAIN S', NEW u \in DOMAIN S', s < u
                 PROVE  S'[s][1][2] < S'[u][1][2]
      OBVIOUS
    <3>1. s \in DOMAIN S
      BY <2>3
    <3>2. CASE u = Len(S) + 1
      BY <2>3, <2>4, <2>5, <2>6, <3>1, <3>2
    <3>3. CASE u # Len(S) + 1
      <4>1. u \in DOMAIN S
        BY <2>3, <3>3
      <4> QED BY <2>3, <3>1, <4>1 DEF Inv, StackInv
    <3> QED BY <3>2, <3>3
  <2>8. \A i \in OpenLoops(p, n + 1) : \E s \in DOMAIN S' : S'[s] = <<Body(i), Exit(i)>>
    <3> SUFFICES ASSUME NEW i \in OpenLoops(p, n + 1)
                 PROVE  \E s \in DOMAIN S' : S'[s] = <<Body(i), Exit(i)>>
      OBVIOUS
    <3>1. CASE i = n
      BY <2>3, <3>1
    <3>2. CASE i \in OpenLoops(p, n)
      <4>1. PICK s \in DOMAIN S : S[s] = <<Body(i), Exit(i)>>
        BY <3>2 DEF Inv, StackInv
      <4> QED BY <2>3, <4>1
    <3> QED BY <1>5, <3>1, <3>2
  <2> HIDE DEF p, n
  <2> QED BY <1>1, <2>2, <2>7, <2>8 DEF StackInv
<1>12. PlaceInv' /\ DataInv'
  <2>1. Entry \in DOMAIN blocks'
    BY <1>5, <1>7 DEF Names
  <2>2. IsBlock(p, Entry, blocks'[Entry])
    BY <1>4, <1>7, <1>8, <2>1 DEF Inv, BlocksInv
  <2>3. Len(blocks'[Entry].ops) \in Nat
    BY <2>2 DEF IsBlock
  <2> QED BY <1>2, <2>1, <2>3, EmitKeepsData
<1> QED BY <1>9, <1>10, <1>11, <1>12

(* The top of the stack is the loop that a closing bracket ends, because    *)
(* pairs do not cross.                                                      *)
LEMMA TopIsLoop ==
  ASSUME Inv, Emitting({"]"})
  PROVE  /\ Len(open_bracket_stack) \in Nat \ {0}
         /\ Top = <<Body(prog.match[pc]), Exit(prog.match[pc])>>
         /\ \A s \in 1..(Len(open_bracket_stack) - 1) :
              \E i \in OpenLoops(prog, pc) \ {prog.match[pc]} :
                open_bracket_stack[s] = <<Body(i), Exit(i)>>
<1> DEFINE p == prog
           n == pc
           m == p.match[n]
           S == open_bracket_stack
<1>1. p \in Programs /\ Len(p.code) \in Nat /\ n \in 1..Len(p.code) /\ p.code[n] = "]"
  BY EmitFacts
<1>2. m \in OpenLoops(p, n) /\ p.match[m] = n
  BY <1>1, Advance
<1>3. \A s \in DOMAIN S : \E i \in OpenLoops(p, n) : S[s] = <<Body(i), Exit(i)>> /\ S[s][1][2] = i
  <2> SUFFICES ASSUME NEW s \in DOMAIN S
               PROVE  \E i \in OpenLoops(p, n) : S[s] = <<Body(i), Exit(i)>> /\ S[s][1][2] = i
    OBVIOUS
  <2>1. S[s] \in {<<Body(i), Exit(i)>> : i \in OpenLoops(p, n)}
    BY ElementOfSeq DEF Inv, StackInv
  <2>2. PICK i \in OpenLoops(p, n) : S[s] = <<Body(i), Exit(i)>>
    BY <2>1
  <2>3. S[s][1] = Body(i)
    BY <2>2
  <2> QED BY <2>2, <2>3 DEF Body
<1>4. Len(S) \in Nat /\ DOMAIN S = 1..Len(S)
  BY DEF Inv, StackInv
<1>5. \A i \in OpenLoops(p, n) : /\ i \in Int /\ p.match[i] \in Int /\ i \in Opens(p)
                                 /\ i < n /\ n <= p.match[i]
  BY <1>1, ProgramFacts DEF OpenLoops, Opens, PositionsOf
<1>6. \A s, t \in DOMAIN S : s < t => S[s][1][2] < S[t][1][2]
  BY DEF Inv, StackInv
<1>7. PICK s \in DOMAIN S : S[s] = <<Body(m), Exit(m)>>
  BY <1>2 DEF Inv, StackInv
<1>8. S[s][1][2] = m
  <2>1. PICK i \in OpenLoops(p, n) : S[s] = <<Body(i), Exit(i)>> /\ S[s][1][2] = i
    BY <1>3
  <2>2. Body(i) = Body(m)
    BY <1>7, <2>1
  <2> QED BY <2>1, <2>2, NameFacts
<1>9. Len(S) \in DOMAIN S /\ s <= Len(S)
  BY <1>4
<1>10. PICK i \in OpenLoops(p, n) : S[Len(S)] = <<Body(i), Exit(i)>> /\ S[Len(S)][1][2] = i
  BY <1>3, <1>9
<1>11. i = m
  <2>1. CASE s = Len(S)
    BY <1>8, <1>10, <2>1
  <2>2. CASE s # Len(S)
    <3>1. m < i
      BY <1>4, <1>6, <1>8, <1>9, <1>10, <2>2
    <3>2. p.match[i] # n
      <4>1. p.match[p.match[i]] = i
        BY <1>1, <1>5, <1>10, ProgramFacts DEF Opens
      <4> QED BY <3>1, <4>1, <1>2, <1>5, <1>10
    <3>3. n < p.match[i]
      BY <1>1, <1>5, <1>10, <3>2
    <3>4. i < p.match[m] /\ p.match[m] < p.match[i]
      BY <1>2, <1>5, <1>10, <3>3
    <3>5. i \in PositionsOf(p, {"["}) /\ m \in PositionsOf(p, {"["})
      BY <1>2, <1>5, <1>10 DEF Opens
    <3> QED BY <1>1, <3>1, <3>4, <3>5, ProgramFacts
  <2> QED BY <2>1, <2>2
<1>12. \A t \in 1..(Len(S) - 1) : \E j \in OpenLoops(p, n) \ {m} : S[t] = <<Body(j), Exit(j)>>
  <2> SUFFICES ASSUME NEW t \in 1..(Len(S) - 1)
               PROVE  \E j \in OpenLoops(p, n) \ {m} : S[t] = <<Body(j), Exit(j)>>
    OBVIOUS
  <2>1. t \in DOMAIN S /\ t < Len(S)
    BY <1>4
  <2>2. PICK j \in OpenLoops(p, n) : S[t] = <<Body(j), Exit(j)>> /\ S[t][1][2] = j
    BY <1>3, <2>1
  <2>3. j < m
    BY <1>6, <1>9, <1>10, <1>11, <2>1, <2>2
  <2>4. j # m
    BY <1>2, <1>5, <2>3
  <2> QED BY <2>2, <2>4
<1> QED BY <1>4, <1>9, <1>10, <1>11, <1>12 DEF Top

(* A closing bracket ends the block with a branch to the blocks of its      *)
(* loop, of which the exit comes next, still empty.                         *)
LEMMA EmitCloseStep ==
  ASSUME Inv, EmitClose
  PROVE  BlocksInv' /\ InsertInv' /\ StackInv' /\ PlaceInv' /\ DataInv'
<1> DEFINE p == prog
           n == pc
           b0 == insertPoint
           m == p.match[n]
           t == Branch(n, Exit(m), Body(m))
           B0 == [ops |-> blocks[b0].ops, term |-> t]
           S == open_bracket_stack
<1>1. /\ p \in Programs /\ Len(p.code) \in Nat
      /\ n \in 1..Len(p.code) /\ p.code[n] = "]"
      /\ prog' = p /\ pc' = n + 1 /\ phase = "emitting" /\ phase' = phase
      /\ b0 \in DOMAIN blocks /\ b0 \in Names(p, n)
      /\ Start(p, b0) \in 1..n
  BY EmitFacts DEF EmitClose
<1>2. Emitting({"]"}) /\ Emitting(Brackets)
  BY DEF EmitClose, Emitting, PositionsOf, Brackets
<1>3. Loop(p, n) = m
  BY <1>1 DEF Loop
<1>4. /\ [blocks[b0] EXCEPT !.term = t] = B0
      /\ IsBlock(p, b0, B0) /\ Branches(p, b0, B0, n + 1) /\ HasCode(B0, n)
      /\ \A i : HasCode(blocks[b0], i) => HasCode(B0, i)
  BY <1>2, <1>3, EndBlock
<1>5. /\ m \in OpenLoops(p, n) /\ p.match[m] = n /\ DOMAIN blocks = Names(p, n)
      /\ OpenLoops(p, n + 1) = OpenLoops(p, n) \ {m}
      /\ Names(p, n + 1) = Names(p, n)
  BY <1>1, Advance DEF Inv, BlocksInv
<1>6. Top[1] = Body(m) /\ Top[2] = Exit(m)
  <2>1. Top = <<Body(m), Exit(m)>>
    BY <1>2, TopIsLoop
  <2> QED BY <2>1
<1>7. insertPoint' = Exit(m) /\ open_bracket_stack' = Popped
  BY <1>6 DEF EmitClose
<1>8. /\ DOMAIN blocks' = DOMAIN blocks /\ blocks'[b0] = B0
      /\ \A b \in DOMAIN blocks \ {b0} : blocks'[b] = blocks[b]
  <2> DEFINE T == [blocks[b0] EXCEPT !.term = t]
  <2>1. blocks' = [blocks EXCEPT ![b0] = T]
    BY <1>6 DEF EmitClose
  <2> HIDE DEF T
  <2>2. /\ DOMAIN blocks' = DOMAIN blocks /\ blocks'[b0] = T
        /\ \A b \in DOMAIN blocks \ {b0} : blocks'[b] = blocks[b]
    BY <1>1, <2>1
  <2>3. T = B0
    BY <1>4 DEF T
  <2> QED BY <2>2, <2>3
<1>9. Exit(m) \in DOMAIN blocks \ {b0} /\ blocks'[Exit(m)] = Empty
  <2>1. Exit(m) \in DOMAIN blocks
    BY <1>5 DEF Names, Opened, OpenLoops
  <2>2. Start(p, Exit(m)) = n + 1
    BY <1>5, NameFacts
  <2>3. Exit(m) # b0
    BY <1>1, <2>2
  <2>4. IsBlock(p, Exit(m), blocks[Exit(m)])
        /\ (Branches(p, Exit(m), blocks[Exit(m)], n) \/ Waits(p, Exit(m), blocks[Exit(m)], n))
    BY <2>1, <2>3 DEF Inv, BlocksInv
  <2>5. Len(blocks[Exit(m)].ops) \in Nat
    BY <2>4 DEF IsBlock
  <2>6. ~ Branches(p, Exit(m), blocks[Exit(m)], n)
    BY <1>1, <2>2, <2>5 DEF Branches, After, PositionsOf
  <2> QED BY <1>8, <2>1, <2>3, <2>4, <2>6 DEF Waits
<1>10. BlocksInv'
  <2>1. \A b \in DOMAIN blocks' : IsBlock(p, b, blocks'[b])
    BY <1>4, <1>8 DEF Inv, BlocksInv
  <2>2. \A b \in DOMAIN blocks' \ {Exit(m)} : Branches(p, b, blocks'[b], n + 1) \/ Waits(p, b, blocks'[b], n + 1)
    <3> SUFFICES ASSUME NEW b \in DOMAIN blocks' \ {Exit(m)}
                 PROVE  Branches(p, b, blocks'[b], n + 1) \/ Waits(p, b, blocks'[b], n + 1)
      OBVIOUS
    <3>1. CASE b = b0
      BY <1>4, <1>8, <3>1
    <3>2. CASE b # b0
      <4>1. b \in DOMAIN blocks \ {b0}
        BY <1>8, <3>2
      <4>2. Branches(p, b, blocks[b], n) \/ Waits(p, b, blocks[b], n)
        BY <4>1 DEF Inv, BlocksInv
      <4>3. Branches(p, b, blocks[b], n + 1) \/ Waits(p, b, blocks[b], n + 1)
        BY <1>1, <4>2, OtherBlocks
      <4> QED BY <1>8, <4>1, <4>3
    <3> QED BY <3>1, <3>2
  <2>3. \A i \in 1..n : \E b \in DOMAIN blocks' : HasCode(blocks'[b], i)
    <3> SUFFICES ASSUME NEW i \in 1..n PROVE \E b \in DOMAIN blocks' : HasCode(blocks'[b], i)
      OBVIOUS
    <3>1. CASE i = n
      BY <1>1, <1>4, <1>8, <3>1
    <3>2. CASE i # n
      <4>1. PICK b \in DOMAIN blocks : HasCode(blocks[b], i)
        BY <1>1, <3>2 DEF Inv, BlocksInv
      <4>2. HasCode(blocks'[b], i)
        BY <1>4, <1>8, <4>1
      <4> QED BY <1>8, <4>2
    <3> QED BY <3>1, <3>2
  <2>4. DOMAIN blocks' = Names(p, n + 1)
    BY <1>5, <1>8
  <2>5. pc' - 1 = n
    BY <1>1
  <2> HIDE DEF p, n, b0, m
  <2> QED BY <1>1, <1>7, <2>1, <2>2, <2>3, <2>4, <2>5 DEF BlocksInv
<1>11. InsertInv'
  <2>1. After(p, Exit(m), Empty) = n + 1
    BY <1>1, <1>5, NameFacts DEF After, Empty
  <2> QED BY <1>1, <1>7, <1>8, <1>9, <2>1 DEF InsertInv, Empty
<1>12. StackInv'
  <2> DEFINE P == {<<Body(i), Exit(i)>> : i \in OpenLoops(p, n + 1)}
             R == SubSeq(S, 1, Len(S) - 1)
  <2>1. Len(S) \in Nat \ {0} /\ DOMAIN S = 1..Len(S)
    BY <1>2, TopIsLoop DEF Inv, StackInv
  <2>2. \A s \in 1..(Len(S) - 1) : S[s] \in P
    BY <1>2, <1>5, TopIsLoop
  <2>3. S' = R
    BY <1>7 DEF Popped
  <2>4. R \in Seq(P)
    <3> HIDE DEF P
    <3> QED BY <2>1, <2>2, SubSeqProperties
  <2>5. Len(R) = Len(S) - 1 /\ \A s \in 1..(Len(S) - 1) : R[s] = S[s]
    BY <2>1
  <2>6. DOMAIN R = 1..(Len(S) - 1)
    BY <2>4, <2>5
  <2> HIDE DEF R
  <2>7. \A s \in DOMAIN S' : S'[s] = S[s] /\ s \in DOMAIN S
    BY <2>1, <2>3, <2>5, <2>6
  <2>8. \A s, u \in DOMAIN S' : s < u => S'[s][1][2] < S'[u][1][2]
    BY <2>7 DEF Inv, StackInv
  <2>9. \A i \in OpenLoops(p, n + 1) : \E s \in DOMAIN S' : S'[s] = <<Body(i), Exit(i)>>
    <3> SUFFICES ASSUME NEW i \in OpenLoops(p, n + 1)
                 PROVE  \E s \in DOMAIN S' : S'[s] = <<Body(i), Exit(i)>>
      OBVIOUS
    <3>1. i \in OpenLoops(p, n) /\ i # m
      BY <1>5
    <3>2. PICK s \in DOMAIN S : S[s] = <<Body(i), Exit(i)>>
      BY <3>1 DEF Inv, StackInv
    <3>3. s # Len(S)
      <4>1. S[Len(S)][1] = Body(m)
        BY <1>6 DEF Top
      <4>2. Body(i) # Body(m)
        BY <3>1, NameFacts
      <4> QED BY <3>2, <4>1, <4>2
    <3>4. s \in DOMAIN S'
      BY <2>1, <2>3, <2>6, <3>3
    <3> QED BY <2>7, <3>2, <3>4
  <2>10. S' \in Seq(P)
    BY <2>3, <2>4
  <2> HIDE DEF p, n
  <2> QED BY <1>1, <2>8, <2>9, <2>10 DEF StackInv
<1>13. PlaceInv' /\ DataInv'
  <2>1. Entry \in DOMAIN blocks'
    BY <1>5, <1>8 DEF Names
  <2>2. IsBlock(p, Entry, blocks'[Entry])
    BY <1>4, <1>8, <2>1 DEF Inv, BlocksInv
  <2>3. Len(blocks'[Entry].ops) \in Nat
    BY <2>2 DEF IsBlock
  <2> QED BY <1>2, <2>1, <2>3, EmitKeepsData
<1> QED BY <1>10, <1>11, <1>12, <1>13

(* The return ends the last block; every loop is closed by then.            *)
LEMMA EmitReturnStep ==
  ASSUME Inv, EmitReturn
  PROVE  BlocksInv' /\ InsertInv' /\ StackInv' /\ PlaceInv' /\ DataInv'
<1> DEFINE b0 == insertPoint
           o == blocks[b0].ops
           A == blocks[b0]
           T == [A EXCEPT !.term = Return]
           B0 == [ops |-> o, term |-> Return]
<1>1. /\ prog \in Programs /\ Len(prog.code) \in Nat
      /\ phase = "emitting" /\ pc = Len(prog.code) + 1 /\ phase' = "running"
      /\ b0 \in DOMAIN blocks /\ IsBlock(prog, b0, A) /\ A.term = NoTerm
      /\ After(prog, b0, A) = pc
      /\ A = [ops |-> o, term |-> NoTerm]
  BY ProgramFacts DEF EmitReturn, Inv, BlocksInv, InsertInv, IsBlock
<1>2. /\ UNCHANGED <<prog, pc, insertPoint, open_bracket_stack, block, k>>
      /\ UNCHANGED <<dataptr, memory, unread, output>>
  BY DEF EmitReturn, runVars
<1>3. blocks' = [blocks EXCEPT ![b0] = T]
  BY DEF EmitReturn
<1>4. T = B0
  <2> HIDE DEF A, o
  <2> QED BY <1>1
<1> HIDE DEF T
<1>5. /\ DOMAIN blocks' = DOMAIN blocks /\ blocks'[b0] = B0
      /\ \A b \in DOMAIN blocks \ {b0} : blocks'[b] = blocks[b]
  BY <1>1, <1>3, <1>4
<1>6. IsBlock(prog, b0, B0) /\ After(prog, b0, B0) = pc
  BY <1>1 DEF IsBlock, After
<1>7. BlocksInv'
  <2>1. \A b \in DOMAIN blocks' : IsBlock(prog, b, blocks'[b])
    BY <1>5, <1>6 DEF Inv, BlocksInv
  <2>2. \A b \in DOMAIN blocks' \ {b0} : Branches(prog, b, blocks'[b], pc) \/ Waits(prog, b, blocks'[b], pc)
    BY <1>5 DEF Inv, BlocksInv
  <2>3. \A i \in 1..(pc - 1) : \E b \in DOMAIN blocks' : HasCode(blocks'[b], i)
    <3> SUFFICES ASSUME NEW i \in 1..(pc - 1) PROVE \E b \in DOMAIN blocks' : HasCode(blocks'[b], i)
      OBVIOUS
    <3>1. PICK b \in DOMAIN blocks : HasCode(blocks[b], i)
      BY DEF Inv, BlocksInv
    <3>2. HasCode(A, i) => HasCode(B0, i)
      BY <1>1 DEF HasCode, NoTerm
    <3> QED BY <1>5, <3>1, <3>2
  <2>4. DOMAIN blocks' = Names(prog, pc)
    BY <1>5 DEF Inv, BlocksInv
  <2> QED BY <1>2, <2>1, <2>2, <2>3, <2>4 DEF BlocksInv
<1>8. InsertInv'
  BY <1>1, <1>2, <1>5, <1>6 DEF InsertInv
<1>9. StackInv'
  BY <1>2 DEF StackInv, Inv
<1>10. PlaceInv'
  <2>1. block = Entry /\ k = 1 /\ Entry \in DOMAIN blocks'
    BY <1>1, <1>5 DEF Inv, PlaceInv
  <2>2. Len(blocks'[Entry].ops) \in Nat
    BY <1>5, <1>6, <2>1 DEF Inv, BlocksInv, IsBlock
  <2> QED BY <1>1, <1>2, <2>1, <2>2 DEF PlaceInv, Here
<1>11. DataInv'
  BY <1>2 DEF DataInv, Inv
<1> QED BY <1>7, <1>8, <1>9, <1>10, <1>11

-------------------------------------------------------------------------------
(* Running the function. *)

(* Once all is emitted every block but the one that returns branches: no    *)
(* loop is open behind the program's end.                                   *)
LEMMA AllBranch ==
  ASSUME Inv, phase # "emitting", NEW b \in DOMAIN blocks, b # insertPoint
  PROVE  Branches(prog, b, blocks[b], pc)
<1>1. pc = Len(prog.code) + 1 /\ prog \in Programs /\ Len(prog.code) \in Nat
  BY ProgramFacts DEF Inv, PlaceInv
<1>2. OpenLoops(prog, pc) = {}
  BY <1>1, ProgramFacts DEF OpenLoops, Opens, PositionsOf
<1> QED BY <1>2 DEF Inv, BlocksInv, Waits

(* The place in the function is a place in the program.                     *)
LEMMA AtFacts ==
  ASSUME Inv
  PROVE  /\ prog \in Programs /\ Len(prog.code) \in Nat
         /\ block \in Names(prog, pc) /\ Start(prog, block) \in 1..(Len(prog.code) + 1)
         /\ Here.ops \in Seq(1..Len(prog.code)) /\ k \in 1..(Len(Here.ops) + 1)
         /\ At = Start(prog, block) + k - 1
         /\ phase # "emitting" /\ AtOp => At = Here.ops[k] /\ At \in 1..Len(prog.code)
                                           /\ prog.code[At] \notin Brackets
         /\ AtBranch => /\ At \in PositionsOf(prog, Brackets)
                        /\ Here.term = Branch(At, Exit(Loop(prog, At)), Body(Loop(prog, At)))
<1>1. /\ prog \in Programs /\ Len(prog.code) \in Nat
      /\ block \in Names(prog, pc) /\ block \in DOMAIN blocks
      /\ IsBlock(prog, block, Here) /\ Here.ops \in Seq(1..Len(prog.code))
      /\ k \in 1..(Len(Here.ops) + 1) /\ pc \in Int
  BY ProgramFacts DEF Inv, BlocksInv, PlaceInv, Here, IsBlock
<1>2. Start(prog, block) \in 1..(Len(prog.code) + 1)
  BY <1>1, StartFacts
<1>3. CASE phase = "emitting"
  <2>1. block = Entry /\ k = 1
    BY <1>3 DEF Inv, PlaceInv
  <2>2. At = 1 /\ Start(prog, block) = 1
    BY <1>3, <2>1, NameFacts DEF At
  <2>3. ~ AtBranch
    BY <1>3 DEF AtBranch
  <2> QED BY <1>1, <1>2, <1>3, <2>1, <2>2, <2>3
<1>4. CASE phase # "emitting" /\ AtOp
  <2>1. k \in DOMAIN Here.ops
    BY <1>1, <1>4 DEF AtOp
  <2>2. Here.ops[k] = Start(prog, block) + k - 1 /\ prog.code[Here.ops[k]] \notin Brackets
    BY <1>1, <2>1 DEF IsBlock
  <2>3. Here.ops[k] \in 1..Len(prog.code)
    BY <1>1, <2>1, ElementOfSeq
  <2>4. At = Here.ops[k]
    BY <1>4 DEF At
  <2>5. ~ AtBranch
    BY <1>4 DEF AtBranch
  <2> QED BY <1>1, <1>2, <2>2, <2>3, <2>4, <2>5
<1>5. CASE phase # "emitting" /\ ~ AtOp
  <2>1. k = Len(Here.ops) + 1
    <3>1. Len(Here.ops) \in Nat
      BY <1>1
    <3>2. ~ (k <= Len(Here.ops)) /\ k \in 1..(Len(Here.ops) + 1)
      BY <1>1, <1>5 DEF AtOp
    <3> DEFINE l == Len(Here.ops)
    <3> HIDE DEF l
    <3>3. l \in Nat /\ ~ (k <= l) /\ k \in 1..(l + 1)
      BY <3>1, <3>2 DEF l
    <3>4. k = l + 1
      BY <3>3
    <3> QED BY <3>4 DEF l
  <2>2. After(prog, block, Here) = Start(prog, block) + k - 1
    BY <1>1, <1>2, <2>1 DEF After
  <2>3. CASE block = insertPoint
    <3>1. Here.term = Return /\ After(prog, block, Here) = pc /\ pc = Len(prog.code) + 1
      BY <1>5, <2>3 DEF Inv, InsertInv, PlaceInv, Here
    <3>2. At = Len(prog.code) + 1 /\ ~ AtBranch
      BY <1>5, <3>1 DEF At, AtBranch, Return
    <3> QED BY <1>1, <1>2, <1>5, <2>2, <3>1, <3>2
  <2>4. CASE block # insertPoint
    <3>1. PICK j \in PositionsOf(prog, Brackets) :
            /\ After(prog, block, Here) = j
            /\ Here.term = Branch(j, Exit(Loop(prog, j)), Body(Loop(prog, j)))
      BY <1>1, <1>5, <2>4, AllBranch DEF Branches, Here
    <3>2. At = j
      BY <1>5, <3>1 DEF At, Branch
    <3> QED BY <1>1, <1>2, <1>5, <2>2, <3>1, <3>2
  <2> QED BY <2>3, <2>4
<1> QED BY <1>3, <1>4, <1>5

(* The blocks stay as they are while the function runs.                     *)
LEMMA RunKeepsBlocks ==
  ASSUME Inv, UNCHANGED <<prog, emitVars>>, phase # "emitting", phase' # "emitting"
  PROVE  BlocksInv' /\ InsertInv' /\ StackInv'
<1>1. UNCHANGED <<prog, pc, blocks, insertPoint, open_bracket_stack>>
  BY DEF emitVars
<1>2. BlocksInv'
  BY <1>1 DEF Inv, BlocksInv
<1>3. InsertInv'
  BY <1>1 DEF Inv, InsertInv
<1>4. StackInv'
  BY <1>1 DEF Inv, StackInv
<1> QED BY <1>2, <1>3, <1>4

(* A step inside a block leads to the next place of it.                     *)
LEMMA OpFacts ==
  ASSUME Inv, NEW cs, Op(cs)
  PROVE  /\ phase = "running" /\ phase' = phase /\ prog' = prog
         /\ At = Here.ops[k] /\ At \in PositionsOf(prog, cs)
         /\ At \in PositionsOf(prog, Instructions \ Brackets)
         /\ BlocksInv' /\ InsertInv' /\ StackInv' /\ PlaceInv'
<1>1. /\ phase = "running" /\ AtOp /\ prog.code[Here.ops[k]] \in cs
      /\ k' = k + 1 /\ prog' = prog /\ phase' = phase /\ block' = block
      /\ pc' = pc /\ blocks' = blocks
  BY DEF Op, emitVars
<1>2. /\ At = Here.ops[k] /\ At \in 1..Len(prog.code) /\ prog.code[At] \notin Brackets
      /\ prog \in Programs /\ Here.ops \in Seq(1..Len(prog.code))
      /\ k \in 1..(Len(Here.ops) + 1)
  BY <1>1, AtFacts
<1>3. prog.code[At] \in Instructions
  BY <1>2, ProgramFacts, ElementOfSeq
<1>4. At \in PositionsOf(prog, cs) /\ At \in PositionsOf(prog, Instructions \ Brackets)
  BY <1>1, <1>2, <1>3 DEF PositionsOf
<1>5. BlocksInv' /\ InsertInv' /\ StackInv'
  BY <1>1, RunKeepsBlocks DEF Op
<1>6. Len(Here.ops) \in Nat /\ k <= Len(Here.ops)
  BY <1>1, <1>2 DEF AtOp
<1>7. k' \in 1..(Len(Here.ops) + 1)
  BY <1>1, <1>2, <1>6
<1>8. Here' = Here
  BY <1>1 DEF Here
<1>9. PlaceInv'
  BY <1>1, <1>7, <1>8 DEF PlaceInv, Inv
<1> QED BY <1>1, <1>2, <1>4, <1>5, <1>9

(* The steps inside a block keep the data what they are.                    *)
LEMMA OpStep ==
  ASSUME Inv, Move \/ Change \/ PutChar \/ GetChar
  PROVE  Inv'
<1>0. /\ prog \in Programs /\ pc \in 1..(Len(prog.code) + 1)
      /\ dataptr \in 0..(Int32Space - 1) /\ memory \in [Addresses -> Cells]
      /\ unread \in Seq(Cells) /\ output \in Seq(Cells)
  BY DEF Inv, DataInv
<1>r. ASSUME NEW cs, Op(cs), DataInv' PROVE Inv'
  <2>1. pc' = pc /\ prog' = prog
    BY <1>r DEF Op, emitVars
  <2> QED BY <1>0, <1>r, <2>1, OpFacts DEF Inv
<1>s. \A c : Step(c) \in Int
  BY DEF Step
<1>1. CASE Move
  <2> DEFINE moved == dataptr + Step(prog.code[Here.ops[k]])
  <2>1. moved % Int32Space \in 0..(Int32Space - 1)
    <3>1. moved \in Int
      BY <1>0, <1>s, SizeAssumption
    <3> QED BY <3>1, ModRange, SizeAssumption
  <2>2. dataptr' \in 0..(Int32Space - 1) /\ UNCHANGED <<memory, unread, output>> /\ Op(Moves)
    BY <1>1, <2>1 DEF Move
  <2> QED BY <1>0, <1>r, <2>2 DEF DataInv
<1>2. CASE Change
  <2> DEFINE changed == memory[dataptr] + Step(prog.code[Here.ops[k]])
  <2>1. changed % CellSize \in Cells
    <3>1. changed \in Int
      BY <1>0, <1>2, <1>s, SizeAssumption DEF Change, Cells
    <3> QED BY <3>1, ModRange, SizeAssumption DEF Cells
  <2>2. memory' \in [Addresses -> Cells] /\ UNCHANGED <<dataptr, unread, output>> /\ Op(Changes)
    BY <1>0, <1>2, <2>1 DEF Change
  <2> QED BY <1>0, <1>r, <2>2 DEF DataInv
<1>3. CASE PutChar
  <2>1. output' \in Seq(Cells) /\ UNCHANGED <<dataptr, memory, unread>> /\ Op({"."})
    BY <1>0, <1>3 DEF PutChar
  <2> QED BY <1>0, <1>r, <2>1 DEF DataInv
<1>4. CASE GetChar
  <2>1. memory' \in [Addresses -> Cells] /\ unread' \in Seq(Cells)
    BY <1>0, <1>4, InputFacts DEF GetChar
  <2>2. UNCHANGED <<dataptr, output>> /\ Op({","})
    BY <1>4 DEF GetChar
  <2>3. DataInv'
    BY <1>0, <2>1, <2>2 DEF DataInv
  <2> QED BY <1>r, <2>2, <2>3
<1> QED BY <1>1, <1>2, <1>3, <1>4

(* A branch leads to the beginning of another block: behind the bracket, or *)
(* behind its partner.                                                      *)
LEMMA CondBrFacts ==
  ASSUME Inv, CondBr
  PROVE  /\ At \in PositionsOf(prog, Brackets)
         /\ block' = IF memory[dataptr] = 0 THEN Exit(Loop(prog, At)) ELSE Body(Loop(prog, At))
         /\ block' \in DOMAIN blocks /\ k' = 1
<1>1. AtBranch /\ k' = 1 /\ phase = "running"
      /\ block' = IF memory[dataptr] = 0 THEN Here.term.zero ELSE Here.term.nonzero
  BY DEF CondBr, AtBranch
<1>2. /\ prog \in Programs /\ Len(prog.code) \in Nat
      /\ At \in PositionsOf(prog, Brackets)
      /\ Here.term = Branch(At, Exit(Loop(prog, At)), Body(Loop(prog, At)))
  BY <1>1, AtFacts
<1>3. Here.term.zero = Exit(Loop(prog, At)) /\ Here.term.nonzero = Body(Loop(prog, At))
  BY <1>2 DEF Branch
<1>4. Loop(prog, At) \in Opens(prog)
  BY <1>2, ProgramFacts DEF Loop, Opens, PositionsOf, Brackets
<1>5. Loop(prog, At) \in Opened(prog, pc)
  BY <1>1, <1>2, <1>4 DEF Opened, Opens, PositionsOf, Inv, PlaceInv
<1>6. Exit(Loop(prog, At)) \in DOMAIN blocks /\ Body(Loop(prog, At)) \in DOMAIN blocks
  BY <1>5 DEF Names, Inv, BlocksInv
<1> QED BY <1>1, <1>2, <1>3, <1>6

(* A branch, and an access outside the memory, keep the invariant.          *)
LEMMA BranchStep ==
  ASSUME Inv, CondBr \/ AccessOutside
  PROVE  Inv'
<1>1. CASE CondBr
  <2>1. /\ UNCHANGED <<prog, emitVars>> /\ phase = "running" /\ phase' = phase /\ k' = 1
        /\ UNCHANGED <<dataptr, memory, unread, output>>
        /\ block' \in DOMAIN blocks /\ pc' = pc /\ blocks' = blocks
    BY <1>1, CondBrFacts DEF CondBr, AtBranch, emitVars
  <2>2. Len(blocks[block'].ops) \in Nat
    BY <2>1 DEF Inv, BlocksInv, IsBlock
  <2>3. PlaceInv'
    BY <2>1, <2>2 DEF PlaceInv, Inv, Here
  <2>4. DataInv'
    BY <2>1 DEF DataInv, Inv
  <2>5. BlocksInv' /\ InsertInv' /\ StackInv'
    BY <2>1, RunKeepsBlocks
  <2> QED BY <2>1, <2>3, <2>4, <2>5 DEF Inv
<1>2. CASE AccessOutside
  <2>1. /\ UNCHANGED <<prog, emitVars>> /\ phase = "running" /\ phase' = "undefined"
        /\ UNCHANGED <<block, k, dataptr, memory, unread, output>>
        /\ pc' = pc /\ blocks' = blocks
    BY <1>2 DEF AccessOutside, emitVars, runVars
  <2>2. PlaceInv'
    BY <2>1 DEF PlaceInv, Inv, Here
  <2>3. DataInv'
    BY <2>1 DEF DataInv, Inv
  <2>4. BlocksInv' /\ InsertInv' /\ StackInv'
    BY <2>1, RunKeepsBlocks
  <2> QED BY <2>1, <2>2, <2>3, <2>4 DEF Inv
<1> QED BY <1>1, <1>2

(* Every step keeps the invariant.                                          *)
LEMMA InvStep ==
  ASSUME Inv, [Next]_vars
  PROVE  Inv'
<1>1. CASE EmitPlain \/ EmitOpen \/ EmitClose
  <2>1. BlocksInv' /\ InsertInv' /\ StackInv' /\ PlaceInv' /\ DataInv'
    BY <1>1, EmitPlainStep, EmitOpenStep, EmitCloseStep
  <2>2. PICK cs : Emitting(cs)
    BY <1>1 DEF EmitPlain, EmitOpen, EmitClose
  <2>3. prog' = prog /\ prog \in Programs /\ pc' \in 1..(Len(prog.code) + 1)
    BY <2>2, EmitFacts
  <2> QED BY <2>1, <2>3 DEF Inv
<1>2. CASE EmitReturn
  <2>1. BlocksInv' /\ InsertInv' /\ StackInv' /\ PlaceInv' /\ DataInv'
    BY <1>2, EmitReturnStep
  <2>2. prog' = prog /\ pc' = pc
    BY <1>2 DEF EmitReturn
  <2> QED BY <2>1, <2>2 DEF Inv
<1>3. CASE Move \/ Change \/ PutChar \/ GetChar
  BY <1>3, OpStep
<1>4. CASE CondBr \/ AccessOutside
  BY <1>4, BranchStep
<1>5. CASE UNCHANGED vars
  <2>1. /\ UNCHANGED <<prog, pc, blocks, insertPoint, open_bracket_stack, phase>>
        /\ UNCHANGED <<block, k, dataptr, memory, unread, output>>
    BY <1>5 DEF vars, emitVars, runVars
  <2>2. BlocksInv' /\ InsertInv'
    BY <2>1 DEF Inv, BlocksInv, InsertInv
  <2>3. StackInv' /\ PlaceInv' /\ DataInv'
    BY <2>1 DEF Inv, StackInv, PlaceInv, Here, DataInv
  <2> QED BY <2>1, <2>2, <2>3 DEF Inv
<1> QED BY <1>1, <1>2, <1>3, <1>4, <1>5 DEF Next

(* The inductive invariant holds throughout.                                *)
LEMMA InvTheorem == Spec => []Inv
<1>1. Inv /\ [Next]_vars => Inv'
  BY InvStep
<1> QED BY InvInit, <1>1, PTL DEF Spec

-------------------------------------------------------------------------------

(* Types follow from the invariant.                                         *)
LEMMA InvTypes == Inv => TypeOK
<1> SUFFICES ASSUME Inv PROVE TypeOK
  OBVIOUS
<1>1. {insertPoint, block} \subseteq DOMAIN blocks
  BY DEF Inv, InsertInv, PlaceInv
<1>2. \A b \in DOMAIN blocks : blocks[b].ops \in Seq(1..Len(prog.code))
  BY DEF Inv, BlocksInv, IsBlock
<1>3. k \in Nat \ {0}
  BY AtFacts
<1> QED BY <1>1, <1>2, <1>3 DEF TypeOK, Inv, PlaceInv, DataInv

(* The compiler's state is what its declarations say, and the function      *)
(* never leaves its blocks.                                                 *)
THEOREM TypeTheorem == Spec => []TypeOK
  BY InvTypes, InvTheorem, PTL

(* No instruction's code is in two blocks: if the later one began inside    *)
(* the earlier one, the bracket before it would be among the earlier one's  *)
(* instructions.                                                            *)
LEMMA OneBlockEach ==
  ASSUME Inv, phase # "emitting",
         NEW i, NEW b \in BlocksOf(i), NEW c \in BlocksOf(i)
  PROVE  b = c
<1> DEFINE L == Len(prog.code)
           first(x) == Start(prog, x)
           past(x) == Start(prog, x) + Len(blocks[x].ops)
<1>0. prog \in Programs /\ L \in Nat /\ DOMAIN blocks = Names(prog, pc) /\ pc \in Int
  BY ProgramFacts DEF Inv, BlocksInv
<1>1. \A x \in DOMAIN blocks :
        /\ first(x) \in Int /\ Len(blocks[x].ops) \in Nat
        /\ DOMAIN blocks[x].ops = 1..Len(blocks[x].ops)
        /\ \A n \in 1..Len(blocks[x].ops) :
             blocks[x].ops[n] = first(x) + n - 1 /\ prog.code[blocks[x].ops[n]] \notin Brackets
        /\ x = Entry \/ (first(x) - 1 \in PositionsOf(prog, Brackets))
        /\ first(x) >= 1
  <2> SUFFICES ASSUME NEW x \in DOMAIN blocks
               PROVE  /\ first(x) \in Int /\ Len(blocks[x].ops) \in Nat
                      /\ DOMAIN blocks[x].ops = 1..Len(blocks[x].ops)
                      /\ \A n \in 1..Len(blocks[x].ops) :
                           blocks[x].ops[n] = first(x) + n - 1 /\ prog.code[blocks[x].ops[n]] \notin Brackets
                      /\ x = Entry \/ (first(x) - 1 \in PositionsOf(prog, Brackets))
                      /\ first(x) >= 1
    OBVIOUS
  <2>1. IsBlock(prog, x, blocks[x])
    BY DEF Inv, BlocksInv
  <2>2. first(x) \in 1..(L + 1) /\ (x = Entry \/ (first(x) - 1 \in PositionsOf(prog, Brackets)))
    BY <1>0, StartFacts
  <2>3. Len(blocks[x].ops) \in Nat /\ DOMAIN blocks[x].ops = 1..Len(blocks[x].ops)
    BY <2>1 DEF IsBlock
  <2>4. \A n \in 1..Len(blocks[x].ops) :
          blocks[x].ops[n] = first(x) + n - 1 /\ prog.code[blocks[x].ops[n]] \notin Brackets
    BY <2>1, <2>3 DEF IsBlock
  <2>5. first(x) \in Int /\ first(x) >= 1
    BY <1>0, <2>2
  <2> QED BY <2>2, <2>3, <2>4, <2>5
<1>2. \A x \in BlocksOf(i) : x \in DOMAIN blocks /\ i \in Int /\ first(x) <= i /\ i <= past(x)
  <2> SUFFICES ASSUME NEW x \in BlocksOf(i)
               PROVE  x \in DOMAIN blocks /\ i \in Int /\ first(x) <= i /\ i <= past(x)
    OBVIOUS
  <2>1. x \in DOMAIN blocks
    BY DEF BlocksOf
  <2>2. ASSUME NEW n \in DOMAIN blocks[x].ops, blocks[x].ops[n] = i
        PROVE  i \in Int /\ first(x) <= i /\ i <= past(x)
    <3>1. n \in 1..Len(blocks[x].ops) /\ i = first(x) + n - 1
      BY <1>1, <2>1, <2>2
    <3>2. first(x) \in Int /\ Len(blocks[x].ops) \in Nat
      BY <1>1, <2>1
    <3> QED BY <3>1, <3>2
  <2>3. CASE blocks[x].term.kind = "br" /\ blocks[x].term.pc = i
    <3>1. x # insertPoint
      BY <2>3 DEF Inv, InsertInv, Return
    <3>2. PICK j \in PositionsOf(prog, Brackets) :
            /\ After(prog, x, blocks[x]) = j
            /\ blocks[x].term = Branch(j, Exit(Loop(prog, j)), Body(Loop(prog, j)))
      BY <2>1, <3>1, AllBranch DEF Branches
    <3>3. j = i
      BY <2>3, <3>2 DEF Branch
    <3>4. past(x) = i /\ i \in Int
      BY <3>2, <3>3 DEF After, PositionsOf
    <3> QED BY <1>1, <2>1, <3>4
  <2> QED BY <2>1, <2>2, <2>3 DEF BlocksOf, EndsIn
<1>3. ASSUME NEW x \in BlocksOf(i), NEW y \in BlocksOf(i), first(x) < first(y) PROVE FALSE
  <2>1. /\ x \in DOMAIN blocks /\ y \in DOMAIN blocks /\ first(x) \in Int /\ first(y) \in Int
        /\ Len(blocks[x].ops) \in Nat /\ first(y) <= past(x)
    BY <1>1, <1>2
  <2> DEFINE n == first(y) - first(x)
  <2>2. n \in 1..Len(blocks[x].ops)
    BY <1>3, <2>1
  <2>3. blocks[x].ops[n] = first(y) - 1 /\ prog.code[blocks[x].ops[n]] \notin Brackets
    BY <1>1, <2>1, <2>2
  <2>4. y # Entry
    BY <1>1, <1>3, <2>1, NameFacts
  <2>5. first(y) - 1 \in PositionsOf(prog, Brackets)
    BY <1>1, <2>1, <2>4
  <2> QED BY <2>3, <2>5 DEF PositionsOf
<1>4. first(b) = first(c)
  BY <1>1, <1>2, <1>3
<1>5. b \in Names(prog, pc) /\ c \in Names(prog, pc)
  BY <1>0, <1>2
<1> QED BY <1>0, <1>4, <1>5, StartFacts

(* The function is well formed when all is emitted: every block but the one *)
(* that returns branches to blocks there are, and covers a part of its own. *)
LEMMA InvWellFormed == Inv => FunctionIsWellFormed
<1> SUFFICES ASSUME Inv, phase # "emitting"
             PROVE  /\ EndsIn("none") = {}
                    /\ \E b \in DOMAIN blocks : EndsIn("ret") = {b}
                    /\ \A b \in EndsIn("br") : {blocks[b].term.zero, blocks[b].term.nonzero} \subseteq DOMAIN blocks
                    /\ \A i \in 1..Len(prog.code) : \E b \in DOMAIN blocks : BlocksOf(i) = {b}
  BY DEF FunctionIsWellFormed
<1>1. insertPoint \in DOMAIN blocks /\ blocks[insertPoint].term = Return
  BY DEF Inv, InsertInv
<1>2. \A b \in DOMAIN blocks \ {insertPoint} : \E j \in PositionsOf(prog, Brackets) :
        j < pc /\ blocks[b].term = Branch(j, Exit(Loop(prog, j)), Body(Loop(prog, j)))
  BY AllBranch DEF Branches
<1>3. \A b \in DOMAIN blocks : blocks[b].term.kind = IF b = insertPoint THEN "ret" ELSE "br"
  <2> SUFFICES ASSUME NEW b \in DOMAIN blocks
               PROVE  blocks[b].term.kind = IF b = insertPoint THEN "ret" ELSE "br"
    OBVIOUS
  <2>1. CASE b = insertPoint
    BY <1>1, <2>1 DEF Return
  <2>2. CASE b # insertPoint
    <3>1. PICK j \in PositionsOf(prog, Brackets) :
            blocks[b].term = Branch(j, Exit(Loop(prog, j)), Body(Loop(prog, j)))
      BY <1>2, <2>2
    <3> QED BY <2>2, <3>1 DEF Branch
  <2> QED BY <2>1, <2>2
<1>4. EndsIn("none") = {} /\ EndsIn("ret") = {insertPoint}
  BY <1>1, <1>3 DEF EndsIn
<1>5. ASSUME NEW b \in EndsIn("br")
      PROVE  {blocks[b].term.zero, blocks[b].term.nonzero} \subseteq DOMAIN blocks
  <2>1. b \in DOMAIN blocks \ {insertPoint}
    BY <1>3 DEF EndsIn
  <2>2. PICK j \in PositionsOf(prog, Brackets) :
          blocks[b].term = Branch(j, Exit(Loop(prog, j)), Body(Loop(prog, j)))
    BY <1>2, <2>1
  <2>3. blocks[b].term.zero = Exit(Loop(prog, j)) /\ blocks[b].term.nonzero = Body(Loop(prog, j))
    BY <2>2 DEF Branch
  <2>4. Loop(prog, j) \in Opens(prog) /\ prog \in Programs
    BY ProgramFacts DEF Loop, Opens, PositionsOf, Brackets, Inv
  <2>5. Loop(prog, j) \in Opened(prog, pc)
    BY <2>4, ProgramFacts DEF Opened, Opens, PositionsOf, Inv, PlaceInv
  <2>6. Exit(Loop(prog, j)) \in DOMAIN blocks /\ Body(Loop(prog, j)) \in DOMAIN blocks
    BY <2>5 DEF Names, Inv, BlocksInv
  <2> QED BY <2>3, <2>6
<1>6. ASSUME NEW i \in 1..Len(prog.code)
      PROVE  \E b \in DOMAIN blocks : BlocksOf(i) = {b}
  <2>1. i \in 1..(pc - 1)
    BY ProgramFacts DEF Inv, PlaceInv
  <2>2. PICK b \in DOMAIN blocks : HasCode(blocks[b], i)
    BY <2>1 DEF Inv, BlocksInv
  <2>3. b \in BlocksOf(i)
    BY <2>2 DEF HasCode, BlocksOf, EndsIn
  <2>4. \A c \in BlocksOf(i) : c = b
    BY <2>3, OneBlockEach
  <2> QED BY <2>3, <2>4
<1> QED BY <1>4, <1>1, <1>5, <1>6

(* What verifyFunction would find (main.cpp:199): the emitted function is   *)
(* well formed, and no instruction is lost or emitted twice.                *)
THEOREM WellFormedTheorem == Spec => []FunctionIsWellFormed
  BY InvWellFormed, InvTheorem, PTL

-------------------------------------------------------------------------------
(* The emitted function implements the machine. *)

(* The machine's instance speaks of programs and cells as the compiler.     *)
LEMMA SameOperators ==
  /\ Machine!Addresses = Addresses
  /\ Machine!Moves = Moves /\ Machine!Changes = Changes
  /\ Machine!Instructions = Instructions
  /\ \A c : Machine!Step(c) = Step(c)
  /\ \A u : Machine!NextChar(u) = NextChar(u) /\ Machine!AfterNext(u) = AfterNext(u)
  /\ \A p, cs : Machine!PositionsOf(p, cs) = PositionsOf(p, cs)
  BY DEF Machine!Addresses, Addresses, Machine!Moves, Moves, Machine!Changes, Changes,
         Machine!Instructions, Instructions, Machine!Brackets, Brackets, Machine!Step, Step,
         Machine!NextChar, NextChar, Machine!EOF, EOF, Machine!AfterNext, AfterNext,
         Machine!PositionsOf, PositionsOf

(* Nothing has run at the start, and the function will begin at the         *)
(* program's first instruction.                                             *)
LEMMA MachineInit == Init => Machine!Init
<1> SUFFICES ASSUME Init PROVE Machine!Init
  OBVIOUS
<1>1. At = 1
  BY DEF Init, At
<1> QED BY <1>1, SameOperators DEF Init, Machine!Init

\* the place in the program follows from the place in the function
Placed == At = Start(prog, block) + k - 1

(* It does so in every state.                                               *)
LEMMA InvPlaced == Inv => Placed
  BY AtFacts DEF Placed

(* A step of the function is the step of the machine for the instruction    *)
(* whose code it runs; emitting is no step of it.                           *)
LEMMA MachineStep ==
  ASSUME Inv, [Next]_vars
  PROVE  [Machine!Next]_(Machine!vars)
<1> USE SameOperators
<1>i. Inv'
  BY InvStep
<1>a. At' = Start(prog', block') + k' - 1
  <2>1. Placed'
    BY <1>i, InvPlaced, PTL
  <2> QED BY <2>1 DEF Placed
<1>b. At = Start(prog, block) + k - 1 /\ Start(prog, block) \in Int /\ k \in Int /\ prog \in Programs
  BY AtFacts
<1>e. ASSUME UNCHANGED <<prog, block, k, dataptr, memory, unread, output>>,
             (phase' # "undefined") = (phase # "undefined")
      PROVE  UNCHANGED Machine!vars
  <2>1. At' = At
    BY <1>a, <1>b, <1>e
  <2> QED BY <1>e, <2>1 DEF Machine!vars
<1>1. CASE EmitPlain \/ EmitOpen \/ EmitClose
  <2>1. UNCHANGED <<prog, block, k, dataptr, memory, unread, output>> /\ phase' = phase
    BY <1>1 DEF EmitPlain, EmitOpen, EmitClose, Emitting, runVars
  <2> QED BY <1>e, <2>1
<1>2. CASE EmitReturn
  <2>1. UNCHANGED <<prog, block, k, dataptr, memory, unread, output>>
        /\ phase = "emitting" /\ phase' = "running"
    BY <1>2 DEF EmitReturn, runVars
  <2> QED BY <1>e, <2>1
<1>o. ASSUME NEW cs, Op(cs) PROVE Machine!Next1(cs) /\ At' = At + 1 /\ At = Here.ops[k]
  <2>1. phase = "running" /\ phase' = phase /\ prog' = prog /\ At = Here.ops[k]
        /\ At \in PositionsOf(prog, cs)
    BY <1>o, OpFacts
  <2>2. block' = block /\ k' = k + 1
    BY <1>o DEF Op
  <2>3. At' = At + 1
    BY <1>a, <1>b, <2>1, <2>2
  <2> QED BY <2>1, <2>3 DEF Machine!Next1
<1>3. CASE Move
  <2>1. Machine!Next1(Moves) /\ At' = At + 1 /\ At = Here.ops[k] /\ phase' = phase
    BY <1>3, <1>o DEF Move, Op
  <2>2. Machine!Move
    BY <1>3, <2>1 DEF Move, Machine!Move
  <2> QED BY <2>2 DEF Machine!Next
<1>4. CASE Change
  <2>1. Machine!Next1(Changes) /\ At' = At + 1 /\ At = Here.ops[k] /\ phase' = phase
    BY <1>4, <1>o DEF Change, Op
  <2>2. Machine!Change
    BY <1>4, <2>1 DEF Change, Machine!Change
  <2> QED BY <2>2 DEF Machine!Next
<1>5. CASE PutChar
  <2>1. Machine!Next1({"."}) /\ At' = At + 1 /\ phase' = phase
    BY <1>5, <1>o DEF PutChar, Op
  <2>2. Machine!Write
    BY <1>5, <2>1 DEF PutChar, Machine!Write
  <2> QED BY <2>2 DEF Machine!Next
<1>6. CASE GetChar
  <2>1. Machine!Next1({","}) /\ At' = At + 1 /\ phase' = phase
    BY <1>6, <1>o DEF GetChar, Op
  <2>2. Machine!Read
    BY <1>6, <2>1 DEF GetChar, Machine!Read
  <2> QED BY <2>2 DEF Machine!Next
<1>7. CASE CondBr
  <2> DEFINE l == Loop(prog, At)
  <2>1. /\ At \in PositionsOf(prog, Brackets)
        /\ block' = IF memory[dataptr] = 0 THEN Exit(l) ELSE Body(l)
        /\ k' = 1
    BY <1>7, CondBrFacts
  <2>2. /\ phase = "running" /\ phase' = phase /\ prog' = prog /\ dataptr \in Addresses
        /\ UNCHANGED <<dataptr, memory, unread, output>>
    BY <1>7 DEF CondBr, AtBranch
  <2>3. l \in Int /\ prog.match[l] \in Int /\ prog.match[At] \in Int /\ At \in Int
    BY <1>b, <2>1, ProgramFacts DEF Loop, PositionsOf, Brackets
  <2>4. At' = IF memory[dataptr] = 0 THEN prog.match[l] + 1 ELSE l + 1
    <3>1. Start(prog, block') = IF memory[dataptr] = 0 THEN prog.match[l] + 1 ELSE l + 1
      BY <2>1, NameFacts
    <3> QED BY <1>a, <2>1, <2>2, <2>3, <3>1
  <2>5. CASE prog.code[At] = "["
    <3>1. l = At /\ At \in PositionsOf(prog, {"["})
      BY <2>1, <2>5 DEF Loop, PositionsOf
    <3>2. Machine!Next1({"["})
      BY <2>2, <3>1 DEF Machine!Next1
    <3>3. Machine!Open
      BY <2>2, <2>4, <3>1, <3>2 DEF Machine!Open
    <3> QED BY <3>3 DEF Machine!Next
  <2>6. CASE prog.code[At] = "]"
    <3>1. l = prog.match[At] /\ At \in PositionsOf(prog, {"]"})
      BY <2>1, <2>6 DEF Loop, PositionsOf
    <3>2. prog.match[l] = At
      BY <1>b, <3>1, ProgramFacts
    <3>3. Machine!Next1({"]"})
      BY <2>2, <3>1 DEF Machine!Next1
    <3>4. Machine!Close
      BY <2>2, <2>4, <3>1, <3>2, <3>3 DEF Machine!Close
    <3> QED BY <3>4 DEF Machine!Next
  <2> QED BY <2>1, <2>5, <2>6 DEF PositionsOf, Brackets
<1>8. CASE AccessOutside
  <2>1. /\ UNCHANGED <<prog, block, k, dataptr, memory, unread, output>>
        /\ phase = "running" /\ phase' = "undefined" /\ dataptr \notin Addresses
        /\ AtBranch \/ (AtOp /\ prog.code[Here.ops[k]] \notin Moves)
    BY <1>8 DEF AccessOutside, runVars
  <2>2. At' = At
    BY <1>a, <1>b, <2>1
  <2>3. At \in PositionsOf(prog, Instructions \ Moves)
    <3>1. CASE AtBranch
      <4>1. At \in PositionsOf(prog, Brackets)
        BY <3>1, AtFacts
      <4> QED BY <4>1 DEF PositionsOf, Instructions, Brackets, Moves
    <3>2. CASE AtOp /\ prog.code[Here.ops[k]] \notin Moves
      <4>1. At = Here.ops[k] /\ At \in 1..Len(prog.code)
        BY <2>1, <3>2, AtFacts
      <4>2. prog.code[At] \in Instructions
        BY <1>b, <4>1, ProgramFacts, ElementOfSeq
      <4> QED BY <3>2, <4>1, <4>2 DEF PositionsOf
    <3> QED BY <2>1, <3>1, <3>2
  <2>4. Machine!AccessOutside
    BY <2>1, <2>2, <2>3 DEF Machine!AccessOutside, Machine!Next1
  <2> QED BY <2>4 DEF Machine!Next
<1>9. CASE UNCHANGED vars
  <2>1. UNCHANGED <<prog, block, k, dataptr, memory, unread, output>> /\ phase' = phase
    BY <1>9 DEF vars, runVars
  <2> QED BY <1>e, <2>1
<1> QED BY <1>1, <1>2, <1>3, <1>4, <1>5, <1>6, <1>7, <1>8, <1>9 DEF Next

(* The emitted function does what the program says (main.cpp:90-215), with  *)
(* each instruction's code in a block that the branches reach just when the *)
(* program would reach the instruction.                                     *)
THEOREM ImplementsTheorem == Spec => ImplementsMachine
<1>1. Inv /\ [Next]_vars => [Machine!Next]_(Machine!vars)
  BY MachineStep
<1> QED BY <1>1, MachineInit, InvTheorem, PTL DEF Spec, ImplementsMachine, Machine!Spec

===============================================================================
