--------------------------- MODULE BFEngines_proofs ---------------------------
(***************************************************************************)
(* Theorems about the interpreter and about the two engines side by side,  *)
(* for every well-nested program, every input and every size of memory,    *)
(* cell and pointer.  The interpreter's jump table pairs the brackets, its *)
(* assertion holds, and it does what the program says.  What is proved of  *)
(* either engine alone holds of it next to the other, since a step of one  *)
(* leaves the other where it is and neither changes the program; and the   *)
(* two agree.                                                              *)
(***************************************************************************)
EXTENDS BFEngines, SequenceTheorems, TLAPS

\* the interpreter, and the compiler with what is proved of it
I == INSTANCE BFInterpreter WITH phase <- iphase, unread <- cin, output <- cout
J == INSTANCE BFJit_proofs WITH phase <- jphase

(* The assumptions on sizes and programs, as the instances have them.       *)
LEMMA Assumptions ==
  /\ {MemorySize, CellSize, SizeTSpace, Int32Space} \subseteq Nat \ {0}
  /\ \A p \in Programs : /\ p.code \in Seq(I!Instructions)
                         /\ p.input \in Seq(0..(CellSize - 1))
                         /\ I!WellNested(p)
  /\ \A p \in Programs : /\ p.code \in Seq(J!Instructions)
                         /\ p.input \in Seq(0..(CellSize - 1))
                         /\ J!WellNested(p)
<1>1. I!Instructions = Instructions /\ J!Instructions = Instructions
  BY DEF I!Instructions, I!Moves, I!Changes, I!Brackets,
         J!Instructions, J!Moves, J!Changes, J!Brackets,
         Instructions, Moves, Changes, Brackets
<1>2. \A p : I!WellNested(p) = WellNested(p) /\ J!WellNested(p) = WellNested(p)
  BY DEF I!WellNested, I!PositionsOf, J!WellNested, J!PositionsOf, WellNested, PositionsOf
<1> QED BY <1>1, <1>2, SizeAssumption, ProgramAssumption

-------------------------------------------------------------------------------
(* What is used of a program: arithmetic of cells, and the pairing of       *)
(* brackets.                                                                *)

(* A remainder is below its modulus: cells and the data pointer keep their  *)
(* width (BFInterpreter.cpp:62-71).                                         *)
LEMMA ModRange ==
  ASSUME NEW n \in Int, NEW m \in Nat \ {0}
  PROVE  n % m \in 0..(m - 1)
  OBVIOUS

(* The brackets of a program and their partners are positions of its code,  *)
(* and partners point at each other.                                        *)
LEMMA ProgramFacts ==
  ASSUME NEW p \in Programs
  PROVE  /\ p.code \in Seq(I!Instructions)
         /\ Len(p.code) \in Nat
         /\ p.input \in Seq(I!Cells)
         /\ \A i \in I!PositionsOf(p, {"["}) :
              /\ p.match[i] \in I!PositionsOf(p, {"]"})
              /\ i < p.match[i]
              /\ p.match[p.match[i]] = i
         /\ \A j \in I!PositionsOf(p, {"]"}) :
              /\ p.match[j] \in I!PositionsOf(p, {"["})
              /\ p.match[j] < j
              /\ p.match[p.match[j]] = j
         /\ \A i, h \in I!PositionsOf(p, {"["}) :
              ~ (i < h /\ h < p.match[i] /\ p.match[i] < p.match[h])
<1>1. I!WellNested(p) /\ p.code \in Seq(I!Instructions) /\ p.input \in Seq(I!Cells)
  BY Assumptions DEF I!Cells
<1>2. \A i \in I!PositionsOf(p, {"["}) \cup I!PositionsOf(p, {"]"}) : p.match[p.match[i]] = i
  BY <1>1 DEF I!WellNested
<1>3. \A i \in I!PositionsOf(p, {"["}) : p.match[i] \in I!PositionsOf(p, {"]"}) /\ i < p.match[i]
  BY <1>1 DEF I!WellNested
<1>4. \A j \in I!PositionsOf(p, {"]"}) : p.match[j] \in I!PositionsOf(p, {"["}) /\ p.match[j] < j
  BY <1>1, <1>2, <1>3 DEF I!WellNested
<1>5. \A i, h \in I!PositionsOf(p, {"["}) :
              ~ (i < h /\ h < p.match[i] /\ p.match[i] < p.match[h])
  BY <1>1 DEF I!WellNested
<1> QED BY <1>1, <1>2, <1>3, <1>4, <1>5

(* What std::cin.get() leaves in a cell and in the stream.                  *)
LEMMA InputFacts ==
  ASSUME NEW u \in Seq(I!Cells)
  PROVE  I!NextChar(u) % CellSize \in I!Cells /\ I!AfterNext(u) \in Seq(I!Cells)
<1>1. I!NextChar(u) \in Int
  BY SizeAssumption DEF I!NextChar, I!EOF, I!Cells
<1>2. I!AfterNext(u) \in Seq(I!Cells)
  BY DEF I!AfterNext
<1> QED BY <1>1, <1>2, ModRange, SizeAssumption DEF I!Cells

-------------------------------------------------------------------------------
(* What is invariant of the interpreter. *)

InterpreterInv == I!TypeOK /\ I!BracketsPairUp

(* Nothing is loaded at the start.                                          *)
LEMMA InterpreterInvInit == I!Init => InterpreterInv
<1> SUFFICES ASSUME I!Init PROVE InterpreterInv
  OBVIOUS
<1>1. prog \in Programs /\ Len(prog.code) \in Nat /\ prog.input \in Seq(I!Cells)
  BY ProgramFacts DEF I!Init
<1>2. 0 \in I!Cells
  BY SizeAssumption DEF I!Cells
<1>3. I!TypeOK
  BY <1>1, <1>2, SizeAssumption DEF I!Init, I!TypeOK
<1>4. \A i \in I!PositionsOf(prog, I!Brackets) : ~ (i <= 0)
  BY <1>1 DEF I!PositionsOf
<1>5. I!BracketsPairUp
  BY <1>1, <1>4 DEF I!Init, I!BracketsPairUp, I!BothLoaded, I!Brackets1, I!PositionsOf, I!Brackets
<1> QED BY <1>3, <1>5 DEF InterpreterInv

(* Loading one instruction keeps the open brackets on the stack and the     *)
(* others in the table: the top of the stack is the partner of the closing  *)
(* bracket that is loaded, because pairs do not cross.                      *)
LEMMA LoadStep ==
  ASSUME InterpreterInv, I!Load
  PROVE  I!BracketsPairUp' /\ stack' \in Seq(1..Len(prog.code))
<1> DEFINE n == loaded + 1
           L == Len(prog.code)
           Opens == I!PositionsOf(prog, {"["})
           Closes == I!PositionsOf(prog, {"]"})
<1>0. /\ prog \in Programs /\ prog' = prog /\ L \in Nat /\ loaded \in 0..L
      /\ n \in 1..L /\ loaded' = n /\ stack \in Seq(1..L)
      /\ Len(stack) \in Nat /\ DOMAIN stack = 1..Len(stack)
  BY ProgramFacts DEF InterpreterInv, I!TypeOK, I!Load
<1>1. /\ I!PositionsOf(prog, I!Brackets) = Opens \cup Closes
      /\ Opens \subseteq 1..L /\ Closes \subseteq 1..L
      /\ Opens \cap Closes = {}
  BY DEF I!PositionsOf, I!Brackets
<1>2. /\ \A s, t \in DOMAIN stack : s < t => stack[s] < stack[t]
      /\ {stack[s] : s \in DOMAIN stack} = {i \in Opens : i <= loaded /\ loaded < prog.match[i]}
      /\ DOMAIN jump_table_ = I!BothLoaded
      /\ \A i \in I!BothLoaded : jump_table_[i] = prog.match[i]
  BY DEF InterpreterInv, I!BracketsPairUp, I!Brackets1
<1>w. /\ \A s \in DOMAIN stack : stack[s] \in Opens /\ stack[s] <= loaded /\ loaded < prog.match[stack[s]]
      /\ \A i \in Opens : i <= loaded /\ loaded < prog.match[i] => \E s \in DOMAIN stack : stack[s] = i
  <2>1. \A s \in DOMAIN stack : stack[s] \in {stack[t] : t \in DOMAIN stack}
    OBVIOUS
  <2>2. \A i \in {stack[t] : t \in DOMAIN stack} : \E s \in DOMAIN stack : stack[s] = i
    OBVIOUS
  <2> QED BY <1>2, <2>1, <2>2
<1> USE <1>0
<1>3. CASE prog.code[n] = "["
  <2>1. n \in Opens /\ n \notin Closes
    BY <1>3, <1>1 DEF I!PositionsOf
  <2>2. stack' = Append(stack, n) /\ jump_table_' = jump_table_
    BY <1>3 DEF I!Load, I!Brackets
  <2>3. I!BothLoaded' = I!BothLoaded
    BY <1>1, <2>1, ProgramFacts DEF I!BothLoaded
  <2>4. {stack'[s] : s \in DOMAIN stack'} = {stack[s] : s \in DOMAIN stack} \cup {n}
    BY <2>2
  <2>5. {i \in Opens : i <= n /\ n < prog.match[i]}
           = {i \in Opens : i <= loaded /\ loaded < prog.match[i]} \cup {n}
    BY <1>1, <2>1, ProgramFacts
  <2>6. \A s, t \in DOMAIN stack' : s < t => stack'[s] < stack'[t]
    <3>1. \A s \in DOMAIN stack : stack[s] < n
      BY <1>w, <1>1
    <3> QED BY <1>2, <2>2, <3>1
  <2>7. stack' \in Seq(1..L)
    BY <2>2
  <2> QED BY <1>2, <2>2, <2>3, <2>4, <2>5, <2>6, <2>7 DEF I!BracketsPairUp, I!Brackets1
<1>4. CASE prog.code[n] = "]"
  <2> DEFINE m == prog.match[n]
  <2>1. n \in Closes /\ n \notin Opens
    BY <1>4, <1>1 DEF I!PositionsOf
  <2>2. m \in Opens /\ m < n /\ prog.match[m] = n
    BY <2>1, ProgramFacts
  <2>3. PICK s \in DOMAIN stack : stack[s] = m
    <3>1. m \in Int /\ m <= loaded /\ loaded < prog.match[m]
      BY <1>1, <2>2
    <3> QED BY <1>w, <2>2, <3>1
  <2>4. Len(stack) \in DOMAIN stack /\ s <= Len(stack)
    BY <2>3
  <2>5. stack[Len(stack)] = m
    <3> DEFINE t == stack[Len(stack)]
    <3>1. t \in Opens /\ t <= loaded /\ loaded < prog.match[t]
      BY <1>2, <2>4
    <3>2. CASE s = Len(stack)
      BY <2>3, <3>2
    <3>3. CASE s < Len(stack)
      <4>1. m < t
        BY <1>2, <2>3, <2>4, <3>3
      <4>2. prog.match[t] # n
        BY <2>2, <3>1, <4>1, <1>1, ProgramFacts
      <4>3. n < prog.match[t]
        BY <3>1, <4>2, ProgramFacts, <1>1
      <4> QED BY <2>2, <3>1, <4>1, <4>3, ProgramFacts, <1>1
    <3> QED BY <2>4, <3>2, <3>3
  <2>6. stack' = I!Popped /\ jump_table_' = I!Paired(m, n)
    BY <1>4, <2>5 DEF I!Load, I!Brackets
  <2>7. /\ stack' \in Seq(1..L) /\ DOMAIN stack' = 1..(Len(stack) - 1)
        /\ \A u \in DOMAIN stack' : stack'[u] = stack[u] /\ u \in DOMAIN stack
    <3> DEFINE S == SubSeq(stack, 1, Len(stack) - 1)
    <3>1. \A i \in 1..(Len(stack) - 1) : stack[i] \in 1..L
      BY <1>w, <1>1
    <3>2. S \in Seq(1..L)
      BY <3>1, SubSeqProperties
    <3>3. Len(S) = Len(stack) - 1 /\ \A i \in 1..(Len(stack) - 1) : S[i] = stack[i]
      BY <2>4
    <3>4. DOMAIN S = 1..(Len(stack) - 1)
      BY <3>2, <3>3
    <3>5. stack' = S
      BY <2>6 DEF I!Popped
    <3> HIDE DEF S
    <3>6. stack' \in Seq(1..L) /\ DOMAIN stack' = 1..(Len(stack) - 1)
      BY <3>2, <3>4, <3>5
    <3>7. \A u \in 1..(Len(stack) - 1) : u \in DOMAIN stack
      BY <2>4
    <3>8. \A u \in 1..(Len(stack) - 1) : stack'[u] = stack[u]
      BY <3>3, <3>5
    <3> QED BY <3>6, <3>7, <3>8
  <2>8. \A u, t \in DOMAIN stack' : u < t => stack'[u] < stack'[t]
    BY <1>2, <2>7
  <2>9. {stack'[u] : u \in DOMAIN stack'} = {i \in Opens : i <= n /\ n < prog.match[i]}
    <3>1. \A u \in DOMAIN stack' : stack[u] # m /\ u < Len(stack)
      <4> SUFFICES ASSUME NEW u \in DOMAIN stack' PROVE stack[u] # m /\ u < Len(stack)
        OBVIOUS
      <4>1. u \in DOMAIN stack /\ u < Len(stack)
        BY <2>7
      <4>2. stack[u] < stack[Len(stack)]
        BY <1>2, <2>4, <4>1
      <4>3. stack[u] \in Int /\ m \in Int
        BY <1>w, <1>1, <2>2, <4>1
      <4> QED BY <2>5, <4>1, <4>2, <4>3
    <3>2. \A u \in DOMAIN stack : u \in DOMAIN stack' \/ stack[u] = m
      <4> SUFFICES ASSUME NEW u \in DOMAIN stack, stack[u] # m PROVE u \in DOMAIN stack'
        OBVIOUS
      <4>1. u # Len(stack) /\ u \in 1..Len(stack)
        BY <2>5
      <4>2. u \in 1..(Len(stack) - 1)
        BY <4>1
      <4> QED BY <2>7, <4>2
    <3>3. {stack'[u] : u \in DOMAIN stack'} = {stack[u] : u \in DOMAIN stack} \ {m}
      BY <2>7, <3>1, <3>2
    <3>4. {i \in Opens : i <= n /\ n < prog.match[i]}
            = {i \in Opens : i <= loaded /\ loaded < prog.match[i]} \ {m}
      <4>1. \A i \in Opens : prog.match[i] = n => i = m
        BY <1>1, ProgramFacts
      <4>2. \A i \in Opens : prog.match[i] \in 1..L
        BY <1>1, ProgramFacts
      <4> QED BY <1>1, <2>1, <2>2, <4>1, <4>2
    <3> QED BY <1>2, <3>3, <3>4
  <2>10. I!BothLoaded' = I!BothLoaded \cup {m, n}
    <3>1. \A i \in Opens \cup Closes : prog.match[i] \in 1..L /\ prog.match[prog.match[i]] = i
      BY <1>1, ProgramFacts
    <3> QED BY <1>1, <2>1, <2>2, <3>1 DEF I!BothLoaded
  <2>11. m \notin I!BothLoaded /\ n \notin I!BothLoaded
    BY <2>2, <1>1 DEF I!BothLoaded
  <2>12. DOMAIN jump_table_' = I!BothLoaded'
    BY <1>2, <2>6, <2>10 DEF I!Paired
  <2>13. \A i \in I!BothLoaded' : jump_table_'[i] = prog.match[i]
    BY <1>2, <2>2, <2>6, <2>10, <2>11 DEF I!Paired
  <2> QED BY <2>7, <2>8, <2>9, <2>12, <2>13 DEF I!BracketsPairUp, I!Brackets1
<1>5. CASE prog.code[n] \notin I!Brackets
  <2>1. n \notin Opens /\ n \notin Closes
    BY <1>5 DEF I!PositionsOf, I!Brackets
  <2>2. stack' = stack /\ jump_table_' = jump_table_
    BY <1>5 DEF I!Load, I!Brackets
  <2>3. \A i \in Opens \cup Closes : prog.match[i] \in 1..L /\ prog.match[i] # n /\ i # n
    BY <1>1, <2>1, ProgramFacts
  <2>4. I!BothLoaded' = I!BothLoaded
    BY <1>1, <2>1, <2>3 DEF I!BothLoaded
  <2>5. {i \in Opens : i <= n /\ n < prog.match[i]}
           = {i \in Opens : i <= loaded /\ loaded < prog.match[i]}
    BY <1>1, <2>1, <2>3
  <2> QED BY <1>2, <2>2, <2>4, <2>5 DEF I!BracketsPairUp, I!Brackets1
<1> QED BY <1>3, <1>4, <1>5 DEF I!Brackets

(* When the loop over instructions_ runs, jump_table_ leads from every      *)
(* bracket to its partner.                                                  *)
LEMMA JumpsLeadToPartners ==
  ASSUME InterpreterInv, iphase = "running", NEW i \in I!PositionsOf(prog, I!Brackets)
  PROVE  /\ jump_table_[i] = prog.match[i]
         /\ prog.match[i] \in 1..Len(prog.code)
<1>1. prog \in Programs /\ loaded = Len(prog.code) /\ Len(prog.code) \in Nat
  BY ProgramFacts DEF InterpreterInv, I!TypeOK
<1>2. i \in 1..Len(prog.code) /\ i \in I!PositionsOf(prog, {"["}) \cup I!PositionsOf(prog, {"]"})
  BY DEF I!PositionsOf, I!Brackets
<1>3. prog.match[i] \in 1..Len(prog.code)
  BY <1>1, <1>2, ProgramFacts DEF I!PositionsOf
<1>4. i \in I!BothLoaded
  BY <1>1, <1>2, <1>3 DEF I!BothLoaded
<1> QED BY <1>3, <1>4 DEF InterpreterInv, I!BracketsPairUp

(* The running interpreter stands at an instruction of the program or       *)
(* behind its last one.                                                     *)
LEMMA RoundFacts ==
  ASSUME InterpreterInv, NEW cs, NEW at, I!Round(cs, at)
  PROVE  /\ prog \in Programs /\ prog' = prog
         /\ iphase = "running" /\ loaded = Len(prog.code)
         /\ pc_ \in 1..Len(prog.code) /\ Len(prog.code) \in Nat
         /\ prog.code[pc_] \in cs /\ pc_ \in I!PositionsOf(prog, cs)
         /\ pc_' = at + 1
<1>1. prog \in Programs /\ loaded = Len(prog.code) /\ Len(prog.code) \in Nat
  BY ProgramFacts DEF InterpreterInv, I!TypeOK, I!Round
<1> QED BY <1>1 DEF InterpreterInv, I!TypeOK, I!Round, I!PositionsOf

(* A step of the program keeps the types: the jumps stay inside it.         *)
LEMMA InterpreterRunStep ==
  ASSUME InterpreterInv,
         I!Move \/ I!Change \/ I!Put \/ I!Get \/ I!OpenBracket \/ I!CloseBracket \/ I!AccessOutside
  PROVE  I!TypeOK'
<1> DEFINE L == Len(prog.code)
<1>0. /\ data_ptr_ \in 0..(SizeTSpace - 1) /\ memory_ \in [I!Addresses -> I!Cells]
      /\ cin \in Seq(I!Cells) /\ cout \in Seq(I!Cells)
      /\ stack \in Seq(1..L) /\ loaded \in 0..L /\ L \in Nat /\ pc_ \in 1..(L + 1)
  BY ProgramFacts DEF InterpreterInv, I!TypeOK
<1>r. ASSUME NEW cs, NEW at, I!Round(cs, at), iphase' = iphase, at \in 0..L,
             data_ptr_' \in 0..(SizeTSpace - 1), memory_' \in [I!Addresses -> I!Cells],
             cin' \in Seq(I!Cells), cout' \in Seq(I!Cells)
      PROVE  I!TypeOK'
  <2>1. /\ prog' = prog /\ prog \in Programs /\ iphase' = "running" /\ loaded = L /\ L \in Nat
        /\ pc_' = at + 1
    BY <1>r, RoundFacts
  <2>2. loaded' = loaded /\ stack' = stack
    BY <1>r DEF I!Round, I!loadVars
  <2> QED BY <1>0, <1>r, <2>1, <2>2 DEF I!TypeOK
<1>p. ASSUME NEW cs, NEW at, I!Round(cs, at) PROVE pc_ \in 0..L
  BY <1>0, <1>p DEF I!Round
<1>j. ASSUME NEW c, c \in I!Brackets, NEW at, I!Round({c}, at)
      PROVE  jump_table_[pc_] \in 1..L /\ pc_ \in 1..L
  <2>1. pc_ \in 1..L /\ iphase = "running" /\ prog.code[pc_] = c
    BY <1>j, RoundFacts
  <2>2. pc_ \in I!PositionsOf(prog, I!Brackets)
    BY <1>j, <2>1 DEF I!PositionsOf
  <2> QED BY <2>1, <2>2, JumpsLeadToPartners
<1>1. CASE I!Move
  <2> DEFINE moved == data_ptr_ + I!Step(prog.code[pc_])
  <2>1. moved \in Int
    BY <1>0, SizeAssumption DEF I!Step
  <2>a. moved % SizeTSpace \in 0..(SizeTSpace - 1)
    BY <2>1, ModRange, SizeAssumption
  <2>2. data_ptr_' \in 0..(SizeTSpace - 1)
    BY <1>1, <2>a DEF I!Move
  <2>3. I!Round(I!Moves, pc_) /\ UNCHANGED <<iphase, memory_, cin, cout>>
    BY <1>1 DEF I!Move
  <2> QED BY <1>0, <1>p, <1>r, <2>2, <2>3
<1>2. CASE I!Change
  <2> DEFINE changed == memory_[data_ptr_] + I!Step(prog.code[pc_])
  <2>1. changed \in Int
    BY <1>0, <1>2, SizeAssumption DEF I!Step, I!Change, I!Cells
  <2>2. changed % CellSize \in I!Cells
    BY <2>1, ModRange, SizeAssumption DEF I!Cells
  <2>3. memory_' \in [I!Addresses -> I!Cells]
    BY <1>0, <1>2, <2>2 DEF I!Change
  <2>4. I!Round(I!Changes, pc_) /\ UNCHANGED <<iphase, data_ptr_, cin, cout>>
    BY <1>2 DEF I!Change
  <2> QED BY <1>0, <1>p, <1>r, <2>3, <2>4
<1>3. CASE I!Put
  <2>1. cout' \in Seq(I!Cells)
    BY <1>0, <1>3 DEF I!Put
  <2>2. I!Round({"."}, pc_) /\ UNCHANGED <<iphase, data_ptr_, memory_, cin>>
    BY <1>3 DEF I!Put
  <2> QED BY <1>0, <1>p, <1>r, <2>1, <2>2
<1>4. CASE I!Get
  <2>1. memory_' \in [I!Addresses -> I!Cells] /\ cin' \in Seq(I!Cells)
    BY <1>0, <1>4, InputFacts DEF I!Get
  <2>2. I!Round({","}, pc_) /\ UNCHANGED <<iphase, data_ptr_, cout>>
    BY <1>4 DEF I!Get
  <2>3. pc_ \in 0..L
    BY <1>p, <2>2
  <2>4. /\ iphase' = iphase /\ data_ptr_' \in 0..(SizeTSpace - 1) /\ cout' \in Seq(I!Cells)
    BY <1>0, <2>2
  <2>5. I!Round({","}, pc_)
    BY <2>2
  <2> QED BY <1>r, <2>1, <2>3, <2>4, <2>5
<1>5. CASE I!OpenBracket
  <2> DEFINE at == IF memory_[data_ptr_] = 0 THEN jump_table_[pc_] ELSE pc_
  <2>1. I!Round({"["}, at) /\ UNCHANGED <<iphase, data_ptr_, memory_, cin, cout>>
    BY <1>5 DEF I!OpenBracket
  <2>2. jump_table_[pc_] \in 1..L /\ pc_ \in 1..L
    BY <1>j, <2>1 DEF I!Brackets
  <2>3. at \in 0..L
    BY <2>2
  <2> QED BY <1>0, <1>r, <2>1, <2>3
<1>6. CASE I!CloseBracket
  <2> DEFINE at == IF memory_[data_ptr_] # 0 THEN jump_table_[pc_] - 1 ELSE pc_
  <2>1. I!Round({"]"}, at) /\ UNCHANGED <<iphase, data_ptr_, memory_, cin, cout>>
    BY <1>6 DEF I!CloseBracket
  <2>2. jump_table_[pc_] \in 1..L /\ pc_ \in 1..L
    BY <1>j, <2>1 DEF I!Brackets
  <2>3. at \in 0..L
    BY <2>2
  <2> QED BY <1>0, <1>r, <2>1, <2>3
<1>7. CASE I!AccessOutside
  BY <1>7 DEF I!AccessOutside, I!loadVars, I!runVars, InterpreterInv, I!TypeOK
<1> QED BY <1>1, <1>2, <1>3, <1>4, <1>5, <1>6, <1>7

(* Every step keeps the invariant; only loading touches the brackets.       *)
LEMMA InterpreterInvStep ==
  ASSUME InterpreterInv, [I!Next]_(I!vars)
  PROVE  InterpreterInv'
<1>1. CASE I!Load
  <2>1. loaded' \in 0..Len(prog.code)
    BY <1>1, ProgramFacts DEF I!Load, InterpreterInv, I!TypeOK
  <2> QED BY <1>1, <2>1, LoadStep DEF I!Load, I!runVars, InterpreterInv, I!TypeOK
<1>2. ASSUME UNCHANGED <<prog, I!loadVars>> PROVE I!BracketsPairUp'
  BY <1>2 DEF InterpreterInv, I!BracketsPairUp, I!BothLoaded, I!Brackets1, I!loadVars
<1>3. CASE I!Start
  <2>1. I!TypeOK'
    BY <1>3 DEF I!Start, InterpreterInv, I!TypeOK, I!loadVars, I!runVars
  <2> QED BY <1>2, <1>3, <2>1 DEF I!Start, InterpreterInv
<1>4. CASE I!Move \/ I!Change \/ I!Put \/ I!Get \/ I!OpenBracket \/ I!CloseBracket \/ I!AccessOutside
  <2>1. UNCHANGED <<prog, I!loadVars>>
    BY <1>4 DEF I!Move, I!Change, I!Put, I!Get, I!OpenBracket, I!CloseBracket,
                I!AccessOutside, I!Round
  <2> QED BY <1>2, <1>4, <2>1, InterpreterRunStep DEF InterpreterInv
<1>5. CASE UNCHANGED I!vars
  <2>1. I!TypeOK'
    BY <1>5 DEF I!vars, InterpreterInv, I!TypeOK, I!loadVars, I!runVars
  <2> QED BY <1>2, <1>5, <2>1 DEF I!vars, InterpreterInv
<1> QED BY <1>1, <1>3, <1>4, <1>5 DEF I!Next

(* The inductive invariant holds throughout.                                *)
LEMMA InterpreterInvTheorem == I!Spec => []InterpreterInv
<1>1. InterpreterInv /\ [I!Next]_(I!vars) => InterpreterInv'
  BY InterpreterInvStep
<1> QED BY InterpreterInvInit, <1>1, PTL DEF I!Spec

-------------------------------------------------------------------------------

(* The interpreter's state is what its declarations say, and pc_ never      *)
(* leaves the program but for its end: no jump goes astray.                 *)
THEOREM InterpreterTypeTheorem == I!Spec => []I!TypeOK
<1>1. InterpreterInv => I!TypeOK
  BY DEF InterpreterInv
<1> QED BY <1>1, InterpreterInvTheorem, PTL

(* The jump table pairs the brackets as the program's nesting does.         *)
THEOREM InterpreterBracketsTheorem == I!Spec => []I!BracketsPairUp
<1>1. InterpreterInv => I!BracketsPairUp
  BY DEF InterpreterInv
<1> QED BY <1>1, InterpreterInvTheorem, PTL

(* When all is loaded no bracket waits: its partner would be behind the end. *)
LEMMA InterpreterInvAssertion == InterpreterInv => I!AssertionHolds
<1> SUFFICES ASSUME InterpreterInv, loaded = Len(prog.code), stack # <<>> PROVE FALSE
  BY DEF I!AssertionHolds
<1>1. prog \in Programs /\ stack \in Seq(1..Len(prog.code))
  BY DEF InterpreterInv, I!TypeOK
<1>2. 1 \in DOMAIN stack
  BY <1>1
<1>3. stack[1] \in {stack[s] : s \in DOMAIN stack}
  BY <1>2
<1>4. stack[1] \in I!PositionsOf(prog, {"["}) /\ loaded < prog.match[stack[1]]
  BY <1>3 DEF InterpreterInv, I!BracketsPairUp, I!Brackets1
<1>5. prog.match[stack[1]] \in 1..Len(prog.code)
  BY <1>1, <1>4, ProgramFacts DEF I!PositionsOf
<1> QED BY <1>1, <1>4, <1>5, ProgramFacts

(* assert(stack.empty()) (BFInterpreter.cpp:54) does not fail on a program  *)
(* whose brackets pair up.                                                  *)
THEOREM InterpreterAssertionTheorem == I!Spec => []I!AssertionHolds
  BY InterpreterInvAssertion, InterpreterInvTheorem, PTL

-------------------------------------------------------------------------------
(* The interpreter implements the machine. *)

(* The machine's instance speaks of programs and cells as the interpreter.  *)
LEMMA SameMachine ==
  /\ I!Machine!Addresses = I!Addresses
  /\ I!Machine!Moves = I!Moves /\ I!Machine!Changes = I!Changes
  /\ I!Machine!Instructions = I!Instructions
  /\ \A c : I!Machine!Step(c) = I!Step(c)
  /\ \A u : I!Machine!NextChar(u) = I!NextChar(u) /\ I!Machine!AfterNext(u) = I!AfterNext(u)
  /\ \A p, cs : I!Machine!PositionsOf(p, cs) = I!PositionsOf(p, cs)
  BY DEF I!Machine!Addresses, I!Addresses, I!Machine!Moves, I!Moves, I!Machine!Changes, I!Changes,
         I!Machine!Instructions, I!Instructions, I!Machine!Brackets, I!Brackets, I!Machine!Step, I!Step,
         I!Machine!NextChar, I!NextChar, I!Machine!EOF, I!EOF, I!Machine!AfterNext, I!AfterNext,
         I!Machine!PositionsOf, I!PositionsOf

(* It starts where the machine starts.                                      *)
LEMMA InterpreterMachineInit == I!Init => I!Machine!Init
  BY SameMachine DEF I!Init, I!Machine!Init

(* A step of the interpreter is the step of the machine for the same        *)
(* instruction, or, while loading, no step of it.                           *)
LEMMA InterpreterMachineStep ==
  ASSUME InterpreterInv, [I!Next]_(I!vars)
  PROVE  [I!Machine!Next]_(I!Machine!vars)
<1> USE SameMachine
<1>r. ASSUME NEW cs, NEW at, I!Round(cs, at)
      PROVE  I!Machine!Next1(cs) /\ pc_' = at + 1
  <2>1. iphase = "running" /\ pc_ \in I!PositionsOf(prog, cs) /\ prog' = prog /\ pc_' = at + 1
    BY <1>r, RoundFacts
  <2> QED BY <2>1 DEF I!Machine!Next1
<1>j. ASSUME NEW c, c \in I!Brackets, NEW at, I!Round({c}, at)
      PROVE  jump_table_[pc_] = prog.match[pc_] /\ prog.match[pc_] \in Int
  <2>1. pc_ \in 1..Len(prog.code) /\ iphase = "running" /\ prog.code[pc_] = c
    BY <1>j, RoundFacts
  <2>2. pc_ \in I!PositionsOf(prog, I!Brackets)
    BY <1>j, <2>1 DEF I!PositionsOf
  <2> QED BY <2>2, <2>1, JumpsLeadToPartners
<1>1. CASE I!Load \/ I!Start \/ UNCHANGED I!vars
  BY <1>1 DEF I!Load, I!Start, I!vars, I!runVars, I!Machine!vars
<1>2. CASE I!Move
  <2>1. I!Machine!Next1(I!Moves) /\ pc_' = pc_ + 1
    BY <1>2, <1>r DEF I!Move
  <2>2. I!Machine!Move
    BY <1>2, <2>1 DEF I!Move, I!Machine!Move
  <2> QED BY <2>2 DEF I!Machine!Next
<1>3. CASE I!Change
  <2>1. I!Machine!Next1(I!Changes) /\ pc_' = pc_ + 1
    BY <1>3, <1>r DEF I!Change
  <2>2. I!Machine!Change
    BY <1>3, <2>1 DEF I!Change, I!Machine!Change
  <2> QED BY <2>2 DEF I!Machine!Next
<1>4. CASE I!Put
  <2>1. I!Machine!Next1({"."}) /\ pc_' = pc_ + 1
    BY <1>4, <1>r DEF I!Put
  <2>2. I!Machine!Write
    BY <1>4, <2>1 DEF I!Put, I!Machine!Write
  <2> QED BY <2>2 DEF I!Machine!Next
<1>5. CASE I!Get
  <2>1. I!Machine!Next1({","}) /\ pc_' = pc_ + 1
    BY <1>5, <1>r DEF I!Get
  <2>2. I!Machine!Read
    BY <1>5, <2>1 DEF I!Get, I!Machine!Read
  <2> QED BY <2>2 DEF I!Machine!Next
<1>6. CASE I!OpenBracket
  <2> DEFINE at == IF memory_[data_ptr_] = 0 THEN jump_table_[pc_] ELSE pc_
  <2>1. I!Round({"["}, at)
    BY <1>6 DEF I!OpenBracket
  <2>2. I!Machine!Next1({"["}) /\ pc_' = at + 1
    BY <2>1, <1>r
  <2>3. jump_table_[pc_] = prog.match[pc_]
    BY <2>1, <1>j DEF I!Brackets
  <2>4. I!Machine!Open
    BY <1>6, <2>2, <2>3 DEF I!OpenBracket, I!Machine!Open
  <2> QED BY <2>4 DEF I!Machine!Next
<1>7. CASE I!CloseBracket
  <2> DEFINE at == IF memory_[data_ptr_] # 0 THEN jump_table_[pc_] - 1 ELSE pc_
  <2>1. I!Round({"]"}, at)
    BY <1>7 DEF I!CloseBracket
  <2>2. I!Machine!Next1({"]"}) /\ pc_' = at + 1
    BY <2>1, <1>r
  <2>3. jump_table_[pc_] = prog.match[pc_] /\ prog.match[pc_] \in Int
    BY <2>1, <1>j DEF I!Brackets
  <2>4. pc_' = IF memory_[data_ptr_] = 0 THEN pc_ + 1 ELSE prog.match[pc_]
    BY <2>2, <2>3
  <2>5. I!Machine!Close
    BY <1>7, <2>2, <2>4 DEF I!CloseBracket, I!Machine!Close
  <2> QED BY <2>5 DEF I!Machine!Next
<1>8. CASE I!AccessOutside
  <2>1. pc_ \in I!PositionsOf(prog, I!Instructions \ I!Moves)
    <3>1. prog \in Programs /\ loaded = Len(prog.code) /\ prog.code \in Seq(I!Instructions)
      BY <1>8, ProgramFacts DEF I!AccessOutside, InterpreterInv, I!TypeOK
    <3>2. pc_ \in 1..Len(prog.code)
      BY <1>8, <3>1, ProgramFacts DEF I!AccessOutside, InterpreterInv, I!TypeOK
    <3>3. prog.code[pc_] \in I!Instructions
      BY <3>1, <3>2, ElementOfSeq
    <3> QED BY <1>8, <3>2, <3>3 DEF I!AccessOutside, I!PositionsOf
  <2>2. I!Machine!AccessOutside
    BY <1>8, <2>1 DEF I!AccessOutside, I!runVars, I!Machine!AccessOutside, I!Machine!Next1
  <2> QED BY <2>2 DEF I!Machine!Next
<1> QED BY <1>1, <1>2, <1>3, <1>4, <1>5, <1>6, <1>7, <1>8 DEF I!Next

(* The interpreter does what the program says (BFInterpreter.cpp:26-96),    *)
(* although its jump back repeats the test of the opening bracket.          *)
THEOREM InterpreterImplementsTheorem == I!Spec => I!ImplementsMachine
<1>1. InterpreterInv /\ [I!Next]_(I!vars) => [I!Machine!Next]_(I!Machine!vars)
  BY InterpreterMachineStep
<1> QED BY <1>1, InterpreterMachineInit, InterpreterInvTheorem, PTL
     DEF I!Spec, I!ImplementsMachine, I!Machine!Spec

-------------------------------------------------------------------------------
(* The two engines side by side. *)

\* what is invariant in each
Inv == InterpreterInv /\ J!Inv

(* Both start as they start alone.                                          *)
LEMMA InvInit == Init => Inv
<1>1. Init => I!Init /\ J!Init
  BY DEF Init, Interpreter!Init, I!Init, Interpreter!Addresses, I!Addresses,
         Jit!Init, J!Init, Jit!Addresses, J!Addresses,
         Jit!Entry, J!Entry, Jit!Empty, J!Empty, Jit!NoTerm, J!NoTerm
<1>2. I!Init => InterpreterInv
  BY InterpreterInvInit
<1>3. J!Init => J!Inv
  BY Assumptions, J!InvInit
<1> QED BY <1>1, <1>2, <1>3 DEF Inv

(* The interpreter's steps are those the proofs speak of.                   *)
LEMMA SameInterpreter == Interpreter!Next => I!Next
  BY DEF Interpreter!Next, I!Next, Interpreter!Load, I!Load, Interpreter!Start, I!Start,
         Interpreter!Move, I!Move, Interpreter!Change, I!Change, Interpreter!Put, I!Put,
         Interpreter!Get, I!Get, Interpreter!OpenBracket, I!OpenBracket,
         Interpreter!CloseBracket, I!CloseBracket, Interpreter!AccessOutside, I!AccessOutside,
         Interpreter!Round, I!Round, Interpreter!Paired, I!Paired, Interpreter!Popped, I!Popped,
         Interpreter!loadVars, I!loadVars, Interpreter!runVars, I!runVars,
         Interpreter!Addresses, I!Addresses, Interpreter!Step, I!Step,
         Interpreter!Moves, I!Moves, Interpreter!Changes, I!Changes,
         Interpreter!Brackets, I!Brackets, Interpreter!NextChar, I!NextChar,
         Interpreter!AfterNext, I!AfterNext, Interpreter!EOF, I!EOF

(* So are the compiler's.                                                   *)
LEMMA SameJit == Jit!Next => J!Next
  BY DEF Jit!Next, J!Next, Jit!EmitPlain, J!EmitPlain, Jit!EmitOpen, J!EmitOpen,
         Jit!EmitClose, J!EmitClose, Jit!EmitReturn, J!EmitReturn, Jit!Move, J!Move,
         Jit!Change, J!Change, Jit!PutChar, J!PutChar, Jit!GetChar, J!GetChar,
         Jit!CondBr, J!CondBr, Jit!AccessOutside, J!AccessOutside,
         Jit!Emitting, J!Emitting, Jit!Op, J!Op, Jit!AtBranch, J!AtBranch, Jit!AtOp, J!AtOp,
         Jit!Here, J!Here, Jit!Top, J!Top, Jit!Popped, J!Popped, Jit!Branch, J!Branch,
         Jit!Return, J!Return, Jit!Empty, J!Empty, Jit!NoTerm, J!NoTerm,
         Jit!Body, J!Body, Jit!Exit, J!Exit, Jit!emitVars, J!emitVars, Jit!runVars, J!runVars,
         Jit!PositionsOf, J!PositionsOf, Jit!Addresses, J!Addresses, Jit!Step, J!Step,
         Jit!Instructions, J!Instructions, Jit!Moves, J!Moves, Jit!Changes, J!Changes,
         Jit!Brackets, J!Brackets, Jit!NextChar, J!NextChar, Jit!AfterNext, J!AfterNext,
         Jit!EOF, J!EOF

(* A step of either engine is a step or a stutter of both, alone.           *)
LEMMA EngineSteps ==
  ASSUME [Next]_vars
  PROVE  [I!Next]_(I!vars) /\ [J!Next]_(J!vars)
<1>2. CASE InterpreterSteps
  <2>1. I!Next
    BY <1>2, SameInterpreter DEF InterpreterSteps
  <2>2. prog' = prog
    BY <2>1 DEF I!Next, I!Load, I!Start, I!Move, I!Change, I!Put, I!Get, I!OpenBracket,
                I!CloseBracket, I!AccessOutside, I!Round
  <2>3. UNCHANGED J!vars
    BY <1>2, <2>2 DEF InterpreterSteps, jvars, J!vars, J!emitVars, J!runVars
  <2> QED BY <2>1, <2>3
<1>3. CASE JitSteps
  <2>1. J!Next
    BY <1>3, SameJit DEF JitSteps
  <2>2. prog' = prog
    BY <2>1 DEF J!Next, J!EmitPlain, J!EmitOpen, J!EmitClose, J!EmitReturn, J!Move, J!Change,
                J!PutChar, J!GetChar, J!CondBr, J!AccessOutside, J!Emitting, J!Op
  <2>3. UNCHANGED I!vars
    BY <1>3, <2>2 DEF JitSteps, ivars, I!vars, I!loadVars, I!runVars
  <2> QED BY <2>1, <2>3
<1>4. CASE UNCHANGED vars
  BY <1>4 DEF vars, ivars, jvars, I!vars, I!loadVars, I!runVars, J!vars, J!emitVars, J!runVars
<1> QED BY <1>2, <1>3, <1>4 DEF Next

(* So what is invariant in each stays so.                                   *)
LEMMA InvStep ==
  ASSUME Inv, [Next]_vars
  PROVE  Inv'
<1>1. InterpreterInv'
  BY EngineSteps, InterpreterInvStep DEF Inv
<1>2. J!Inv'
  BY Assumptions, EngineSteps, J!InvStep DEF Inv
<1> QED BY <1>1, <1>2 DEF Inv

(* The invariants hold throughout.                                          *)
LEMMA InvTheorem == Spec => []Inv
<1>1. Inv /\ [Next]_vars => Inv'
  BY InvStep
<1> QED BY InvInit, <1>1, PTL DEF Spec

-------------------------------------------------------------------------------

(* Neither engine's state leaves its types.                                 *)
THEOREM TypeTheorem == Spec => []TypeOK
<1>1. Inv => Interpreter!TypeOK
  BY DEF Inv, InterpreterInv, I!TypeOK, Interpreter!TypeOK, I!Addresses, Interpreter!Addresses,
         I!Cells, Interpreter!Cells
<1>2. J!Inv => J!TypeOK
  BY Assumptions, J!InvTypes
<1>3. Inv => Jit!TypeOK
  BY <1>2 DEF Inv, J!TypeOK, Jit!TypeOK, J!Addresses, Jit!Addresses, J!Cells, Jit!Cells
<1>4. Inv => TypeOK
  BY <1>1, <1>3 DEF TypeOK
<1> QED BY <1>4, InvTheorem, PTL

(* The interpreter's table pairs the brackets, whatever the compiler does.  *)
THEOREM BracketsTheorem == Spec => []BracketsPairUp
<1>1. Inv => BracketsPairUp
  BY DEF Inv, InterpreterInv, BracketsPairUp, I!BracketsPairUp, Interpreter!BracketsPairUp,
         I!Brackets1, Interpreter!Brackets1, I!BothLoaded, Interpreter!BothLoaded,
         I!PositionsOf, Interpreter!PositionsOf, I!Brackets, Interpreter!Brackets
<1> QED BY <1>1, InvTheorem, PTL

(* Its assertion (BFInterpreter.cpp:54) does not fail.                      *)
THEOREM AssertionTheorem == Spec => []AssertionHolds
<1>1. InterpreterInv => I!AssertionHolds
  BY InterpreterInvAssertion
<1>2. Inv => AssertionHolds
  BY <1>1 DEF Inv, AssertionHolds, I!AssertionHolds, Interpreter!AssertionHolds
<1> QED BY <1>2, InvTheorem, PTL

(* The function that is emitted for a program (main.cpp:199) is well formed *)
(* and has the code of each instruction once.                               *)
THEOREM WellFormedTheorem == Spec => []FunctionIsWellFormed
<1>1. J!Inv => J!FunctionIsWellFormed
  BY Assumptions, J!InvWellFormed
<1>2. Inv => FunctionIsWellFormed
  BY <1>1 DEF Inv, FunctionIsWellFormed, J!FunctionIsWellFormed, Jit!FunctionIsWellFormed,
              J!EndsIn, Jit!EndsIn, J!BlocksOf, Jit!BlocksOf
<1> QED BY <1>2, InvTheorem, PTL

(* The interpreter does what the program says, at whatever pace the         *)
(* compiler and its function go.                                            *)
THEOREM InterpreterTheorem == Spec => InterpreterImplementsMachine
<1>1. InterpreterInv /\ [I!Next]_(I!vars) => [I!Machine!Next]_(I!Machine!vars)
  BY InterpreterMachineStep
<1>2. Init => Interpreter!Machine!Init
  BY DEF Init, Interpreter!Init, Interpreter!Machine!Init, Interpreter!Addresses, Interpreter!Machine!Addresses
<1>3. Inv /\ [Next]_vars => [Interpreter!Machine!Next]_(Interpreter!Machine!vars)
  <2> SUFFICES ASSUME Inv, [Next]_vars PROVE [Interpreter!Machine!Next]_(Interpreter!Machine!vars)
    OBVIOUS
  <2>1. [I!Machine!Next]_(I!Machine!vars)
    BY <1>1, EngineSteps DEF Inv
  <2>2. CASE UNCHANGED I!Machine!vars
    BY <2>2 DEF I!Machine!vars, Interpreter!Machine!vars
  <2>3. CASE I!Machine!Next
    BY <2>3 DEF I!Machine!Next, Interpreter!Machine!Next, I!Machine!Next1, Interpreter!Machine!Next1,
                I!Machine!Move, Interpreter!Machine!Move, I!Machine!Change, Interpreter!Machine!Change,
                I!Machine!Write, Interpreter!Machine!Write, I!Machine!Read, Interpreter!Machine!Read,
                I!Machine!Open, Interpreter!Machine!Open, I!Machine!Close, Interpreter!Machine!Close,
                I!Machine!AccessOutside, Interpreter!Machine!AccessOutside,
                I!Machine!PositionsOf, Interpreter!Machine!PositionsOf, I!Machine!Step, Interpreter!Machine!Step,
                I!Machine!Moves, Interpreter!Machine!Moves, I!Machine!Changes, Interpreter!Machine!Changes,
                I!Machine!Brackets, Interpreter!Machine!Brackets,
                I!Machine!Instructions, Interpreter!Machine!Instructions,
                I!Machine!Addresses, Interpreter!Machine!Addresses,
                I!Machine!NextChar, Interpreter!Machine!NextChar,
                I!Machine!AfterNext, Interpreter!Machine!AfterNext, I!Machine!EOF, Interpreter!Machine!EOF
  <2> QED BY <2>1, <2>2, <2>3
<1> QED BY <1>2, <1>3, InvTheorem, PTL
     DEF Spec, InterpreterImplementsMachine, Interpreter!ImplementsMachine, Interpreter!Machine!Spec

(* The emitted function does what the program says, at whatever pace the    *)
(* interpreter goes.                                                        *)
THEOREM JitTheorem == Spec => JitImplementsMachine
<1>1. J!Inv /\ [J!Next]_(J!vars) => [J!Machine!Next]_(J!Machine!vars)
  BY Assumptions, J!MachineStep
<1>2. Init => Jit!Machine!Init
  BY DEF Init, Jit!Init, Jit!Machine!Init, Jit!Addresses, Jit!Machine!Addresses, Jit!At
<1>3. Inv /\ [Next]_vars => [Jit!Machine!Next]_(Jit!Machine!vars)
  <2> SUFFICES ASSUME Inv, [Next]_vars PROVE [Jit!Machine!Next]_(Jit!Machine!vars)
    OBVIOUS
  <2>1. [J!Machine!Next]_(J!Machine!vars)
    BY <1>1, EngineSteps DEF Inv
  <2>2. CASE UNCHANGED J!Machine!vars
    BY <2>2 DEF J!Machine!vars, Jit!Machine!vars, J!At, Jit!At, J!AtOp, Jit!AtOp, J!Here, Jit!Here
  <2>3. CASE J!Machine!Next
    BY <2>3 DEF J!Machine!Next, Jit!Machine!Next, J!Machine!Next1, Jit!Machine!Next1,
                J!At, Jit!At, J!AtOp, Jit!AtOp, J!Here, Jit!Here,
                J!Machine!Move, Jit!Machine!Move, J!Machine!Change, Jit!Machine!Change,
                J!Machine!Write, Jit!Machine!Write, J!Machine!Read, Jit!Machine!Read,
                J!Machine!Open, Jit!Machine!Open, J!Machine!Close, Jit!Machine!Close,
                J!Machine!AccessOutside, Jit!Machine!AccessOutside,
                J!Machine!PositionsOf, Jit!Machine!PositionsOf, J!Machine!Step, Jit!Machine!Step,
                J!Machine!Moves, Jit!Machine!Moves, J!Machine!Changes, Jit!Machine!Changes,
                J!Machine!Brackets, Jit!Machine!Brackets,
                J!Machine!Instructions, Jit!Machine!Instructions,
                J!Machine!Addresses, Jit!Machine!Addresses,
                J!Machine!NextChar, Jit!Machine!NextChar,
                J!Machine!AfterNext, Jit!Machine!AfterNext, J!Machine!EOF, Jit!Machine!EOF
  <2> QED BY <2>1, <2>2, <2>3
<1> QED BY <1>2, <1>3, InvTheorem, PTL
     DEF Spec, JitImplementsMachine, Jit!ImplementsMachine, Jit!Machine!Spec

-------------------------------------------------------------------------------
(* The engines agree: both follow one run of the program, in which the data *)
(* pointer never wraps around and a loop is repeated behind its test.       *)

\* the states of program p
States(p) ==
  [at : 1..(Len(p.code) + 1), ptr : Int, mem : [Addresses -> Cells],
   unread : Seq(Cells), output : Seq(Cells), defined : BOOLEAN]

\* what "+" or "-" and what "," make of the cells
Changed(mem, ptr, c)   == [mem EXCEPT ![ptr] = (@ + Step(c)) % CellSize]
Filled(mem, ptr, rest) == [mem EXCEPT ![ptr] = NextChar(rest) % CellSize]

\* the instruction at s takes p from s to s1, where moved is what a move makes of the data pointer and
\* again the places at which a loop may be repeated
Turn(p, s, s1, moved, again) ==
  LET c == p.code[s.at]
  IN  /\ s.defined
      /\ s.at \in 1..Len(p.code)
      /\ \/ /\ c \in Moves
            /\ s1.at = s.at + 1 /\ s1.ptr = moved /\ s1.mem = s.mem
            /\ s1.unread = s.unread /\ s1.output = s.output /\ s1.defined = s.defined
         \/ /\ c \in Changes /\ s.ptr \in Addresses
            /\ s1.mem = Changed(s.mem, s.ptr, c)
            /\ s1.at = s.at + 1 /\ s1.ptr = s.ptr
            /\ s1.unread = s.unread /\ s1.output = s.output /\ s1.defined = s.defined
         \/ /\ c = "." /\ s.ptr \in Addresses
            /\ s1.output = Append(s.output, s.mem[s.ptr])
            /\ s1.at = s.at + 1 /\ s1.ptr = s.ptr /\ s1.mem = s.mem
            /\ s1.unread = s.unread /\ s1.defined = s.defined
         \/ /\ c = "," /\ s.ptr \in Addresses
            /\ s1.mem = Filled(s.mem, s.ptr, s.unread)
            /\ s1.unread = AfterNext(s.unread)
            /\ s1.at = s.at + 1 /\ s1.ptr = s.ptr
            /\ s1.output = s.output /\ s1.defined = s.defined
         \/ /\ c = "[" /\ s.ptr \in Addresses
            /\ s1.at = (IF s.mem[s.ptr] = 0 THEN p.match[s.at] ELSE s.at) + 1
            /\ s1.ptr = s.ptr /\ s1.mem = s.mem
            /\ s1.unread = s.unread /\ s1.output = s.output /\ s1.defined = s.defined
         \/ /\ c = "]" /\ s.ptr \in Addresses
            /\ s1.at \in IF s.mem[s.ptr] = 0 THEN {s.at + 1} ELSE again
            /\ s1.ptr = s.ptr /\ s1.mem = s.mem
            /\ s1.unread = s.unread /\ s1.output = s.output /\ s1.defined = s.defined
         \/ /\ c \notin Moves /\ s.ptr \notin Addresses
            /\ s1.defined = FALSE
            /\ s1.at = s.at /\ s1.ptr = s.ptr /\ s1.mem = s.mem
            /\ s1.unread = s.unread /\ s1.output = s.output

\* a step of an engine whose data pointer has width values
EngineTurn(p, width, s, s1) ==
  Turn(p, s, s1, (s.ptr + Step(p.code[s.at])) % width, {p.match[s.at], p.match[s.at] + 1})

\* a step of the run
RunTurn(p, s, s1) == Turn(p, s, s1, s.ptr + Step(p.code[s.at]), {p.match[s.at] + 1})

\* at place s.at the data pointer is at most that far from the memory
Near(s) == 0 - s.at < s.ptr /\ s.ptr < MemorySize + s.at - 1

Start(p) == [at |-> 1, ptr |-> 0, mem |-> [a \in Addresses |-> 0],
             unread |-> p.input, output |-> <<>>, defined |-> TRUE]

\* t is what p runs through, up to some state; the output only grows
Run(p, t) ==
  /\ t \in Seq(States(p)) /\ t # <<>> /\ t[1] = Start(p)
  /\ \A n \in 1..(Len(t) - 1) : RunTurn(p, t[n], t[n+1])
  /\ \A n \in 1..Len(t) : Near(t[n])
  /\ \A n \in 1..Len(t) : \A m \in n..Len(t) : IsPrefix(t[n].output, t[m].output)

\* the engine in state s is at c, or back at the bracket whose test has just been made
Follows(p, width, s, c) ==
  /\ s.ptr = c.ptr % width
  /\ s.mem = c.mem /\ s.unread = c.unread /\ s.output = c.output /\ s.defined = c.defined
  /\ \/ s.at = c.at
     \/ /\ s.at \in 1..Len(p.code) /\ p.code[s.at] = "[" /\ c.at = s.at + 1
        /\ c.ptr \in Addresses /\ c.mem[c.ptr] # 0

(* A data pointer that wraps around at every step is the one that does not, *)
(* wrapped around once.                                                     *)
LEMMA WrapFacts ==
  ASSUME NEW a \in Int, NEW b \in Int, NEW m \in Int, m > 0
  PROVE  /\ ((a % m) + b) % m = (a + b) % m
         /\ 0 - m <= a /\ a < 0 => a % m = a + m
         /\ 0 <= a /\ a < m => a % m = a
<1>1. ((a % m) + b) % m = (a + b) % m
  BY Z3
<1>2. 0 - m <= a /\ a < 0 => a % m = a + m
  BY Z3
<1>3. 0 <= a /\ a < m => a % m = a
  BY Z3
<1> QED BY <1>1, <1>2, <1>3

(* The cells an engine reaches are those of the run: pointers that are out  *)
(* of the memory do not wrap into it.                                       *)
LEMMA SameCells ==
  ASSUME NEW p \in Programs, NEW width \in {SizeTSpace, Int32Space}, ShortPrograms,
         NEW c \in States(p), Near(c), c.at \in 1..Len(p.code)
  PROVE  /\ (c.ptr % width) \in Addresses <=> c.ptr \in Addresses
         /\ c.ptr \in Addresses => c.ptr % width = c.ptr
<1>1. /\ width \in Int /\ width > 0 /\ MemorySize \in Nat \ {0} /\ Len(p.code) \in Nat
      /\ Len(p.code) + MemorySize <= width
  BY SizeAssumption, ProgramAssumption DEF ShortPrograms
<1>2. PICK a \in Int : a = c.ptr /\ 0 - width + MemorySize <= a /\ a < width
  BY <1>1 DEF Near, States
<1>3. CASE a < 0
  <2>1. 0 - width <= a /\ a < 0 => a % width = a + width
    BY <1>1, WrapFacts
  <2> QED BY <1>1, <1>2, <1>3, <2>1 DEF Addresses
<1>4. CASE a >= 0
  <2>1. 0 <= a /\ a < width => a % width = a
    BY <1>1, WrapFacts
  <2> QED BY <1>2, <1>4, <2>1
<1> QED BY <1>2, <1>3, <1>4

(* A state has its parts.                                                   *)
LEMMA StateFacts ==
  ASSUME NEW p \in Programs, NEW c \in States(p)
  PROVE  /\ c.at \in 1..(Len(p.code) + 1) /\ c.ptr \in Int /\ c.mem \in [Addresses -> Cells]
         /\ c.unread \in Seq(Cells) /\ c.output \in Seq(Cells) /\ c.defined \in BOOLEAN
         /\ c.at \in 1..Len(p.code) =>
              /\ p.code[c.at] \in Instructions /\ Step(p.code[c.at]) \in {1, -1}
              /\ p.code[c.at] \in Brackets =>
                   /\ p.match[c.at] \in 1..Len(p.code)
                   /\ p.code[c.at] = "[" => p.match[c.at] > c.at
<1>1. /\ c.at \in 1..(Len(p.code) + 1) /\ c.ptr \in Int /\ c.mem \in [Addresses -> Cells]
      /\ c.unread \in Seq(Cells) /\ c.output \in Seq(Cells) /\ c.defined \in BOOLEAN
  BY DEF States
<1>2. WellNested(p) /\ p.code \in Seq(Instructions)
  BY ProgramAssumption
<1>3. ASSUME c.at \in 1..Len(p.code), p.code[c.at] \in Brackets
      PROVE  /\ p.match[c.at] \in 1..Len(p.code)
             /\ p.code[c.at] = "[" => p.match[c.at] > c.at
  <2>1. CASE p.code[c.at] = "["
    <3>1. c.at \in PositionsOf(p, {"["})
      BY <1>3, <2>1 DEF PositionsOf
    <3>2. p.match[c.at] \in PositionsOf(p, {"]"}) /\ c.at < p.match[c.at]
      BY <1>2, <3>1 DEF WellNested
    <3> QED BY <3>2 DEF PositionsOf
  <2>2. CASE p.code[c.at] = "]"
    <3>1. c.at \in PositionsOf(p, {"]"})
      BY <1>3, <2>2 DEF PositionsOf
    <3>2. p.match[c.at] \in PositionsOf(p, {"["})
      BY <1>2, <3>1 DEF WellNested
    <3> QED BY <2>2, <3>2 DEF PositionsOf
  <2> QED BY <1>3, <2>1, <2>2 DEF Brackets
<1> QED BY <1>1, <1>2, <1>3 DEF Step

(* While the program is neither through nor undefined, the run goes on.     *)
LEMMA RunGoesOn ==
  ASSUME NEW p \in Programs, NEW c \in States(p), c.defined, c.at \in 1..Len(p.code)
  PROVE  \E d \in States(p) : RunTurn(p, c, d)
<1> DEFINE i == p.code[c.at]
           S(at, ptr, mem, left, out, defined) ==
             [at |-> at, ptr |-> ptr, mem |-> mem, unread |-> left, output |-> out,
              defined |-> defined]
<1>0. /\ c.ptr \in Int /\ c.mem \in [Addresses -> Cells] /\ Len(p.code) \in Nat
      /\ c.unread \in Seq(Cells) /\ c.output \in Seq(Cells) /\ c.defined \in BOOLEAN
      /\ i \in Instructions /\ Step(i) \in {1, -1} /\ CellSize \in Nat \ {0}
      /\ i \in Brackets => p.match[c.at] \in 1..Len(p.code)
  BY StateFacts, ProgramAssumption, SizeAssumption
<1> HIDE DEF i
<1>1. CASE i \in Moves
  <2>1. PICK d : d = S(c.at + 1, c.ptr + Step(i), c.mem, c.unread, c.output, c.defined)
    OBVIOUS
  <2>2. d \in States(p)
    BY <1>0, <2>1 DEF States
  <2>3. RunTurn(p, c, d)
    BY <1>1, <2>1 DEF RunTurn, Turn, i
  <2> QED BY <2>2, <2>3
<1>2. CASE i \notin Moves /\ c.ptr \notin Addresses
  <2>1. PICK d : d = S(c.at, c.ptr, c.mem, c.unread, c.output, FALSE)
    OBVIOUS
  <2>2. d \in States(p)
    BY <1>0, <2>1 DEF States
  <2>3. RunTurn(p, c, d)
    BY <1>2, <2>1 DEF RunTurn, Turn, i
  <2> QED BY <2>2, <2>3
<1>3. CASE i \in Changes /\ c.ptr \in Addresses
  <2>1. PICK m : m = Changed(c.mem, c.ptr, i)
    OBVIOUS
  <2>2. m \in [Addresses -> Cells]
    <3>1. PICK a \in Int : a = c.mem[c.ptr] + Step(i)
      BY <1>0, <1>3 DEF Cells
    <3>2. a % CellSize \in Cells
      BY <1>0 DEF Cells
    <3> QED BY <1>0, <2>1, <3>1, <3>2 DEF Changed
  <2>3. PICK d : d = S(c.at + 1, c.ptr, m, c.unread, c.output, c.defined)
    OBVIOUS
  <2>4. d \in States(p)
    BY <1>0, <2>2, <2>3 DEF States
  <2>5. RunTurn(p, c, d)
    BY <1>3, <2>1, <2>3 DEF RunTurn, Turn, i
  <2> QED BY <2>4, <2>5
<1>4. CASE i = "." /\ c.ptr \in Addresses
  <2>1. PICK d : d = S(c.at + 1, c.ptr, c.mem, c.unread, Append(c.output, c.mem[c.ptr]), c.defined)
    OBVIOUS
  <2>2. d \in States(p)
    <3>1. Append(c.output, c.mem[c.ptr]) \in Seq(Cells)
      BY <1>0, <1>4
    <3> QED BY <1>0, <2>1, <3>1 DEF States
  <2>3. RunTurn(p, c, d)
    BY <1>4, <2>1 DEF RunTurn, Turn, i
  <2> QED BY <2>2, <2>3
<1>5. CASE i = "," /\ c.ptr \in Addresses
  <2>1. PICK m : m = Filled(c.mem, c.ptr, c.unread)
    OBVIOUS
  <2>2. m \in [Addresses -> Cells] /\ AfterNext(c.unread) \in Seq(Cells)
    <3>1. NextChar(c.unread) \in Int
      BY <1>0 DEF NextChar, EOF, Cells
    <3>2. NextChar(c.unread) % CellSize \in Cells
      BY <1>0, <3>1 DEF Cells
    <3>3. AfterNext(c.unread) \in Seq(Cells)
      BY <1>0 DEF AfterNext
    <3> QED BY <1>0, <2>1, <3>2, <3>3 DEF Filled
  <2>3. PICK d : d = S(c.at + 1, c.ptr, m, AfterNext(c.unread), c.output, c.defined)
    OBVIOUS
  <2>4. d \in States(p)
    BY <1>0, <2>2, <2>3 DEF States
  <2>5. RunTurn(p, c, d)
    BY <1>5, <2>1, <2>3 DEF RunTurn, Turn, i
  <2> QED BY <2>4, <2>5
<1>6. CASE i \in Brackets /\ c.ptr \in Addresses
  <2>1. PICK at \in 1..(Len(p.code) + 1) :
          at = IF (c.mem[c.ptr] = 0) = (i = "[") THEN p.match[c.at] + 1 ELSE c.at + 1
    BY <1>0, <1>6
  <2>2. PICK d : d = S(at, c.ptr, c.mem, c.unread, c.output, c.defined)
    OBVIOUS
  <2>3. d \in States(p)
    BY <1>0, <2>2 DEF States
  <2>4. RunTurn(p, c, d)
    BY <1>6, <2>1, <2>2 DEF RunTurn, Turn, i, Brackets
  <2> QED BY <2>3, <2>4
<1> QED BY <1>0, <1>1, <1>2, <1>3, <1>4, <1>5, <1>6 DEF Instructions

(* A step of the run keeps the pointer near and what was written.           *)
LEMMA RunTurnFacts ==
  ASSUME NEW p \in Programs, NEW c \in States(p), NEW d \in States(p), Near(c), RunTurn(p, c, d)
  PROVE  /\ Near(d)
         /\ d.output = c.output \/ \E e : d.output = Append(c.output, e)
<1>0. c.at \in 1..Len(p.code)
  BY DEF RunTurn, Turn
<1>1. /\ c.ptr \in Int /\ d.at \in 1..(Len(p.code) + 1) /\ d.ptr \in Int
      /\ Step(p.code[c.at]) \in {1, -1} /\ MemorySize \in Nat \ {0} /\ Len(p.code) \in Nat
  BY <1>0, StateFacts, SizeAssumption, ProgramAssumption
<1>2. \/ d.at = c.at + 1 /\ d.ptr = c.ptr + Step(p.code[c.at])
      \/ d.ptr = c.ptr /\ c.ptr \in Addresses
      \/ d.ptr = c.ptr /\ d.at = c.at
  BY DEF RunTurn, Turn
<1>3. Near(d)
  <2>1. PICK a \in Int, b \in Int, n \in 1..Len(p.code), m \in 1..(Len(p.code) + 1), e \in {1, -1} :
          a = c.ptr /\ b = d.ptr /\ n = c.at /\ m = d.at /\ e = Step(p.code[c.at])
    BY <1>0, <1>1
  <2>2. 0 - n < a /\ a < MemorySize + n - 1
    BY <2>1 DEF Near
  <2>3. (m = n + 1 /\ b = a + e) \/ (b = a /\ a \in 0..(MemorySize - 1)) \/ (b = a /\ m = n)
    BY <1>2, <2>1 DEF Addresses
  <2>4. 0 - m < b /\ b < MemorySize + m - 1
    BY <1>1, <2>2, <2>3
  <2> QED BY <2>1, <2>4 DEF Near
<1>4. d.output = c.output \/ \E e : d.output = Append(c.output, e)
  BY DEF RunTurn, Turn
<1> QED BY <1>3, <1>4

(* An engine that is at a state of the run does what the run does, but may  *)
(* go back to the bracket that the run has behind it.                       *)
LEMMA FollowsOn ==
  ASSUME NEW p \in Programs, NEW width \in {SizeTSpace, Int32Space}, ShortPrograms,
         NEW c \in States(p), Near(c), NEW d \in States(p), RunTurn(p, c, d),
         NEW s, Follows(p, width, s, c), s.at = c.at, NEW s1, EngineTurn(p, width, s, s1)
  PROVE  Follows(p, width, s1, d)
<1> DEFINE i == p.code[c.at]
<1>0. c.at \in 1..Len(p.code) /\ c.ptr \in Int /\ Step(i) \in Int /\ width \in Int /\ width > 0
  <2>1. c.at \in 1..Len(p.code)
    BY DEF RunTurn, Turn
  <2> QED BY <2>1, StateFacts, SizeAssumption
<1>1. /\ s.ptr \in Addresses <=> c.ptr \in Addresses
      /\ c.ptr \in Addresses => s.ptr = c.ptr
  BY <1>0, SameCells DEF Follows
<1>2. /\ s.mem = c.mem /\ s.unread = c.unread /\ s.output = c.output /\ s.defined = c.defined
      /\ s.ptr = c.ptr % width
  BY DEF Follows
<1>3. (s.ptr + Step(i)) % width = (c.ptr + Step(i)) % width
  <2>1. PICK a \in Int, b \in Int : a = c.ptr /\ b = Step(i)
    BY <1>0
  <2>2. ((a % width) + b) % width = (a + b) % width
    BY <1>0, WrapFacts
  <2> QED BY <1>2, <2>1, <2>2
<1>4. Turn(p, s, s1, (c.ptr + Step(i)) % width, {p.match[c.at], p.match[c.at] + 1})
  BY <1>3 DEF EngineTurn
<1>5. Turn(p, c, d, c.ptr + Step(i), {p.match[c.at] + 1})
  BY DEF RunTurn
<1>6. s1.ptr = d.ptr % width
  <2>1. CASE i \in Moves
    BY <1>4, <1>5, <2>1 DEF Turn, Moves, Changes
  <2>2. CASE i \notin Moves
    BY <1>2, <1>4, <1>5, <2>2 DEF Turn
  <2> QED BY <2>1, <2>2
<1>7. s1.mem = d.mem /\ s1.unread = d.unread
  BY <1>1, <1>2, <1>4, <1>5 DEF Turn, Moves, Changes
<1>8. s1.output = d.output /\ s1.defined = d.defined
  BY <1>1, <1>2, <1>4, <1>5 DEF Turn, Moves, Changes
<1>9. \/ s1.at = d.at
      \/ /\ s1.at \in 1..Len(p.code) /\ p.code[s1.at] = "[" /\ d.at = s1.at + 1
         /\ d.ptr \in Addresses /\ d.mem[d.ptr] # 0
  <2>1. CASE i = "]" /\ c.ptr \in Addresses /\ c.mem[c.ptr] # 0
    <3>1. /\ s1.at \in {p.match[c.at], p.match[c.at] + 1} /\ d.at = p.match[c.at] + 1
          /\ d.ptr = c.ptr /\ d.mem = c.mem
      BY <1>1, <1>2, <1>4, <1>5, <2>1 DEF Turn, Moves, Changes
    <3>2. p.match[c.at] \in 1..Len(p.code) /\ p.code[p.match[c.at]] = "["
      <4>1. WellNested(p)
        BY ProgramAssumption
      <4>2. c.at \in PositionsOf(p, {"]"})
        BY <1>0, <2>1 DEF PositionsOf
      <4>3. p.match[c.at] \in PositionsOf(p, {"["})
        BY <4>1, <4>2 DEF WellNested
      <4> QED BY <4>3 DEF PositionsOf
    <3> QED BY <2>1, <3>1, <3>2
  <2>2. CASE ~ (i = "]" /\ c.ptr \in Addresses /\ c.mem[c.ptr] # 0)
    BY <1>1, <1>2, <1>4, <1>5, <2>2 DEF Turn, Moves, Changes
  <2> QED BY <2>1, <2>2
<1> QED BY <1>6, <1>7, <1>8, <1>9 DEF Follows

(* An engine that went back makes the test again, and is where the run is.  *)
LEMMA FollowsBack ==
  ASSUME NEW p \in Programs, NEW width \in {SizeTSpace, Int32Space}, ShortPrograms,
         NEW c \in States(p),
         NEW s, Follows(p, width, s, c), s.at # c.at, NEW s1, EngineTurn(p, width, s, s1)
  PROVE  Follows(p, width, s1, c)
<1>1. /\ p.code[s.at] = "[" /\ c.at = s.at + 1 /\ c.ptr \in Addresses /\ c.mem[c.ptr] # 0
      /\ s.mem = c.mem /\ s.unread = c.unread /\ s.output = c.output /\ s.defined = c.defined
      /\ s.ptr = c.ptr % width
  BY DEF Follows
<1>2. s.ptr = c.ptr
  <2>1. p.code \in Seq(Instructions) /\ MemorySize \in Nat
    BY ProgramAssumption, SizeAssumption
  <2>2. MemorySize <= width /\ width \in Int /\ width > 0
    BY <2>1, SizeAssumption DEF ShortPrograms
  <2> QED BY <1>1, <2>1, <2>2, WrapFacts DEF Addresses
<1>3. /\ s1.at = s.at + 1 /\ s1.ptr = s.ptr /\ s1.mem = s.mem
      /\ s1.unread = s.unread /\ s1.output = s.output /\ s1.defined = s.defined
  BY <1>1, <1>2 DEF EngineTurn, Turn, Moves, Changes
<1> QED BY <1>1, <1>2, <1>3 DEF Follows

(* A prefix, element by element.                                            *)
LEMMA PrefixFacts ==
  ASSUME NEW S, NEW a \in Seq(S), NEW b \in Seq(S)
  PROVE  IsPrefix(a, b) <=> Len(a) <= Len(b) /\ \A l \in 1..Len(a) : a[l] = b[l]
<1>1. CASE Len(a) <= Len(b)
  <2>1. PICK u, v : u = SubSeq(a, 1, Len(a)) /\ v = SubSeq(b, 1, Len(a))
    OBVIOUS
  <2>2. /\ u \in Seq(S) /\ v \in Seq(S) /\ Len(u) = Len(a) /\ Len(v) = Len(a)
        /\ \A l \in 1..Len(a) : u[l] = a[l] /\ v[l] = b[l]
    BY <1>1, <2>1
  <2>3. u = v <=> \A l \in 1..Len(a) : u[l] = v[l]
    BY <2>2, SeqEqual
  <2> QED BY <1>1, <2>1, <2>2, <2>3 DEF IsPrefix
<1>2. CASE ~ Len(a) <= Len(b)
  BY <1>2 DEF IsPrefix
<1> QED BY <1>1, <1>2

(* A run can be made longer by a step.                                      *)
LEMMA RunLonger ==
  ASSUME NEW p \in Programs, NEW t, Run(p, t), NEW d \in States(p), RunTurn(p, t[Len(t)], d)
  PROVE  /\ Run(p, Append(t, d))
         /\ Len(Append(t, d)) = Len(t) + 1
         /\ Append(t, d)[Len(t) + 1] = d
         /\ \A n \in 1..Len(t) : Append(t, d)[n] = t[n]
<1>1. t \in Seq(States(p)) /\ Len(t) \in Nat \ {0} /\ t[Len(t)] \in States(p) /\ Near(t[Len(t)])
  BY DEF Run
<1>2. PICK u : u = Append(t, d)
  OBVIOUS
<1>3. /\ u \in Seq(States(p)) /\ Len(u) = Len(t) + 1 /\ u # <<>>
      /\ u[Len(t) + 1] = d /\ \A n \in 1..Len(t) : u[n] = t[n]
  BY <1>1, <1>2
<1>4. u[1] = Start(p) /\ \A n \in 1..(Len(u) - 1) : RunTurn(p, u[n], u[n+1])
  BY <1>1, <1>3 DEF Run
<1>5. Near(d) /\ (d.output = t[Len(t)].output \/ \E e : d.output = Append(t[Len(t)].output, e))
  BY <1>1, RunTurnFacts
<1>6. \A n \in 1..Len(u) : Near(u[n])
  BY <1>1, <1>3, <1>5 DEF Run
<1>7. ASSUME NEW n \in 1..Len(u), NEW m \in n..Len(u)
      PROVE  IsPrefix(u[n].output, u[m].output)
  <2>1. u[n].output \in Seq(Cells) /\ d.output \in Seq(Cells)
    <3>1. u[n] \in States(p)
      BY <1>3, <1>7
    <3> QED BY <3>1, StateFacts
  <2>2. CASE m \in 1..Len(t)
    BY <1>1, <1>3, <2>2 DEF Run
  <2>3. CASE n = Len(u)
    BY <1>1, <1>3, <2>1, <2>3 DEF IsPrefix
  <2>4. CASE m = Len(u) /\ n \in 1..Len(t)
    <3>1. PICK a, b : a = t[n].output /\ b = t[Len(t)].output
      OBVIOUS
    <3>2. a \in Seq(Cells) /\ b \in Seq(Cells) /\ IsPrefix(a, b)
      <4>1. t[n] \in States(p)
        BY <1>1, <2>4
      <4>2. IsPrefix(a, b)
        BY <1>1, <2>4, <3>1 DEF Run
      <4> QED BY <1>1, <3>1, <4>1, <4>2, StateFacts
    <3>3. d.output = b \/ \E e : d.output = Append(b, e)
      BY <1>5, <3>1
    <3>4. IsPrefix(a, d.output)
      <4>1. PICK o \in Seq(Cells) : o = d.output
        BY <2>1
      <4>2. Len(a) <= Len(b) /\ \A l \in 1..Len(a) : a[l] = b[l]
        BY <3>2, PrefixFacts
      <4>3. Len(b) <= Len(o) /\ \A l \in 1..Len(b) : b[l] = o[l]
        BY <3>2, <3>3, <4>1
      <4>4. Len(a) <= Len(o) /\ \A l \in 1..Len(a) : a[l] = o[l]
        BY <3>2, <4>2, <4>3
      <4> QED BY <3>2, <4>1, <4>4, PrefixFacts
    <3> QED BY <1>3, <2>4, <3>1, <3>4
  <2> QED BY <1>1, <1>3, <1>7, <2>2, <2>3, <2>4
<1> QED BY <1>2, <1>3, <1>4, <1>6, <1>7 DEF Run

(* An engine that is somewhere on a run is so after its next step, if the   *)
(* run is made longer where it ends too early.                              *)
LEMMA FollowsStep ==
  ASSUME NEW p \in Programs, NEW width \in {SizeTSpace, Int32Space}, ShortPrograms,
         NEW t, Run(p, t), NEW s, NEW s1, EngineTurn(p, width, s, s1) \/ s1 = s,
         \E n \in 1..Len(t) : Follows(p, width, s, t[n])
  PROVE  \E u : /\ Run(p, u) /\ Len(t) <= Len(u) /\ \A n \in 1..Len(t) : u[n] = t[n]
                /\ \E m \in 1..Len(u) : Follows(p, width, s1, u[m])
<1>1. PICK n \in 1..Len(t) : Follows(p, width, s, t[n])
  OBVIOUS
<1>2. PICK c : c = t[n]
  OBVIOUS
<1>3. t \in Seq(States(p)) /\ Len(t) \in Nat /\ c \in States(p) /\ Near(c)
  BY <1>2 DEF Run
<1>4. CASE Follows(p, width, s1, c)
  BY <1>2, <1>3, <1>4
<1>5. CASE ~ Follows(p, width, s1, c)
  <2>1. EngineTurn(p, width, s, s1) /\ s.at = c.at
    BY <1>1, <1>2, <1>3, <1>5, FollowsBack
  <2>2. c.defined /\ c.at \in 1..Len(p.code)
    BY <1>1, <1>2, <2>1 DEF EngineTurn, Turn, Follows
  <2>3. CASE n < Len(t)
    <3>1. t[n+1] \in States(p) /\ RunTurn(p, c, t[n+1]) /\ n + 1 \in 1..Len(t)
      BY <1>2, <1>3, <2>3 DEF Run
    <3>2. Follows(p, width, s1, t[n+1])
      BY <1>1, <1>2, <1>3, <2>1, <3>1, FollowsOn
    <3> QED BY <1>3, <3>1, <3>2
  <2>4. CASE n = Len(t)
    <3>1. PICK d \in States(p) : RunTurn(p, c, d)
      BY <1>3, <2>2, RunGoesOn
    <3>2. Follows(p, width, s1, d)
      BY <1>1, <1>2, <1>3, <2>1, <3>1, FollowsOn
    <3>3. PICK u : u = Append(t, d)
      OBVIOUS
    <3>4. Run(p, u) /\ Len(u) = Len(t) + 1 /\ u[Len(t) + 1] = d /\ \A m \in 1..Len(t) : u[m] = t[m]
      BY <1>2, <2>4, <3>1, <3>3, RunLonger
    <3> QED BY <1>3, <3>2, <3>4
  <2> QED BY <1>3, <2>3, <2>4
<1> QED BY <1>4, <1>5

\* the engines as states of the program
InterpreterState ==
  [at |-> pc_, ptr |-> data_ptr_, mem |-> memory_, unread |-> cin, output |-> cout,
   defined |-> iphase # "undefined"]
JitState ==
  [at |-> Jit!At, ptr |-> dataptr, mem |-> memory, unread |-> unread, output |-> output,
   defined |-> jphase # "undefined"]

\* there is a run on which both are
OnOneRun ==
  \E t : /\ Run(prog, t)
         /\ \E n \in 1..Len(t) : Follows(prog, SizeTSpace, InterpreterState, t[n])
         /\ \E n \in 1..Len(t) : Follows(prog, Int32Space, JitState, t[n])

(* What the machine of an engine does is a step of the program.             *)
LEMMA InterpreterTurns ==
  ASSUME Inv, [Next]_vars
  PROVE  \/ EngineTurn(prog, SizeTSpace, InterpreterState, InterpreterState')
         \/ InterpreterState' = InterpreterState
<1>1. [I!Machine!Next]_(I!Machine!vars)
  BY EngineSteps, InterpreterMachineStep DEF Inv
<1>2. CASE UNCHANGED I!Machine!vars
  BY <1>2 DEF I!Machine!vars, InterpreterState
<1>3. CASE I!Machine!Next
  <2>1. PICK s, s1 : s = InterpreterState /\ s1 = InterpreterState'
    OBVIOUS
  <2>2. /\ s.at = pc_ /\ s.ptr = data_ptr_ /\ s.mem = memory_ /\ s.unread = cin
        /\ s.output = cout /\ s.defined = (iphase # "undefined")
        /\ s1.at = pc_' /\ s1.ptr = data_ptr_' /\ s1.mem = memory_' /\ s1.unread = cin'
        /\ s1.output = cout' /\ s1.defined = (iphase' # "undefined")
    BY <2>1 DEF InterpreterState
  <2>3. EngineTurn(prog, SizeTSpace, s, s1)
    BY <1>3, <2>2 DEF EngineTurn, Turn, Changed, Filled,
         I!Machine!Next, I!Machine!Next1, I!Machine!Move, I!Machine!Change, I!Machine!Write,
         I!Machine!Read, I!Machine!Open, I!Machine!Close, I!Machine!AccessOutside,
         I!Machine!PositionsOf, I!Machine!Step, Step, I!Machine!Moves, Moves,
         I!Machine!Changes, Changes, I!Machine!Instructions, I!Machine!Brackets,
         I!Machine!Addresses, Addresses, I!Machine!NextChar, NextChar,
         I!Machine!AfterNext, AfterNext, I!Machine!EOF, EOF
  <2> QED BY <2>1, <2>3
<1> QED BY <1>1, <1>2, <1>3

LEMMA JitTurns ==
  ASSUME Inv, [Next]_vars
  PROVE  \/ EngineTurn(prog, Int32Space, JitState, JitState')
         \/ JitState' = JitState
<1>1. [J!Machine!Next]_(J!Machine!vars)
  BY Assumptions, EngineSteps, J!MachineStep DEF Inv
<1>2. Jit!At = J!At /\ Jit!At' = J!At'
  BY DEF Jit!At, J!At, Jit!AtOp, J!AtOp, Jit!Here, J!Here
<1>3. CASE UNCHANGED J!Machine!vars
  BY <1>2, <1>3 DEF J!Machine!vars, JitState
<1>4. CASE J!Machine!Next
  <2>1. PICK s, s1 : s = JitState /\ s1 = JitState'
    OBVIOUS
  <2>2. /\ s.at = J!At /\ s.ptr = dataptr /\ s.mem = memory /\ s.unread = unread
        /\ s.output = output /\ s.defined = (jphase # "undefined")
        /\ s1.at = J!At' /\ s1.ptr = dataptr' /\ s1.mem = memory' /\ s1.unread = unread'
        /\ s1.output = output' /\ s1.defined = (jphase' # "undefined")
    BY <1>2, <2>1 DEF JitState
  <2>3. EngineTurn(prog, Int32Space, s, s1)
    BY <1>4, <2>2 DEF EngineTurn, Turn, Changed, Filled,
         J!Machine!Next, J!Machine!Next1, J!Machine!Move, J!Machine!Change, J!Machine!Write,
         J!Machine!Read, J!Machine!Open, J!Machine!Close, J!Machine!AccessOutside,
         J!Machine!PositionsOf, J!Machine!Step, Step, J!Machine!Moves, Moves,
         J!Machine!Changes, Changes, J!Machine!Instructions, J!Machine!Brackets,
         J!Machine!Addresses, Addresses, J!Machine!NextChar, NextChar,
         J!Machine!AfterNext, AfterNext, J!Machine!EOF, EOF
  <2> QED BY <2>1, <2>3
<1> QED BY <1>1, <1>3, <1>4

(* Both start where the run starts.                                         *)
LEMMA RunInit == Init => OnOneRun
<1> SUFFICES ASSUME Init PROVE OnOneRun
  OBVIOUS
<1>1. /\ prog \in Programs /\ MemorySize \in Nat \ {0} /\ CellSize \in Nat \ {0}
      /\ prog.input \in Seq(Cells) /\ Len(prog.code) \in Nat
  BY ProgramAssumption, SizeAssumption DEF Init, Interpreter!Init, Cells
<1>2. PICK c : c = Start(prog)
  OBVIOUS
<1>3. c \in States(prog) /\ Near(c)
  BY <1>1, <1>2 DEF Start, States, Near, Cells
<1>4. PICK t : t = <<c>>
  OBVIOUS
<1>5. t \in Seq(States(prog)) /\ Len(t) = 1 /\ t[1] = c /\ t # <<>>
  BY <1>3, <1>4
<1>6. Run(prog, t)
  <2>1. IsPrefix(c.output, c.output)
    BY <1>3, StateFacts, <1>1, PrefixFacts
  <2>2. \A n \in 1..Len(t) : n = 1
    BY <1>5
  <2> QED BY <1>2, <1>3, <1>5, <2>1, <2>2 DEF Run
<1>7. Follows(prog, SizeTSpace, InterpreterState, c)
  <2>1. InterpreterState = Start(prog)
    BY DEF Init, Interpreter!Init, InterpreterState, Start, Interpreter!Addresses, Addresses
  <2>2. 0 % SizeTSpace = 0
    BY SizeAssumption, WrapFacts
  <2> QED BY <1>2, <2>1, <2>2 DEF Follows, Start
<1>8. Follows(prog, Int32Space, JitState, c)
  <2>1. JitState = Start(prog)
    BY DEF Init, Jit!Init, JitState, Jit!At, Start, Jit!Addresses, Addresses
  <2>2. 0 % Int32Space = 0
    BY SizeAssumption, WrapFacts
  <2> QED BY <1>2, <2>1, <2>2 DEF Follows, Start
<1> QED BY <1>5, <1>6, <1>7, <1>8 DEF OnOneRun

(* They stay on one run.                                                    *)
LEMMA RunStep ==
  ASSUME ShortPrograms, Inv, OnOneRun, [Next]_vars
  PROVE  OnOneRun'
<1>1. prog \in Programs /\ prog' = prog
  <2>1. prog \in Programs
    BY DEF Inv, InterpreterInv, I!TypeOK
  <2>2. [I!Next]_(I!vars)
    BY EngineSteps
  <2>3. prog' = prog
    BY <2>2 DEF I!Next, I!Load, I!Start, I!Move, I!Change, I!Put, I!Get, I!OpenBracket,
                I!CloseBracket, I!AccessOutside, I!Round, I!vars
  <2> QED BY <2>1, <2>3
<1>2. PICK s, s1, r, r1 : /\ s = InterpreterState /\ s1 = InterpreterState'
                          /\ r = JitState /\ r1 = JitState'
  OBVIOUS
<1>3. /\ EngineTurn(prog, SizeTSpace, s, s1) \/ s1 = s
      /\ EngineTurn(prog, Int32Space, r, r1) \/ r1 = r
  BY <1>2, InterpreterTurns, JitTurns
<1>4. PICK t : /\ Run(prog, t)
               /\ \E n \in 1..Len(t) : Follows(prog, SizeTSpace, s, t[n])
               /\ \E n \in 1..Len(t) : Follows(prog, Int32Space, r, t[n])
  BY <1>2 DEF OnOneRun
<1>5. PICK u : /\ Run(prog, u) /\ Len(t) <= Len(u) /\ \A n \in 1..Len(t) : u[n] = t[n]
               /\ \E m \in 1..Len(u) : Follows(prog, SizeTSpace, s1, u[m])
  BY <1>1, <1>3, <1>4, FollowsStep
<1>6. Len(t) \in Nat /\ Len(u) \in Nat
  BY <1>4, <1>5 DEF Run
<1>7. \E n \in 1..Len(u) : Follows(prog, Int32Space, r, u[n])
  BY <1>4, <1>5, <1>6
<1>8. PICK v : /\ Run(prog, v) /\ Len(u) <= Len(v) /\ \A n \in 1..Len(u) : v[n] = u[n]
               /\ \E m \in 1..Len(v) : Follows(prog, Int32Space, r1, v[m])
  BY <1>1, <1>3, <1>5, <1>7, FollowsStep
<1>9. Len(v) \in Nat
  BY <1>8 DEF Run
<1>10. \E m \in 1..Len(v) : Follows(prog, SizeTSpace, s1, v[m])
  BY <1>5, <1>6, <1>8, <1>9
<1> QED BY <1>1, <1>2, <1>8, <1>10 DEF OnOneRun

(* An engine that has ended is at the end of the run.                       *)
LEMMA EndOfRun ==
  ASSUME NEW p \in Programs, NEW t, Run(p, t), NEW width, NEW s, NEW n \in 1..Len(t),
         Follows(p, width, s, t[n]), s.defined = FALSE \/ s.at > Len(p.code)
  PROVE  n = Len(t)
<1>1. Len(t) \in Nat /\ Len(p.code) \in Nat
  BY ProgramAssumption DEF Run
<1>2. t[n].defined = FALSE \/ t[n].at > Len(p.code)
  <2>1. PICK c : c = t[n]
    OBVIOUS
  <2>2. PICK a \in 1..(Len(p.code) + 1) : a = c.at
    <3>1. c \in States(p)
      BY <2>1 DEF Run
    <3> QED BY <3>1, StateFacts
  <2>3. s.defined = c.defined /\ (s.at = a \/ s.at \in 1..Len(p.code))
    BY <2>1, <2>2 DEF Follows
  <2> QED BY <1>1, <2>1, <2>2, <2>3
<1>3. ~ RunTurn(p, t[n], t[n+1])
  <2>1. PICK c : c = t[n]
    OBVIOUS
  <2>2. RunTurn(p, c, t[n+1]) => c.defined /\ c.at \in 1..Len(p.code)
    BY DEF RunTurn, Turn
  <2> QED BY <1>1, <1>2, <2>1, <2>2
<1> QED BY <1>1, <1>3 DEF Run

(* The compiled function writes what the interpreter writes, and both end   *)
(* with the same cells and input, or both in undefined behaviour, for every *)
(* program that is shorter than a data pointer is wide: the interpreter's   *)
(* has 64 bits (BFInterpreter.cpp:22), the function's 32 (main.cpp:69), and *)
(* a longer row of moves can take one of them around to the memory again    *)
(* and not the other.                                                       *)
THEOREM AgreeTheorem ==
  ASSUME ShortPrograms
  PROVE  Spec => []EnginesAgree
<1>1. ASSUME Inv, OnOneRun
      PROVE  EnginesAgree
  <2>1. /\ prog \in Programs /\ Len(prog.code) \in Nat /\ pc_ \in 1..(Len(prog.code) + 1)
        /\ iphase \in {"loading", "running", "undefined"}
        /\ iphase # "loading" => loaded = Len(prog.code)
    BY <1>1, ProgramAssumption DEF Inv, InterpreterInv, I!TypeOK
  <2>2. PICK t : /\ Run(prog, t)
                 /\ \E n \in 1..Len(t) : Follows(prog, SizeTSpace, InterpreterState, t[n])
                 /\ \E n \in 1..Len(t) : Follows(prog, Int32Space, JitState, t[n])
    BY <1>1 DEF OnOneRun
  <2>3. PICK n \in 1..Len(t) : Follows(prog, SizeTSpace, InterpreterState, t[n])
    BY <2>2
  <2>4. PICK m \in 1..Len(t) : Follows(prog, Int32Space, JitState, t[m])
    BY <2>2
  <2>5. /\ memory_ = t[n].mem /\ cin = t[n].unread /\ cout = t[n].output
        /\ t[n].defined = (iphase # "undefined")
    BY <2>3 DEF Follows, InterpreterState
  <2>6. /\ memory = t[m].mem /\ unread = t[m].unread /\ output = t[m].output
        /\ t[m].defined = (jphase # "undefined")
    BY <2>4 DEF Follows, JitState
  <2>7. IsPrefix(cout, output) \/ IsPrefix(output, cout)
    <3>1. Len(t) \in Nat
      BY <2>2 DEF Run
    <3>2. m \in n..Len(t) \/ n \in m..Len(t)
      BY <3>1
    <3> QED BY <2>2, <2>5, <2>6, <3>2 DEF Run
  <2>8. ASSUME InterpreterEnded, JitEnded
        PROVE  iphase = jphase /\ <<memory_, cin, cout>> = <<memory, unread, output>>
    <3>1. n = Len(t)
      <4>1. InterpreterState.defined = FALSE \/ InterpreterState.at > Len(prog.code)
        BY <2>1, <2>8 DEF InterpreterEnded, InterpreterState
      <4> QED BY <2>1, <2>2, <2>3, <4>1, EndOfRun
    <3>2. m = Len(t)
      <4>1. JitState.defined = FALSE \/ JitState.at > Len(prog.code)
        BY <2>1, <2>8 DEF JitEnded, JitState
      <4> QED BY <2>1, <2>2, <2>4, <4>1, EndOfRun
    <3>3. (iphase # "undefined") = (jphase # "undefined")
      BY <2>5, <2>6, <3>1, <3>2
    <3>4. iphase \in {"running", "undefined"} /\ jphase \in {"running", "undefined"}
      BY <2>8 DEF InterpreterEnded, JitEnded
    <3> QED BY <2>5, <2>6, <3>1, <3>2, <3>3, <3>4
  <2> QED BY <2>7, <2>8 DEF EnginesAgree
<1>2. OnOneRun /\ Inv /\ [Next]_vars => OnOneRun'
  BY RunStep
<1> QED BY <1>1, <1>2, RunInit, InvTheorem, PTL DEF Spec
===============================================================================
