----------------------------- MODULE PointsTo_proofs -----------------------------
(***************************************************************************)
(* When the pass leaves a function alone, that function is solved and its  *)
(* arguments have arrived: for every well-formed module, in every order of *)
(* functions, blocks, instructions' facts and arguments.                   *)
(*                                                                         *)
(* There the transfer functions, the renaming between caller and callee    *)
(* and the walk to a call's callees stay opaque: of them the argument uses *)
(* only which facts they read.                                             *)
(*                                                                         *)
(* Second, the types of the variables: here the transfer functions and the *)
(* renaming are opened, and shown to make facts of facts.                  *)
(***************************************************************************)
EXTENDS PointsTo, FiniteSetTheorems, SequenceTheorems, WellFoundedInduction, TLAPS

-------------------------------------------------------------------------------
(* The inductive invariant. *)

\* the two halves of result_, per instruction
Before(I) == result[I].in
After(I)  == result[I].out

\* instruction k of block b agrees with its transfer function and hands its value on
SolvedAt(b, k) ==
  /\ k < Len(P.code[b]) => Before(P.code[b][k+1]) = After(P.code[b][k])
  /\ P.code[b][k] \notin Calls => After(P.code[b][k]) = Out(P, P.code[b][k], Before(P.code[b][k]))

\* what call I passes is in the entries of its callees
Passed(I) ==
  \A F \in Bodies(I) : PassedTo(P, I, F, argOrder[I], Before(I)) \subseteq Before(FirstInst(P, F))

\* what call_graph_ has for the line of call I, and that this is call I with its callees
Known(I) == callGraph[P.inst[I].line]
Registered(I) == OwnLine(I) => Known(I) = [call |-> I, callees |-> Callees(I)]

PassedAt(b, k) ==
  P.code[b][k] \in Calls =>
    /\ argOrder[P.code[b][k]] # <<>> => Passed(P.code[b][k])
    /\ Registered(P.code[b][k])

\* a map of pairs
IsPair(x) == \E a, b : x = [in |-> a, out |-> b]
PairMap(r) == r = [I \in P.insts |-> r[I]] /\ \A I \in P.insts : IsPair(r[I])

ShapeInv == PairMap(result)

\* the key of a line is a call of that line
LineInv ==
  /\ DOMAIN callGraph = Lines
  /\ \A l \in Lines : callGraph[l].call # None =>
       callGraph[l].call \in Calls /\ P.inst[callGraph[l].call].line = l

\* the iteration of a function stays in its blocks
ControlInv ==
  /\ prog \in DOMAIN Programs
  /\ fn = None => bbWorklist = {} /\ block = None /\ requeued = {}
  /\ fn # None => fn \in P.fns /\ bbWorklist \subseteq P.blocks[fn]
  /\ block # None => /\ block \in P.blocks[fn] /\ block \notin bbWorklist
                     /\ pc \in 1..(Len(P.code[block]) + 1)

\* functions that are queued nowhere
RestInv ==
  \A F \in AtRest : \A b \in P.blocks[F] :
    /\ \A p \in P.preds[b] : After(LastOf(P, p)) \subseteq Before(FirstOf(P, b))
    /\ \A k \in DOMAIN P.code[b] : SolvedAt(b, k) /\ PassedAt(b, k)

\* the function that is being iterated, unless it is queued again: its blocks that do
\* not wait are solved, the one that is visited up to pc, its end excepted
RunInv ==
  fn # None /\ fn \notin requeued =>
    \A b \in P.blocks[fn] \ bbWorklist :
      /\ \A p \in P.preds[b] :
           (IF p = block THEN oldOut ELSE After(LastOf(P, p))) \subseteq Before(FirstOf(P, b))
      /\ \A k \in DOMAIN P.code[b] :
           (b = block => k < pc) => SolvedAt(b, k) /\ PassedAt(b, k)

Inv == ShapeInv /\ LineInv /\ ControlInv /\ RestInv /\ RunInv

-------------------------------------------------------------------------------
(* What is used of a well-formed module. *)

\* k is a place of block b of function F, and I is there
Lies(F, b, k, I) == F \in P.fns /\ b \in P.blocks[F] /\ k \in DOMAIN P.code[b] /\ I = P.code[b][k]

(* The first and the last instruction of a block exist.                     *)
LEMMA BlockFacts ==
  ASSUME prog \in DOMAIN Programs, NEW F \in P.fns, NEW b \in P.blocks[F]
  PROVE  /\ Len(P.code[b]) \in Nat \ {0}
         /\ DOMAIN P.code[b] = 1..Len(P.code[b])
         /\ Lies(F, b, 1, FirstOf(P, b))
         /\ Lies(F, b, Len(P.code[b]), LastOf(P, b))
<1>1. P.code[b] \in Seq(P.insts) /\ P.code[b] # <<>>
  BY ProgramAssumption DEF Verified, P
<1>2. Len(P.code[b]) \in Nat \ {0} /\ DOMAIN P.code[b] = 1..Len(P.code[b])
  BY <1>1
<1>3. Head(P.code[b]) = P.code[b][1]
  BY <1>1
<1> QED BY <1>2, <1>3 DEF Lies, FirstOf, LastOf, Last

(* An instruction belongs to the function of its block, and is nowhere      *)
(* else.                                                                    *)
LEMMA PlaceFacts ==
  ASSUME prog \in DOMAIN Programs, NEW F, NEW b, NEW k, NEW I, Lies(F, b, k, I)
  PROVE  /\ I \in P.insts /\ P.fnOf[I] = F /\ k \in 1..Len(P.code[b])
         /\ \A G, c, j : Lies(G, c, j, I) => G = F /\ c = b /\ j = k
<1>1. I \in P.insts /\ P.fnOf[I] = F
  BY ProgramAssumption DEF Verified, P, Lies
<1>2. k \in 1..Len(P.code[b])
  BY BlockFacts DEF Lies
<1>3. ASSUME NEW G, NEW c, NEW j, Lies(G, c, j, I)
      PROVE  G = F /\ c = b /\ j = k
  <2>1. \A b1 \in P.blocks[F], c1 \in P.blocks[G] :
          \A j1 \in DOMAIN P.code[b1], k1 \in DOMAIN P.code[c1] :
            P.code[b1][j1] = P.code[c1][k1] => b1 = c1 /\ j1 = k1
    BY <1>3, ProgramAssumption DEF Verified, P, Lies
  <2>2. /\ b \in P.blocks[F] /\ k \in DOMAIN P.code[b] /\ P.code[b][k] = I
        /\ c \in P.blocks[G] /\ j \in DOMAIN P.code[c] /\ P.code[c][j] = I
    BY <1>3 DEF Lies
  <2>3. c = b /\ j = k
    BY <2>1, <2>2
  <2>4. P.fnOf[I] = G
    BY <1>3, ProgramAssumption DEF Verified, P, Lies
  <2> QED BY <2>3, <2>4, <1>1
<1> QED BY <1>1, <1>2, <1>3

(* Every instruction lies somewhere.                                        *)
LEMMA InstFacts ==
  ASSUME prog \in DOMAIN Programs, NEW I \in P.insts
  PROVE  P.fnOf[I] \in DefinedFns(P) /\ \E b, k : Lies(P.fnOf[I], b, k, I)
<1>1. P.fnOf[I] \in P.fns
  BY ProgramAssumption DEF Verified, P
<1>2. PICK b \in P.blocks[P.fnOf[I]] : I \in ToSet(P.code[b])
  BY ProgramAssumption DEF Verified, P
<1>3. \E k : Lies(P.fnOf[I], b, k, I)
  BY <1>1, <1>2 DEF Lies, ToSet
<1>4. P.fnOf[I] \notin P.decls
  BY <1>2, ProgramAssumption DEF Verified, P
<1> QED BY <1>1, <1>3, <1>4 DEF DefinedFns

(* A function with a body has a first instruction.                          *)
LEMMA EntryFacts ==
  ASSUME prog \in DOMAIN Programs, NEW F \in DefinedFns(P)
  PROVE  /\ F \in P.fns /\ P.entry[F] \in P.blocks[F]
         /\ FirstInst(P, F) = FirstOf(P, P.entry[F])
         /\ Lies(F, P.entry[F], 1, FirstInst(P, F))
<1>1. F \in P.fns /\ P.entry[F] \in P.blocks[F]
  BY ProgramAssumption DEF Verified, P, DefinedFns
<1> QED BY <1>1, BlockFacts DEF FirstInst

(* The first instruction of a function is one of its instructions.          *)
LEMMA EntryInst ==
  ASSUME prog \in DOMAIN Programs, NEW F \in DefinedFns(P)
  PROVE  FirstInst(P, F) \in P.insts /\ P.fnOf[FirstInst(P, F)] = F
<1>1. Lies(F, P.entry[F], 1, FirstInst(P, F))
  BY EntryFacts
<1> QED BY <1>1, PlaceFacts

(* Edges stay inside a function, and preds and succs are the same edges.    *)
LEMMA EdgeFacts ==
  ASSUME prog \in DOMAIN Programs, NEW F \in P.fns, NEW b \in P.blocks[F]
  PROVE  /\ P.succs[b] \subseteq P.blocks[F]
         /\ P.preds[b] = {p \in P.blocks[F] : b \in P.succs[p]}
         /\ F # None /\ b # None
         /\ F \in DefinedFns(P)
BY ProgramAssumption DEF Verified, P, DefinedFns

-------------------------------------------------------------------------------
(* What a step does. *)

(* A program, its calls and its instructions do not change.                 *)
LEMMA SameProgram ==
  ASSUME prog' = prog
  PROVE  P' = P /\ Calls' = Calls
BY DEF P, Calls

\* the entries of functions only gain facts
EntriesGrow ==
  \A F \in DefinedFns(P) : \A J \in {FirstInst(P, F)} : Before(J) \subseteq Before(J)'

(* A callee that is entered has a body.                                     *)
LEMMA BodiesAreDefined ==
  ASSUME NEW I
  PROVE  Bodies(I) \subseteq DefinedFns(P)
BY Zenon DEF Bodies, Callees, PointToFunctions, DefinedFns

(* An instruction stays solved if what it reads and writes is not touched,  *)
(* and what it passes stays there if the entries of functions only grow.    *)
LEMMA Kept ==
  ASSUME prog' = prog, argOrder' = argOrder, EntriesGrow,
         NEW b, NEW k, NEW I, I = P.code[b][k],
         SolvedAt(b, k) /\ PassedAt(b, k),
         Before(I)' = Before(I), After(I)' = After(I),
         \A J : k < Len(P.code[b]) /\ J = P.code[b][k+1] => Before(J)' = Before(J),
         I \in Calls /\ OwnLine(I) => Known(I)' = Known(I)
  PROVE  (SolvedAt(b, k) /\ PassedAt(b, k))'
<1>1. P' = P /\ Calls' = Calls
  BY SameProgram
<1>2. SolvedAt(b, k)'
  BY <1>1 DEF SolvedAt
<1>3. Bodies(I)' = Bodies(I)
  BY <1>1 DEF Bodies, Callees, Before
<1>4. Passed(I) => Passed(I)'
  <2> SUFFICES ASSUME Passed(I), NEW F \in Bodies(I)
               PROVE  (PassedTo(P, I, F, argOrder[I], Before(I)) \subseteq Before(FirstInst(P, F)))'
    BY <1>3 DEF Passed
  <2> DEFINE J == FirstInst(P, F)
  <2>1. F \in DefinedFns(P)
    BY BodiesAreDefined
  <2>2. result[J].in \subseteq result'[J].in
    BY <2>1 DEF EntriesGrow, Before
  <2>3. PassedTo(P, I, F, argOrder[I], Before(I)) \subseteq result[J].in
    BY DEF Passed, Before
  <2> QED BY <1>1, <2>2, <2>3 DEF Before
<1>5. I \in Calls /\ Registered(I) => Registered(I)'
  <2>1. OwnLine(I)' = OwnLine(I) /\ Callees(I)' = Callees(I)
    BY <1>1 DEF OwnLine, Callees, Before
  <2> QED BY <2>1 DEF Registered
<1>6. PassedAt(b, k)'
  BY <1>1, <1>4, <1>5 DEF PassedAt
<1> QED BY <1>2, <1>6

-------------------------------------------------------------------------------
(* The visitor at one instruction. *)

\* Here and Next are the instruction at pc and, unless it is the last, the one after it
Here == P.code[block][pc]

\* the call at hand, and no other, is registered
Registers ==
  /\ LineInv'
  /\ \A J \in Calls : OwnLine(J) =>
       callGraph'[P.inst[J].line] = IF J = Here THEN [call |-> J, callees |-> Callees(J)] ELSE Known(J)

(* A visit of a call registers it (PointTo.h:208-209), ...                  *)
LEMMA CallRegisters ==
  ASSUME LineInv, prog' = prog, Here \in Calls, callGraph' = Register(Here, Callees(Here))
  PROVE  Registers
<1> DEFINE l == P.inst[Here].line
           e == [call |-> IF callGraph[l].call = None THEN Here ELSE callGraph[l].call,
                 callees |-> Callees(Here)]
<1>1. P' = P /\ Calls' = Calls /\ Lines' = Lines
  BY SameProgram DEF Lines
<1>2. l \in Lines
  BY DEF Lines
<1>3. e.call \in Calls /\ P.inst[e.call].line = l /\ (OwnLine(Here) => e.call = Here)
  BY <1>2 DEF LineInv, OwnLine
<1>4. callGraph' = [callGraph EXCEPT ![l] = e]
  BY DEF Register
<1>5. OwnLine(Here) => e = [call |-> Here, callees |-> Callees(Here)]
  BY <1>3
<1>6. ASSUME NEW J \in Calls, OwnLine(J), J # Here
      PROVE  P.inst[J].line \in Lines \ {l}
  BY <1>6 DEF OwnLine, Lines
<1> HIDE DEF e
<1>7. DOMAIN callGraph' = Lines /\ \A k \in Lines : callGraph'[k] = IF k = l THEN e ELSE callGraph[k]
  BY <1>2, <1>4 DEF LineInv
<1> HIDE DEF l
<1>8. LineInv'
  BY <1>1, <1>2, <1>3, <1>7 DEF LineInv
<1>9. ASSUME NEW J \in Calls, OwnLine(J)
      PROVE  callGraph'[P.inst[J].line] = IF J = Here THEN [call |-> J, callees |-> Callees(J)] ELSE Known(J)
  <2>1. CASE J = Here
    BY <1>2, <1>5, <1>7, <1>9, <2>1 DEF l
  <2>2. CASE J # Here
    BY <1>6, <1>7, <1>9, <2>2 DEF Known
  <2> QED BY <2>1, <2>2
<1> QED BY <1>8, <1>9 DEF Registers

(* ... and any other visit changes nothing there.                           *)
LEMMA NothingRegisters ==
  ASSUME LineInv, prog' = prog, Here \notin Calls, callGraph' = callGraph
  PROVE  Registers
<1>1. P' = P /\ Calls' = Calls /\ Lines' = Lines
  BY SameProgram DEF Lines
<1>2. LineInv'
  BY <1>1 DEF LineInv
<1> QED BY <1>2 DEF Registers, Known

\* what every transfer function does to the maps: it sets what leaves the instruction
\* and enters the next one; functions in which it changes anything else are queued
Visited ==
  /\ UNCHANGED <<prog, argOrder, worklist_, fn, bbWorklist, block, oldOut>>
  /\ block # None /\ pc \in 1..Len(P.code[block]) /\ pc' = pc + 1
  /\ ShapeInv' /\ Registers
  /\ requeued \subseteq requeued'
  /\ \A J \in P.insts : P.fnOf[J] \notin requeued' =>
       /\ J # Here => After(J)' = After(J)
       /\ ~ (pc < Len(P.code[block]) /\ J = P.code[block][pc+1]) => Before(J)' = Before(J)
  /\ EntriesGrow
  /\ fn \notin requeued' =>
       \A b, k : b = block /\ k = pc => (SolvedAt(b, k) /\ PassedAt(b, k))'

(* What the visitor has at hand.                                            *)
LEMMA HereFacts ==
  ASSUME ControlInv, block # None, pc \in DOMAIN P.code[block]
  PROVE  /\ fn # None /\ fn \in P.fns /\ block \in P.blocks[fn] /\ pc \in 1..Len(P.code[block])
         /\ Len(P.code[block]) \in Nat /\ prog \in DOMAIN Programs
         /\ Lies(fn, block, pc, Here) /\ Here \in P.insts /\ P.fnOf[Here] = fn
         /\ pc < Len(P.code[block]) =>
              /\ Lies(fn, block, pc + 1, P.code[block][pc+1])
              /\ P.code[block][pc+1] \in P.insts
              /\ P.code[block][pc+1] # Here
              /\ \A F \in DefinedFns(P) : P.code[block][pc+1] # FirstInst(P, F)
<1>1. fn # None /\ fn \in P.fns /\ block \in P.blocks[fn] /\ prog \in DOMAIN Programs
  BY DEF ControlInv
<1>2. pc \in 1..Len(P.code[block]) /\ Len(P.code[block]) \in Nat
  BY <1>1, BlockFacts
<1>3. Lies(fn, block, pc, Here) /\ Here \in P.insts /\ P.fnOf[Here] = fn
  <2>1. Lies(fn, block, pc, Here)
    BY <1>1, <1>2 DEF Lies, Here
  <2> QED BY <2>1, <1>1, PlaceFacts
<1>4. ASSUME pc < Len(P.code[block])
      PROVE  /\ Lies(fn, block, pc + 1, P.code[block][pc+1])
             /\ P.code[block][pc+1] \in P.insts
             /\ P.code[block][pc+1] # Here
             /\ \A F \in DefinedFns(P) : P.code[block][pc+1] # FirstInst(P, F)
  <2> DEFINE J == P.code[block][pc+1]
  <2>1. Lies(fn, block, pc + 1, J)
    BY <1>1, <1>2, <1>4, BlockFacts DEF Lies
  <2>2. \A G, c, j : Lies(G, c, j, J) => j = pc + 1
    <3> HIDE DEF J
    <3> QED BY <1>1, <2>1, PlaceFacts
  <2>3. J # Here
    BY <2>2, <1>2, <1>3
  <2>4. ASSUME NEW F \in DefinedFns(P)
        PROVE  J # FirstInst(P, F)
    <3>1. Lies(F, P.entry[F], 1, FirstInst(P, F))
      BY <1>1, EntryFacts
    <3> HIDE DEF J
    <3> QED BY <3>1, <2>2, <1>2
  <2>5. J \in P.insts
    <3> HIDE DEF J
    <3> QED BY <1>1, <2>1, PlaceFacts
  <2> QED BY <2>1, <2>3, <2>4, <2>5
<1> QED BY <1>1, <1>2, <1>3, <1>4

\* one half of a pair is replaced
PutIn(x, d)  == [x EXCEPT !.in = d]
PutOut(x, d) == [x EXCEPT !.out = d]

(* Then the other half stays as it is.                                      *)
LEMMA PairFacts ==
  ASSUME NEW x, IsPair(x), NEW d
  PROVE  /\ IsPair(PutIn(x, d)) /\ PutIn(x, d).in = d /\ PutIn(x, d).out = x.out
         /\ IsPair(PutOut(x, d)) /\ PutOut(x, d).out = d /\ PutOut(x, d).in = x.in
<1>1. PICK a, b : x = [in |-> a, out |-> b]
  BY DEF IsPair
<1>2. ASSUME NEW q, q = PutIn(x, d)
      PROVE  q = [in |-> d, out |-> b] /\ q.in = d /\ q.out = x.out
  BY <1>1, <1>2 DEF PutIn
<1>3. ASSUME NEW q, q = PutOut(x, d)
      PROVE  q = [in |-> a, out |-> d] /\ q.out = d /\ q.in = x.in
  BY <1>1, <1>3 DEF PutOut
<1> QED BY <1>2, <1>3 DEF IsPair

\* one half of one pair of a map is replaced
WithIn(r, I, d)  == [r EXCEPT ![I].in = d]
WithOut(r, I, d) == [r EXCEPT ![I].out = d]

(* Then the rest of the map stays as it is.                                 *)
LEMMA SetBefore ==
  ASSUME NEW r, PairMap(r), NEW I \in P.insts, NEW d, NEW q, q = WithIn(r, I, d)
  PROVE  /\ PairMap(q)
         /\ \A J \in P.insts : q[J].in = (IF J = I THEN d ELSE r[J].in) /\ q[J].out = r[J].out
<1> DEFINE x == PutIn(r[I], d)
<1>1. r = [J \in P.insts |-> r[J]] /\ \A J \in P.insts : IsPair(r[J])
  BY DEF PairMap
<1>2. q = [J \in P.insts |-> IF J = I THEN x ELSE r[J]]
  BY <1>1 DEF WithIn, PutIn
<1>3. IsPair(x) /\ x.in = d /\ x.out = r[I].out
  BY <1>1, PairFacts
<1> HIDE DEF x
<1> QED BY <1>1, <1>2, <1>3 DEF PairMap

LEMMA SetAfter ==
  ASSUME NEW r, PairMap(r), NEW I \in P.insts, NEW d, NEW q, q = WithOut(r, I, d)
  PROVE  /\ PairMap(q)
         /\ \A J \in P.insts : q[J].out = (IF J = I THEN d ELSE r[J].out) /\ q[J].in = r[J].in
<1> DEFINE x == PutOut(r[I], d)
<1>1. r = [J \in P.insts |-> r[J]] /\ \A J \in P.insts : IsPair(r[J])
  BY DEF PairMap
<1>2. q = [J \in P.insts |-> IF J = I THEN x ELSE r[J]]
  BY <1>1 DEF WithOut, PutOut
<1>3. IsPair(x) /\ x.out = d /\ x.in = r[I].in
  BY <1>1, PairFacts
<1> HIDE DEF x
<1> QED BY <1>1, <1>2, <1>3 DEF PairMap

\* one half of all the pairs of a map is replaced
WithIns(r, h)  == [J \in P.insts |-> PutIn(r[J], h[J])]
WithOuts(r, h) == [J \in P.insts |-> PutOut(r[J], h[J])]

(* Then the other half stays as it is.                                      *)
LEMMA SetBefores ==
  ASSUME NEW r, PairMap(r), NEW h
  PROVE  /\ PairMap(WithIns(r, h))
         /\ \A J \in P.insts : WithIns(r, h)[J].in = h[J] /\ WithIns(r, h)[J].out = r[J].out
<1>1. \A J \in P.insts : IsPair(r[J])
  BY DEF PairMap
<1>2. ASSUME NEW J \in P.insts
      PROVE  /\ IsPair(WithIns(r, h)[J])
             /\ WithIns(r, h)[J].in = h[J] /\ WithIns(r, h)[J].out = r[J].out
  <2>1. WithIns(r, h)[J] = PutIn(r[J], h[J])
    BY DEF WithIns
  <2> QED BY <1>1, <2>1, PairFacts
<1>3. WithIns(r, h) = [J \in P.insts |-> WithIns(r, h)[J]]
  BY DEF WithIns
<1> QED BY <1>2, <1>3 DEF PairMap

LEMMA SetAfters ==
  ASSUME NEW r, PairMap(r), NEW h
  PROVE  /\ PairMap(WithOuts(r, h))
         /\ \A J \in P.insts : WithOuts(r, h)[J].out = h[J] /\ WithOuts(r, h)[J].in = r[J].in
<1>1. \A J \in P.insts : IsPair(r[J])
  BY DEF PairMap
<1>2. ASSUME NEW J \in P.insts
      PROVE  /\ IsPair(WithOuts(r, h)[J])
             /\ WithOuts(r, h)[J].out = h[J] /\ WithOuts(r, h)[J].in = r[J].in
  <2>1. WithOuts(r, h)[J] = PutOut(r[J], h[J])
    BY DEF WithOuts
  <2> QED BY <1>1, <2>1, PairFacts
<1>3. WithOuts(r, h) = [J \in P.insts |-> WithOuts(r, h)[J]]
  BY DEF WithOuts
<1> QED BY <1>2, <1>3 DEF PairMap

(* Leave makes of the maps what the transfer function made of them, and     *)
(* hands the value on.                                                      *)
LEMMA LeaveFacts ==
  ASSUME ControlInv, block # None, pc \in DOMAIN P.code[block],
         NEW res, PairMap(res), Leave(res)
  PROVE  /\ ShapeInv' /\ P' = P
         /\ \A J \in P.insts :
              /\ After(J)' = res[J].out
              /\ Before(J)' = IF pc < Len(P.code[block]) /\ J = P.code[block][pc+1]
                              THEN res[Here].out ELSE res[J].in
<1>1. P' = P
  BY SameProgram DEF Leave
<1>2. /\ pc \in 1..Len(P.code[block]) /\ Len(P.code[block]) \in Nat /\ Here \in P.insts
      /\ pc < Len(P.code[block]) => P.code[block][pc+1] \in P.insts
  BY HereFacts
<1>3. /\ PairMap(result')
      /\ \A J \in P.insts :
           /\ result'[J].out = res[J].out
           /\ result'[J].in = IF pc < Len(P.code[block]) /\ J = P.code[block][pc+1]
                              THEN res[Here].out ELSE res[J].in
  <2>1. CASE pc = Len(P.code[block])
    <3>1. result' = res
      BY <2>1 DEF Leave
    <3> QED BY <3>1, <2>1, <1>2
  <2>2. CASE pc < Len(P.code[block])
    <3> DEFINE K == P.code[block][pc+1]
               d == res[Here].out
    <3>1. K \in P.insts /\ result' = WithIn(res, K, d)
      BY <1>2, <2>2 DEF Leave, Here, WithIn
    <3>2. /\ PairMap(result')
          /\ \A J \in P.insts : result'[J].in = (IF J = K THEN d ELSE res[J].in) /\ result'[J].out = res[J].out
      <4> HIDE DEF K, d
      <4> QED BY <3>1, SetBefore
    <3> QED BY <3>2, <2>2
  <2> QED BY <1>2, <2>1, <2>2
<1>4. ShapeInv'
  BY <1>1, <1>3 DEF ShapeInv, PairMap
<1> QED BY <1>1, <1>3, <1>4 DEF Before, After

(* A transfer function that changes the maps only so, visits.               *)
LEMMA LeaveVisits ==
  ASSUME Inv, block # None, pc \in DOMAIN P.code[block],
         NEW res, PairMap(res), Leave(res), Registers, requeued \subseteq requeued',
         \A J \in P.insts : P.fnOf[J] \notin requeued' =>
           res[J].in = Before(J) /\ (J # Here => res[J].out = After(J)),
         \A F \in DefinedFns(P) : \A J \in {FirstInst(P, F)} : Before(J) \subseteq res[J].in,
         fn \notin requeued' /\ Here \notin Calls => res[Here].out = Out(P, Here, Before(Here)),
         fn \notin requeued' /\ Here \in Calls /\ argOrder[Here] # <<>> =>
           \A F \in Bodies(Here) :
             PassedTo(P, Here, F, argOrder[Here], Before(Here)) \subseteq res[FirstInst(P, F)].in
  PROVE  Visited
<1>1. /\ pc \in 1..Len(P.code[block]) /\ Len(P.code[block]) \in Nat /\ prog \in DOMAIN Programs
      /\ Here \in P.insts /\ P.fnOf[Here] = fn
      /\ pc < Len(P.code[block]) =>
           /\ P.code[block][pc+1] \in P.insts /\ P.code[block][pc+1] # Here
           /\ \A F \in DefinedFns(P) : P.code[block][pc+1] # FirstInst(P, F)
  BY HereFacts DEF Inv
<1>2. /\ ShapeInv' /\ P' = P
      /\ \A J \in P.insts :
           /\ After(J)' = res[J].out
           /\ Before(J)' = IF pc < Len(P.code[block]) /\ J = P.code[block][pc+1]
                           THEN res[Here].out ELSE res[J].in
  BY LeaveFacts DEF Inv
<1>3. /\ UNCHANGED <<prog, argOrder, worklist_, fn, bbWorklist, block, oldOut>>
      /\ pc' = pc + 1
  BY DEF Leave
<1>4. \A J \in P.insts : P.fnOf[J] \notin requeued' =>
        /\ J # Here => After(J)' = After(J)
        /\ ~ (pc < Len(P.code[block]) /\ J = P.code[block][pc+1]) => Before(J)' = Before(J)
  BY <1>2
<1>5. ASSUME NEW F \in DefinedFns(P)
      PROVE  FirstInst(P, F) \in P.insts /\ \A J \in {FirstInst(P, F)} : Before(J)' = res[J].in
  <2>1. FirstInst(P, F) \in P.insts
    BY <1>1, EntryInst
  <2> QED BY <2>1, <1>1, <1>2
<1>6. EntriesGrow
  BY <1>5 DEF EntriesGrow
<1>7. ASSUME fn \notin requeued', NEW b, NEW k, b = block, k = pc, NEW I, I = Here
      PROVE  (SolvedAt(b, k) /\ PassedAt(b, k))'
  <2>1. /\ P' = P /\ Calls' = Calls /\ P.code[b][k] = I /\ argOrder' = argOrder
        /\ I \in P.insts /\ P.fnOf[I] \notin requeued'
    BY <1>1, <1>2, <1>3, <1>7, SameProgram DEF Here
  <2>2. Before(I)' = Before(I) /\ After(I)' = res[I].out
    BY <2>1, <1>1, <1>2, <1>7
  <2>3. \A J : k < Len(P.code[b]) /\ J = P.code[b][k+1] => Before(J)' = res[I].out
    BY <2>1, <1>1, <1>2, <1>7
  <2>4. SolvedAt(b, k)'
    BY <2>1, <2>2, <2>3, <1>7 DEF SolvedAt
  <2>5. ASSUME I \in Calls, argOrder[I] # <<>>
        PROVE  Passed(I)'
    <3>1. Bodies(I)' = Bodies(I)
      BY <2>1, <2>2 DEF Bodies, Callees, Before
    <3>2. SUFFICES ASSUME NEW F \in Bodies(I)
                   PROVE  (PassedTo(P, I, F, argOrder[I], Before(I)) \subseteq Before(FirstInst(P, F)))'
      BY <3>1 DEF Passed
    <3>3. PassedTo(P, I, F, argOrder[I], Before(I)) \subseteq res[FirstInst(P, F)].in
      BY <2>5, <1>7
    <3>4. F \in DefinedFns(P)
      BY BodiesAreDefined
    <3>5. result'[FirstInst(P, F)].in = res[FirstInst(P, F)].in
      BY <3>4, <1>5 DEF Before
    <3> QED BY <2>1, <2>2, <3>3, <3>5 DEF Before
  <2>6. ASSUME I \in Calls
        PROVE  Registered(I)'
    <3>1. OwnLine(I)' = OwnLine(I) /\ Callees(I)' = Callees(I)
      BY <2>1, <2>2 DEF OwnLine, Callees, Before
    <3>2. OwnLine(I) => callGraph'[P.inst[I].line] = [call |-> I, callees |-> Callees(I)]
      BY <1>7, <2>6 DEF Registers
    <3> QED BY <2>1, <3>1, <3>2 DEF Registered, Known
  <2>7. PassedAt(b, k)'
    BY <2>1, <2>5, <2>6 DEF PassedAt
  <2> QED BY <2>4, <2>7
<1> QED BY <1>1, <1>2, <1>3, <1>4, <1>6, <1>7 DEF Visited

(* A transfer function that only sets what leaves its instruction, visits:  *)
(* transferOnPhiNode to transferOnMemCpyInst (PointTo.h:182-201, 390-508)   *)
(* and a call that passes nothing (l.214-218, 239-243).                     *)
LEMMA SetVisits ==
  ASSUME Inv, block # None, pc \in DOMAIN P.code[block], NEW D,
         Leave(WithOut(result, Here, D)), Registers, requeued' = requeued,
         Here \notin Calls => D = Out(P, Here, Before(Here)),
         Here \in Calls /\ argOrder[Here] # <<>> => Bodies(Here) = {}
  PROVE  Visited
<1>1. Here \in P.insts /\ prog \in DOMAIN Programs
  BY HereFacts DEF Inv
<1> DEFINE res == WithOut(result, Here, D)
<1>2. /\ PairMap(res)
      /\ \A J \in P.insts : res[J].out = (IF J = Here THEN D ELSE After(J)) /\ res[J].in = Before(J)
  <2>1. PairMap(result)
    BY DEF Inv, ShapeInv
  <2>2. /\ PairMap(res)
        /\ \A J \in P.insts : res[J].out = (IF J = Here THEN D ELSE result[J].out) /\ res[J].in = result[J].in
    BY <1>1, <2>1, SetAfter
  <2> QED BY <2>2 DEF Before, After
<1>3. \A F \in DefinedFns(P) : FirstInst(P, F) \in P.insts
  BY <1>1, EntryInst
<1> HIDE DEF res
<1>4. \A F \in DefinedFns(P) : \A J \in {FirstInst(P, F)} : Before(J) \subseteq res[J].in
  BY <1>2, <1>3
<1>5. Leave(res)
  BY DEF res
<1> QED BY <1>1, <1>2, <1>4, <1>5, LeaveVisits

LEMMA InstVisits ==
  ASSUME Inv, TransferOnInst
  PROVE  Visited
<1>1. block # None /\ pc \in DOMAIN P.code[block] /\ Here \notin Calls
  BY DEF TransferOnInst, At, Here, Calls, InstsOf
<1>2. /\ Leave(WithOut(result, Here, Out(P, Here, Before(Here))))
      /\ requeued' = requeued
  BY DEF TransferOnInst, Before, Here, WithOut
<1>3. Registers
  BY <1>1, NothingRegisters DEF TransferOnInst, Leave, Inv
<1> QED BY <1>1, <1>2, <1>3, SetVisits

(* The facts of a call enter its callees (PointTo.h:245-297): the entries   *)
(* of the callees that are not queued had them already.                     *)
LEMMA EnteringVisits ==
  ASSUME Inv, block # None, pc \in DOMAIN P.code[block], Here \in Calls, NEW h,
         \A J \in P.insts :
           h[J] = IF J = FirstInst(P, P.fnOf[J]) /\ P.fnOf[J] \in Bodies(Here)
                  THEN Merge(Before(J), PassedTo(P, Here, P.fnOf[J], argOrder[Here], Before(Here)))
                  ELSE Before(J),
         Leave(WithIns(result, h)), Registers,
         requeued' = requeued \cup
           {F \in Bodies(Here) : ~ PassedTo(P, Here, F, argOrder[Here], Before(Here))
                                     \subseteq Before(FirstInst(P, F))}
  PROVE  Visited
<1> DEFINE Given(F) == PassedTo(P, Here, F, argOrder[Here], Before(Here))
           res == WithIns(result, h)
<1>1. prog \in DOMAIN Programs
  BY DEF Inv, ControlInv
<1>2. PairMap(res) /\ \A J \in P.insts : res[J].in = h[J] /\ res[J].out = After(J)
  <2>1. PairMap(result)
    BY DEF Inv, ShapeInv
  <2> QED BY <2>1, SetBefores DEF After
<1>3. \A J \in P.insts :
        res[J].in = IF J = FirstInst(P, P.fnOf[J]) /\ P.fnOf[J] \in Bodies(Here)
                    THEN Before(J) \cup Given(P.fnOf[J]) ELSE Before(J)
  BY <1>2 DEF Merge
<1>4. Leave(res)
  OBVIOUS
<1>5. /\ requeued' = requeued \cup {F \in Bodies(Here) : ~ Given(F) \subseteq Before(FirstInst(P, F))}
      /\ requeued \subseteq requeued'
  OBVIOUS
<1>6. \A F \in DefinedFns(P) : FirstInst(P, F) \in P.insts /\ P.fnOf[FirstInst(P, F)] = F
  BY <1>1, EntryInst
<1> HIDE DEF Given, res
<1>7. \A J \in P.insts : P.fnOf[J] \notin requeued' =>
        res[J].in = Before(J) /\ (J # Here => res[J].out = After(J))
  BY <1>2, <1>3, <1>5
<1>8. \A F \in DefinedFns(P) : \A J \in {FirstInst(P, F)} : Before(J) \subseteq res[J].in
  BY <1>3, <1>6
<1>9. \A F \in Bodies(Here) : Given(F) \subseteq res[FirstInst(P, F)].in
  BY <1>3, <1>6, BodiesAreDefined
<1>10. \A F \in Bodies(Here) :
         PassedTo(P, Here, F, argOrder[Here], Before(Here)) \subseteq res[FirstInst(P, F)].in
  BY <1>9 DEF Given
<1> QED BY <1>2, <1>4, <1>5, <1>7, <1>8, <1>10, LeaveVisits

LEMMA CallVisits ==
  ASSUME Inv, TransferOnCallInst
  PROVE  Visited
<1>1. /\ block # None /\ pc \in DOMAIN P.code[block] /\ Here \in P.insts /\ Here \in Calls
  <2>1. block # None /\ pc \in DOMAIN P.code[block]
    BY DEF TransferOnCallInst, At
  <2>2. Here \in P.insts
    BY <2>1, HereFacts DEF Inv
  <2>3. P.inst[Here].op = "call"
    BY DEF TransferOnCallInst, At, Here
  <2> QED BY <2>1, <2>2, <2>3 DEF Calls, InstsOf
<1>5. Registers
  <2>1. prog' = prog /\ callGraph' = Register(Here, Callees(Here))
    BY DEF TransferOnCallInst, Leave, Here
  <2> QED BY <1>1, <2>1, CallRegisters DEF Inv
<1>2. CASE P.inst[Here].callee \in P.decls
  <2>1. Leave(WithOut(result, Here, Before(Here))) /\ requeued' = requeued
    BY <1>2 DEF TransferOnCallInst, Here, Before, WithOut
  <2>2. Bodies(Here) = {}
    <3>1. P.decls \subseteq P.fns
      BY ProgramAssumption DEF Verified, P, Inv, ControlInv
    <3> QED BY <1>2, <3>1 DEF Bodies, Callees, PointToFunctions
  <2> QED BY <1>1, <1>5, <2>1, <2>2, SetVisits
<1>3. CASE P.inst[Here].callee \notin P.decls /\ argOrder[Here] = <<>>
  <2> DEFINE D == IF Bodies(Here) = {} THEN After(Here) ELSE Merge(After(Here), Before(Here))
  <2>1. Leave(WithOut(result, Here, D)) /\ requeued' = requeued
    BY <1>3 DEF TransferOnCallInst, Here, Before, After, WithOut
  <2> HIDE DEF D
  <2> QED BY <1>1, <1>3, <1>5, <2>1, SetVisits
<1>4. CASE P.inst[Here].callee \notin P.decls /\ argOrder[Here] # <<>>
  <2> DEFINE Given(F) == PassedTo(P, Here, F, argOrder[Here], Before(Here))
             h == [J \in P.insts |->
                     IF J = FirstInst(P, P.fnOf[J]) /\ P.fnOf[J] \in Bodies(Here)
                     THEN Merge(Before(J), Given(P.fnOf[J])) ELSE Before(J)]
  <2>1. /\ Leave([J \in P.insts |-> [result[J] EXCEPT !.in =
                    IF J = FirstInst(P, P.fnOf[J]) /\ P.fnOf[J] \in Bodies(Here)
                    THEN Merge(Before(J), Given(P.fnOf[J])) ELSE Before(J)]])
        /\ requeued' = requeued \cup
             {F \in Bodies(Here) : ~ Given(F) \subseteq Before(FirstInst(P, F))}
    BY <1>4 DEF TransferOnCallInst, Here, Before
  <2>2. Leave(WithIns(result, h))
    <3>1. WithIns(result, h) =
            [J \in P.insts |-> [result[J] EXCEPT !.in =
               IF J = FirstInst(P, P.fnOf[J]) /\ P.fnOf[J] \in Bodies(Here)
               THEN Merge(Before(J), Given(P.fnOf[J])) ELSE Before(J)]]
      <4> HIDE DEF Given
      <4> QED BY Zenon DEF WithIns, PutIn
    <3> HIDE DEF h, Given
    <3> QED BY <2>1, <3>1, Zenon
  <2>3. \A J \in P.insts :
          h[J] = IF J = FirstInst(P, P.fnOf[J]) /\ P.fnOf[J] \in Bodies(Here)
                 THEN Merge(Before(J), Given(P.fnOf[J])) ELSE Before(J)
    <3> HIDE DEF Given
    <3> QED OBVIOUS
  <2> HIDE DEF h
  <2> QED BY <1>1, <1>5, <2>1, <2>2, <2>3, EnteringVisits
<1> QED BY <1>2, <1>3, <1>4

(* The facts of a return reach the calls that are known (PointTo.h:303-388):*)
(* the calls whose functions are not queued had them already.               *)
LEMMA ReturnVisits ==
  ASSUME Inv, TransferOnReturnInst
  PROVE  Visited
<1>1. block # None /\ pc \in DOMAIN P.code[block] /\ P.inst[Here].op = "ret"
  BY DEF TransferOnReturnInst, At, Here
<1>2. Here \in P.insts /\ prog \in DOMAIN Programs /\ Here \notin Calls
  BY <1>1, HereFacts DEF Inv, Calls, InstsOf
<1> DEFINE Given(J) == ReturnedTo(P, J, fn, argOrder[J], Here, Before(Here))
           h == [J \in P.insts |-> IF J = Here THEN Before(Here)
                                   ELSE IF J \in CallSites THEN Merge(After(J), Given(J)) ELSE After(J)]
           res == WithOuts(result, h)
<1>3. /\ Leave([J \in P.insts |-> [result[J] EXCEPT !.out =
                  IF J = Here THEN Before(Here)
                  ELSE IF J \in CallSites THEN Merge(After(J), Given(J)) ELSE After(J)]])
      /\ requeued' = requeued \cup Callers(Here, Before(Here))
  BY DEF TransferOnReturnInst, Here, Before, After
<1>4. \A J \in P.insts :
        h[J] = IF J = Here THEN Before(Here)
               ELSE IF J \in CallSites THEN Merge(After(J), Given(J)) ELSE After(J)
  <2> HIDE DEF Given
  <2> QED OBVIOUS
<1>5. Leave(res)
  <2>1. WithOuts(result, h) =
          [J \in P.insts |-> [result[J] EXCEPT !.out =
             IF J = Here THEN Before(Here)
             ELSE IF J \in CallSites THEN Merge(After(J), Given(J)) ELSE After(J)]]
    <3> HIDE DEF Given
    <3> QED BY Zenon DEF WithOuts, PutOut
  <2> HIDE DEF h, Given
  <2> QED BY <1>3, <2>1, Zenon
<1>6. PairMap(res) /\ \A J \in P.insts : res[J].out = h[J] /\ res[J].in = Before(J)
  <2>1. PairMap(result)
    BY DEF Inv, ShapeInv
  <2> HIDE DEF h
  <2> QED BY <2>1, SetAfters DEF Before
<1>7. \A J \in CallSites : P.fnOf[J] \notin requeued' => Given(J) \subseteq After(J)
  BY <1>3 DEF Callers, Reached, After
<1> HIDE DEF Given, h, res
<1>8. \A J \in P.insts : P.fnOf[J] \notin requeued' =>
        res[J].in = Before(J) /\ (J # Here => res[J].out = After(J))
  BY <1>4, <1>6, <1>7 DEF Merge
<1>9. \A F \in DefinedFns(P) : \A J \in {FirstInst(P, F)} : Before(J) \subseteq res[J].in
  BY <1>2, <1>6, EntryInst
<1>10. res[Here].out = Out(P, Here, Before(Here))
  BY <1>1, <1>2, <1>4, <1>6 DEF Out
<1>11. Registers
  BY <1>2, NothingRegisters DEF TransferOnReturnInst, Leave, Inv
<1> QED BY <1>1, <1>2, <1>3, <1>5, <1>6, <1>8, <1>9, <1>10, <1>11, LeaveVisits

-------------------------------------------------------------------------------
(* Every step keeps the invariant. *)

(* Where nothing of it changed, a function at rest stays solved.            *)
LEMMA RestKept ==
  ASSUME Inv, prog' = prog, argOrder' = argOrder, EntriesGrow, NEW F \in AtRest,
         \A J \in P.insts : P.fnOf[J] = F => Before(J)' = Before(J) /\ After(J)' = After(J),
         \A J \in Calls : P.fnOf[J] = F /\ OwnLine(J) => Known(J)' = Known(J)
  PROVE  \A b \in P.blocks[F] :
           /\ \A p \in P.preds[b] : (After(LastOf(P, p)) \subseteq Before(FirstOf(P, b)))'
           /\ \A k \in DOMAIN P.code[b] : (SolvedAt(b, k) /\ PassedAt(b, k))'
<1> SUFFICES ASSUME NEW b \in P.blocks[F]
             PROVE  /\ \A p \in P.preds[b] : (After(LastOf(P, p)) \subseteq Before(FirstOf(P, b)))'
                    /\ \A k \in DOMAIN P.code[b] : (SolvedAt(b, k) /\ PassedAt(b, k))'
  OBVIOUS
<1>1. P' = P /\ prog \in DOMAIN Programs /\ F \in P.fns
  BY SameProgram DEF Inv, ControlInv, AtRest, DefinedFns
<1>2. ASSUME NEW c \in P.blocks[F], NEW k \in DOMAIN P.code[c], NEW J, J = P.code[c][k]
      PROVE  Before(J)' = Before(J) /\ After(J)' = After(J)
  <2>1. Lies(F, c, k, J)
    BY <1>1, <1>2 DEF Lies
  <2> QED BY <2>1, <1>1, PlaceFacts
<1>3. ASSUME NEW p \in P.preds[b]
      PROVE  (After(LastOf(P, p)) \subseteq Before(FirstOf(P, b)))'
  <2>1. p \in P.blocks[F]
    BY <1>1, EdgeFacts
  <2>2. PICK I, J : I = LastOf(P, p) /\ J = FirstOf(P, b)
    OBVIOUS
  <2>3. After(I)' = After(I) /\ Before(J)' = Before(J)
    <3>1. Lies(F, p, Len(P.code[p]), I) /\ Lies(F, b, 1, J)
      BY <1>1, <2>1, <2>2, BlockFacts
    <3> QED BY <3>1, <1>1, PlaceFacts
  <2>4. After(I) \subseteq Before(J)
    BY <2>2 DEF Inv, RestInv
  <2> QED BY <1>1, <2>2, <2>3, <2>4 DEF After, Before
<1>4. ASSUME NEW k \in DOMAIN P.code[b]
      PROVE  (SolvedAt(b, k) /\ PassedAt(b, k))'
  <2>1. SolvedAt(b, k) /\ PassedAt(b, k)
    BY DEF Inv, RestInv
  <2>2. PICK I : I = P.code[b][k]
    OBVIOUS
  <2>3. \A J : k < Len(P.code[b]) /\ J = P.code[b][k+1] => Before(J)' = Before(J)
    <3>1. k < Len(P.code[b]) => k + 1 \in DOMAIN P.code[b]
      BY <1>1, BlockFacts
    <3> QED BY <3>1, <1>2
  <2>4. Before(I)' = Before(I) /\ After(I)' = After(I)
    BY <1>2, <2>2
  <2>5. I \in Calls /\ OwnLine(I) => Known(I)' = Known(I)
    <3>1. Lies(F, b, k, I)
      BY <1>1, <2>2 DEF Lies
    <3> QED BY <3>1, <1>1, PlaceFacts
  <2> QED BY <2>1, <2>2, <2>3, <2>4, <2>5, Kept
<1> QED BY <1>3, <1>4

(* The visitor keeps the invariant, whatever the instruction.               *)
LEMMA VisitStep ==
  ASSUME Inv, Visited
  PROVE  Inv'
<1>1. /\ prog' = prog /\ argOrder' = argOrder /\ P' = P /\ prog \in DOMAIN Programs
      /\ UNCHANGED <<worklist_, fn, bbWorklist, block, oldOut>> /\ EntriesGrow
  BY SameProgram DEF Visited, Inv, ControlInv
<1>2. /\ fn # None /\ fn \in P.fns /\ block \in P.blocks[fn] /\ pc \in 1..Len(P.code[block])
      /\ Len(P.code[block]) \in Nat
      /\ Lies(fn, block, pc, Here) /\ P.fnOf[Here] = fn
      /\ pc < Len(P.code[block]) => Lies(fn, block, pc + 1, P.code[block][pc+1])
  <2>1. block # None /\ pc \in DOMAIN P.code[block]
    BY BlockFacts DEF Visited, Inv, ControlInv
  <2> QED BY <2>1, HereFacts DEF Inv
<1>3. \A J \in P.insts : P.fnOf[J] \notin requeued' =>
        /\ J # Here => After(J)' = After(J)
        /\ ~ (pc < Len(P.code[block]) /\ J = P.code[block][pc+1]) => Before(J)' = Before(J)
  BY DEF Visited
<1>4. ASSUME NEW F, NEW b, NEW k, NEW J, Lies(F, b, k, J), F \notin requeued'
      PROVE  /\ ~ (b = block /\ k = pc) => After(J)' = After(J)
             /\ ~ (b = block /\ k = pc + 1) => Before(J)' = Before(J)
             /\ F # fn => After(J)' = After(J) /\ Before(J)' = Before(J)
  <2>1. J \in P.insts /\ P.fnOf[J] = F /\ \A G, c, j : Lies(G, c, j, J) => G = F /\ c = b /\ j = k
    BY <1>1, <1>4, PlaceFacts
  <2> QED BY <2>1, <1>2, <1>3, <1>4
<1>5. ControlInv'
  BY <1>1, <1>2 DEF Inv, ControlInv, Visited
<1>6. RestInv'
  <2>1. AtRest' \subseteq AtRest
    BY <1>1 DEF AtRest, Visited
  <2> SUFFICES ASSUME NEW F \in AtRest, F \notin requeued', F # fn
               PROVE  \A b \in P.blocks[F] :
                        /\ \A p \in P.preds[b] : (After(LastOf(P, p)) \subseteq Before(FirstOf(P, b)))'
                        /\ \A k \in DOMAIN P.code[b] : (SolvedAt(b, k) /\ PassedAt(b, k))'
    BY <1>1, <2>1 DEF RestInv, AtRest
  <2>2. ASSUME NEW J \in P.insts, P.fnOf[J] = F
        PROVE  Before(J)' = Before(J) /\ After(J)' = After(J)
    <3>1. PICK b, k : Lies(F, b, k, J)
      BY <1>1, <2>2, InstFacts
    <3> QED BY <3>1, <1>4
  <2>3. \A J \in Calls : P.fnOf[J] = F /\ OwnLine(J) => Known(J)' = Known(J)
    BY <1>1, <1>2 DEF Visited, Registers, Known
  <2> QED BY <1>1, <2>2, <2>3, RestKept
<1>7. RunInv'
  <2> SUFFICES ASSUME fn \notin requeued', NEW b \in P.blocks[fn] \ bbWorklist
               PROVE  /\ \A p \in P.preds[b] :
                           ((IF p = block THEN oldOut ELSE After(LastOf(P, p)))
                              \subseteq Before(FirstOf(P, b)))'
                      /\ \A k \in DOMAIN P.code[b] :
                           (b = block => k < pc + 1) => (SolvedAt(b, k) /\ PassedAt(b, k))'
    BY <1>1, <1>2 DEF RunInv, Visited
  <2>0. fn \notin requeued
    BY DEF Visited
  <2>1. ASSUME NEW p \in P.preds[b]
        PROVE  ((IF p = block THEN oldOut ELSE After(LastOf(P, p))) \subseteq Before(FirstOf(P, b)))'
    <3>1. PICK I, J : I = LastOf(P, p) /\ J = FirstOf(P, b)
      OBVIOUS
    <3>2. p \in P.blocks[fn]
      BY <1>1, <1>2, EdgeFacts
    <3>3. Lies(fn, p, Len(P.code[p]), I) /\ Lies(fn, b, 1, J)
      BY <1>1, <1>2, <3>1, <3>2, BlockFacts
    <3>4. Before(J)' = Before(J)
      BY <3>3, <1>4, <1>2
    <3>5. p # block => After(I)' = After(I)
      BY <3>3, <1>4
    <3>6. (IF p = block THEN oldOut ELSE After(I)) \subseteq Before(J)
      BY <1>2, <2>0, <3>1 DEF Inv, RunInv
    <3> QED BY <1>1, <3>1, <3>4, <3>5, <3>6 DEF After, Before
  <2>2. ASSUME NEW k \in DOMAIN P.code[b], b = block => k < pc + 1
        PROVE  (SolvedAt(b, k) /\ PassedAt(b, k))'
    <3>1. CASE b = block /\ k = pc
      BY <3>1 DEF Visited
    <3>2. CASE ~ (b = block /\ k = pc)
      <4>1. k \in 1..Len(P.code[b]) /\ Len(P.code[b]) \in Nat /\ DOMAIN P.code[b] = 1..Len(P.code[b])
        BY <1>1, <1>2, BlockFacts
      <4>2. b = block => k < pc
        BY <2>2, <3>2, <4>1, <1>2
      <4>3. SolvedAt(b, k) /\ PassedAt(b, k)
        BY <1>2, <2>0, <4>2 DEF Inv, RunInv
      <4>4. PICK I : I = P.code[b][k]
        OBVIOUS
      <4>5. Before(I)' = Before(I) /\ After(I)' = After(I)
        <5>1. Lies(fn, b, k, I)
          BY <1>2, <4>4 DEF Lies
        <5> QED BY <5>1, <1>4, <4>2, <4>1, <1>2
      <4>6. ASSUME NEW J, k < Len(P.code[b]), J = P.code[b][k+1]
            PROVE  Before(J)' = Before(J)
        <5>1. Lies(fn, b, k + 1, J)
          BY <1>2, <4>1, <4>6 DEF Lies
        <5> QED BY <5>1, <1>4, <4>2, <4>1, <1>2
      <4>7. I \in Calls /\ OwnLine(I) => Known(I)' = Known(I)
        <5>1. I # Here
          <6>1. Lies(fn, b, k, I)
            BY <1>2, <4>4 DEF Lies
          <6> QED BY <6>1, <1>1, <1>2, <3>2, PlaceFacts
        <5> QED BY <5>1, <1>1 DEF Visited, Registers, Known
      <4> QED BY <1>1, <4>3, <4>4, <4>5, <4>6, <4>7, Kept
    <3> QED BY <3>1, <3>2
  <2> QED BY <2>1, <2>2
<1>8. ShapeInv' /\ LineInv'
  BY DEF Visited, Registers
<1> QED BY <1>5, <1>6, <1>7, <1>8 DEF Inv

(* Nothing in the maps changes: what was solved stays solved.               *)
LEMMA SameMaps ==
  ASSUME prog' = prog, argOrder' = argOrder, result' = result, callGraph' = callGraph
  PROVE  /\ P' = P /\ Calls' = Calls /\ EntriesGrow
         /\ \A J : Before(J)' = Before(J) /\ After(J)' = After(J)
         /\ \A b, k : (SolvedAt(b, k) /\ PassedAt(b, k))' <=> SolvedAt(b, k) /\ PassedAt(b, k)
         /\ \A b, p : (After(LastOf(P, p)) \subseteq Before(FirstOf(P, b)))'
                        <=> After(LastOf(P, p)) \subseteq Before(FirstOf(P, b))
         /\ Inv => ShapeInv' /\ LineInv'
<1>1. P' = P /\ Calls' = Calls
  BY SameProgram
<1>2. \A J : Before(J)' = Before(J) /\ After(J)' = After(J)
  BY DEF Before, After
<1>3. EntriesGrow
  BY <1>2 DEF EntriesGrow
<1>4. ASSUME NEW I
      PROVE  (Passed(I)' <=> Passed(I)) /\ (Registered(I)' <=> Registered(I))
  <2>1. Bodies(I)' = Bodies(I) /\ Callees(I)' = Callees(I) /\ OwnLine(I)' = OwnLine(I)
    BY <1>1 DEF Bodies, Callees, OwnLine
  <2>2. Passed(I)' <=> Passed(I)
    BY <1>1, <2>1 DEF Passed, Before
  <2>3. Registered(I)' <=> Registered(I)
    BY <1>1, <2>1 DEF Registered, Known
  <2> QED BY <2>2, <2>3
<1>5. ASSUME NEW b, NEW k
      PROVE  (SolvedAt(b, k) /\ PassedAt(b, k))' <=> SolvedAt(b, k) /\ PassedAt(b, k)
  <2>1. SolvedAt(b, k)' <=> SolvedAt(b, k)
    BY <1>1 DEF SolvedAt, Before, After
  <2>2. PICK I : I = P.code[b][k]
    OBVIOUS
  <2>3. PassedAt(b, k)' <=> PassedAt(b, k)
    BY <1>1, <1>4, <2>2 DEF PassedAt
  <2> QED BY <2>1, <2>3
<1>6. ASSUME NEW b, NEW p
      PROVE  (After(LastOf(P, p)) \subseteq Before(FirstOf(P, b)))'
               <=> After(LastOf(P, p)) \subseteq Before(FirstOf(P, b))
  BY <1>1 DEF Before, After
<1>7. Inv => ShapeInv' /\ LineInv'
  <2>1. Lines' = Lines
    BY <1>1 DEF Lines
  <2> QED BY <1>1, <2>1 DEF Inv, ShapeInv, PairMap, LineInv
<1> QED BY <1>1, <1>2, <1>3, <1>5, <1>6, <1>7

LEMMA StartFunctionStep ==
  ASSUME Inv, NEW F \in P.fns, StartFunction(F)
  PROVE  Inv'
<1>1. /\ P' = P /\ UNCHANGED <<prog, argOrder, result, block, pc, oldOut, requeued, callGraph>>
      /\ fn = None /\ fn' = F /\ worklist_' = worklist_ \ {F} /\ bbWorklist' = P.blocks[F]
      /\ prog \in DOMAIN Programs /\ requeued = {} /\ block = None
  BY SameProgram DEF StartFunction, Inv, ControlInv
<1>2. ControlInv'
  BY <1>1, EdgeFacts DEF Inv, ControlInv
<1>3. AtRest' \subseteq AtRest
  BY <1>1, ProgramAssumption DEF AtRest, P, DefinedFns
<1>4. RestInv'
  BY <1>1, <1>3, SameMaps DEF RestInv, Inv
<1>5. RunInv'
  BY <1>1 DEF RunInv
<1> QED BY <1>1, <1>2, <1>4, <1>5, SameMaps DEF Inv

LEMMA StartBlockStep ==
  ASSUME Inv, NEW b, StartBlock(b)
  PROVE  Inv'
<1>1. /\ P' = P /\ UNCHANGED <<prog, argOrder, worklist_, fn, requeued, callGraph>>
      /\ block = None /\ b \in bbWorklist /\ bbWorklist' = bbWorklist \ {b} /\ block' = b /\ pc' = 1
      /\ oldOut' = After(LastOf(P, b)) /\ prog \in DOMAIN Programs
      /\ fn # None /\ fn \in P.fns /\ bbWorklist \subseteq P.blocks[fn] /\ b \in P.blocks[fn]
  BY SameProgram DEF StartBlock, Inv, ControlInv, After
<1> DEFINE I == FirstOf(P, b)
           d == Before(I) \cup UNION {After(LastOf(P, p)) : p \in P.preds[b]}
<1>2. /\ Lies(fn, b, 1, I) /\ I \in P.insts /\ P.fnOf[I] = fn
      /\ \A G, c, j : Lies(G, c, j, I) => c = b /\ j = 1
  <2>1. Lies(fn, b, 1, I)
    BY <1>1, BlockFacts
  <2> HIDE DEF I
  <2> QED BY <1>1, <2>1, PlaceFacts
<1>3. result' = WithIn(result, I, d)
  BY DEF StartBlock, WithIn, Before, After
<1>4. /\ PairMap(result')
      /\ \A J \in P.insts : After(J)' = After(J) /\ Before(J)' = IF J = I THEN d ELSE Before(J)
  <2>1. PairMap(result)
    BY DEF Inv, ShapeInv
  <2>2. /\ PairMap(result')
        /\ \A J \in P.insts : result'[J].in = (IF J = I THEN d ELSE result[J].in) /\ result'[J].out = result[J].out
    <3> HIDE DEF I, d
    <3> QED BY <1>2, <1>3, <2>1, SetBefore
  <2> HIDE DEF I, d
  <2> QED BY <2>2 DEF Before, After
<1>5. ShapeInv' /\ LineInv' /\ \A J \in Calls : Known(J)' = Known(J)
  <2>1. Calls' = Calls /\ Lines' = Lines
    BY <1>1, SameProgram DEF Lines
  <2> QED BY <1>1, <1>4, <2>1 DEF ShapeInv, PairMap, Inv, LineInv, Known
<1>6. Before(I) \subseteq d /\ \A p \in P.preds[b] : After(LastOf(P, p)) \subseteq d
  OBVIOUS
<1> HIDE DEF d, I
<1>7. EntriesGrow
  BY <1>1, <1>4, <1>6, EntryInst DEF EntriesGrow
<1>8. ControlInv'
  <2>1. b # None /\ Len(P.code[b]) \in Nat \ {0}
    BY <1>1, EdgeFacts, BlockFacts
  <2> QED BY <1>1, <2>1 DEF Inv, ControlInv
<1>9. RestInv'
  <2> SUFFICES ASSUME NEW F \in AtRest
               PROVE  \A c \in P.blocks[F] :
                        /\ \A p \in P.preds[c] : (After(LastOf(P, p)) \subseteq Before(FirstOf(P, c)))'
                        /\ \A k \in DOMAIN P.code[c] : (SolvedAt(c, k) /\ PassedAt(c, k))'
    BY <1>1 DEF RestInv, AtRest
  <2>1. F # fn
    BY DEF AtRest
  <2>2. \A J \in P.insts : P.fnOf[J] = F => Before(J)' = Before(J) /\ After(J)' = After(J)
    BY <2>1, <1>2, <1>4
  <2> QED BY <1>1, <1>5, <1>7, <2>2, RestKept
<1>10. RunInv'
  <2> SUFFICES ASSUME fn \notin requeued, NEW c \in P.blocks[fn] \ (bbWorklist \ {b})
               PROVE  /\ \A p \in P.preds[c] :
                           ((IF p = block THEN oldOut ELSE After(LastOf(P, p)))
                              \subseteq Before(FirstOf(P, c)))'
                      /\ \A k \in DOMAIN P.code[c] :
                           (c = b => k < 1) => (SolvedAt(c, k) /\ PassedAt(c, k))'
    BY <1>1 DEF RunInv
  <2>1. ASSUME NEW p \in P.preds[c]
        PROVE  ((IF p = block THEN oldOut ELSE After(LastOf(P, p))) \subseteq Before(FirstOf(P, c)))'
    <3>1. p \in P.blocks[fn] /\ p # None
      BY <1>1, EdgeFacts
    <3>2. PICK K, J : K = LastOf(P, p) /\ J = FirstOf(P, c)
      OBVIOUS
    <3>3. Lies(fn, p, Len(P.code[p]), K) /\ Lies(fn, c, 1, J)
      BY <1>1, <3>1, <3>2, BlockFacts
    <3>4. K \in P.insts /\ J \in P.insts
      BY <1>1, <3>3, PlaceFacts
    <3>5. After(K)' = After(K) /\ (IF p = b THEN oldOut' ELSE After(K)) = After(K)
      BY <1>1, <1>4, <3>2, <3>4
    <3>6. After(K) \subseteq Before(J)'
      <4>1. CASE c = b
        <5>1. J = I
          BY <3>2, <4>1 DEF I
        <5> QED BY <4>1, <5>1, <1>4, <1>6, <3>2, <3>4
      <4>2. CASE c # b
        <5>1. J # I
          BY <4>2, <3>3, <1>2
        <5>2. After(K) \subseteq Before(J)
          BY <1>1, <3>1, <3>2, <4>2 DEF Inv, RunInv
        <5> QED BY <5>1, <5>2, <1>4, <3>4
      <4> QED BY <4>1, <4>2
    <3> QED BY <1>1, <3>2, <3>5, <3>6 DEF Before, After
  <2>2. ASSUME NEW k \in DOMAIN P.code[c], c = b => k < 1
        PROVE  (SolvedAt(c, k) /\ PassedAt(c, k))'
    <3>1. k \in 1..Len(P.code[c]) /\ Len(P.code[c]) \in Nat /\ DOMAIN P.code[c] = 1..Len(P.code[c])
      BY <1>1, BlockFacts
    <3>2. c # b
      BY <2>2, <3>1
    <3>3. SolvedAt(c, k) /\ PassedAt(c, k)
      BY <1>1, <3>2, EdgeFacts DEF Inv, RunInv
    <3>4. ASSUME NEW j \in DOMAIN P.code[c], NEW J, J = P.code[c][j]
          PROVE  Before(J)' = Before(J) /\ After(J)' = After(J)
      <4>1. Lies(fn, c, j, J)
        BY <1>1, <3>4 DEF Lies
      <4>2. J \in P.insts /\ J # I
        BY <4>1, <1>1, <1>2, <3>2, PlaceFacts
      <4> QED BY <4>2, <1>4
    <3>5. PICK K : K = P.code[c][k]
      OBVIOUS
    <3>6. \A J : k < Len(P.code[c]) /\ J = P.code[c][k+1] => Before(J)' = Before(J)
      BY <3>1, <3>4
    <3>7. Before(K)' = Before(K) /\ After(K)' = After(K)
      BY <3>4, <3>5
    <3> QED BY <1>1, <1>5, <1>7, <3>3, <3>5, <3>6, <3>7, Kept
  <2> QED BY <2>1, <2>2
<1> QED BY <1>5, <1>8, <1>9, <1>10 DEF Inv

LEMMA FinishBlockStep ==
  ASSUME Inv, FinishBlock
  PROVE  Inv'
<1>1. /\ P' = P /\ UNCHANGED <<prog, argOrder, result, worklist_, fn, requeued, callGraph>>
      /\ block # None /\ pc = Len(P.code[block]) + 1 /\ block' = None
      /\ bbWorklist' = bbWorklist \cup
           (IF After(LastOf(P, block)) = oldOut THEN {} ELSE P.succs[block])
      /\ prog \in DOMAIN Programs /\ fn # None /\ fn \in P.fns
      /\ bbWorklist \subseteq P.blocks[fn] /\ block \in P.blocks[fn]
  BY SameProgram DEF FinishBlock, Inv, ControlInv, After
<1>2. ControlInv'
  BY <1>1, EdgeFacts DEF Inv, ControlInv
<1>3. AtRest' = AtRest
  BY <1>1 DEF AtRest
<1>4. RestInv'
  BY <1>1, <1>3, SameMaps DEF RestInv, Inv
<1>5. RunInv'
  <2> SUFFICES ASSUME fn \notin requeued, NEW b \in P.blocks[fn], b \notin bbWorklist'
               PROVE  /\ \A p \in P.preds[b] :
                           ((IF p = block THEN oldOut ELSE After(LastOf(P, p)))
                              \subseteq Before(FirstOf(P, b)))'
                      /\ \A k \in DOMAIN P.code[b] : (SolvedAt(b, k) /\ PassedAt(b, k))'
    BY <1>1 DEF RunInv
  <2>1. /\ \A p \in P.preds[b] :
             (IF p = block THEN oldOut ELSE After(LastOf(P, p))) \subseteq Before(FirstOf(P, b))
        /\ \A k \in DOMAIN P.code[b] : (b = block => k < pc) => SolvedAt(b, k) /\ PassedAt(b, k)
    BY <1>1 DEF Inv, RunInv
  <2>2. ASSUME NEW p \in P.preds[b]
        PROVE  ((IF p = block THEN oldOut ELSE After(LastOf(P, p))) \subseteq Before(FirstOf(P, b)))'
    <3>1. p \in P.blocks[fn] /\ b \in P.succs[p] /\ p # None
      BY <1>1, EdgeFacts
    <3>2. p = block => After(LastOf(P, p)) = oldOut
      BY <1>1, <3>1
    <3>3. After(LastOf(P, p)) \subseteq Before(FirstOf(P, b))
      BY <2>1, <3>2
    <3>4. (After(LastOf(P, p)) \subseteq Before(FirstOf(P, b)))'
      BY <1>1, <3>3, SameMaps
    <3> QED BY <1>1, <3>1, <3>4
  <2>3. ASSUME NEW k \in DOMAIN P.code[b]
        PROVE  (SolvedAt(b, k) /\ PassedAt(b, k))'
    <3>1. b = block => k < pc
      BY <1>1, BlockFacts
    <3> QED BY <1>1, <2>1, <3>1, SameMaps
  <2> QED BY <2>2, <2>3
<1> QED BY <1>1, <1>2, <1>4, <1>5, SameMaps DEF Inv

LEMMA FinishFunctionStep ==
  ASSUME Inv, FinishFunction
  PROVE  Inv'
<1>1. /\ P' = P /\ UNCHANGED <<prog, argOrder, result, bbWorklist, block, pc, oldOut, callGraph>>
      /\ fn # None /\ fn' = None /\ block = None /\ bbWorklist = {}
      /\ worklist_' = worklist_ \cup requeued /\ requeued' = {}
      /\ prog \in DOMAIN Programs /\ fn \in P.fns
  BY SameProgram DEF FinishFunction, Inv, ControlInv
<1>2. ControlInv'
  BY <1>1 DEF Inv, ControlInv
<1>3. RestInv'
  <2> SUFFICES ASSUME NEW F \in AtRest', NEW b \in P.blocks[F]
               PROVE  /\ \A p \in P.preds[b] : (After(LastOf(P, p)) \subseteq Before(FirstOf(P, b)))'
                      /\ \A k \in DOMAIN P.code[b] : (SolvedAt(b, k) /\ PassedAt(b, k))'
    BY <1>1 DEF RestInv
  <2>1. F \notin requeued /\ (F \in AtRest \/ F = fn)
    BY <1>1 DEF AtRest
  <2>2. CASE F \in AtRest
    <3>1. /\ \A p \in P.preds[b] : After(LastOf(P, p)) \subseteq Before(FirstOf(P, b))
          /\ \A k \in DOMAIN P.code[b] : SolvedAt(b, k) /\ PassedAt(b, k)
      BY <2>2 DEF Inv, RestInv
    <3> QED BY <1>1, <3>1, SameMaps
  <2>3. CASE F = fn
    <3>1. \A p \in P.preds[b] : p # None
      BY <1>1, <2>3, EdgeFacts
    <3>2. b # None
      BY <1>1, <2>3, EdgeFacts
    <3>3. /\ \A p \in P.preds[b] : After(LastOf(P, p)) \subseteq Before(FirstOf(P, b))
          /\ \A k \in DOMAIN P.code[b] : SolvedAt(b, k) /\ PassedAt(b, k)
      BY <1>1, <2>1, <2>3, <3>1, <3>2 DEF Inv, RunInv
    <3> QED BY <1>1, <3>3, SameMaps
  <2> QED BY <2>1, <2>2, <2>3
<1>4. RunInv'
  BY <1>1 DEF RunInv
<1> QED BY <1>1, <1>2, <1>3, <1>4, SameMaps DEF Inv

(* A step that changes neither the maps nor the worklists.                  *)
LEMMA IdleStep ==
  ASSUME Inv, UNCHANGED <<prog, argOrder, result, worklist_, fn, bbWorklist, block, pc, oldOut,
                          requeued, callGraph>>
  PROVE  Inv'
<1>1. P' = P /\ AtRest' = AtRest
  BY SameProgram DEF AtRest
<1>2. ControlInv'
  BY <1>1 DEF Inv, ControlInv
<1>3. RestInv'
  BY <1>1, SameMaps DEF RestInv, Inv
<1>4. RunInv'
  <2> SUFFICES ASSUME fn # None, fn \notin requeued, NEW b \in P.blocks[fn] \ bbWorklist
               PROVE  /\ \A p \in P.preds[b] :
                           ((IF p = block THEN oldOut ELSE After(LastOf(P, p)))
                              \subseteq Before(FirstOf(P, b)))'
                      /\ \A k \in DOMAIN P.code[b] :
                           (b = block => k < pc) => (SolvedAt(b, k) /\ PassedAt(b, k))'
    BY <1>1 DEF RunInv
  <2>1. /\ \A p \in P.preds[b] :
             (IF p = block THEN oldOut ELSE After(LastOf(P, p))) \subseteq Before(FirstOf(P, b))
        /\ \A k \in DOMAIN P.code[b] : (b = block => k < pc) => SolvedAt(b, k) /\ PassedAt(b, k)
    BY DEF Inv, RunInv
  <2>2. ASSUME NEW p \in P.preds[b]
        PROVE  ((IF p = block THEN oldOut ELSE After(LastOf(P, p))) \subseteq Before(FirstOf(P, b)))'
    BY <1>1, <2>1 DEF After, Before
  <2> QED BY <2>1, <2>2, SameMaps
<1> QED BY <1>2, <1>3, <1>4, SameMaps DEF Inv

-------------------------------------------------------------------------------

(* Before the first step every function with a body is queued.              *)
LEMMA InvInit == Init => Inv
<1> SUFFICES ASSUME Init PROVE Inv
  OBVIOUS
<1>1. PairMap(result)
  BY DEF Init, PairMap, IsPair
<1>2. AtRest = {}
  BY DEF Init, AtRest, DefinedFns
<1>3. LineInv
  BY DEF Init, LineInv
<1> QED BY <1>1, <1>2, <1>3 DEF Init, Inv, ShapeInv, ControlInv, RestInv, RunInv

LEMMA InvStep == Inv /\ [Next]_vars => Inv'
<1> SUFFICES ASSUME Inv, [Next]_vars PROVE Inv'
  OBVIOUS
<1>1. ASSUME NEW F \in P.fns, StartFunction(F) PROVE Inv'
  BY <1>1, StartFunctionStep
<1>2. ASSUME NEW b \in AllBlocks, StartBlock(b) PROVE Inv'
  BY <1>2, StartBlockStep
<1>3. CASE TransferOnInst
  BY <1>3, InstVisits, VisitStep
<1>4. CASE HangOnCallInst
  BY <1>4, IdleStep DEF HangOnCallInst
<1>5. CASE TransferOnCallInst
  BY <1>5, CallVisits, VisitStep
<1>6. CASE TransferOnReturnInst
  BY <1>6, ReturnVisits, VisitStep
<1>7. CASE FinishBlock
  BY <1>7, FinishBlockStep
<1>8. CASE FinishFunction
  BY <1>8, FinishFunctionStep
<1>9. CASE DumpCallGraph
  BY <1>9, IdleStep DEF DumpCallGraph
<1>10. CASE UNCHANGED vars
  BY <1>10, IdleStep DEF vars
<1> QED BY <1>1, <1>2, <1>3, <1>4, <1>5, <1>6, <1>7, <1>8, <1>9, <1>10 DEF Next

(* The iteration keeps its invariant: a function that is queued nowhere is  *)
(* solved and has passed its arguments, and so are the blocks of the        *)
(* function under iteration that its worklist has forgotten (Dataflow.h,    *)
(* PointTo.h).                                                              *)
THEOREM InvTheorem == Spec => []Inv
BY InvInit, InvStep, PTL DEF Spec

(* When runOnModule stops queueing a function, the values in result_ agree  *)
(* with its transfer functions, although its callers and its callees write  *)
(* to them from the outside (PointTo.h:253, PointTo.h:331): whoever does so *)
(* queues it again.                                                         *)
THEOREM SolvedTheorem == Spec => []FunctionsAtRestAreSolved
<1>1. Inv => FunctionsAtRestAreSolved
  <2> SUFFICES ASSUME Inv, NEW F \in AtRest, NEW b \in P.blocks[F]
               PROVE  LET code == P.code[b]
                      IN  /\ \A p \in P.preds[b] :
                               result[LastOf(P, p)].out \subseteq result[FirstOf(P, b)].in
                          /\ \A k \in DOMAIN code :
                               /\ k < Len(code) => result[code[k+1]].in = result[code[k]].out
                               /\ code[k] \notin Calls =>
                                    result[code[k]].out = Out(P, code[k], result[code[k]].in)
    BY DEF FunctionsAtRestAreSolved
  <2>1. /\ \A p \in P.preds[b] : After(LastOf(P, p)) \subseteq Before(FirstOf(P, b))
        /\ \A k \in DOMAIN P.code[b] : SolvedAt(b, k)
    BY DEF Inv, RestInv
  <2> QED BY <2>1 DEF SolvedAt, Before, After
<1> QED BY <1>1, InvTheorem, PTL

(* When runOnModule stops queueing a caller, what it passes at each of its  *)
(* calls is in the entry of every callee that the call may reach            *)
(* (PointTo.h:216-258), in whatever order arg_map is iterated, and a call   *)
(* that has a line of its own is registered there with all of its callees   *)
(* and no other (l.207-209).                                                *)
THEOREM ArgumentsTheorem == Spec => []ArgumentsArrive
<1>1. Inv => ArgumentsArrive
  <2> SUFFICES ASSUME Inv, NEW I \in Calls, P.fnOf[I] \in AtRest
               PROVE  /\ argOrder[I] # <<>> =>
                           \A F \in Callees(I) \ P.decls :
                             PassedTo(P, I, F, argOrder[I], result[I].in)
                               \subseteq result[FirstInst(P, F)].in
                      /\ OwnLine(I) => callGraph[P.inst[I].line] = [call |-> I, callees |-> Callees(I)]
    BY DEF ArgumentsArrive
  <2>1. prog \in DOMAIN Programs /\ I \in P.insts
    BY DEF Inv, ControlInv, Calls, InstsOf
  <2>2. PICK b, k : Lies(P.fnOf[I], b, k, I)
    BY <2>1, InstFacts
  <2>3. PassedAt(b, k)
    BY <2>2 DEF Inv, RestInv, Lies
  <2>4. (argOrder[I] # <<>> => Passed(I)) /\ Registered(I)
    BY <2>2, <2>3 DEF PassedAt, Lies
  <2> QED BY <2>4 DEF Passed, Bodies, Before, Registered, Known
<1> QED BY <1>1, InvTheorem, PTL

-------------------------------------------------------------------------------
(* Renaming. *)

(* The least-number principle, for sets.                                    *)
LEMMA Least ==
  ASSUME NEW T \in SUBSET Nat, T # {}
  PROVE  \E n \in T : \A m \in T : n <= m
<1>1. PICK n \in T : \A m \in T : ~ (<<m, n>> \in OpToRel(<, Nat))
  BY NatLessThanWellFounded, WFMin
<1>2. \A m \in T : ~ (m < n)
  BY <1>1 DEF OpToRel
<1> QED BY <1>2

(* Renaming one pair after the other (PointTo.h:248) leaves a value as it   *)
(* is or makes it one of the new names. By induction on the number of       *)
(* pairs, after it is shown that the recursion of Renamed defines a         *)
(* function.                                                                *)
LEMMA RenamedValue ==
  ASSUME NEW v, NEW pairs, Len(pairs) \in Nat
  PROVE  \/ Renamed(v, pairs) = v
         \/ \E k \in 1..Len(pairs) : Renamed(v, pairs) = pairs[k][2]
<1> DEFINE N == Len(pairs)
           Turn(w, k) == IF w = pairs[k][1] THEN pairs[k][2] ELSE w
           Chain(a, n) == a = [k \in 0..n |-> IF k = 0 THEN v ELSE Turn(a[k-1], k)]
<1>1. \A n \in Nat : \E a : Chain(a, n)
  <2> DEFINE T == {n \in Nat : ~ \E a : Chain(a, n)}
  <2> SUFFICES ASSUME T # {} PROVE FALSE
    OBVIOUS
  <2>1. PICK n \in T : \A m \in T : n <= m
    <3> HIDE DEF T
    <3>1. T \in SUBSET Nat
      BY DEF T
    <3> QED BY <3>1, Least
  <2>2. CASE n = 0
    <3> DEFINE a == [k \in 0..n |-> v]
    <3>1. Chain(a, n)
      BY <2>2
    <3> QED BY <3>1
  <2>3. CASE n # 0
    <3>5. n - 1 \in Nat \ T
      <4>1. n \in Nat
        OBVIOUS
      <4> HIDE DEF T
      <4> QED BY <2>1, <2>3, <4>1
    <3>1. PICK a : Chain(a, n - 1)
      BY <3>5
    <3> DEFINE b == [k \in 0..n |-> IF k < n THEN a[k] ELSE Turn(a[n-1], n)]
    <3>2. \A k \in 0..n : k # 0 => b[k-1] = a[k-1]
      BY <2>1
    <3>3. \A k \in 0..n : b[k] = IF k = 0 THEN v ELSE Turn(b[k-1], k)
      <4> SUFFICES ASSUME NEW k \in 0..n PROVE b[k] = IF k = 0 THEN v ELSE Turn(b[k-1], k)
        OBVIOUS
      <4>1. CASE k < n
        <5>1. k \in 0..(n-1) /\ b[k] = a[k]
          BY <4>1
        <5>2. a[k] = IF k = 0 THEN v ELSE Turn(a[k-1], k)
          BY <3>1, <5>1
        <5> QED BY <5>1, <5>2, <3>2
      <4>2. CASE k = n
        BY <4>2, <3>2, <2>3
      <4> QED BY <4>1, <4>2
    <3>4. Chain(b, n)
      <4> HIDE DEF Turn
      <4>1. b = [k \in 0..n |-> b[k]]
        OBVIOUS
      <4> HIDE DEF b
      <4> QED BY <3>3, <4>1
    <3> QED BY <3>4
  <2> QED BY <2>2, <2>3
<1> DEFINE c == CHOOSE a : Chain(a, N)
<1>2. Chain(c, N)
  BY <1>1
<1>3. Renamed(v, pairs) = c[N]
  BY DEF Renamed
<1> DEFINE Good(w) == w = v \/ \E k \in 1..N : w = pairs[k][2]
<1> HIDE DEF c
<1>4. \A n \in 0..N : Good(c[n])
  <2> DEFINE T == {n \in 0..N : ~ Good(c[n])}
  <2> SUFFICES ASSUME T # {} PROVE FALSE
    OBVIOUS
  <2>1. PICK n \in T : \A m \in T : n <= m
    <3>1. T \in SUBSET Nat
      OBVIOUS
    <3> HIDE DEF T
    <3> QED BY <3>1, Least
  <2>2. c[n] = IF n = 0 THEN v ELSE Turn(c[n-1], n)
    BY <1>2
  <2>3. n # 0 => n \in 1..N /\ n - 1 \in 0..N
    OBVIOUS
  <2> HIDE DEF Good
  <2>4. CASE n = 0
    BY <2>2, <2>4 DEF Good
  <2>5. CASE n # 0
    <3>1. Good(c[n-1])
      BY <2>1, <2>3, <2>5
    <3> QED BY <2>2, <2>3, <2>5, <3>1 DEF Good
  <2> QED BY <2>4, <2>5
<1> QED BY <1>3, <1>4
-------------------------------------------------------------------------------
(* What the transfer functions make of facts. *)

(* The sets that the two maps hold are sets of values, and stay so when an  *)
(* entry is read, made or replaced.                                         *)
LEMMA PtsType ==
  ASSUME NEW D \in SUBSET Facts, NEW m, NEW v
  PROVE  Pts(D, m, v) \subseteq Values
BY DEF Pts, Facts

LEMMA TouchType ==
  ASSUME NEW D \in SUBSET Facts, NEW m \in {Pt, Field}, NEW W \in SUBSET Values
  PROVE  Touch(D, m, W) \in SUBSET Facts
BY DEF Touch, Facts

LEMMA AssignType ==
  ASSUME NEW D \in SUBSET Facts, NEW m \in {Pt, Field},
         NEW W \in SUBSET Values, NEW S \in SUBSET Values
  PROVE  Assign(D, m, W, S) \in SUBSET Facts
<1>1. {m} \X W \X (S \cup {NoValue}) \subseteq Facts
  BY DEF Facts
<1> QED BY <1>1 DEF Assign

LEMMA PtsOrSelfType ==
  ASSUME NEW D \in SUBSET Facts, NEW v \in Values
  PROVE  PtsOrSelf(D, v) \subseteq Values
BY PtsType DEF PtsOrSelf

(* The operands of the instructions that the visitor looks at are values.   *)
LEMMA Operands ==
  ASSUME NEW I \in P.insts
  PROVE  /\ I \in Values
         /\ P.inst[I].op = "phi" => P.inst[I].vals \subseteq Values
         /\ P.inst[I].op = "store" => P.inst[I].val \in Values /\ P.inst[I].ptr \in Values
         /\ P.inst[I].op \in {"load", "gep", "bitcast"} => P.inst[I].ptr \in Values
BY DEF Values, InstsOf

(* So are arguments and formals.                                            *)
LEMMA Arguments ==
  /\ \A I \in Calls : ToSet(P.inst[I].args) \subseteq Values
  /\ \A F \in P.fns : ToSet(P.params[F]) \subseteq Values
BY DEF Values

(* A phi, a store, a load, a gep and a memcpy make facts of facts.          *)
LEMMA PhiType ==
  ASSUME NEW I \in P.insts, P.inst[I].op = "phi", NEW D \in SUBSET Facts
  PROVE  PhiOut(P, I, D) \in SUBSET Facts
<1> DEFINE fromFn == P.inst[I].vals \cap P.fns
           other  == P.inst[I].vals \ (P.fns \cup {Null})
           D1     == Touch(Assign(D, Pt, {I}, {}), Pt, other)
           S      == fromFn \cup UNION {Pts(D1, Pt, v) : v \in other}
<1>1. {I} \subseteq Values /\ fromFn \subseteq Values /\ other \subseteq Values
  BY Operands
<1>2. Assign(D, Pt, {I}, {}) \in SUBSET Facts
  BY <1>1, AssignType
<1>3. D1 \in SUBSET Facts
  BY <1>1, <1>2, TouchType
<1>4. S \subseteq Values
  <2> HIDE DEF D1
  <2> QED BY <1>1, <1>3, PtsType
<1> HIDE DEF S
<1>5. Assign(D1, Pt, {I}, S) \in SUBSET Facts
  <2> HIDE DEF D1
  <2> QED BY <1>1, <1>3, <1>4, AssignType
<1> QED BY <1>5 DEF PhiOut, S

LEMMA StoreType ==
  ASSUME NEW I \in P.insts, P.inst[I].op = "store", NEW D \in SUBSET Facts
  PROVE  StoreOut(P, I, D) \in SUBSET Facts
<1> DEFINE val    == P.inst[I].val
           ptr    == P.inst[I].ptr
           D1     == Touch(D, Pt, {val})
           stored == PtsOrSelf(D1, val)
           base   == P.inst[ptr].ptr
           D2     == Touch(D1, Pt, {base})
<1>1. val \in Values /\ ptr \in Values
  BY Operands
<1>2. D1 \in SUBSET Facts
  BY <1>1, TouchType
<1>3. stored \subseteq Values
  BY <1>1, <1>2, PtsOrSelfType
<1>4. CASE IsOp(P, ptr, "gep")
  <2>1. base \in Values
    BY <1>4, Operands DEF IsOp
  <2>2. D2 \in SUBSET Facts
    BY <1>2, <2>1, TouchType
  <2>3. PtsOrSelf(D2, base) \subseteq Values
    BY <2>1, <2>2, PtsOrSelfType
  <2>4. Assign(D2, Field, PtsOrSelf(D2, base), stored) \in SUBSET Facts
    BY <1>3, <2>2, <2>3, AssignType
  <2> QED BY <1>4, <2>4 DEF StoreOut
<1>5. CASE ~ IsOp(P, ptr, "gep")
  <2>1. Assign(D1, Pt, {ptr}, stored) \in SUBSET Facts
    BY <1>1, <1>2, <1>3, AssignType
  <2> QED BY <1>5, <2>1 DEF StoreOut
<1> QED BY <1>4, <1>5

LEMMA LoadType ==
  ASSUME NEW I \in P.insts, P.inst[I].op = "load", NEW D \in SUBSET Facts
  PROVE  LoadOut(P, I, D) \in SUBSET Facts
<1> DEFINE ptr  == P.inst[I].ptr
           D1   == Assign(D, Pt, {I}, {})
           base == P.inst[ptr].ptr
           objs == PtsOrSelf(D1, base)
           D2   == Touch(Touch(D1, Pt, {base}), Field, objs)
           S    == UNION {Pts(D2, Field, v) : v \in objs}
           E2   == Touch(D1, Pt, {ptr})
<1>1. ptr \in Values /\ {I} \subseteq Values
  BY Operands
<1>2. D1 \in SUBSET Facts
  BY <1>1, AssignType
<1>3. CASE IsOp(P, ptr, "gep")
  <2>1. base \in Values
    BY <1>3, Operands DEF IsOp
  <2>2. objs \subseteq Values
    BY <1>2, <2>1, PtsOrSelfType
  <2>3. Touch(D1, Pt, {base}) \in SUBSET Facts
    BY <1>2, <2>1, TouchType
  <2>4. D2 \in SUBSET Facts
    BY <2>2, <2>3, TouchType
  <2>5. S \subseteq Values
    <3> HIDE DEF D2
    <3> QED BY <2>4, PtsType
  <2> HIDE DEF S
  <2>6. Assign(D2, Pt, {I}, S) \in SUBSET Facts
    <3> HIDE DEF D2
    <3> QED BY <1>1, <2>4, <2>5, AssignType
  <2> QED BY <1>3, <2>6 DEF LoadOut, S
<1>4. CASE ~ IsOp(P, ptr, "gep")
  <2>1. E2 \in SUBSET Facts
    BY <1>1, <1>2, TouchType
  <2>2. Pts(E2, Pt, ptr) \subseteq Values
    BY <2>1, PtsType
  <2>3. Assign(E2, Pt, {I}, Pts(E2, Pt, ptr)) \in SUBSET Facts
    BY <1>1, <2>1, <2>2, AssignType
  <2> QED BY <1>4, <2>3 DEF LoadOut
<1> QED BY <1>3, <1>4

LEMMA GepType ==
  ASSUME NEW I \in P.insts, P.inst[I].op = "gep", NEW D \in SUBSET Facts
  PROVE  GepOut(P, I, D) \in SUBSET Facts
<1> DEFINE base == P.inst[I].ptr
           D1   == Touch(Assign(D, Pt, {I}, {}), Pt, {base})
<1>1. base \in Values /\ {I} \subseteq Values
  BY Operands
<1>2. Assign(D, Pt, {I}, {}) \in SUBSET Facts
  BY <1>1, AssignType
<1>3. D1 \in SUBSET Facts
  BY <1>1, <1>2, TouchType
<1>4. PtsOrSelf(D1, base) \subseteq Values
  BY <1>1, <1>3, PtsOrSelfType
<1>5. Assign(D1, Pt, {I}, PtsOrSelf(D1, base)) \in SUBSET Facts
  BY <1>1, <1>3, <1>4, AssignType
<1> QED BY <1>5 DEF GepOut

LEMMA CopyType ==
  ASSUME NEW m \in {Pt, Field}, NEW dst \in Values, NEW src \in Values, NEW D \in SUBSET Facts
  PROVE  CopyTo(D, m, dst, src) \in SUBSET Facts
<1> DEFINE D1 == Assign(Touch(D, m, {src}), m, {dst}, {})
<1>1. Touch(D, m, {src}) \in SUBSET Facts
  BY TouchType
<1>2. D1 \in SUBSET Facts
  BY <1>1, AssignType
<1>3. Pts(D1, m, src) \subseteq Values
  BY <1>2, PtsType
<1>4. Assign(D1, m, {dst}, Pts(D1, m, src)) \in SUBSET Facts
  BY <1>2, <1>3, AssignType
<1> QED BY <1>4 DEF CopyTo

LEMMA MemCpyType ==
  ASSUME NEW I \in P.insts, NEW D \in SUBSET Facts
  PROVE  MemCpyOut(P, I, D) \in SUBSET Facts
<1> DEFINE to   == P.inst[I].dst
           from == P.inst[I].src
<1>1. CASE IsOp(P, to, "bitcast") /\ IsOp(P, from, "bitcast")
  <2>1. P.inst[to].ptr \in Values /\ P.inst[from].ptr \in Values
    BY <1>1, Operands DEF IsOp
  <2>2. CopyTo(D, Pt, P.inst[to].ptr, P.inst[from].ptr) \in SUBSET Facts
    BY <2>1, CopyType
  <2>3. CopyTo(CopyTo(D, Pt, P.inst[to].ptr, P.inst[from].ptr),
               Field, P.inst[to].ptr, P.inst[from].ptr) \in SUBSET Facts
    BY <2>1, <2>2, CopyType
  <2> QED BY <1>1, <2>3 DEF MemCpyOut
<1>2. CASE ~ (IsOp(P, to, "bitcast") /\ IsOp(P, from, "bitcast"))
  BY <1>2 DEF MemCpyOut
<1> QED BY <1>1, <1>2

(* A transfer function makes facts of facts.                                *)
LEMMA OutType ==
  ASSUME NEW I \in P.insts, NEW D \in SUBSET Facts
  PROVE  Out(P, I, D) \in SUBSET Facts
<1>1. CASE P.inst[I].op = "phi"
  BY <1>1, PhiType DEF Out
<1>2. CASE P.inst[I].op = "store"
  BY <1>2, StoreType DEF Out
<1>3. CASE P.inst[I].op = "load"
  BY <1>3, LoadType DEF Out
<1>4. CASE P.inst[I].op = "gep"
  BY <1>4, GepType DEF Out
<1>5. CASE P.inst[I].op = "memcpy"
  BY <1>5, MemCpyType DEF Out
<1>6. CASE P.inst[I].op \notin {"phi", "store", "load", "gep", "memcpy"}
  BY <1>6 DEF Out
<1> QED BY <1>1, <1>2, <1>3, <1>4, <1>5, <1>6
-------------------------------------------------------------------------------
(* What a call passes and a return hands back. *)

\* every arg_map is iterated in some order
OrderInv == \A I \in Calls : argOrder[I] \in SetToSeqs(PtrArgs(I))

(* Renaming makes facts of facts if the new names are values.               *)
LEMMA RenameType ==
  ASSUME NEW D \in SUBSET Facts, NEW keyPairs, NEW valuePairs,
         Len(keyPairs) \in Nat, Len(valuePairs) \in Nat,
         \A k \in 1..Len(keyPairs) : keyPairs[k][2] \in Values,
         \A k \in 1..Len(valuePairs) : valuePairs[k][2] \in Values
  PROVE  RenameFacts(D, keyPairs, valuePairs) \in SUBSET Facts
<1> SUFFICES ASSUME NEW f \in D
             PROVE  <<f[1], Renamed(f[2], keyPairs), Renamed(f[3], valuePairs)>> \in Facts
  BY DEF RenameFacts
<1>1. f[1] \in {Pt, Field} /\ f[2] \in Values /\ f[3] \in Values \cup {NoValue}
  BY DEF Facts
<1>2. Renamed(f[2], keyPairs) \in Values
  BY <1>1, RenamedValue
<1>3. Renamed(f[3], valuePairs) \in Values \cup {NoValue}
  BY <1>1, RenamedValue
<1> QED BY <1>1, <1>2, <1>3 DEF Facts

(* The pairs of a call and a callee go from the pointers that are passed,   *)
(* which are values, to formals of the callee, if these exist.              *)
LEMMA ArgPairsType ==
  ASSUME OrderInv, prog \in DOMAIN Programs, NEW I \in Calls, NEW F, NEW pairs,
         pairs = ArgPairs(P, I, F, argOrder[I])
  PROVE  /\ Len(pairs) \in Nat /\ DOMAIN pairs = 1..Len(pairs)
         /\ \A k \in 1..Len(pairs) : pairs[k][1] \in Values
         /\ F \in Bodies(I) /\ FormalsExist => \A k \in 1..Len(pairs) : pairs[k][2] \in Values
<1> DEFINE args  == P.inst[I].args
           order == argOrder[I]
           n     == Cardinality(PtrArgs(I))
           First(k, i) == args[i] = order[k] /\ \A j \in 1..(i-1) : args[j] # order[k]
           at(k) == CHOOSE i \in DOMAIN args : First(k, i)
<1>1. args \in Seq(ToSet(args))
  BY ProgramAssumption DEF Verified, P, Calls
<1>2. Len(args) \in Nat /\ DOMAIN args = 1..Len(args)
  BY <1>1
<1>3. n \in Nat
  <2>1. IsFiniteSet(DOMAIN args)
    BY <1>2, FS_Interval
  <2>2. ToSet(args) = {args[i] : i \in DOMAIN args}
    BY DEF ToSet
  <2>3. IsFiniteSet({args[i] : i \in DOMAIN args})
    <3>1. args \in Surjection(DOMAIN args, {args[i] : i \in DOMAIN args})
      BY <1>1 DEF Surjection
    <3> QED BY <2>1, <3>1, FS_Surjection
  <2>4. IsFiniteSet(PtrArgs(I))
    BY <2>2, <2>3, FS_Subset DEF PtrArgs
  <2> QED BY <2>4, FS_CardinalityType
<1>4. order \in [1..n -> PtrArgs(I)]
  BY DEF OrderInv, SetToSeqs
<1>5. pairs = [k \in 1..n |-> <<order[k], P.params[F][at(k)]>>]
  BY <1>4 DEF ArgPairs
<1> HIDE DEF at
<1>6. Len(pairs) = n /\ DOMAIN pairs = 1..n
  BY <1>3, <1>5
<1>7. \A k \in 1..n : pairs[k][1] = order[k] /\ pairs[k][2] = P.params[F][at(k)]
  BY <1>5
<1>8. ASSUME NEW k \in 1..n
      PROVE  order[k] \in Values /\ order[k] # NonPtr /\ order[k] \in ToSet(args)
  <2>1. order[k] \in ToSet(args) /\ order[k] # NonPtr
    BY <1>4 DEF PtrArgs
  <2> QED BY <2>1, Arguments
<1>9. ASSUME F \in Bodies(I), FormalsExist, NEW k \in 1..n
      PROVE  P.params[F][at(k)] \in Values
  <2> DEFINE T == {i \in DOMAIN args : args[i] = order[k]}
  <2>1. T \in SUBSET Nat /\ T # {}
    BY <1>2, <1>8 DEF ToSet
  <2>2. PICK i \in T : \A j \in T : i <= j
    <3> HIDE DEF T
    <3> QED BY <2>1, Least
  <2>3. First(k, i)
    BY <1>2, <2>2
  <2>4. at(k) \in DOMAIN args /\ First(k, at(k))
    BY <2>2, <2>3 DEF at
  <2>5. at(k) \in DOMAIN P.params[F]
    BY <1>8, <1>9, <2>4 DEF FormalsExist
  <2>6. F \in P.fns
    BY <1>9 DEF Bodies, Callees, PointToFunctions
  <2>7. P.params[F][at(k)] \in ToSet(P.params[F])
    BY <2>5 DEF ToSet
  <2> QED BY <2>6, <2>7, Arguments
<1> QED BY <1>3, <1>6, <1>7, <1>8, <1>9

(* What is handed to the entry of a callee are facts (PointTo.h:238-291).   *)
LEMMA PassedType ==
  ASSUME OrderInv, FormalsExist, prog \in DOMAIN Programs,
         NEW I \in Calls, NEW F \in Bodies(I), NEW D \in SUBSET Facts
  PROVE  PassedTo(P, I, F, argOrder[I], D) \in SUBSET Facts
<1> DEFINE pairs == ArgPairs(P, I, F, argOrder[I])
           data  == [k \in DOMAIN pairs |->
                       IF pairs[k][1] \in P.fns THEN <<pairs[k][1], pairs[k][1]>> ELSE pairs[k]]
           Code(p) == {Pt} \X {p[2]} \X {p[1], NoValue}
<1>1. /\ Len(pairs) \in Nat /\ DOMAIN pairs = 1..Len(pairs)
      /\ \A k \in 1..Len(pairs) : pairs[k][1] \in Values /\ pairs[k][2] \in Values
  BY ArgPairsType
<1> HIDE DEF pairs
<1>2. Len(data) \in Nat /\ \A k \in 1..Len(data) : data[k][2] \in Values
  BY <1>1
<1> HIDE DEF data
<1>3. RenameFacts(D, pairs, data) \in SUBSET Facts
  BY <1>1, <1>2, RenameType
<1>4. \A p \in ToSet(pairs) : Code(p) \subseteq Facts
  BY <1>1 DEF ToSet, Facts
<1>5. PassedTo(P, I, F, argOrder[I], D)
        = RenameFacts(D, pairs, data) \cup UNION {Code(p) : p \in {q \in ToSet(pairs) : q[1] \in P.fns}}
  BY Zenon DEF PassedTo, pairs, data
<1> HIDE DEF Code
<1> QED BY <1>3, <1>4, <1>5

(* What is handed back to a call are facts (PointTo.h:314-377).             *)
LEMMA ReturnedType ==
  ASSUME OrderInv, prog \in DOMAIN Programs,
         NEW I \in Calls, NEW F, NEW R, NEW D \in SUBSET Facts
  PROVE  ReturnedTo(P, I, F, argOrder[I], R, D) \in SUBSET Facts
<1> DEFINE pairs == ArgPairs(P, I, F, argOrder[I])
           back  == [k \in DOMAIN pairs |-> <<pairs[k][2], pairs[k][1]>>]
           val   == P.inst[R].val
           moved == {<<f[1], IF f[1] = Pt /\ f[2] = val THEN I ELSE f[2], f[3]>> : f \in D}
           D1    == IF val \in {NoValue, NonPtr} THEN D ELSE moved \cup {<<Pt, I, NoValue>>}
<1>1. /\ Len(pairs) \in Nat /\ DOMAIN pairs = 1..Len(pairs)
      /\ \A k \in 1..Len(pairs) : pairs[k][1] \in Values
  BY ArgPairsType
<1> HIDE DEF pairs
<1>2. Len(back) \in Nat /\ \A k \in 1..Len(back) : back[k][2] \in Values
  BY <1>1
<1> HIDE DEF back
<1>3. I \in Values
  BY Operands DEF Calls, InstsOf
<1>4. moved \subseteq Facts
  BY <1>3 DEF Facts
<1>5. <<Pt, I, NoValue>> \in Facts
  BY <1>3 DEF Facts
<1>6. D1 \in SUBSET Facts
  BY <1>4, <1>5
<1> HIDE DEF D1
<1>7. RenameFacts(D1, back, back) \in SUBSET Facts
  BY <1>2, <1>6, RenameType
<1> QED BY <1>7, Zenon DEF ReturnedTo, pairs, back, D1
-------------------------------------------------------------------------------
(* The types of the variables. *)

MapInv == \A J \in P.insts : Before(J) \in SUBSET Facts /\ After(J) \in SUBSET Facts

\* a line that has callees has a call
GraphInv ==
  /\ callGraph \in [Lines -> [call : Calls \cup {None}, callees : SUBSET P.fns]]
  /\ \A l \in Lines : callGraph[l].callees # {} => callGraph[l].call \in Calls

TypeInv ==
  /\ Inv /\ OrderInv /\ MapInv /\ GraphInv
  /\ worklist_ \subseteq P.fns /\ requeued \subseteq DefinedFns(P)
  /\ oldOut \in SUBSET Facts
  /\ status \in {"running", "printed", "hung"}

(* The definitions of the module that depend on prog alone.                 *)
LEMMA SameTypes ==
  ASSUME prog' = prog
  PROVE  /\ P' = P /\ Calls' = Calls /\ Lines' = Lines /\ Values' = Values /\ Facts' = Facts
         /\ \A I : PtrArgs(I)' = PtrArgs(I)
<1>1. P' = P /\ Calls' = Calls
  BY SameProgram
<1> QED BY <1>1 DEF Lines, Values, Facts, PtrArgs

(* The orders of the arg_maps do not change.                                *)
LEMMA SameOrder ==
  ASSUME prog' = prog, argOrder' = argOrder, OrderInv
  PROVE  OrderInv'
BY SameTypes DEF OrderInv

(* Leave keeps the facts of the maps that it is given.                      *)
LEMMA LeaveType ==
  ASSUME TypeInv, block # None, pc \in DOMAIN P.code[block],
         NEW res, PairMap(res), Leave(res),
         \A J \in P.insts : res[J].in \in SUBSET Facts /\ res[J].out \in SUBSET Facts
  PROVE  MapInv'
<1>1. ControlInv /\ prog' = prog
  BY DEF TypeInv, Inv, Leave
<1>2. \A J \in P.insts :
        /\ After(J)' = res[J].out
        /\ Before(J)' = IF pc < Len(P.code[block]) /\ J = P.code[block][pc+1]
                        THEN res[Here].out ELSE res[J].in
  BY <1>1, LeaveFacts
<1>3. Here \in P.insts
  BY <1>1, HereFacts
<1>4. P' = P /\ Facts' = Facts
  BY <1>1, SameTypes
<1> QED BY <1>2, <1>3, <1>4 DEF MapInv

(* So one instruction is typed if the value that leaves it is.              *)
LEMMA SetType ==
  ASSUME TypeInv, block # None, pc \in DOMAIN P.code[block],
         NEW D \in SUBSET Facts, Leave(WithOut(result, Here, D))
  PROVE  MapInv'
<1> DEFINE res == WithOut(result, Here, D)
<1>1. Here \in P.insts
  BY HereFacts DEF TypeInv, Inv
<1>2. /\ PairMap(res)
      /\ \A J \in P.insts : res[J].out = (IF J = Here THEN D ELSE result[J].out) /\ res[J].in = result[J].in
  BY <1>1, SetAfter DEF TypeInv, Inv, ShapeInv
<1>3. Leave(res)
  OBVIOUS
<1> HIDE DEF res
<1>4. \A J \in P.insts : res[J].in \in SUBSET Facts /\ res[J].out \in SUBSET Facts
  BY <1>2 DEF TypeInv, MapInv, Before, After
<1> QED BY <1>2, <1>3, <1>4, LeaveType

\* what the instructions and the ends of blocks and functions leave alone
Apart ==
  /\ prog' = prog /\ argOrder' = argOrder
  /\ OrderInv' /\ MapInv' /\ GraphInv' /\ requeued' \subseteq DefinedFns(P)
  /\ worklist_' \subseteq P.fns /\ oldOut' \in SUBSET Facts
  /\ status' \in {"running", "printed", "hung"}

(* With the invariant of the iteration that is all.                         *)
LEMMA ApartFacts ==
  ASSUME Inv', Apart
  PROVE  TypeInv'
<1>1. P' = P /\ Facts' = Facts
  BY SameTypes DEF Apart
<1> QED BY <1>1 DEF Apart, TypeInv, DefinedFns

(* A step that writes neither the maps nor the call graph.                  *)
LEMMA SameMapTypes ==
  ASSUME TypeInv, prog' = prog, argOrder' = argOrder
  PROVE  /\ OrderInv'
         /\ result' = result => MapInv'
         /\ callGraph' = callGraph => GraphInv'
<1>1. /\ P' = P /\ Calls' = Calls /\ Lines' = Lines /\ Facts' = Facts
  BY SameTypes
<1>2. OrderInv'
  BY SameOrder DEF TypeInv
<1>3. ASSUME result' = result PROVE MapInv'
  BY <1>1, <1>3 DEF TypeInv, MapInv, Before, After
<1>4. ASSUME callGraph' = callGraph PROVE GraphInv'
  BY <1>1, <1>4 DEF TypeInv, GraphInv
<1> QED BY <1>2, <1>3, <1>4

(* An instruction that is neither a call nor a return.                      *)
LEMMA InstApart ==
  ASSUME TypeInv, TransferOnInst
  PROVE  Apart
<1>1. block # None /\ pc \in DOMAIN P.code[block]
  BY DEF TransferOnInst, At
<1>2. Here \in P.insts
  BY <1>1, HereFacts DEF TypeInv, Inv
<1>3. Leave(WithOut(result, Here, Out(P, Here, Before(Here))))
  BY DEF TransferOnInst, Before, Here, WithOut
<1>4. Out(P, Here, Before(Here)) \in SUBSET Facts
  BY <1>2, OutType DEF TypeInv, MapInv
<1>5. MapInv'
  BY <1>1, <1>3, <1>4, SetType
<1>6. UNCHANGED <<prog, argOrder, worklist_, oldOut, requeued, callGraph, status>>
  BY DEF TransferOnInst, Leave
<1> QED BY <1>5, <1>6, SameMapTypes DEF TypeInv, Apart

(* A call is registered for its line, with functions.                       *)
LEMMA RegisterType ==
  ASSUME TypeInv, prog' = prog, NEW I \in Calls, callGraph' = Register(I, Callees(I))
  PROVE  GraphInv'
<1> DEFINE l == P.inst[I].line
           e == [call |-> IF callGraph[l].call = None THEN I ELSE callGraph[l].call,
                 callees |-> Callees(I)]
<1>1. l \in Lines
  BY DEF Lines
<1>2. callGraph[l].call \in Calls \cup {None}
  BY <1>1 DEF TypeInv, GraphInv
<1>3. Callees(I) \in SUBSET P.fns
  BY DEF Callees, PointToFunctions
<1>4. e \in [call : Calls \cup {None}, callees : SUBSET P.fns] /\ e.call \in Calls
  BY <1>2, <1>3
<1>5. callGraph' = [callGraph EXCEPT ![l] = e]
  BY DEF Register
<1> HIDE DEF e
<1>6. /\ callGraph' \in [Lines -> [call : Calls \cup {None}, callees : SUBSET P.fns]]
      /\ \A k \in Lines : callGraph'[k].callees # {} => callGraph'[k].call \in Calls
  BY <1>1, <1>4, <1>5 DEF TypeInv, GraphInv
<1>7. P' = P /\ Calls' = Calls /\ Lines' = Lines
  BY SameTypes
<1> QED BY <1>6, <1>7 DEF GraphInv

(* A call: what it passes are facts, and those it queues have a body.       *)
LEMMA CallApart ==
  ASSUME TypeInv, FormalsExist, TransferOnCallInst
  PROVE  Apart
<1>1. block # None /\ pc \in DOMAIN P.code[block]
  BY DEF TransferOnCallInst, At
<1>2. Here \in P.insts /\ Here \in Calls /\ prog \in DOMAIN Programs
  <2>1. Here \in P.insts /\ prog \in DOMAIN Programs
    BY <1>1, HereFacts DEF TypeInv, Inv
  <2>2. P.inst[Here].op = "call"
    BY DEF TransferOnCallInst, At, Here
  <2> QED BY <2>1, <2>2 DEF Calls, InstsOf
<1>3. Before(Here) \in SUBSET Facts /\ After(Here) \in SUBSET Facts
  BY <1>2 DEF TypeInv, MapInv
<1>4. MapInv' /\ requeued' \subseteq DefinedFns(P)
  <2>1. CASE P.inst[Here].callee \in P.decls
    <3>1. Leave(WithOut(result, Here, Before(Here))) /\ requeued' = requeued
      BY <2>1 DEF TransferOnCallInst, Here, Before, WithOut
    <3> QED BY <1>1, <1>3, <3>1, SetType DEF TypeInv
  <2>2. CASE P.inst[Here].callee \notin P.decls /\ argOrder[Here] = <<>>
    <3> DEFINE D == IF Bodies(Here) = {} THEN After(Here) ELSE Merge(After(Here), Before(Here))
    <3>1. Leave(WithOut(result, Here, D)) /\ requeued' = requeued
      BY <2>2 DEF TransferOnCallInst, Here, Before, After, WithOut
    <3>2. D \in SUBSET Facts
      BY <1>3 DEF Merge
    <3> HIDE DEF D
    <3> QED BY <1>1, <3>1, <3>2, SetType DEF TypeInv
  <2>3. CASE P.inst[Here].callee \notin P.decls /\ argOrder[Here] # <<>>
    <3> DEFINE Given(F) == PassedTo(P, Here, F, argOrder[Here], Before(Here))
               h == [J \in P.insts |->
                       IF J = FirstInst(P, P.fnOf[J]) /\ P.fnOf[J] \in Bodies(Here)
                       THEN Merge(Before(J), Given(P.fnOf[J])) ELSE Before(J)]
               res == WithIns(result, h)
    <3>1. /\ Leave([J \in P.insts |-> [result[J] EXCEPT !.in =
                      IF J = FirstInst(P, P.fnOf[J]) /\ P.fnOf[J] \in Bodies(Here)
                      THEN Merge(Before(J), Given(P.fnOf[J])) ELSE Before(J)]])
          /\ requeued' \subseteq requeued \cup Bodies(Here)
      BY <2>3 DEF TransferOnCallInst, Here, Before
    <3>2. Leave(res)
      <4>1. WithIns(result, h) =
              [J \in P.insts |-> [result[J] EXCEPT !.in =
                 IF J = FirstInst(P, P.fnOf[J]) /\ P.fnOf[J] \in Bodies(Here)
                 THEN Merge(Before(J), Given(P.fnOf[J])) ELSE Before(J)]]
        <5> HIDE DEF Given
        <5> QED BY Zenon DEF WithIns, PutIn
      <4> HIDE DEF h, Given
      <4> QED BY <3>1, <4>1, Zenon
    <3>3. \A F \in Bodies(Here) : Given(F) \in SUBSET Facts
      BY <1>2, <1>3, PassedType DEF TypeInv
    <3> HIDE DEF Given
    <3>4. \A J \in P.insts : h[J] \in SUBSET Facts
      BY <3>3 DEF TypeInv, MapInv, Merge
    <3> HIDE DEF h
    <3>5. PairMap(res) /\ \A J \in P.insts : res[J].in = h[J] /\ res[J].out = result[J].out
      BY SetBefores DEF TypeInv, Inv, ShapeInv
    <3> HIDE DEF res
    <3>6. \A J \in P.insts : res[J].in \in SUBSET Facts /\ res[J].out \in SUBSET Facts
      BY <3>4, <3>5 DEF TypeInv, MapInv, After
    <3>7. MapInv'
      BY <1>1, <3>2, <3>5, <3>6, LeaveType
    <3> QED BY <3>1, <3>7, BodiesAreDefined DEF TypeInv
  <2> QED BY <2>1, <2>2, <2>3
<1>5. UNCHANGED <<prog, argOrder, worklist_, oldOut, status>>
  BY DEF TransferOnCallInst, Leave
<1>6. callGraph' = Register(Here, Callees(Here))
  BY DEF TransferOnCallInst, Here
<1>7. GraphInv'
  BY <1>2, <1>5, <1>6, RegisterType
<1> QED BY <1>4, <1>5, <1>7, SameMapTypes DEF TypeInv, Apart

(* A return: what it hands back are facts, and so the callers it queues are *)
(* functions with a body.                                                   *)
LEMMA ReturnApart ==
  ASSUME TypeInv, TransferOnReturnInst
  PROVE  Apart
<1>1. block # None /\ pc \in DOMAIN P.code[block]
  BY DEF TransferOnReturnInst, At
<1>2. Here \in P.insts /\ prog \in DOMAIN Programs
  BY <1>1, HereFacts DEF TypeInv, Inv
<1> DEFINE Given(J) == ReturnedTo(P, J, fn, argOrder[J], Here, Before(Here))
           h == [J \in P.insts |-> IF J = Here THEN Before(Here)
                                   ELSE IF J \in CallSites THEN Merge(After(J), Given(J)) ELSE After(J)]
           res == WithOuts(result, h)
<1>3. /\ Leave([J \in P.insts |-> [result[J] EXCEPT !.out =
                  IF J = Here THEN Before(Here)
                  ELSE IF J \in CallSites THEN Merge(After(J), Given(J)) ELSE After(J)]])
      /\ requeued' = requeued \cup Callers(Here, Before(Here))
  BY DEF TransferOnReturnInst, Here, Before, After
<1>4. Leave(res)
  <2>1. WithOuts(result, h) =
          [J \in P.insts |-> [result[J] EXCEPT !.out =
             IF J = Here THEN Before(Here)
             ELSE IF J \in CallSites THEN Merge(After(J), Given(J)) ELSE After(J)]]
    <3> HIDE DEF Given
    <3> QED BY Zenon DEF WithOuts, PutOut
  <2> HIDE DEF h, Given
  <2> QED BY <1>3, <2>1, Zenon
<1>5. CallSites \subseteq Calls
  BY DEF CallSites, TypeInv, GraphInv
<1>6. Before(Here) \in SUBSET Facts
  BY <1>2 DEF TypeInv, MapInv
<1>7. \A J \in CallSites : Given(J) \in SUBSET Facts
  BY <1>2, <1>5, <1>6, ReturnedType DEF TypeInv
<1> HIDE DEF Given
<1>8. \A J \in P.insts : h[J] \in SUBSET Facts
  BY <1>6, <1>7 DEF TypeInv, MapInv, Merge
<1> HIDE DEF h
<1>9. PairMap(res) /\ \A J \in P.insts : res[J].out = h[J] /\ res[J].in = result[J].in
  BY SetAfters DEF TypeInv, Inv, ShapeInv
<1> HIDE DEF res
<1>10. \A J \in P.insts : res[J].in \in SUBSET Facts /\ res[J].out \in SUBSET Facts
  BY <1>8, <1>9 DEF TypeInv, MapInv, Before
<1>11. MapInv'
  BY <1>1, <1>4, <1>9, <1>10, LeaveType
<1>12. Callers(Here, Before(Here)) \subseteq DefinedFns(P)
  <2>1. Reached(Here, Before(Here)) \subseteq P.insts
    BY <1>5 DEF Reached, Calls, InstsOf
  <2> QED BY <1>2, <2>1, InstFacts DEF Callers
<1>13. UNCHANGED <<prog, argOrder, worklist_, oldOut, callGraph, status>>
  BY DEF TransferOnReturnInst, Leave
<1> QED BY <1>3, <1>11, <1>12, <1>13, SameMapTypes DEF TypeInv, Apart

(* A block starts with what its predecessors left.                          *)
LEMMA BlockApart ==
  ASSUME TypeInv, NEW b, StartBlock(b)
  PROVE  Apart
<1>1. /\ fn \in P.fns /\ b \in P.blocks[fn] /\ prog \in DOMAIN Programs
  BY DEF StartBlock, TypeInv, Inv, ControlInv
<1> DEFINE I == FirstOf(P, b)
           d == Before(I) \cup UNION {After(LastOf(P, p)) : p \in P.preds[b]}
<1>2. I \in P.insts
  <2>1. Lies(fn, b, 1, I)
    BY <1>1, BlockFacts
  <2> HIDE DEF I
  <2> QED BY <1>1, <2>1, PlaceFacts
<1>3. \A p \in P.blocks[fn] : LastOf(P, p) \in P.insts
  <2> SUFFICES ASSUME NEW p \in P.blocks[fn] PROVE LastOf(P, p) \in P.insts
    OBVIOUS
  <2>1. Lies(fn, p, Len(P.code[p]), LastOf(P, p))
    BY <1>1, BlockFacts
  <2> QED BY <1>1, <2>1, PlaceFacts
<1>4. P.preds[b] \subseteq P.blocks[fn]
  BY <1>1, EdgeFacts
<1>5. d \in SUBSET Facts
  BY <1>2, <1>3, <1>4 DEF TypeInv, MapInv
<1>6. result' = WithIn(result, I, d)
  BY DEF StartBlock, WithIn, Before, After
<1>7. UNCHANGED <<prog, argOrder, worklist_, requeued, callGraph, status>>
      /\ oldOut' = After(LastOf(P, b))
  BY DEF StartBlock, After
<1> HIDE DEF I, d
<1>8. \A J \in P.insts : After(J)' = After(J) /\ Before(J)' = IF J = I THEN d ELSE Before(J)
  <2>1. \A J \in P.insts :
          result'[J].in = (IF J = I THEN d ELSE result[J].in) /\ result'[J].out = result[J].out
    BY <1>2, <1>6, SetBefore DEF TypeInv, Inv, ShapeInv
  <2> QED BY <2>1 DEF Before, After
<1>9. MapInv'
  BY <1>5, <1>7, <1>8, SameTypes DEF TypeInv, MapInv
<1>10. oldOut' \in SUBSET Facts
  BY <1>1, <1>3, <1>7 DEF TypeInv, MapInv
<1> QED BY <1>7, <1>9, <1>10, SameMapTypes DEF TypeInv, Apart

(* The invariant holds before the first step, ...                           *)
LEMMA TypeInit == Init => TypeInv
<1> SUFFICES ASSUME Init PROVE TypeInv
  OBVIOUS
<1>1. Inv
  BY InvInit
<1>2. OrderInv
  BY DEF Init, OrderInv
<1>3. MapInv
  BY DEF Init, MapInv, Before, After
<1>4. GraphInv
  BY DEF Init, GraphInv
<1>5. DefinedFns(P) \subseteq P.fns
  BY DEF DefinedFns
<1> QED BY <1>1, <1>2, <1>3, <1>4 DEF TypeInv, Init

(* ... and every step keeps it.                                             *)
LEMMA TypeStep == TypeInv /\ FormalsExist /\ [Next]_vars => TypeInv'
<1> SUFFICES ASSUME TypeInv, FormalsExist, [Next]_vars PROVE TypeInv'
  OBVIOUS
<1>0. Inv'
  BY InvStep DEF TypeInv
<1>1. ASSUME NEW F \in P.fns, StartFunction(F) PROVE Apart
  BY <1>1, SameMapTypes DEF StartFunction, TypeInv, Apart
<1>2. ASSUME NEW b \in AllBlocks, StartBlock(b) PROVE Apart
  BY <1>2, BlockApart
<1>3. CASE TransferOnInst
  BY <1>0, <1>3, InstApart, ApartFacts
<1>4. ASSUME HangOnCallInst PROVE Apart
  BY <1>4, SameMapTypes DEF HangOnCallInst, TypeInv, Apart
<1>5. CASE TransferOnCallInst
  BY <1>0, <1>5, CallApart, ApartFacts
<1>6. CASE TransferOnReturnInst
  BY <1>0, <1>6, ReturnApart, ApartFacts
<1>7. ASSUME FinishBlock PROVE Apart
  BY <1>7, SameMapTypes DEF FinishBlock, TypeInv, Apart
<1>8. ASSUME FinishFunction PROVE Apart
  BY <1>8, SameMapTypes DEF FinishFunction, TypeInv, Apart, DefinedFns
<1>9. ASSUME DumpCallGraph PROVE Apart
  BY <1>9, SameMapTypes DEF DumpCallGraph, TypeInv, Apart
<1>10. ASSUME UNCHANGED vars PROVE Apart
  BY <1>10, SameMapTypes DEF vars, TypeInv, Apart
<1> QED BY <1>0, <1>1, <1>2, <1>3, <1>4, <1>5, <1>6, <1>7, <1>8, <1>9, <1>10, ApartFacts DEF Next

(* Whatever the program and the orders, the sets of the analysis hold       *)
(* values of the module (PointTo.h:14-48), the worklists functions with a   *)
(* body, and the call graph calls and functions, as long as                 *)
(* callee->arg_begin() + i (PointTo.h:232) stays among the formals.         *)
THEOREM TypeTheorem == Spec /\ []FormalsExist => []TypeOK
<1>1. TypeInv => TypeOK
  <2> SUFFICES ASSUME TypeInv PROVE TypeOK
    OBVIOUS
  <2>1. result \in [P.insts -> [in : SUBSET Facts, out : SUBSET Facts]]
    <3>1. ASSUME NEW J \in P.insts
          PROVE  result[J] \in [in : SUBSET Facts, out : SUBSET Facts]
      <4>1. PICK a, b : result[J] = [in |-> a, out |-> b]
        BY DEF TypeInv, Inv, ShapeInv, PairMap, IsPair
      <4> QED BY <4>1 DEF TypeInv, MapInv, Before, After
    <3>2. result = [J \in P.insts |-> result[J]]
      BY DEF TypeInv, Inv, ShapeInv, PairMap
    <3> QED BY <3>1, <3>2
  <2> QED BY <2>1 DEF TypeInv, Inv, ControlInv, GraphInv, TypeOK
<1> QED BY <1>1, TypeInit, TypeStep, PTL DEF Spec
==================================================================================
