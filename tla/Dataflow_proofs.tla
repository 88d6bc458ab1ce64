--------------------------- MODULE Dataflow_proofs ---------------------------
(***************************************************************************)
(* Theorems about the worklist iteration, for every control flow graph,    *)
(* every visitor and every map it starts from.  Only BelowTheorem and      *)
(* ImplementsTheorem assume that the visitor is monotone.                  *)
(***************************************************************************)
EXTENDS Dataflow, TLAPS

-------------------------------------------------------------------------------
(* What one visit computes has the types the maps need. *)

(* The value merged into a block (Dataflow.h:121-127) is a set of facts that
   holds the block's old one and what its predecessors produced. *)
LEMMA IncomingType ==
  ASSUME TypeOK, NEW b \in Block
  PROVE  /\ Incoming(b) \in SUBSET Fact
         /\ in[b] \subseteq Incoming(b)
         /\ \A p \in Pred(b) : out[p] \subseteq Incoming(b)
         /\ Transfer[b][Incoming(b)] \in SUBSET Fact
<1>1. in[b] \in SUBSET Fact /\ \A p \in Pred(b) : out[p] \in SUBSET Fact
  BY DEF TypeOK, Pred
<1>2. Incoming(b) \in SUBSET Fact
  BY <1>1 DEF Incoming
<1>3. Transfer[b] \in [SUBSET Fact -> SUBSET Fact]
  BY VisitorAssumption
<1>4. Transfer[b][Incoming(b)] \in SUBSET Fact
  BY <1>2, <1>3
<1> QED BY <1>2, <1>4 DEF Incoming

(* What one round of the loop changes: the visited block's values, and the
   worklist; every other block keeps its values. *)
LEMMA StepOfBlock ==
  ASSUME TypeOK, NEW b \in Block, ProcessBlock(b)
  PROVE  /\ b \in worklist
         /\ in' = [in EXCEPT ![b] = Incoming(b)]
         /\ out' = [out EXCEPT ![b] = Transfer[b][Incoming(b)]]
         /\ worklist' = (worklist \ {b}) \cup
                          (IF Transfer[b][Incoming(b)] = out[b] THEN {} ELSE Succ(b))
         /\ in'[b] = Incoming(b)
         /\ out'[b] = Transfer[b][Incoming(b)]
         /\ \A c \in Block \ {b} : in'[c] = in[c] /\ out'[c] = out[c]
  BY DEF TypeOK, ProcessBlock

-------------------------------------------------------------------------------
(* Type correctness: the worklist holds blocks of the function and every   *)
(* block always has an incoming and an outgoing value.                     *)

THEOREM TypeTheorem == Spec => []TypeOK
<1>1. Init => TypeOK
  BY GivenAssumption DEF Init, TypeOK
<1>2. TypeOK /\ [Next]_vars => TypeOK'
  <2> SUFFICES ASSUME TypeOK, [Next]_vars PROVE TypeOK'
    OBVIOUS
  <2>1. ASSUME NEW b \in Block, ProcessBlock(b) PROVE TypeOK'
    <3>1. Succ(b) \subseteq Block
      BY DEF Succ
    <3>2. worklist' \subseteq Block
      BY <2>1, <3>1, StepOfBlock DEF TypeOK
    <3>3. in' \in [Block -> SUBSET Fact] /\ out' \in [Block -> SUBSET Fact]
      BY <2>1, StepOfBlock, IncomingType DEF TypeOK
    <3> QED BY <3>2, <3>3 DEF TypeOK
  <2>2. CASE UNCHANGED vars
    BY <2>2 DEF vars, TypeOK
  <2> QED BY <2>1, <2>2 DEF Next
<1> QED BY <1>1, <1>2, PTL DEF Spec

-------------------------------------------------------------------------------
(* A block that is not queued is up to date, so that the loop may stop when *)
(* the worklist is empty.  Nothing is assumed of the visitor.               *)

(* One round of the loop keeps the unqueued blocks up to date: where the
   visited block's outgoing value changed its successors are queued. *)
LEMMA SettledStep ==
  ASSUME TypeOK, Settled, [Next]_vars
  PROVE  Settled'
<1>1. ASSUME NEW b \in Block, ProcessBlock(b) PROVE Settled'
  <2> SUFFICES ASSUME NEW c \in Block \ worklist'
               PROVE  /\ out'[c] = Transfer[c][in'[c]]
                      /\ \A p \in Pred(c) : out'[p] \subseteq in'[c]
    BY DEF Settled, Pred
  <2>1. out'[c] = Transfer[c][in'[c]]
    <3>1. CASE c = b
      BY <1>1, <3>1, StepOfBlock
    <3>2. CASE c # b
      <4>1. c \notin worklist
        BY <1>1, <3>2, StepOfBlock
      <4> QED BY <1>1, <3>2, <4>1, StepOfBlock DEF Settled
    <3> QED BY <3>1, <3>2
  <2>2. ASSUME NEW p \in Pred(c) PROVE out'[p] \subseteq in'[c]
    <3>0. p \in Block /\ c \in Succ(p)
      BY <2>2 DEF Pred, Succ
    <3>1. CASE p = b
      \* c is a successor of b and is not queued: the value of b did not change
      <4>1. Transfer[b][Incoming(b)] = out[b]
        BY <1>1, <3>0, <3>1, StepOfBlock
      <4>2. out'[p] = out[p]
        BY <1>1, <3>1, <4>1, StepOfBlock
      <4>3. CASE c = b
        BY <1>1, <4>2, <4>3, StepOfBlock, IncomingType
      <4>4. CASE c # b
        <5>1. c \notin worklist
          BY <1>1, <4>4, StepOfBlock
        <5> QED BY <1>1, <4>2, <4>4, <5>1, StepOfBlock DEF Settled
      <4> QED BY <4>3, <4>4
    <3>2. CASE p # b
      <4>1. out'[p] = out[p]
        BY <1>1, <3>0, <3>2, StepOfBlock
      <4>2. CASE c = b
        BY <1>1, <4>1, <4>2, StepOfBlock, IncomingType
      <4>3. CASE c # b
        <5>1. c \notin worklist
          BY <1>1, <4>3, StepOfBlock
        <5> QED BY <1>1, <4>1, <4>3, <5>1, StepOfBlock DEF Settled
      <4> QED BY <4>2, <4>3
    <3> QED BY <3>1, <3>2
  <2> QED BY <2>1, <2>2
<1>2. CASE UNCHANGED vars
  BY <1>2 DEF vars, Settled, Pred
<1> QED BY <1>1, <1>2 DEF Next

(* Every block that is not queued is up to date, at every moment. *)
THEOREM SettledTheorem == Spec => []Settled
<1>1. Init => Settled
  BY DEF Init, Settled
<1>2. TypeOK /\ Settled /\ [Next]_vars => Settled'
  BY SettledStep
<1> QED BY <1>1, <1>2, TypeTheorem, PTL DEF Spec
-------------------------------------------------------------------------------
(* No order of visits computes a fact that some solution lacks. *)

(* The maps handed over hold nothing that some solution lacks. *)
LEMMA BelowInit ==
  ASSUME Monotone, GivenIsAccounted, Init
  PROVE  BelowEverySolution
<1> SUFFICES ASSUME NEW J \in [Block -> SUBSET Fact], Solution!IsSolution(J),
                    NEW b \in Block
             PROVE  in[b] \subseteq J[b] /\ out[b] \subseteq Transfer[b][J[b]]
  BY DEF BelowEverySolution
<1>1. Given[b].in \subseteq J[b] /\ Given[b].in \in SUBSET Fact /\ J[b] \in SUBSET Fact
  BY GivenAssumption DEF Solution!IsSolution
<1>2. Transfer[b][Given[b].in] \subseteq Transfer[b][J[b]]
  BY <1>1 DEF Monotone
<1> QED BY <1>1, <1>2 DEF Init, GivenIsAccounted

(* A visit of a monotone visitor adds nothing that some solution lacks. *)
LEMMA BelowStep ==
  ASSUME Monotone, TypeOK, BelowEverySolution, [Next]_vars
  PROVE  BelowEverySolution'
<1>1. ASSUME NEW b \in Block, ProcessBlock(b) PROVE BelowEverySolution'
  <2> SUFFICES ASSUME NEW J \in [Block -> SUBSET Fact], Solution!IsSolution(J),
                      NEW c \in Block
               PROVE  in'[c] \subseteq J[c] /\ out'[c] \subseteq Transfer[c][J[c]]
    BY DEF BelowEverySolution, Solution!IsSolution
  <2>1. CASE c = b
    <3>1. in[b] \subseteq J[b]
      BY DEF BelowEverySolution
    <3>2. ASSUME NEW p \in Pred(b) PROVE out[p] \subseteq J[b]
      <4>1. p \in Block /\ <<p, b>> \in Edge
        BY <3>2 DEF Pred
      <4>2. out[p] \subseteq Transfer[p][J[p]]
        BY <4>1 DEF BelowEverySolution
      <4>3. Transfer[p][J[p]] \subseteq J[b]
        BY <4>1 DEF Solution!IsSolution
      <4> QED BY <4>2, <4>3
    <3>3. Incoming(b) \subseteq J[b]
      BY <3>1, <3>2 DEF Incoming
    <3>4. Transfer[b][Incoming(b)] \subseteq Transfer[b][J[b]]
      <4>1. Incoming(b) \in SUBSET Fact
        BY IncomingType
      <4> QED BY <3>3, <4>1 DEF Monotone
    <3> QED BY <1>1, <2>1, <3>3, <3>4, StepOfBlock
  <2>2. CASE c # b
    BY <1>1, <2>2, StepOfBlock DEF BelowEverySolution
  <2> QED BY <2>1, <2>2
<1>2. CASE UNCHANGED vars
  BY <1>2 DEF vars, BelowEverySolution, Solution!IsSolution
<1> QED BY <1>1, <1>2 DEF Next

(* Every solution of the equations contains all that was ever computed. *)
THEOREM BelowTheorem ==
  ASSUME Monotone, GivenIsAccounted
  PROVE  Spec => []BelowEverySolution
<1>1. Init => BelowEverySolution
  BY BelowInit
<1>2. TypeOK /\ BelowEverySolution /\ [Next]_vars => BelowEverySolution'
  BY BelowStep
<1> QED BY <1>1, <1>2, TypeTheorem, PTL DEF Spec

-------------------------------------------------------------------------------
(* Every visit advances the iteration, for visitors that are not monotone  *)
(* as well: with finitely many facts the loop cannot go on for ever.       *)

(* A visit enlarges the incoming values, repairs a stale outgoing value, or
   only shortens the worklist. *)
LEMMA AdvanceStep ==
  ASSUME TypeOK, NEW b \in Block, ProcessBlock(b)
  PROVE  Advances
<1> USE StepOfBlock
<1>1. CASE Incoming(b) # in[b]
  <2>1. in' # in
    BY <1>1 DEF TypeOK
  <2>2. \A c \in Block : in[c] \subseteq in'[c]
    BY IncomingType
  <2> QED BY <2>1, <2>2 DEF Advances
<1>2. CASE Incoming(b) = in[b]
  <2>1. in' = in
    BY <1>2 DEF TypeOK
  <2>2. CASE Transfer[b][Incoming(b)] = out[b]
    <3>1. out' = out
      BY <2>2 DEF TypeOK
    <3>2. worklist' = worklist \ {b} /\ b \in worklist
      BY <2>2
    <3> QED BY <2>1, <3>1, <3>2 DEF Advances
  <2>3. CASE Transfer[b][Incoming(b)] # out[b]
    <3>1. b \in Stale
      BY <1>2, <2>3 DEF Stale
    <3>2. b \notin Stale'
      BY <1>2, <2>1 DEF Stale
    <3>3. Stale' \subseteq Stale
      BY <2>1, <3>2 DEF Stale
    <3> QED BY <2>1, <3>1, <3>2, <3>3 DEF Advances
  <2> QED BY <2>2, <2>3
<1> QED BY <1>1, <1>2

(* So does every step of the iteration, monotone visitor or not. *)
THEOREM AdvanceTheorem == Spec => EveryVisitAdvances
<1>1. TypeOK /\ [Next]_vars => [Advances]_vars
  BY AdvanceStep DEF Next
<1> QED BY <1>1, TypeTheorem, PTL DEF Spec, EveryVisitAdvances

-------------------------------------------------------------------------------
(* compForwardDataflow implements its abstract specification: the only     *)
(* step that does not stutter is the visit that empties the worklist, and  *)
(* the maps it leaves are the least solution.                              *)

\* the part of the inductive invariant that Settled and TypeOK lack
KeepsGiven == \A b \in Block : Given[b].in \subseteq in[b]

(* The facts handed over are never lost. *)
LEMMA KeepsGivenTheorem == Spec => []KeepsGiven
<1>1. Init => KeepsGiven
  BY DEF Init, KeepsGiven
<1>2. TypeOK /\ KeepsGiven /\ [Next]_vars => KeepsGiven'
  <2>1. ASSUME TypeOK, KeepsGiven, NEW b \in Block, ProcessBlock(b) PROVE KeepsGiven'
    BY <2>1, StepOfBlock, IncomingType DEF KeepsGiven
  <2>2. ASSUME KeepsGiven, UNCHANGED vars PROVE KeepsGiven'
    BY <2>2 DEF vars, KeepsGiven
  <2> QED BY <2>1, <2>2 DEF Next
<1> QED BY <1>1, <1>2, TypeTheorem, PTL DEF Spec

(* An empty worklist with up-to-date blocks below every solution is the
   least solution, and the outgoing map is its image. *)
LEMMA EmptyWorklistIsLeast ==
  ASSUME TypeOK, Settled, BelowEverySolution, worklist = {}, KeepsGiven
  PROVE  Solution!IsLeast(in) /\ out = Solution!OutOf(in)
<1>1. ASSUME NEW e \in Edge PROVE Transfer[e[1]][in[e[1]]] \subseteq in[e[2]]
  <2>1. e[1] \in Block /\ e[2] \in Block /\ e = <<e[1], e[2]>>
    BY GraphAssumption
  <2>2. e[1] \in Pred(e[2])
    BY <2>1 DEF Pred
  <2>3. out[e[1]] \subseteq in[e[2]] /\ out[e[1]] = Transfer[e[1]][in[e[1]]]
    BY <2>1, <2>2 DEF Settled
  <2> QED BY <2>3
<1>2. Solution!IsSolution(in)
  BY <1>1 DEF Solution!IsSolution, KeepsGiven
<1>3. Solution!IsLeast(in)
  BY <1>2 DEF Solution!IsLeast, BelowEverySolution
<1>4. out = [b \in Block |-> Transfer[b][in[b]]]
  BY DEF TypeOK, Settled
<1> QED BY <1>3, <1>4 DEF Solution!OutOf

\* an empty worklist means the answer is there
Answered ==
  worklist = {} => Solution!IsLeast(in) /\ out = Solution!OutOf(in)

(* When the loop stops, what it leaves is the least solution above the
   values it was started from, whatever the order of the visits was. *)
THEOREM AnswerTheorem ==
  ASSUME Monotone, GivenIsAccounted
  PROVE  Spec => []Answered
<1>1. TypeOK /\ Settled /\ BelowEverySolution /\ KeepsGiven => Answered
  BY EmptyWorklistIsLeast DEF Answered
<1> QED BY <1>1, TypeTheorem, SettledTheorem, BelowTheorem, KeepsGivenTheorem, PTL

(* compForwardDataflow implements its abstract specification: the steps of
   the loop stutter, but for the one that empties the worklist and returns. *)
THEOREM ImplementsTheorem ==
  ASSUME Monotone, GivenIsAccounted
  PROVE  Spec => ImplementsSolution
<1> DEFINE answer == IF worklist = {} THEN <<in, out>> ELSE <<>>
<1>1. Init => Solution!Init
  BY GraphAssumption DEF Init, Solution!Init
<1>2. TypeOK' /\ Answered' /\ [Next]_vars => [Solution!Return]_answer
  <2> SUFFICES ASSUME TypeOK', Answered', [Next]_vars, answer' # answer
               PROVE  Solution!Return
    OBVIOUS
  <2>1. ~ UNCHANGED vars
    BY DEF vars
  <2>2. PICK b \in Block : ProcessBlock(b)
    BY <2>1 DEF Next
  <2>3. answer = <<>>
    BY <2>2 DEF ProcessBlock
  <2>4. worklist' = {} /\ answer' = <<in', out'>>
    BY <2>3
  <2>5. Solution!IsLeast(in') /\ out' = Solution!OutOf(in')
    BY <2>4 DEF Answered
  <2>6. in' \in [Block -> SUBSET Fact]
    BY DEF TypeOK
  <2> QED BY <2>3, <2>4, <2>5, <2>6 DEF Solution!Return
<1> QED BY <1>1, <1>2, TypeTheorem, AnswerTheorem, PTL
        DEF Spec, ImplementsSolution, Solution!Spec
===============================================================================
