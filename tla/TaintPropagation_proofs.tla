----------------------- MODULE TaintPropagation_proofs -----------------------
(***************************************************************************)
(* Theorems about the solver of the taint propagation pass, for all        *)
(* programs that LLVM's verifier accepts, all bounds on the instructions   *)
(* of a value and all orders of the work lists.                            *)
(***************************************************************************)
EXTENDS TaintPropagation, FiniteSetTheorems, SequenceTheorems, WellFoundedInduction, TLAPS

-------------------------------------------------------------------------------
(* Sequences, and the sets of what is in them. *)

LEMMA OrdersOfASet ==
  ASSUME NEW S, IsFiniteSet(S), NEW s \in SetToSeqs(S)
  PROVE  s \in Seq(S) /\ ToSet(s) = S
<1> DEFINE n == Cardinality(S)
<1>1. n \in Nat
  BY FS_CardinalityType
<1>2. s \in [1..n -> S] /\ \A i, j \in 1..n : i # j => s[i] # s[j]
  BY DEF SetToSeqs
<1>3. s \in Injection(1..n, S)
  BY <1>2 DEF Injection, IsInjective
<1>4. Cardinality(1..n) = n
  BY <1>1, FS_Interval
<1>5. s \in Surjection(1..n, S)
  BY <1>3, <1>4, FS_Injection
<1>6. \A x \in S : \E i \in 1..n : s[i] = x
  BY <1>5 DEF Surjection
<1> HIDE DEF n
<1> QED BY <1>1, <1>2, <1>6 DEF ToSet

LEMMA ConcatSets ==
  ASSUME NEW S, NEW s \in Seq(S), NEW t \in Seq(S)
  PROVE  s \o t \in Seq(S) /\ ToSet(s \o t) = ToSet(s) \cup ToSet(t)
<1>1. /\ s \o t \in Seq(S) /\ Len(s \o t) = Len(s) + Len(t)
      /\ \A i \in 1..Len(s) : (s \o t)[i] = s[i]
      /\ \A i \in 1..Len(t) : (s \o t)[Len(s) + i] = t[i]
  BY ConcatProperties
<1>2. DOMAIN s = 1..Len(s) /\ DOMAIN t = 1..Len(t) /\ DOMAIN (s \o t) = 1..(Len(s) + Len(t))
      /\ Len(s) \in Nat /\ Len(t) \in Nat
  BY <1>1, LenProperties
<1>3. ToSet(s) \cup ToSet(t) \subseteq ToSet(s \o t)
  <2>1. \A i \in DOMAIN s : i \in DOMAIN (s \o t)
    BY <1>2
  <2>2. \A i \in DOMAIN t : Len(s) + i \in DOMAIN (s \o t)
    BY <1>2
  <2> QED BY <1>1, <1>2, <2>1, <2>2 DEF ToSet
<1>4. ASSUME NEW i \in DOMAIN (s \o t)
      PROVE  (s \o t)[i] \in ToSet(s) \cup ToSet(t)
  <2>1. CASE i \in DOMAIN s
    BY <2>1, <1>1, <1>2 DEF ToSet
  <2>2. CASE i \notin DOMAIN s
    <3>1. i - Len(s) \in DOMAIN t /\ Len(s) + (i - Len(s)) = i
      BY <2>2, <1>2
    <3>2. (s \o t)[i] = t[i - Len(s)]
      BY <3>1, <1>1, <1>2
    <3> QED BY <3>1, <3>2 DEF ToSet
  <2> QED BY <2>1, <2>2
<1>5. ToSet(s \o t) \subseteq ToSet(s) \cup ToSet(t)
  BY <1>4 DEF ToSet
<1> QED BY <1>1, <1>3, <1>5

LEMMA HeadAndTail ==
  ASSUME NEW S, NEW s \in Seq(S), s # <<>>
  PROVE  /\ Head(s) \in S /\ Tail(s) \in Seq(S)
         /\ ToSet(s) = {Head(s)} \cup ToSet(Tail(s))
<1>1. /\ Head(s) \in S /\ Tail(s) \in Seq(S) /\ Len(Tail(s)) = Len(s) - 1 /\ Head(s) = s[1]
      /\ \A i \in 1..Len(Tail(s)) : Tail(s)[i] = s[i + 1]
  BY HeadTailProperties
<1>2. Len(s) \in Nat \ {0} /\ DOMAIN s = 1..Len(s) /\ DOMAIN Tail(s) = 1..(Len(s) - 1)
  BY <1>1, EmptySeq, LenProperties
<1>3. \A i \in DOMAIN s : i = 1 \/ (i - 1 \in DOMAIN Tail(s) /\ Tail(s)[i - 1] = s[i])
  BY <1>1, <1>2
<1>4. \A i \in DOMAIN Tail(s) : i + 1 \in DOMAIN s /\ Tail(s)[i] = s[i + 1]
  BY <1>1, <1>2
<1>5. ToSet(s) \subseteq {Head(s)} \cup ToSet(Tail(s))
  <2>1. \A i \in DOMAIN s : s[i] = Head(s) \/ s[i] \in ToSet(Tail(s))
    BY <1>1, <1>3 DEF ToSet
  <2> QED BY <2>1 DEF ToSet
<1>6. Head(s) \in ToSet(s) /\ ToSet(Tail(s)) \subseteq ToSet(s)
  <2>1. 1 \in DOMAIN s
    BY <1>2
  <2> QED BY <2>1, <1>1, <1>4 DEF ToSet
<1> QED BY <1>1, <1>5, <1>6

LEMMA FrontAndLast ==
  ASSUME NEW S, NEW s \in Seq(S), s # <<>>
  PROVE  /\ Last(s) \in S /\ Front(s) \in Seq(S)
         /\ ToSet(s) = {Last(s)} \cup ToSet(Front(s))
<1>1. Len(s) \in Nat \ {0} /\ DOMAIN s = 1..Len(s) /\ s \in [1..Len(s) -> S]
  BY EmptySeq, LenProperties
<1> DEFINE n == Len(s) - 1
<1>2. /\ Front(s) \in Seq(S) /\ Len(Front(s)) = n
      /\ \A i \in 1..n : Front(s)[i] = s[i]
  BY <1>1, SubSeqProperties DEF Front
<1>3. DOMAIN Front(s) = 1..n
  BY <1>2, LenProperties
<1>4. \A i \in DOMAIN s : i = Len(s) \/ (i \in DOMAIN Front(s) /\ Front(s)[i] = s[i])
  BY <1>1, <1>2, <1>3
<1>5. \A i \in DOMAIN Front(s) : i \in DOMAIN s /\ Front(s)[i] = s[i]
  BY <1>1, <1>2, <1>3
<1>6. Last(s) = s[Len(s)] /\ Len(s) \in DOMAIN s
  BY <1>1 DEF Last
<1> HIDE DEF n
<1> QED BY <1>1, <1>2, <1>4, <1>5, <1>6 DEF ToSet

LEMMA ElementsOf ==
  ASSUME NEW S, NEW s \in Seq(S)
  PROVE  /\ ToSet(s) \subseteq S
         /\ \A T : ToSet(s) \subseteq T => s \in Seq(T)
         /\ ToSet(<<>>) = {}
<1>1. Len(s) \in Nat /\ s \in [1..Len(s) -> S] /\ DOMAIN s = 1..Len(s)
  BY LenProperties
<1>2. ASSUME NEW T, ToSet(s) \subseteq T
      PROVE  s \in Seq(T)
  <2>1. s \in [1..Len(s) -> T]
    BY <1>1, <1>2 DEF ToSet
  <2> QED BY <1>1, <2>1
<1> QED BY <1>1, <1>2 DEF ToSet

LEMMA EachOf ==
  ASSUME NEW S, NEW s \in Seq(S), NEW do
  PROVE  /\ Each(do, s) \in Seq({do} \X S)
         /\ ToSet(Each(do, s)) = {<<do, x>> : x \in ToSet(s)}
<1>1. Len(s) \in Nat /\ s \in [1..Len(s) -> S] /\ DOMAIN s = 1..Len(s)
  BY LenProperties
<1>2. Each(do, s) \in [1..Len(s) -> {do} \X S]
  BY <1>1 DEF Each
<1> QED BY <1>1, <1>2 DEF Each, ToSet

\* a set of positions that is not empty has a last one
LEMMA Greatest ==
  ASSUME NEW n \in Nat, NEW S \in SUBSET (1..n), S # {}
  PROVE  \E k \in S : \A j \in S : j <= k
<1> DEFINE T == {n - k : k \in S}
<1>1. T \subseteq Nat /\ T # {}
  <2>1. \A k \in S : n - k \in Nat
    OBVIOUS
  <2> QED BY <2>1
<1>2. PICK x \in T : \A y \in T : ~ (<<y, x>> \in OpToRel(<, Nat))
  <2> HIDE DEF T
  <2> QED BY <1>1, WFMin, NatLessThanWellFounded, Zenon
<1>3. \A y \in T : ~(y < x)
  BY <1>1, <1>2 DEF OpToRel
<1>4. PICK k \in S : x = n - k
  OBVIOUS
<1>5. \A j \in S : ~(n - j < n - k)
  BY <1>3, <1>4
<1> QED BY <1>4, <1>5

-------------------------------------------------------------------------------
(* The values of the lattice.                                              *)

Typed(X) ==
  /\ X \in [is : {"Undefined", "Tainted", "Overdefined"}, at : SUBSET P.insts]
  /\ X.is # "Tainted" => X.at = {}
  /\ Cardinality(X.at) <= limit

\* tainted at I, or at too many instructions
Has(X, I) == X = Overdefined \/ (X.is = "Tainted" /\ I \in X.at)

\* states that a visit does not make smaller
Grows(X, Y) ==
  /\ X.is = "Tainted" => Y = Overdefined \/ (Y.is = "Tainted" /\ X.at \subseteq Y.at)
  /\ X = Overdefined => Y = Overdefined

(* Merging one more instruction into a value (l.437-450). *)
LEMMA MergeFacts ==
  ASSUME limit \in Nat, IsFiniteSet(P.insts), NEW X, Typed(X), NEW I \in P.insts
  PROVE  LET Y == MergeValues(X, TaintedAt({I}))
         IN  /\ Typed(Y)
             /\ Y # Undefined
             /\ Has(Y, I)
             /\ Has(X, I) => Y = X
             /\ Grows(X, Y)
             /\ \A J : Has(X, J) => Has(Y, J)
<1> DEFINE Y == MergeValues(X, TaintedAt({I}))
           all == X.at \cup {I}
<1>1. /\ X \in [is : {"Undefined", "Tainted", "Overdefined"}, at : SUBSET P.insts]
      /\ X.is # "Tainted" => X.at = {}
      /\ Cardinality(X.at) <= limit
      /\ X = [is |-> X.is, at |-> X.at]
  BY DEF Typed
<1>2. TaintedAt({I}).is = "Tainted" /\ TaintedAt({I}).at = {I}
      /\ TaintedAt({I}) # Overdefined /\ TaintedAt({I}) # Undefined
  BY DEF TaintedAt, Overdefined, Undefined
<1>c. Cardinality(all) \in Nat
  BY <1>1, FS_Subset, FS_CardinalityType
<1>3. CASE X = Overdefined
  <2>1. Y = Overdefined
    BY <1>3 DEF MergeValues
  <2>2. Y = X /\ X # Undefined /\ X.is # "Tainted"
    BY <1>3, <2>1 DEF Overdefined, Undefined
  <2>3. Has(X, I) /\ Grows(X, X)
    BY <1>3, <2>2 DEF Has, Grows
  <2> QED BY <2>2, <2>3
<1>4. CASE X # Overdefined /\ Cardinality(all) > limit
  <2>1. Y = Overdefined
    BY <1>4, <1>2 DEF MergeValues
  <2>2. ~ Has(X, I)
    <3>1. I \in X.at => all = X.at
      OBVIOUS
    <3> QED BY <3>1, <1>c, <1>1, <1>4 DEF Has
  <2>3. Typed(Overdefined) /\ Has(Overdefined, I) /\ Overdefined # Undefined
    BY FS_EmptySet DEF Typed, Has, Overdefined, Undefined
  <2> QED BY <2>1, <2>2, <2>3 DEF Grows, Has
<1>5. CASE X # Overdefined /\ ~ (Cardinality(all) > limit)
  <2>1. Y = TaintedAt(all)
    BY <1>5, <1>2 DEF MergeValues
  <2>2. Y.is = "Tainted" /\ Y.at = all /\ Y # Undefined
    BY <2>1 DEF TaintedAt, Undefined
  <2>3. Typed(Y)
    <3>1. Cardinality(all) <= limit /\ all \in SUBSET P.insts
      BY <1>c, <1>1, <1>5
    <3> HIDE DEF Y, all
    <3> QED BY <3>1, <2>1 DEF Typed, TaintedAt
  <2>4. Has(X, I) => Y = X
    <3>1. Has(X, I) => X.is = "Tainted" /\ all = X.at
      BY <1>5 DEF Has
    <3> QED BY <3>1, <1>1, <2>1 DEF TaintedAt
  <2> QED BY <1>5, <2>2, <2>3, <2>4 DEF Has, Grows
<1> QED BY <1>3, <1>4, <1>5

-------------------------------------------------------------------------------
(* The program, and what a visit can touch of it. *)

Given == prog \in DOMAIN Programs /\ limit \in P.limits /\ users \in P.useLists

LEMMA ProgramFacts ==
  ASSUME Given
  PROVE  /\ WellFormed(P) /\ IsUseList(P, users) /\ limit \in Nat
         /\ IsFiniteSet(Keys(P)) /\ IsFiniteSet(Blocks(P)) /\ IsFiniteSet(P.insts)
         /\ P.insts \subseteq Values(P) /\ Formals(P) \subseteq Values(P)
         /\ Values(P) \subseteq Keys(P) /\ P.fns \subseteq Keys(P) /\ P.fns \cap Values(P) = {}
         /\ DefinedFns(P) \subseteq P.fns
<1>1. WellFormed(P)
  BY ProgramAssumption DEF Given, P
<1>2. IsUseList(P, users) /\ limit \in Nat
  BY <1>1 DEF Given, WellFormed
<1>3. P.insts \subseteq Values(P) /\ Formals(P) \subseteq Values(P)
      /\ Values(P) \subseteq Keys(P) /\ P.fns \subseteq Keys(P) /\ DefinedFns(P) \subseteq P.fns
  BY DEF Values, Keys, DefinedFns
<1>4. IsFiniteSet(Keys(P)) /\ IsFiniteSet(Blocks(P)) /\ P.fns \cap Values(P) = {}
  BY <1>1 DEF WellFormed
<1>5. IsFiniteSet(P.insts)
  BY <1>3, <1>4, FS_Subset
<1> QED BY <1>1, <1>2, <1>3, <1>4, <1>5

LEMMA OperandFacts ==
  ASSUME Given, NEW I \in P.insts
  PROVE  /\ \A k \in DOMAIN Args(P, I) : Args(P, I)[k] \in ToSet(Args(P, I))
         /\ ToSet(Args(P, I)) \subseteq Values(P)
         /\ ToSet(Args(P, I)) \subseteq Uses(P, I)
         /\ Op(P, I) \in {"gep", "load", "cast"} => 1 \in DOMAIN Args(P, I)
         /\ Op(P, I) \in {"store", "memtransfer"} \/ IsCopy(P, I) => {1, 2} \subseteq DOMAIN Args(P, I)
         /\ Op(P, I) = "select" => {2, 3} \subseteq DOMAIN Args(P, I)
         /\ \A v : Targets(P, v) \subseteq Values(P) \cup {v}
<1>1. HasOperands(P, I)
  BY ProgramFacts DEF WellFormed
<1>2. 1 \in 1..1 /\ {1, 2} \subseteq 1..2 /\ {2, 3} \subseteq 1..3
  OBVIOUS
<1>3. \A v : Targets(P, v) \subseteq Values(P) \cup {v}
  BY DEF Targets, GetDependency
<1> QED BY <1>1, <1>2, <1>3 DEF HasOperands, ToSet, Uses

(* The values a visit taints at the instruction are values of the program;
   what it marks by setTainted() are formals and Return keys. *)
LEMMA TaintedTypes ==
  ASSUME Given, NEW I \in P.insts
  PROVE  TaintedBy(I) \subseteq Values(P) /\ SetTainted(I) \subseteq Formals(P) \cup P.fns
<1> DEFINE atOperand(k) == k \in DOMAIN Args(P, I) => Targets(P, Args(P, I)[k]) \subseteq Values(P)
<1>1. I \in Values(P)
  BY ProgramFacts
<1>2. \A k : atOperand(k)
  BY OperandFacts
<1>3. Op(P, I) = "store" => ByStore(I) \subseteq Values(P)
  BY <1>2, OperandFacts DEF ByStore
<1>4. Op(P, I) = "memtransfer" \/ IsCopy(P, I) => ByMemTransfer(I) \subseteq Values(P)
  BY <1>2, OperandFacts DEF ByMemTransfer
<1>5. IsSource(P, I) => SourceTargets(P, I) \subseteq Values(P)
  <2> SUFFICES ASSUME IsSource(P, I), NEW k \in TaintSource[P.inst[I].callee]
               PROVE  k # -1 => Targets(P, Args(P, I)[k + 1]) \subseteq Values(P)
    BY <1>1 DEF SourceTargets
  <2>1. \A f \in DOMAIN TaintSource : TaintSource[f] \subseteq {-1, 0, 1}
    BY DEF TaintSource
  <2>2. k \in {-1, 0, 1}
    BY <2>1 DEF IsSource
  <2>3. 1..(k + 1) \subseteq DOMAIN Args(P, I)
    BY ProgramFacts DEF WellFormed, HasOperands
  <2>4. k # -1 => k + 1 \in 1..(k + 1)
    BY <2>2
  <2> QED BY <1>2, <2>3, <2>4
<1>6. Op(P, I) = "call" => ByCallSite(I) \subseteq Values(P)
  BY <1>1, <1>4, <1>5 DEF ByCallSite, LibCall, Returned
<1>7. TaintedBy(I) \subseteq Values(P)
  <2> DEFINE own == {ByPHINode(I), ByGetElementPtr(I), ByLoad(I), BySelect(I), ByCast(I), ByInst(I), {}}
  <2>1. \A V \in own : V \subseteq {I}
    BY DEF ByPHINode, ByGetElementPtr, ByLoad, BySelect, ByCast, ByInst
  <2>2. TaintedBy(I) \in own \/ Op(P, I) \in {"store", "memtransfer", "call"}
    BY DEF TaintedBy
  <2>3. /\ Op(P, I) = "store" => TaintedBy(I) = ByStore(I)
        /\ Op(P, I) = "memtransfer" => TaintedBy(I) = ByMemTransfer(I)
        /\ Op(P, I) = "call" => TaintedBy(I) = ByCallSite(I)
    BY DEF TaintedBy
  <2> HIDE DEF own
  <2> QED BY <1>1, <1>3, <1>4, <1>6, <2>1, <2>2, <2>3
<1>8. CallsDefined(P, I) => TaintFormals(I) \subseteq Formals(P)
  BY DEF CallsDefined, TaintFormals, Formals, ToSet
<1>9. ByReturn(I) \subseteq P.fns
  BY ProgramFacts DEF ByReturn, WellFormed
<1> QED BY <1>7, <1>8, <1>9 DEF SetTainted

(* What a store finds at the calls of its function: a value that is passed
   for a formal, and the block of the call. *)
LEMMA CallerFacts ==
  ASSUME Given, NEW I \in P.insts
  PROVE  /\ users[P.fnOf[I]] \in Seq(P.insts)
         /\ \A U \in Callers(P.fnOf[I]) :
              /\ U \in P.insts /\ P.blockOf[U] \in Blocks(P)
              /\ \A a \in AffectedFormals(P, I) : Actual(P, P.fnOf[I], U, a) \in Values(P)
         /\ Passed(I) \subseteq Values(P)
         /\ Marked(I) \subseteq Blocks(P)
<1> DEFINE F == P.fnOf[I]
<1>1. F \in DefinedFns(P) /\ F \in P.fns /\ F \in Keys(P)
  BY ProgramFacts DEF WellFormed
<1>2. users[F] \in Seq(P.insts)
  BY <1>1, ProgramFacts DEF IsUseList
<1>3. Callers(F) \subseteq P.insts
  BY <1>2, ElementsOf DEF Callers
<1>4. ASSUME NEW U \in Callers(F)
      PROVE  /\ U \in P.insts /\ P.blockOf[U] \in Blocks(P)
             /\ DOMAIN Args(P, U) = DOMAIN P.params[F]
  <2>1. Op(P, U) = "call" /\ P.inst[U].callee = F
    BY <1>1, ProgramFacts DEF IsUseList, Callers
  <2>2. CallsDefined(P, U)
    BY <2>1, <1>1 DEF CallsDefined
  <2> QED BY <2>1, <2>2, <1>3, ProgramFacts DEF WellFormed, HasOperands
<1>5. ASSUME NEW U \in Callers(F), NEW a \in AffectedFormals(P, I)
      PROVE  Actual(P, F, U, a) \in Values(P)
  <2>1. \E k \in DOMAIN P.params[F] : P.params[F][k] = a
    BY DEF AffectedFormals, ToSet
  <2>2. \E k \in DOMAIN P.params[F] : Actual(P, F, U, a) = Args(P, U)[k]
    BY <2>1 DEF Actual
  <2> QED BY <2>2, <1>4, OperandFacts
<1>6. Passed(I) \subseteq Values(P)
  BY <1>5 DEF Passed
<1>7. Marked(I) \subseteq Blocks(P)
  <2>1. CallsDefined(P, I) => P.entry[P.inst[I].callee] \in Blocks(P)
    BY ProgramFacts DEF CallsDefined, WellFormed
  <2> QED BY <2>1, <1>4 DEF Marked
<1> QED BY <1>2, <1>4, <1>5, <1>6, <1>7

(* What the callers learn of a store (l.619-637): the values they pass, each
   merged with one of the calls. *)
LEMMA ActualsFacts ==
  ASSUME Given, NEW I \in P.insts
  PROVE  /\ DOMAIN Actuals(I) \subseteq Passed(I)
         /\ \A v \in DOMAIN Actuals(I) :
              \E U \in P.insts : Actuals(I)[v] = MergeValues(state[v], TaintedAt({U}))
<1> DEFINE F == P.fnOf[I]
           calls(v) == {k \in DOMAIN users[F] : \E a \in AffectedFormals(P, I) :
                          IsTainted(a) /\ v = Actual(P, F, users[F][k], a)}
           last(v) == CHOOSE k \in calls(v) : \A j \in calls(v) : j <= k
           told == {v \in Passed(I) : calls(v) # {}}
<1>1. Actuals(I) = [v \in told |-> MergeValues(state[v], TaintedAt({users[F][last(v)]}))]
  BY DEF Actuals
<1>2. Len(users[F]) \in Nat /\ users[F] \in [1..Len(users[F]) -> P.insts]
  BY CallerFacts, LenProperties
<1>3. ASSUME NEW v, calls(v) # {}
      PROVE  users[F][last(v)] \in P.insts
  <2> DEFINE S == calls(v)
  <2>1. S \in SUBSET (1..Len(users[F])) /\ S # {}
    BY <1>2, <1>3
  <2> HIDE DEF S
  <2>2. \E k \in S : \A j \in S : j <= k
    BY <2>1, <1>2, Greatest
  <2>3. (CHOOSE k \in S : \A j \in S : j <= k) \in S
    BY <2>2
  <2>4. last(v) \in 1..Len(users[F])
    BY <2>1, <2>3 DEF S
  <2> QED BY <2>4, <1>2
<1> HIDE DEF last
<1>4. DOMAIN Actuals(I) = told /\ \A v \in told : Actuals(I)[v] = MergeValues(state[v], TaintedAt({users[F][last(v)]}))
  BY <1>1
<1> QED BY <1>3, <1>4

(* ChangedValues after a visit: which keys, and the value of each. *)
LEMMA ChangedFacts ==
  ASSUME Given, \A v \in Keys(P) : Typed(state[v]), NEW I \in P.insts
  PROVE  /\ DOMAIN Changed(I) = DOMAIN Actuals(I) \cup TaintedBy(I) \cup SetTainted(I)
         /\ DOMAIN Changed(I) \subseteq Keys(P)
         /\ \A v \in DOMAIN Changed(I) :
              /\ Typed(Changed(I)[v]) /\ Changed(I)[v] # Undefined
              /\ \/ /\ v \in Values(P) /\ Grows(state[v], Changed(I)[v])
                    /\ \A J : Has(state[v], J) => Has(Changed(I)[v], J)
                 \/ v \in SetTainted(I) /\ Changed(I)[v] = Everywhere
         /\ \A v \in TaintedBy(I) : v \in Passed(I) \/ Has(Changed(I)[v], I)
<1> DEFINE actuals == Actuals(I)
           values == Taint(TaintedBy(I), I)
<1>1. /\ DOMAIN actuals \subseteq Passed(I)
      /\ \A v \in DOMAIN actuals : \E U \in P.insts : actuals[v] = MergeValues(state[v], TaintedAt({U}))
  BY ActualsFacts
<1>2. /\ DOMAIN values = TaintedBy(I)
      /\ \A v \in TaintedBy(I) : values[v] = MergeValues(state[v], TaintedAt({I}))
  BY DEF Taint
<1>3. /\ Passed(I) \subseteq Values(P) /\ TaintedBy(I) \subseteq Values(P)
      /\ SetTainted(I) \subseteq Keys(P) /\ Values(P) \subseteq Keys(P)
  BY CallerFacts, TaintedTypes, ProgramFacts
<1>4. /\ DOMAIN Changed(I) = DOMAIN actuals \cup DOMAIN values \cup SetTainted(I)
      /\ \A v \in DOMAIN Changed(I) :
           Changed(I)[v] = IF v \in DOMAIN actuals THEN actuals[v]
                           ELSE IF v \in DOMAIN values THEN values[v]
                           ELSE Everywhere
  BY DEF Changed
<1> HIDE DEF actuals, values
<1>5. Typed(Everywhere) /\ Everywhere # Undefined
  BY ProgramFacts, FS_EmptySet DEF Typed, Everywhere, TaintedAt, Undefined
<1>6. ASSUME NEW v \in Values(P), NEW U \in P.insts
      PROVE  LET Y == MergeValues(state[v], TaintedAt({U}))
             IN  /\ Typed(Y) /\ Y # Undefined /\ Has(Y, U) /\ Grows(state[v], Y)
                 /\ \A J : Has(state[v], J) => Has(Y, J)
  <2>1. Typed(state[v]) /\ limit \in Nat /\ IsFiniteSet(P.insts)
    BY <1>3, ProgramFacts
  <2> QED BY <2>1, MergeFacts
<1>7. ASSUME NEW v \in DOMAIN Changed(I)
      PROVE  /\ Typed(Changed(I)[v]) /\ Changed(I)[v] # Undefined
             /\ \/ /\ v \in Values(P) /\ Grows(state[v], Changed(I)[v])
                   /\ \A J : Has(state[v], J) => Has(Changed(I)[v], J)
                \/ v \in SetTainted(I) /\ Changed(I)[v] = Everywhere
  <2>1. CASE v \in DOMAIN actuals
    BY <2>1, <1>1, <1>3, <1>4, <1>6
  <2>2. CASE v \notin DOMAIN actuals /\ v \in DOMAIN values
    BY <2>2, <1>2, <1>3, <1>4, <1>6
  <2>3. CASE v \notin DOMAIN actuals /\ v \notin DOMAIN values
    BY <2>3, <1>4, <1>5
  <2> QED BY <2>1, <2>2, <2>3
<1>8. ASSUME NEW v \in TaintedBy(I), v \notin Passed(I)
      PROVE  Has(Changed(I)[v], I)
  BY <1>8, <1>1, <1>2, <1>3, <1>4, <1>6
<1> QED BY <1>1, <1>2, <1>3, <1>4, <1>7, <1>8 DEF actuals

-------------------------------------------------------------------------------
(* The work lists. *)

(* MarkBlockExecutable: the blocks that are new are on the work list. *)
LEMMA MarkFacts ==
  ASSUME IsFiniteSet(Blocks(P)), bbWorkList \in Seq(Blocks(P)),
         NEW B \in SUBSET Blocks(P), MarkExecutable(B)
  PROVE  /\ bbExecutable' = bbExecutable \cup B
         /\ bbWorkList' \in Seq(Blocks(P))
         /\ ToSet(bbWorkList') = ToSet(bbWorkList) \cup (B \ bbExecutable)
<1> DEFINE marked == B \ bbExecutable
<1>1. PICK new \in SetToSeqs(marked) : bbWorkList' = bbWorkList \o new
  BY DEF MarkExecutable
<1>2. marked \in SUBSET Blocks(P) /\ IsFiniteSet(marked)
  BY FS_Subset
<1>3. new \in Seq(marked) /\ ToSet(new) = marked
  BY <1>2, OrdersOfASet
<1>4. new \in Seq(Blocks(P))
  BY <1>2, <1>3, SeqMonotonic
<1> QED BY <1>1, <1>3, <1>4, ConcatSets DEF MarkExecutable

(* UpdateState: the values that change are on the work list. *)
LEMMA UpdateFacts ==
  ASSUME IsFiniteSet(Keys(P)), valueWorkList \in Seq(Keys(P)),
         NEW c, DOMAIN c \subseteq Keys(P), UpdateState(c)
  PROVE  /\ DOMAIN state' = Keys(P)
         /\ \A v \in Keys(P) : state'[v] = IF v \in DOMAIN c THEN c[v] ELSE state[v]
         /\ valueWorkList' \in Seq(Keys(P))
         /\ ToSet(valueWorkList) \subseteq ToSet(valueWorkList')
         /\ \A v \in Keys(P) : state'[v] # state[v] => v \in ToSet(valueWorkList')
<1> DEFINE changed == {v \in DOMAIN c : c[v] # state[v]}
<1>1. PICK new \in SetToSeqs(changed) : valueWorkList' = valueWorkList \o new
  BY DEF UpdateState
<1>2. changed \in SUBSET Keys(P) /\ IsFiniteSet(changed)
  BY FS_Subset
<1>3. new \in Seq(changed) /\ ToSet(new) = changed
  BY <1>2, OrdersOfASet
<1>4. new \in Seq(Keys(P))
  BY <1>2, <1>3, SeqMonotonic
<1>5. valueWorkList' \in Seq(Keys(P)) /\ ToSet(valueWorkList') = ToSet(valueWorkList) \cup changed
  BY <1>1, <1>3, <1>4, ConcatSets
<1>6. /\ DOMAIN state' = Keys(P)
      /\ \A v \in Keys(P) : state'[v] = IF v \in DOMAIN c THEN c[v] ELSE state[v]
  BY DEF UpdateState
<1> QED BY <1>5, <1>6

(* What is put on the agenda can be visited or followed. *)
LEMMA AgendaFacts ==
  ASSUME Given
  PROVE  /\ \A s \in Seq(P.insts), do \in {"user", "inst"} : Each(do, s) \in Seq(Items)
         /\ \A I \in P.insts : \A edges \in Edges(I) :
              /\ edges \in Seq(Items)
              /\ \A item \in ToSet(edges) : item[1] = "edge"
         /\ \A b \in Blocks(P) : PHIsOf(P, b) \in Seq(P.insts)
<1>1. ASSUME NEW s \in Seq(P.insts), NEW do \in {"user", "inst"}
      PROVE  Each(do, s) \in Seq(Items)
  <2>1. Each(do, s) \in Seq({do} \X P.insts)
    BY EachOf
  <2>2. {do} \X P.insts \subseteq Items
    BY DEF Items
  <2> QED BY <2>1, <2>2, SeqMonotonic
<1>2. ASSUME NEW I \in P.insts, NEW edges \in Edges(I)
      PROVE  edges \in Seq(Items) /\ \A item \in ToSet(edges) : item[1] = "edge"
  <2>1. FeasibleSuccs(P, I) \subseteq Blocks(P) /\ P.blockOf[I] \in Blocks(P)
    BY ProgramFacts DEF WellFormed
  <2>2. PICK succs \in SetToSeqs(FeasibleSuccs(P, I)) :
               edges = [k \in DOMAIN succs |-> <<"edge", P.blockOf[I], succs[k]>>]
    BY DEF Edges
  <2>3. succs \in Seq(FeasibleSuccs(P, I))
    BY <2>1, ProgramFacts, FS_Subset, OrdersOfASet
  <2>4. Len(succs) \in Nat /\ DOMAIN succs = 1..Len(succs) /\ \A k \in DOMAIN succs : succs[k] \in Blocks(P)
    BY <2>1, <2>3, LenProperties
  <2>5. \A k \in DOMAIN succs : <<"edge", P.blockOf[I], succs[k]>> \in Items
    BY <2>1, <2>4 DEF Items
  <2>6. edges \in [1..Len(succs) -> Items]
    BY <2>2, <2>4, <2>5
  <2> QED BY <2>2, <2>4, <2>6 DEF ToSet
<1>3. ASSUME NEW b \in Blocks(P)
      PROVE  PHIsOf(P, b) \in Seq(P.insts)
  <2> DEFINE code == P.code[b]
             first == {k \in DOMAIN code : \A j \in 1..k : Op(P, code[j]) = "phi"}
  <2>1. code \in Seq(P.insts)
    BY ProgramFacts DEF WellFormed
  <2>2. Len(code) \in Nat /\ DOMAIN code = 1..Len(code) /\ \A k \in DOMAIN code : code[k] \in P.insts
    BY <2>1, LenProperties
  <2>3. IsFiniteSet(1..Len(code)) /\ Cardinality(1..Len(code)) = Len(code)
    BY <2>2, FS_Interval
  <2>4. IsFiniteSet(first) /\ Cardinality(first) <= Len(code)
    BY <2>2, <2>3, FS_Subset
  <2>5. Cardinality(first) \in 0..Len(code)
    BY <2>2, <2>4, FS_CardinalityType
  <2> DEFINE n == Cardinality(first)
  <2>6. PHIsOf(P, b) = SubSeq(code, 1, n)
    BY DEF PHIsOf
  <2>7. n \in 0..Len(code)
    BY <2>5
  <2> HIDE DEF n, first, code
  <2>8. \A i \in 1..n : code[i] \in P.insts
    BY <2>2, <2>7
  <2>9. n \in Int /\ 1 \in Int
    BY <2>2, <2>7
  <2>10. SubSeq(code, 1, n) \in Seq(P.insts)
    BY <2>8, <2>9, SubSeqProperties
  <2> QED BY <2>6, <2>10
<1> QED BY <1>1, <1>2, <1>3

(* An item is one of an instruction, or of an edge. *)
LEMMA ItemFacts ==
  ASSUME NEW item \in Items
  PROVE  \/ \E I \in P.insts : item \in {<<"user", I>>, <<"inst", I>>}
         \/ item[1] = "edge" /\ item[2] \in Blocks(P) /\ item[3] \in Blocks(P)
BY DEF Items

LEMMA TypeFacts ==
  ASSUME TypeOK
  PROVE  /\ Given /\ DOMAIN state = Keys(P) /\ \A v \in Keys(P) : Typed(state[v])
         /\ bbExecutable \subseteq Blocks(P) /\ bbWorkList \in Seq(Blocks(P))
         /\ valueWorkList \in Seq(Keys(P)) /\ agenda \in Seq(Items)
BY DEF TypeOK, Given, Typed

(* visitInst, as far as the proofs need it. *)
LEMMA VisitFacts ==
  ASSUME TypeOK, VisitInst
  PROVE  /\ agenda # <<>>
         /\ \E I \in P.insts, edges \in Seq(Items) :
              /\ Head(agenda) \in {<<"user", I>>, <<"inst", I>>}
              /\ agenda' = edges \o Tail(agenda)
              /\ bbExecutable' = bbExecutable \cup Marked(I)
              /\ bbWorkList' \in Seq(Blocks(P))
              /\ ToSet(bbWorkList') = ToSet(bbWorkList) \cup (Marked(I) \ bbExecutable)
              /\ DOMAIN state' = Keys(P)
              /\ \A v \in Keys(P) : state'[v] = IF v \in DOMAIN Changed(I) THEN Changed(I)[v] ELSE state[v]
              /\ valueWorkList' \in Seq(Keys(P))
              /\ ToSet(valueWorkList) \subseteq ToSet(valueWorkList')
              /\ \A v \in Keys(P) : state'[v] # state[v] => v \in ToSet(valueWorkList')
<1> DEFINE I == Head(agenda)[2]
<1>1. agenda # <<>> /\ Live(Head(agenda)) /\ MarkExecutable(Marked(I)) /\ UpdateState(Changed(I))
  BY DEF VisitInst
<1>2. PICK edges \in Edges(I) : agenda' = edges \o Tail(agenda)
  BY DEF VisitInst
<1>3. Head(agenda) \in Items
  BY <1>1, TypeFacts, HeadAndTail
<1>4. PICK J \in P.insts : Head(agenda) \in {<<"user", J>>, <<"inst", J>>}
  <2>1. Head(agenda)[1] # "edge"
    BY <1>1 DEF Live
  <2> QED BY <1>3, <2>1, ItemFacts
<1>5. I = J /\ I \in P.insts
  BY <1>4
<1> HIDE DEF I
<1>6. edges \in Seq(Items)
  BY <1>5, TypeFacts, AgendaFacts
<1>7. Marked(I) \in SUBSET Blocks(P) /\ DOMAIN Changed(I) \subseteq Keys(P)
  BY <1>5, TypeFacts, CallerFacts, ChangedFacts
<1>8. /\ bbExecutable' = bbExecutable \cup Marked(I)
      /\ bbWorkList' \in Seq(Blocks(P))
      /\ ToSet(bbWorkList') = ToSet(bbWorkList) \cup (Marked(I) \ bbExecutable)
  BY <1>1, <1>7, TypeFacts, ProgramFacts, MarkFacts
<1>9. /\ DOMAIN state' = Keys(P)
      /\ \A v \in Keys(P) : state'[v] = IF v \in DOMAIN Changed(I) THEN Changed(I)[v] ELSE state[v]
      /\ valueWorkList' \in Seq(Keys(P))
      /\ ToSet(valueWorkList) \subseteq ToSet(valueWorkList')
      /\ \A v \in Keys(P) : state'[v] # state[v] => v \in ToSet(valueWorkList')
  BY <1>1, <1>7, TypeFacts, ProgramFacts, UpdateFacts
<1> QED BY <1>1, <1>2, <1>4, <1>5, <1>6, <1>8, <1>9

-------------------------------------------------------------------------------
(* The type invariant. *)

\* what a return marks is a Return key, and so tainted everywhere or not at all
ReturnKeys == \A F \in P.fns : state[F] \in {Undefined, Everywhere}

(* Initially nothing is tainted, and the blocks with sources are to be done. *)
LEMMA InitTypes ==
  ASSUME Init
  PROVE  /\ TypeOK /\ ReturnKeys /\ ~ done
         /\ ToSet(bbWorkList) = bbExecutable
<1>1. Given
  BY DEF Init, Given
<1>2. bbExecutable \in SUBSET Blocks(P)
  BY <1>1, ProgramFacts DEF Init, WellFormed
<1>3. IsFiniteSet(bbExecutable)
  BY <1>1, <1>2, ProgramFacts, FS_Subset
<1>4. bbWorkList \in Seq(bbExecutable) /\ ToSet(bbWorkList) = bbExecutable
  BY <1>3, OrdersOfASet DEF Init
<1>5. bbWorkList \in Seq(Blocks(P))
  BY <1>2, <1>4, SeqMonotonic
<1>6. Typed(Undefined)
  BY <1>1, ProgramFacts, FS_EmptySet DEF Typed, Undefined
<1>7. DOMAIN state = Keys(P) /\ \A v \in Keys(P) : state[v] = Undefined
  BY DEF Init
<1>8. ReturnKeys
  BY <1>1, <1>7, ProgramFacts DEF ReturnKeys
<1>9. TypeOK
  <2>1. /\ valueWorkList \in Seq(Keys(P)) /\ agenda \in Seq(Items) /\ draining \in {"values", "blocks"}
        /\ knownFeasibleEdges \subseteq Blocks(P) \X Blocks(P) /\ done \in BOOLEAN
    BY EmptySeq DEF Init
  <2>2. \A I \in P.insts : metadata[I] \subseteq {I} \cup ToSet(Args(P, I))
    BY DEF Init
  <2> QED BY <1>1, <1>2, <1>5, <1>6, <1>7, <2>1, <2>2 DEF TypeOK, Typed, Given
<1> QED BY <1>4, <1>8, <1>9 DEF Init

\* what following the edge at the head of the agenda may change
EdgeStep ==
  /\ agenda # <<>> /\ Head(agenda)[1] = "edge"
  /\ agenda' \in Seq(Items) /\ ToSet(Tail(agenda)) \subseteq ToSet(agenda')
  /\ knownFeasibleEdges' \subseteq Blocks(P) \X Blocks(P)
  /\ bbExecutable \subseteq bbExecutable' /\ bbExecutable' \subseteq Blocks(P)
  /\ bbWorkList' \in Seq(Blocks(P))
  /\ ToSet(bbWorkList') = ToSet(bbWorkList) \cup (bbExecutable' \ bbExecutable)

LEMMA EdgeFacts ==
  ASSUME TypeOK, MarkEdgeExecutable
  PROVE  EdgeStep
<1> DEFINE edge == <<Head(agenda)[2], Head(agenda)[3]>>
           dest == edge[2]
<1>1. /\ Given /\ bbExecutable \subseteq Blocks(P) /\ bbWorkList \in Seq(Blocks(P)) /\ agenda \in Seq(Items)
      /\ IsFiniteSet(Blocks(P)) /\ knownFeasibleEdges \subseteq Blocks(P) \X Blocks(P)
  BY TypeFacts, ProgramFacts DEF TypeOK
<1>2. agenda # <<>> /\ Head(agenda)[1] = "edge"
  BY DEF MarkEdgeExecutable
<1>3. Head(agenda) \in Items /\ Tail(agenda) \in Seq(Items)
  BY <1>1, <1>2, HeadAndTail
<1>4. Head(agenda)[2] \in Blocks(P) /\ dest \in Blocks(P)
  <2>1. \A I : <<"user", I>>[1] # "edge" /\ <<"inst", I>>[1] # "edge"
    OBVIOUS
  <2> QED BY <1>2, <1>3, <2>1, ItemFacts
<1>5. knownFeasibleEdges' \subseteq Blocks(P) \X Blocks(P)
  BY <1>1, <1>4 DEF MarkEdgeExecutable
<1>6. CASE agenda' = Tail(agenda) /\ UNCHANGED <<bbExecutable, bbWorkList>>
  BY <1>1, <1>2, <1>3, <1>5, <1>6 DEF EdgeStep
<1>7. CASE agenda' = Each("inst", PHIsOf(P, dest)) \o Tail(agenda) /\ UNCHANGED <<bbExecutable, bbWorkList>>
  <2> HIDE DEF dest
  <2>1. PHIsOf(P, dest) \in Seq(P.insts)
    BY <1>1, <1>4, AgendaFacts
  <2>2. Each("inst", PHIsOf(P, dest)) \in Seq(Items)
    BY <1>1, <2>1, AgendaFacts
  <2>3. agenda' \in Seq(Items) /\ ToSet(Tail(agenda)) \subseteq ToSet(agenda')
    <3> DEFINE phis == Each("inst", PHIsOf(P, dest))
               rest == Tail(agenda)
    <3>1. phis \in Seq(Items) /\ rest \in Seq(Items) /\ agenda' = phis \o rest
      BY <1>3, <1>7, <2>2
    <3> HIDE DEF phis, rest
    <3>2. phis \o rest \in Seq(Items) /\ ToSet(phis \o rest) = ToSet(phis) \cup ToSet(rest)
      BY <3>1, ConcatSets, Zenon
    <3> QED BY <3>1, <3>2 DEF rest
  <2>4. UNCHANGED <<bbExecutable, bbWorkList>>
    BY <1>7
  <2> QED BY <1>1, <1>2, <1>5, <2>3, <2>4 DEF EdgeStep
<1>8. CASE agenda' = Tail(agenda) /\ MarkExecutable({dest})
  <2>1. /\ bbExecutable' = bbExecutable \cup {dest}
        /\ bbWorkList' \in Seq(Blocks(P))
        /\ ToSet(bbWorkList') = ToSet(bbWorkList) \cup ({dest} \ bbExecutable)
    BY <1>1, <1>4, <1>8, MarkFacts
  <2> HIDE DEF dest
  <2> QED BY <1>1, <1>2, <1>3, <1>4, <1>5, <1>8, <2>1 DEF EdgeStep
<1> QED BY <1>6, <1>7, <1>8 DEF MarkEdgeExecutable

LEMMA StepTypes ==
  ASSUME TypeOK, ReturnKeys, [Next]_vars
  PROVE  TypeOK' /\ ReturnKeys'
<1>0. UNCHANGED <<prog, limit, users>> /\ P' = P
  BY DEF Next, TakeValue, TakeBlock, VisitInst, SkipUser, MarkEdgeExecutable, Annotate, vars, P
<1>t. /\ Given /\ DOMAIN state = Keys(P) /\ \A v \in Keys(P) : Typed(state[v])
      /\ bbExecutable \subseteq Blocks(P) /\ bbWorkList \in Seq(Blocks(P))
      /\ valueWorkList \in Seq(Keys(P)) /\ agenda \in Seq(Items)
  BY TypeFacts
<1>i. Items' = Items
  BY <1>0 DEF Items
<1>1. CASE TakeValue
  <2>1. Last(valueWorkList) \in Keys(P) /\ valueWorkList' \in Seq(Keys(P))
    BY <1>1, <1>t, FrontAndLast DEF TakeValue
  <2>2. users[Last(valueWorkList)] \in Seq(P.insts)
    BY <1>t, <2>1, ProgramFacts DEF IsUseList
  <2>3. agenda' \in Seq(Items)
    BY <1>1, <1>t, <2>2, AgendaFacts DEF TakeValue
  <2> QED BY <1>0, <1>i, <1>1, <2>1, <2>3 DEF TakeValue, TypeOK, ReturnKeys
<1>2. CASE TakeBlock
  <2>1. Last(bbWorkList) \in Blocks(P) /\ bbWorkList' \in Seq(Blocks(P))
    BY <1>2, <1>t, FrontAndLast DEF TakeBlock
  <2>2. P.code[Last(bbWorkList)] \in Seq(P.insts)
    BY <1>t, <2>1, ProgramFacts DEF WellFormed
  <2>3. agenda' \in Seq(Items)
    BY <1>2, <1>t, <2>2, AgendaFacts DEF TakeBlock
  <2> QED BY <1>0, <1>i, <1>2, <2>1, <2>3 DEF TakeBlock, TypeOK, ReturnKeys
<1>3. CASE VisitInst
  <2>1. PICK I \in P.insts, edges \in Seq(Items) :
          /\ agenda' = edges \o Tail(agenda) /\ agenda # <<>>
          /\ bbExecutable' = bbExecutable \cup Marked(I)
          /\ bbWorkList' \in Seq(Blocks(P))
          /\ DOMAIN state' = Keys(P)
          /\ \A v \in Keys(P) : state'[v] = IF v \in DOMAIN Changed(I) THEN Changed(I)[v] ELSE state[v]
          /\ valueWorkList' \in Seq(Keys(P))
    BY <1>3, VisitFacts
  <2>2. agenda' \in Seq(Items)
    BY <1>t, <2>1, HeadAndTail, ConcatSets
  <2>3. bbExecutable' \subseteq Blocks(P)
    BY <1>t, <2>1, CallerFacts
  <2>4. ASSUME NEW v \in Keys(P)
        PROVE  Typed(state'[v])
    BY <1>t, <2>1, ChangedFacts
  <2>5. TypeOK'
    <3>1. \A v \in Keys(P) :
            /\ state'[v] \in [is : {"Undefined", "Tainted", "Overdefined"}, at : SUBSET P.insts]
            /\ state'[v].is # "Tainted" => state'[v].at = {}
            /\ Cardinality(state'[v].at) <= limit
      BY <2>4 DEF Typed
    <3> QED BY <1>0, <1>i, <1>3, <2>1, <2>2, <2>3, <3>1 DEF VisitInst, TypeOK
  <2>6. ReturnKeys'
    <3> SUFFICES ASSUME NEW F \in P.fns
                 PROVE  state'[F] \in {Undefined, Everywhere}
      BY <1>0 DEF ReturnKeys, Undefined, Everywhere, TaintedAt
    <3>1. F \in Keys(P) /\ F \notin Values(P)
      BY <1>t, ProgramFacts
    <3>2. F \in DOMAIN Changed(I) => Changed(I)[F] = Everywhere
      BY <1>t, <3>1, ChangedFacts
    <3> QED BY <2>1, <3>1, <3>2 DEF ReturnKeys
  <2> QED BY <2>5, <2>6
<1>4. CASE SkipUser
  <2>1. agenda' \in Seq(Items)
    BY <1>4, <1>t, HeadAndTail DEF SkipUser
  <2> QED BY <1>0, <1>i, <1>4, <2>1 DEF SkipUser, TypeOK, ReturnKeys
<1>5. CASE MarkEdgeExecutable
  <2>1. EdgeStep
    BY <1>5, EdgeFacts
  <2> QED BY <1>0, <1>i, <1>5, <2>1 DEF MarkEdgeExecutable, TypeOK, ReturnKeys, EdgeStep
<1>6. CASE Annotate
  <2>1. \A I \in P.insts : metadata'[I] \subseteq {I} \cup ToSet(Args(P, I))
    BY <1>6 DEF Annotate
  <2> QED BY <1>0, <1>i, <1>6, <2>1 DEF Annotate, TypeOK, ReturnKeys
<1>7. CASE UNCHANGED vars
  BY <1>0, <1>i, <1>7 DEF vars, TypeOK, ReturnKeys
<1> QED BY <1>1, <1>2, <1>3, <1>4, <1>5, <1>6, <1>7 DEF Next

-------------------------------------------------------------------------------
(* What is left to do.  The invariant behind SolvedAtRest: an executable    *)
(* instruction is clean, or something on the work lists or the agenda will  *)
(* bring a visit of it.                                                     *)

Clean(I) ==
  /\ Marked(I) \subseteq bbExecutable
  /\ \A v \in TaintedBy(I) :
       v \in Passed(I) \/ (v \in Formals(P) /\ state[v] # Undefined) \/ Has(state[v], I)
  /\ \A v \in SetTainted(I) : (v \in Formals(P) /\ state[v] # Undefined) \/ state[v] = Everywhere

Pending(I) ==
  \/ <<"user", I>> \in ToSet(agenda)
  \/ <<"inst", I>> \in ToSet(agenda)
  \/ P.blockOf[I] \in ToSet(bbWorkList)
  \/ \E v \in ToSet(valueWorkList) : I \in ToSet(users[v])

WorkInv == \A I \in P.insts : P.blockOf[I] \in bbExecutable => Pending(I) \/ Clean(I)

RestInv == done => <<agenda, valueWorkList, bbWorkList>> = <<<<>>, <<>>, <<>>>>

IInv == TypeOK /\ ReturnKeys /\ RestInv /\ WorkInv

LEMMA CleanIsSettled ==
  ASSUME TypeOK, NEW I \in P.insts, Clean(I)
  PROVE  Settled(I)
<1>1. /\ Given /\ limit \in Nat /\ IsFiniteSet(P.insts) /\ \A v \in Keys(P) : Typed(state[v])
      /\ TaintedBy(I) \subseteq Keys(P)
  BY TypeFacts, ProgramFacts, TaintedTypes
<1>2. ASSUME NEW v \in DOMAIN Changed(I), v \notin Passed(I)
      PROVE  Changed(I)[v] = state[v] \/ (v \in Formals(P) /\ state[v] # Undefined)
  <2>1. v \notin DOMAIN Actuals(I)
    BY <1>1, <1>2, ActualsFacts
  <2>2. CASE v \in TaintedBy(I)
    <3>1. Changed(I)[v] = MergeValues(state[v], TaintedAt({I}))
      BY <2>1, <2>2 DEF Changed, Taint
    <3>2. Has(state[v], I) => MergeValues(state[v], TaintedAt({I})) = state[v]
      BY <1>1, <2>2, MergeFacts
    <3> QED BY <1>2, <2>2, <3>1, <3>2 DEF Clean
  <2>3. CASE v \notin TaintedBy(I)
    <3>1. v \in SetTainted(I) /\ Changed(I)[v] = Everywhere
      BY <2>1, <2>3 DEF Changed, Taint
    <3> QED BY <3>1 DEF Clean
  <2> QED BY <2>2, <2>3
<1> QED BY <1>2 DEF Settled, Clean

(* A visit looks at nothing but the states of what the instruction uses. *)
LEMMA SameVisit ==
  ASSUME Given, NEW I \in P.insts, UNCHANGED <<prog, users>>,
         \A v \in Uses(P, I) : state'[v] = state[v]
  PROVE  TaintedBy(I)' = TaintedBy(I) /\ SetTainted(I)' = SetTainted(I)
<1>1. P' = P
  BY DEF P
<1>2. \A v \in Uses(P, I) : (IsTainted(v)' <=> IsTainted(v)) /\ (TaintReaches(v, I)' <=> TaintReaches(v, I))
  BY <1>1 DEF IsTainted, TaintReaches
<1>3. /\ \A v \in ToSet(Args(P, I)) : v \in Uses(P, I)
      /\ \A k \in DOMAIN Args(P, I) : Args(P, I)[k] \in Uses(P, I)
      /\ CallsDefined(P, I) => P.inst[I].callee \in Uses(P, I)
  BY OperandFacts DEF Uses, CallsDefined
<1>4. /\ ByPHINode(I)' = ByPHINode(I) /\ ByInst(I)' = ByInst(I) /\ ByReturn(I)' = ByReturn(I)
      /\ Returned(I)' = Returned(I)
  BY <1>1, <1>2, <1>3 DEF ByPHINode, ByInst, ByReturn, Returned
<1>5. Op(P, I) \in {"gep", "load", "cast"} =>
        /\ ByGetElementPtr(I)' = ByGetElementPtr(I)
        /\ ByLoad(I)' = ByLoad(I) /\ ByCast(I)' = ByCast(I)
  BY <1>1, <1>2, <1>3, OperandFacts DEF ByGetElementPtr, ByLoad, ByCast
<1>6. Op(P, I) = "select" => BySelect(I)' = BySelect(I)
  BY <1>1, <1>2, <1>3, OperandFacts DEF BySelect
<1>7. Op(P, I) = "store" => ByStore(I)' = ByStore(I)
  BY <1>1, <1>2, <1>3, OperandFacts DEF ByStore
<1>8. Op(P, I) = "memtransfer" \/ IsCopy(P, I) => ByMemTransfer(I)' = ByMemTransfer(I)
  BY <1>1, <1>2, <1>3, OperandFacts DEF ByMemTransfer
<1>9. ByCallSite(I)' = ByCallSite(I)
  BY <1>1, <1>4, <1>8 DEF ByCallSite, LibCall
<1>10. TaintedBy(I)' = TaintedBy(I)
  BY <1>1, <1>4, <1>5, <1>6, <1>7, <1>8, <1>9 DEF TaintedBy
<1>11. CallsDefined(P, I) => TaintFormals(I)' = TaintFormals(I)
  <2>1. CallsDefined(P, I) => DOMAIN Args(P, I) = DOMAIN P.params[P.inst[I].callee]
    BY ProgramFacts DEF WellFormed, HasOperands
  <2> QED BY <1>1, <1>2, <1>3, <2>1 DEF TaintFormals
<1> QED BY <1>1, <1>4, <1>10, <1>11 DEF SetTainted

\* how the state of a key may differ after a step
Later(v) ==
  \/ state'[v] = state[v]
  \/ /\ state'[v] # Undefined
     /\ \/ v \in Formals(P)
        \/ v \in Values(P) /\ \A J : Has(state[v], J) => Has(state'[v], J)
        \/ v \in P.fns /\ state'[v] = Everywhere

LEMMA CleanStays ==
  ASSUME TypeOK, NEW I \in P.insts, Clean(I), UNCHANGED <<prog, limit, users>>,
         bbExecutable \subseteq bbExecutable', \A v \in Keys(P) : Later(v),
         \A v \in Uses(P, I) : state'[v] = state[v]
  PROVE  Clean(I)'
<1>1. P' = P /\ Passed(I)' = Passed(I) /\ Marked(I)' = Marked(I)
  BY DEF P, Passed, Marked, Callers
<1>2. TaintedBy(I)' = TaintedBy(I) /\ SetTainted(I)' = SetTainted(I)
  BY TypeFacts, SameVisit
<1>3. /\ TaintedBy(I) \subseteq Values(P) /\ SetTainted(I) \subseteq Formals(P) \cup P.fns
      /\ Values(P) \subseteq Keys(P) /\ P.fns \subseteq Keys(P) /\ P.fns \cap Values(P) = {}
      /\ Formals(P) \subseteq Values(P)
  BY TypeFacts, ProgramFacts, TaintedTypes
<1>4. Everywhere # Undefined
  BY DEF Everywhere, TaintedAt, Undefined
<1>5. ASSUME NEW v \in TaintedBy(I)
      PROVE  v \in Passed(I) \/ (v \in Formals(P) /\ state'[v] # Undefined) \/ Has(state'[v], I)
  BY <1>3, <1>5 DEF Clean, Later
<1>6. ASSUME NEW v \in SetTainted(I)
      PROVE  (v \in Formals(P) /\ state'[v] # Undefined) \/ state'[v] = Everywhere
  BY <1>3, <1>4, <1>6 DEF Clean, Later
<1>7. Marked(I) \subseteq bbExecutable'
  BY DEF Clean
<1>8. Undefined' = Undefined /\ Everywhere' = Everywhere
  BY DEF Undefined, Everywhere, TaintedAt
<1>9. \A v : Has(state'[v], I) <=> Has(state[v], I)'
  BY DEF Has, Overdefined
<1> QED BY <1>1, <1>2, <1>5, <1>6, <1>7, <1>9 DEF Clean

LEMMA UsersKnow ==
  ASSUME Given, NEW I \in P.insts, NEW v \in Uses(P, I)
  PROVE  v \in Keys(P) /\ I \in ToSet(users[v])
BY ProgramFacts DEF IsUseList

(* A visit leaves the instruction clean, unless it has changed what the
   instruction itself uses. *)
LEMMA VisitedIsClean ==
  ASSUME TypeOK, NEW I \in P.insts, UNCHANGED <<prog, limit, users>>,
         bbExecutable' = bbExecutable \cup Marked(I),
         \A v \in Keys(P) : state'[v] = IF v \in DOMAIN Changed(I) THEN Changed(I)[v] ELSE state[v],
         \A v \in Uses(P, I) : state'[v] = state[v]
  PROVE  Clean(I)'
<1>1. P' = P /\ Passed(I)' = Passed(I) /\ Marked(I)' = Marked(I)
  BY DEF P, Passed, Marked, Callers
<1>2. TaintedBy(I)' = TaintedBy(I) /\ SetTainted(I)' = SetTainted(I)
  BY TypeFacts, SameVisit
<1>3. /\ TaintedBy(I) \subseteq Values(P) /\ SetTainted(I) \subseteq Formals(P) \cup P.fns
      /\ Values(P) \subseteq Keys(P) /\ P.fns \subseteq Keys(P) /\ P.fns \cap Values(P) = {}
  BY TypeFacts, ProgramFacts, TaintedTypes
<1>4. /\ \A v \in TaintedBy(I) \cup SetTainted(I) :
           /\ v \in DOMAIN Changed(I) /\ Changed(I)[v] # Undefined
           /\ v \in P.fns => Changed(I)[v] = Everywhere
      /\ \A v \in TaintedBy(I) : v \in Passed(I) \/ Has(Changed(I)[v], I)
  BY <1>3, TypeFacts, ChangedFacts
<1>5. ASSUME NEW v \in TaintedBy(I) \cup SetTainted(I)
      PROVE  state'[v] = Changed(I)[v]
  <2>1. v \in Keys(P) /\ v \in DOMAIN Changed(I)
    BY <1>3, <1>4, TypeFacts, ProgramFacts
  <2> QED BY <2>1
<1>6. \A v \in TaintedBy(I) : v \in Passed(I) \/ Has(state'[v], I)
  BY <1>4, <1>5
<1>7. \A v \in SetTainted(I) : (v \in Formals(P) /\ state'[v] # Undefined) \/ state'[v] = Everywhere
  BY <1>3, <1>4, <1>5
<1>8. \A v : Has(state'[v], I) <=> Has(state[v], I)'
  BY DEF Has, Overdefined
<1> QED BY <1>1, <1>2, <1>6, <1>7, <1>8 DEF Clean

(* How a visit changes the states. *)
LEMMA VisitIsLater ==
  ASSUME TypeOK, NEW I \in P.insts,
         \A v \in Keys(P) : state'[v] = IF v \in DOMAIN Changed(I) THEN Changed(I)[v] ELSE state[v]
  PROVE  \A v \in Keys(P) : Later(v)
<1> SUFFICES ASSUME NEW v \in DOMAIN Changed(I), v \in Keys(P)
             PROVE  Later(v)
  BY DEF Later
<1>1. state'[v] = Changed(I)[v] /\ Changed(I)[v] # Undefined
  BY TypeFacts, ChangedFacts
<1>2. \/ v \in Values(P) /\ \A J : Has(state[v], J) => Has(Changed(I)[v], J)
      \/ v \in Formals(P) \cup P.fns /\ Changed(I)[v] = Everywhere
  BY TypeFacts, ChangedFacts, TaintedTypes
<1> QED BY <1>1, <1>2 DEF Later

LEMMA StepWork ==
  ASSUME TypeOK, WorkInv, [Next]_vars
  PROVE  WorkInv'
<1>0. UNCHANGED <<prog, limit, users>> /\ P' = P
  BY DEF Next, TakeValue, TakeBlock, VisitInst, SkipUser, MarkEdgeExecutable, Annotate, vars, P
<1>t. /\ Given /\ bbWorkList \in Seq(Blocks(P)) /\ valueWorkList \in Seq(Keys(P)) /\ agenda \in Seq(Items)
      /\ ToSet(<<>>) = {}
  BY TypeFacts, ElementsOf
<1>a. agenda # <<>> => ToSet(agenda) = {Head(agenda)} \cup ToSet(Tail(agenda))
  BY <1>t, HeadAndTail
<1> SUFFICES ASSUME NEW I \in P.insts, P.blockOf[I] \in bbExecutable'
             PROVE  Pending(I)' \/ Clean(I)'
  BY <1>0 DEF WorkInv
<1>b. P.blockOf[I] \in bbExecutable => Pending(I) \/ Clean(I)
  BY DEF WorkInv
<1>u. UNCHANGED <<state, bbExecutable>> /\ Clean(I) => Clean(I)'
  <2> SUFFICES ASSUME UNCHANGED <<state, bbExecutable>>, Clean(I)
               PROVE  Clean(I)'
    OBVIOUS
  <2> QED BY <1>0, CleanStays DEF Later
<1>1. CASE TakeValue
  <2>1. ToSet(valueWorkList) = {Last(valueWorkList)} \cup ToSet(valueWorkList')
        /\ Last(valueWorkList) \in Keys(P)
    BY <1>1, <1>t, FrontAndLast DEF TakeValue
  <2>2. users[Last(valueWorkList)] \in Seq(P.insts)
    BY <1>t, <2>1, ProgramFacts DEF IsUseList
  <2>3. ToSet(agenda') = {<<"user", J>> : J \in ToSet(users[Last(valueWorkList)])}
    BY <1>1, <2>2, EachOf DEF TakeValue
  <2>4. Pending(I) => Pending(I)'
    BY <1>0, <1>1, <1>t, <2>1, <2>3 DEF TakeValue, Pending
  <2> QED BY <1>1, <1>b, <1>u, <2>4 DEF TakeValue
<1>2. CASE TakeBlock
  <2>1. ToSet(bbWorkList) = {Last(bbWorkList)} \cup ToSet(bbWorkList') /\ Last(bbWorkList) \in Blocks(P)
    BY <1>2, <1>t, FrontAndLast DEF TakeBlock
  <2>2. P.code[Last(bbWorkList)] \in Seq(P.insts) /\ I \in ToSet(P.code[P.blockOf[I]])
    BY <1>t, <2>1, ProgramFacts DEF WellFormed
  <2>3. ToSet(agenda') = {<<"inst", J>> : J \in ToSet(P.code[Last(bbWorkList)])}
    BY <1>2, <2>2, EachOf DEF TakeBlock
  <2>4. Pending(I) => Pending(I)'
    BY <1>0, <1>2, <1>t, <2>1, <2>2, <2>3 DEF TakeBlock, Pending
  <2> QED BY <1>2, <1>b, <1>u, <2>4 DEF TakeBlock
<1>3. CASE VisitInst
  <2>1. PICK J \in P.insts, edges \in Seq(Items) :
          /\ agenda # <<>> /\ Head(agenda) \in {<<"user", J>>, <<"inst", J>>}
          /\ agenda' = edges \o Tail(agenda)
          /\ bbExecutable' = bbExecutable \cup Marked(J)
          /\ ToSet(bbWorkList') = ToSet(bbWorkList) \cup (Marked(J) \ bbExecutable)
          /\ \A v \in Keys(P) : state'[v] = IF v \in DOMAIN Changed(J) THEN Changed(J)[v] ELSE state[v]
          /\ ToSet(valueWorkList) \subseteq ToSet(valueWorkList')
          /\ \A v \in Keys(P) : state'[v] # state[v] => v \in ToSet(valueWorkList')
    BY <1>3, VisitFacts
  <2>2. ToSet(Tail(agenda)) \subseteq ToSet(agenda')
    <3> DEFINE rest == Tail(agenda)
    <3>1. rest \in Seq(Items) /\ agenda' = edges \o rest
      BY <1>t, <2>1, HeadAndTail
    <3> HIDE DEF rest
    <3>2. ToSet(edges \o rest) = ToSet(edges) \cup ToSet(rest)
      BY <3>1, ConcatSets, Zenon
    <3> QED BY <3>1, <3>2 DEF rest
  <2>3. CASE \E v \in Uses(P, I) : state'[v] # state[v]
    BY <1>0, <1>t, <2>1, <2>3, UsersKnow DEF Pending
  <2>4. CASE I = J /\ \A v \in Uses(P, I) : state'[v] = state[v]
    BY <1>0, <2>1, <2>4, VisitedIsClean
  <2>5. CASE I # J /\ \A v \in Uses(P, I) : state'[v] = state[v]
    <3>1. CASE P.blockOf[I] \notin bbExecutable
      BY <1>0, <2>1, <3>1 DEF Pending
    <3>2. CASE Clean(I)
      BY <1>0, <2>1, <2>5, <3>2, VisitIsLater, CleanStays
    <3>3. CASE Pending(I)
      BY <1>0, <1>a, <2>1, <2>2, <2>5, <3>3 DEF Pending
    <3> QED BY <1>b, <3>1, <3>2, <3>3
  <2> QED BY <2>3, <2>4, <2>5
<1>4. CASE SkipUser
  <2>1. P.blockOf[I] \in bbExecutable /\ UNCHANGED <<state, bbExecutable, bbWorkList, valueWorkList>>
        /\ agenda # <<>> /\ agenda' = Tail(agenda)
    BY <1>4 DEF SkipUser
  <2>2. Head(agenda) # <<"user", I>> /\ Head(agenda) # <<"inst", I>>
    BY <1>4, <2>1 DEF SkipUser, Live
  <2>3. Pending(I) => Pending(I)'
    BY <1>0, <1>a, <2>1, <2>2 DEF Pending
  <2> QED BY <1>b, <1>u, <2>1, <2>3
<1>5. CASE MarkEdgeExecutable
  <2>1. EdgeStep /\ UNCHANGED <<state, valueWorkList>>
    BY <1>5, EdgeFacts DEF MarkEdgeExecutable
  <2>2. CASE P.blockOf[I] \notin bbExecutable
    BY <1>0, <2>1, <2>2 DEF EdgeStep, Pending
  <2>3. CASE Clean(I)
    BY <1>0, <2>1, <2>3, CleanStays DEF EdgeStep, Later
  <2>4. CASE Pending(I)
    <3>1. Head(agenda) # <<"user", I>> /\ Head(agenda) # <<"inst", I>>
      BY <2>1 DEF EdgeStep
    <3> QED BY <1>0, <1>a, <2>1, <2>4, <3>1 DEF EdgeStep, Pending
  <2> QED BY <1>b, <2>2, <2>3, <2>4
<1>6. CASE Annotate
  <2>1. Pending(I) => Pending(I)'
    BY <1>0, <1>6 DEF Annotate, Pending
  <2> QED BY <1>6, <1>b, <1>u, <2>1 DEF Annotate
<1>7. CASE UNCHANGED vars
  <2>1. Pending(I) => Pending(I)'
    BY <1>0, <1>7 DEF vars, Pending
  <2> QED BY <1>7, <1>b, <1>u, <2>1 DEF vars
<1> QED BY <1>1, <1>2, <1>3, <1>4, <1>5, <1>6, <1>7 DEF Next

LEMMA StepRest ==
  ASSUME RestInv, [Next]_vars
  PROVE  RestInv'
BY DEF RestInv, Next, TakeValue, TakeBlock, VisitInst, SkipUser, MarkEdgeExecutable, Annotate, vars

-------------------------------------------------------------------------------
(* The theorems.                                                           *)

LEMMA InitInv == Init => IInv
<1> SUFFICES ASSUME Init
             PROVE  IInv
  OBVIOUS
<1>1. TypeOK /\ ReturnKeys /\ ~ done /\ ToSet(bbWorkList) = bbExecutable
  BY InitTypes
<1> QED BY <1>1 DEF IInv, RestInv, WorkInv, Pending

LEMMA StepInv == IInv /\ [Next]_vars => IInv'
BY StepTypes, StepWork, StepRest DEF IInv

LEMMA Invariance == Spec => []IInv
BY InitInv, StepInv, PTL DEF Spec

(* No state of the solver ever exceeds the bound of MaxInstructionsPerValue,
   and the work lists hold what they are meant to hold. *)
THEOREM TypeTheorem == Spec => []TypeOK
<1>1. IInv => TypeOK
  BY DEF IInv
<1> QED BY <1>1, Invariance, PTL

(* When Solve returns (TaintPropagation.cpp:1157-1185), another visit of any
   executable instruction would bring nothing new. *)
THEOREM SolvedTheorem == Spec => []SolvedAtRest
<1>1. IInv => SolvedAtRest
  <2> SUFFICES ASSUME IInv, done, NEW I \in P.insts, P.blockOf[I] \in bbExecutable
               PROVE  Settled(I)
    BY DEF SolvedAtRest
  <2>1. TypeOK /\ RestInv /\ WorkInv
    BY DEF IInv
  <2>2. ToSet(agenda) = {} /\ ToSet(valueWorkList) = {} /\ ToSet(bbWorkList) = {}
    BY <2>1 DEF RestInv, ToSet
  <2>3. ~ Pending(I)
    BY <2>2 DEF Pending
  <2> QED BY <2>1, <2>3, CleanIsSettled DEF WorkInv
<1> QED BY <1>1, Invariance, PTL

(* Taint is never taken back (l.873-884, with what the transfer functions
   merge): what is tainted stays so at all the instructions it was, unless it
   becomes overdefined, which it then remains; a formal may be narrowed, but
   stays tainted. *)
THEOREM KeptTheorem == Spec => TaintIsKept
<1> DEFINE Kept ==
      /\ \A v \in Keys(P) : state[v] # Undefined => state'[v] # Undefined
      /\ \A v \in Keys(P) \ Formals(P) :
           /\ IsTainted(v) => state'[v] = Overdefined \/ state[v].at \subseteq state'[v].at
           /\ state[v] = Overdefined => state'[v] = Overdefined
<1>1. IInv /\ [Next]_vars => [Kept]_state
  <2> SUFFICES ASSUME IInv, Next, state' # state
               PROVE  Kept
    BY DEF vars
  <2>1. VisitInst
    BY DEF Next, TakeValue, TakeBlock, SkipUser, MarkEdgeExecutable, Annotate
  <2>2. TypeOK /\ ReturnKeys
    BY DEF IInv
  <2>3. PICK I \in P.insts :
          \A v \in Keys(P) : state'[v] = IF v \in DOMAIN Changed(I) THEN Changed(I)[v] ELSE state[v]
    BY <2>1, <2>2, VisitFacts
  <2>4. ASSUME NEW v \in Keys(P), v \in DOMAIN Changed(I)
        PROVE  /\ Changed(I)[v] # Undefined
               /\ \/ Grows(state[v], Changed(I)[v])
                  \/ v \in Formals(P)
                  \/ v \in P.fns /\ Changed(I)[v] = Everywhere
    BY <2>2, <2>4, TypeFacts, ChangedFacts, TaintedTypes
  <2>5. \A F \in P.fns : state[F].at = {} /\ state[F] # Overdefined
    BY <2>2 DEF ReturnKeys, Undefined, Overdefined, Everywhere, TaintedAt
  <2> QED BY <2>3, <2>4, <2>5 DEF Grows, IsTainted
<1>2. [][Kept]_state => TaintIsKept
  BY PTL DEF TaintIsKept
<1> QED BY <1>1, <1>2, Invariance, PTL DEF Spec

-------------------------------------------------------------------------------
(***************************************************************************)
(* Reachability.  Dominators and iterated frontiers are least closed sets  *)
(* of blocks, and so is what paths lead to: each is shown to be inside the *)
(* other because the other is closed.                                      *)
(***************************************************************************)
\* induction over the natural numbers, for a set of them instead of a predicate
LEMMA SetInduction ==
  ASSUME NEW S \in SUBSET Nat, 0 \in S, \A n \in S : n + 1 \in S
  PROVE S = Nat
<1> DEFINE Miss == {U \in FiniteSubsetsOf(Nat) : \E n \in Nat \ S : U = 1..n}
<1>0. SUFFICES ASSUME NEW m \in Nat \ S PROVE FALSE
  OBVIOUS
<1>a. \A n \in Nat : 1..n \in FiniteSubsetsOf(Nat)
  BY FS_Interval DEF FiniteSubsetsOf
<1>1. Miss \subseteq FiniteSubsetsOf(Nat) /\ Miss # {}
  BY <1>a
<1>2. \E U \in Miss : \A V \in Miss : ~ (<<V, U>> \in StrictSubsetOrdering(Nat))
  <2> HIDE DEF Miss
  <2> QED BY <1>1, FS_StrictSubsetOrderingWellFounded, WFMin
<1>3. PICK U \in Miss : \A V \in Miss : ~ (<<V, U>> \in StrictSubsetOrdering(Nat))
  BY <1>2
<1>4. PICK x \in Nat \ S : U = 1..x
  OBVIOUS
<1>5. x # 0 /\ x - 1 \in Nat
  OBVIOUS
<1>6. x - 1 \notin S
  BY <1>5
<1>7. 1..(x-1) \in Miss
  BY <1>a, <1>5, <1>6
<1>8. 1..(x-1) \subseteq 1..x /\ 1..(x-1) # 1..x
  <2>1. x \in 1..x /\ x \notin 1..(x-1)
    BY <1>5
  <2> QED BY <2>1, <1>5
<1>9. <<1..(x-1), 1..x>> \in StrictSubsetOrdering(Nat)
  BY <1>a, <1>5, <1>8, <1>4 DEF StrictSubsetOrdering, FiniteSubsetsOf
<1> QED BY <1>3, <1>4, <1>7, <1>9

\* the blocks one step further
Widened(next, S) == UNION {{b} \cup next[b] : b \in S}

\* g is the first n steps from seed
Steps(next, seed, g, n) ==
  /\ g = [k \in 0..n |-> g[k]]
  /\ g[0] = seed /\ \A k \in 0..n : k # 0 => g[k] = Widened(next, g[k - 1])

LEMMA StepAt ==
  ASSUME NEW next, NEW seed, NEW g, NEW n \in Nat, Steps(next, seed, g, n), NEW k \in 0..n, k # 0
  PROVE  g[k] = Widened(next, g[k - 1])
BY DEF Steps

\* there is a function that satisfies the recursion of Widening, built from its beginnings
LEMMA WideningIs ==
  ASSUME NEW next, NEW seed, NEW f, f = Widening(next, seed)
  PROVE  f[0] = seed /\ \A n \in Nat : f[n + 1] = Widened(next, f[n])
<1> DEFINE Body(g) == [n \in Nat |-> IF n = 0 THEN seed ELSE UNION {{b} \cup next[b] : b \in g[n - 1]}]
           S == {n \in Nat : \E g : Steps(next, seed, g, n)}
<1>1. S = Nat
  <2>1. 0 \in S
    <3>1. PICK g : g = [k \in 0..0 |-> seed]
      OBVIOUS
    <3>2. Steps(next, seed, g, 0)
      BY <3>1 DEF Steps
    <3> QED BY <3>2
  <2>2. ASSUME NEW n \in S
        PROVE  n + 1 \in S
    <3>1. PICK g : Steps(next, seed, g, n)
      OBVIOUS
    <3>2. PICK w : w = Widened(next, g[n])
      OBVIOUS
    <3>3. PICK h : h = [k \in 0..(n + 1) |-> IF k = n + 1 THEN w ELSE g[k]]
      OBVIOUS
    <3>4. Steps(next, seed, h, n + 1)
      <4>1. h = [k \in 0..(n + 1) |-> h[k]]
        BY <3>3
      <4>2. h[0] = seed
        BY <3>1, <3>3 DEF Steps
      <4>3. ASSUME NEW k \in 0..(n + 1), k # 0
            PROVE  h[k] = Widened(next, h[k - 1])
        <5>1. k - 1 \in 0..n /\ h[k - 1] = g[k - 1]
          BY <3>3, <4>3
        <5>2. CASE k = n + 1
          BY <3>2, <3>3, <5>1, <5>2
        <5>3. CASE k # n + 1
          <6>1. k \in 0..n /\ n \in Nat
            BY <4>3, <5>3
          <6>2. g[k] = Widened(next, g[k - 1])
            BY <3>1, <4>3, <6>1, StepAt
          <6> QED BY <3>3, <5>1, <5>3, <6>2
        <5> QED BY <5>2, <5>3
      <4> QED BY <4>1, <4>2, <4>3 DEF Steps
    <3> QED BY <3>4
  <2>3. S \in SUBSET Nat
    OBVIOUS
  <2> HIDE DEF S
  <2> QED BY <2>1, <2>2, <2>3, SetInduction
<1>2. ASSUME NEW n \in Nat, NEW g, Steps(next, seed, g, n), NEW h, Steps(next, seed, h, n)
      PROVE  g = h
  <2> DEFINE T == {k \in Nat : k \in 0..n => g[k] = h[k]}
  <2>1. 0 \in T
    BY <1>2 DEF Steps
  <2>2. ASSUME NEW k \in T, k + 1 \in 0..n
        PROVE  g[k + 1] = h[k + 1]
    <3>1. g[k] = h[k]
      BY <2>2
    <3>2. PICK l \in 0..n : l = k + 1 /\ l # 0 /\ l - 1 = k
      BY <2>2
    <3>3. g[l] = Widened(next, g[l - 1]) /\ h[l] = Widened(next, h[l - 1])
      BY <1>2, <3>2, StepAt
    <3> QED BY <3>1, <3>2, <3>3
  <2>3. T = Nat
    <3>1. T \in SUBSET Nat
      OBVIOUS
    <3>2. \A k \in T : k + 1 \in T
      BY <2>2
    <3> HIDE DEF T
    <3> QED BY <2>1, <3>1, <3>2, SetInduction
  <2>4. \A k \in 0..n : g[k] = h[k]
    BY <2>3
  <2>5. g = [k \in 0..n |-> g[k]] /\ h = [k \in 0..n |-> h[k]]
    BY <1>2 DEF Steps
  <2> HIDE DEF T
  <2> QED BY <2>4, <2>5
<1>3. \E g : g = Body(g)
  <2> DEFINE The(n) == CHOOSE g : Steps(next, seed, g, n)
  <2>1. \A n \in Nat : Steps(next, seed, The(n), n)
    BY <1>1
  <2>2. PICK g : g = [n \in Nat |-> The(n)[n]]
    OBVIOUS
  <2>3. g[0] = seed
    BY <2>1, <2>2 DEF Steps
  <2>4. ASSUME NEW n \in Nat, n # 0
        PROVE  g[n] = Widened(next, g[n - 1])
    <3>1. PICK a, b : a = The(n) /\ b = The(n - 1)
      OBVIOUS
    <3>2. Steps(next, seed, a, n) /\ Steps(next, seed, b, n - 1) /\ n - 1 \in Nat
      BY <2>1, <2>4, <3>1
    <3>3. PICK c : c = [k \in 0..(n - 1) |-> a[k]]
      OBVIOUS
    <3>4. Steps(next, seed, c, n - 1)
      <4>1. \A k \in 0..(n - 1) : k # 0 => a[k] = Widened(next, a[k - 1])
        BY <2>4, <3>2, StepAt
      <4>2. c = [k \in 0..(n - 1) |-> c[k]] /\ c[0] = seed
        BY <2>4, <3>2, <3>3 DEF Steps
      <4>3. ASSUME NEW k \in 0..(n - 1), k # 0
            PROVE  c[k] = Widened(next, c[k - 1])
        <5>1. c[k] = a[k] /\ c[k - 1] = a[k - 1]
          BY <2>4, <3>3, <4>3
        <5> QED BY <4>1, <4>3, <5>1
      <4> QED BY <4>2, <4>3 DEF Steps
    <3>5. c = b
      BY <3>2, <3>4, <1>2
    <3>6. a[n] = Widened(next, a[n - 1]) /\ c[n - 1] = a[n - 1]
      BY <2>4, <3>2, <3>3, StepAt
    <3> QED BY <2>2, <3>1, <3>2, <3>5, <3>6
  <2>5. g = [n \in Nat |-> IF n = 0 THEN seed ELSE Widened(next, g[n - 1])]
    <3> HIDE DEF The
    <3>1. g = [n \in Nat |-> g[n]]
      BY <2>2
    <3> QED BY <2>3, <2>4, <3>1
  <2> QED BY <2>5 DEF Widened
<1>4. f = Body(f)
  <2>1. f = CHOOSE g : g = Body(g)
    BY Zenon DEF Widening
  <2> QED BY <1>3, <2>1
<1>5. f = [n \in Nat |-> IF n = 0 THEN seed ELSE Widened(next, f[n - 1])]
  BY <1>4 DEF Widened
<1> HIDE DEF Body
<1> QED BY <1>5

\* after as many steps as there are blocks nothing more is reached, because each step that
\* reaches something adds a block: the closure is the least closed set
LEMMA ClosureFacts ==
  ASSUME NEW B, IsFiniteSet(B), NEW next \in [B -> SUBSET B], NEW seed \in SUBSET B,
         NEW C, C = Closure(next, seed)
  PROVE  /\ seed \subseteq C /\ C \subseteq B
         /\ \A b \in C : next[b] \subseteq C
         /\ \A S : seed \subseteq S /\ (\A b \in S : b \in B => next[b] \subseteq S) => C \subseteq S
<1> DEFINE N == Cardinality(B)
<1>0. N \in Nat
  BY FS_CardinalityType
<1>1. PICK f : f = Widening(next, seed)
  OBVIOUS
<1>2. f[0] = seed /\ \A n \in Nat : f[n + 1] = Widened(next, f[n])
  BY <1>1, WideningIs
<1>3. C = f[N]
  BY <1>1 DEF Closure
<1>4. ASSUME NEW S, seed \subseteq S, \A b \in S : b \in B => next[b] \subseteq S,
             NEW n \in Nat
      PROVE  f[n] \subseteq S \cap B
  <2> DEFINE T == {m \in Nat : f[m] \subseteq S \cap B}
  <2>1. 0 \in T
    BY <1>2, <1>4
  <2>2. ASSUME NEW m \in T
        PROVE  m + 1 \in T
    <3>1. Widened(next, f[m]) \subseteq S \cap B
      BY <1>4 DEF Widened
    <3> QED BY <1>2, <3>1
  <2>3. T \in SUBSET Nat
    OBVIOUS
  <2>4. T = Nat
    <3> HIDE DEF T
    <3> QED BY <2>1, <2>2, <2>3, SetInduction
  <2> QED BY <2>4
<1>5. \A n \in Nat : f[n] \subseteq B
  BY <1>4
<1>6. \A n \in Nat : f[n] \subseteq f[n + 1] /\ \A b \in f[n] : next[b] \subseteq f[n + 1]
  BY <1>2 DEF Widened
<1>7. ASSUME NEW n \in Nat
      PROVE  seed \subseteq f[n]
  <2> DEFINE T == {m \in Nat : seed \subseteq f[m]}
  <2>1. 0 \in T /\ \A m \in T : m + 1 \in T
    BY <1>2, <1>6
  <2>2. T \in SUBSET Nat
    OBVIOUS
  <2>3. T = Nat
    <3> HIDE DEF T
    <3> QED BY <2>1, <2>2, SetInduction
  <2> QED BY <2>3
<1>8. ASSUME NEW n \in Nat
      PROVE  f[n + 1] = f[n] \/ Cardinality(f[n]) >= n
  <2> DEFINE T == {m \in Nat : f[m + 1] = f[m] \/ Cardinality(f[m]) >= m}
  <2>1. 0 \in T
    <3>1. IsFiniteSet(f[0])
      BY <1>5, FS_Subset
    <3> QED BY <3>1, FS_CardinalityType
  <2>2. ASSUME NEW m \in T
        PROVE  m + 1 \in T
    <3>1. CASE f[m + 1] = f[m]
      BY <1>2, <3>1
    <3>2. CASE f[m + 1] # f[m]
      <4>1. IsFiniteSet(f[m + 1]) /\ IsFiniteSet(f[m])
        BY <1>5, FS_Subset
      <4>2. /\ Cardinality(f[m]) \in Nat /\ Cardinality(f[m + 1]) \in Nat
            /\ Cardinality(f[m]) <= Cardinality(f[m + 1])
            /\ Cardinality(f[m]) # Cardinality(f[m + 1])
        BY <1>6, <3>2, <4>1, FS_Subset, FS_CardinalityType
      <4>3. Cardinality(f[m]) >= m
        BY <3>2
      <4> QED BY <4>2, <4>3
    <3> QED BY <3>1, <3>2
  <2>3. T \in SUBSET Nat
    OBVIOUS
  <2>4. T = Nat
    <3> HIDE DEF T
    <3> QED BY <2>1, <2>2, <2>3, SetInduction
  <2> QED BY <2>4
<1>9. f[N + 1] = f[N]
  <2>1. CASE Cardinality(f[N]) >= N
    <3>1. f[N] \subseteq B /\ IsFiniteSet(f[N]) /\ Cardinality(f[N]) <= N /\ Cardinality(f[N]) \in Nat
      BY <1>0, <1>5, FS_Subset, FS_CardinalityType
    <3>2. Cardinality(f[N]) = N
      BY <1>0, <2>1, <3>1
    <3>3. f[N] = B
      BY <3>1, <3>2, FS_Subset
    <3>4. f[N + 1] \subseteq B /\ f[N] \subseteq f[N + 1]
      <4> HIDE DEF N
      <4> QED BY <1>0, <1>5, <1>6
    <3> QED BY <3>3, <3>4
  <2> QED BY <1>0, <1>8, <2>1
<1> HIDE DEF N
<1> QED BY <1>0, <1>3, <1>4, <1>5, <1>6, <1>7, <1>9

-------------------------------------------------------------------------------

\* C is the least set that has seed and that no edge leaves but into avoid
IsSpread(Q, seed, avoid, C) ==
  /\ seed \ avoid \subseteq C /\ C \subseteq Blocks(Q) \ avoid
  /\ \A b \in C : Q.succs[b] \ avoid \subseteq C
  /\ \A S : seed \ avoid \subseteq S /\ (\A b \in S : b \in Blocks(Q) => Q.succs[b] \ avoid \subseteq S)
            => C \subseteq S

LEMMA SpreadFacts ==
  ASSUME NEW Q, IsFiniteSet(Blocks(Q)), Q.succs \in [Blocks(Q) -> SUBSET Blocks(Q)],
         NEW seed \in SUBSET Blocks(Q), NEW avoid
  PROVE  IsSpread(Q, seed, avoid, Spread(Q, seed, avoid))
<1>0. PICK C : C = Spread(Q, seed, avoid)
  OBVIOUS
<1>1. PICK next : next = [b \in Blocks(Q) |-> Q.succs[b] \ avoid]
  OBVIOUS
<1>2. next \in [Blocks(Q) -> SUBSET Blocks(Q)] /\ seed \ avoid \in SUBSET Blocks(Q)
  BY <1>1
<1>3. C = Closure(next, seed \ avoid)
  <2>1. DOMAIN Q.succs = Blocks(Q)
    OBVIOUS
  <2> QED BY <1>0, <1>1, <2>1 DEF Spread
<1>4. /\ seed \ avoid \subseteq C /\ C \subseteq Blocks(Q)
      /\ \A b \in C : next[b] \subseteq C
      /\ \A S : seed \ avoid \subseteq S /\ (\A b \in S : b \in Blocks(Q) => next[b] \subseteq S) => C \subseteq S
  <2> HIDE DEF Blocks
  <2> QED BY <1>2, <1>3, ClosureFacts
<1>5. \A b \in Blocks(Q) : next[b] = Q.succs[b] \ avoid
  BY <1>1
<1>6. C \subseteq Blocks(Q) \ avoid
  <2> DEFINE S == Blocks(Q) \ avoid
  <2>1. seed \ avoid \subseteq S /\ \A b \in S : b \in Blocks(Q) => next[b] \subseteq S
    BY <1>2, <1>5
  <2>2. C \subseteq S
    <3> HIDE DEF S
    <3> QED BY <1>4, <2>1
  <2> QED BY <2>2
<1>7. \A b \in C : Q.succs[b] \ avoid \subseteq C
  BY <1>4, <1>5
<1>8. \A S : (\A b \in S : b \in Blocks(Q) => Q.succs[b] \ avoid \subseteq S)
              => \A b \in S : b \in Blocks(Q) => next[b] \subseteq S
  BY <1>5
<1> QED BY <1>0, <1>4, <1>6, <1>7, <1>8 DEF IsSpread

\* where the control flow leads behind b
Behind(Q, b) == Spread(Q, Q.succs[b], {})

LEMMA BehindFacts ==
  ASSUME NEW Q, IsFiniteSet(Blocks(Q)), Q.succs \in [Blocks(Q) -> SUBSET Blocks(Q)],
         NEW b \in Blocks(Q)
  PROVE  /\ Q.succs[b] \subseteq Behind(Q, b) /\ Behind(Q, b) \subseteq Blocks(Q)
         /\ \A c \in Behind(Q, b) : Q.succs[c] \subseteq Behind(Q, b)
         /\ \A c \in Behind(Q, b) : Behind(Q, c) \subseteq Behind(Q, b)
<1>1. PICK S : S = Behind(Q, b)
  OBVIOUS
<1>2. Q.succs[b] \subseteq S /\ S \subseteq Blocks(Q) /\ \A c \in S : Q.succs[c] \subseteq S
  <2>1. IsSpread(Q, Q.succs[b], {}, S)
    BY <1>1, SpreadFacts DEF Behind
  <2> QED BY <2>1 DEF IsSpread
<1>3. ASSUME NEW c \in S
      PROVE  Behind(Q, c) \subseteq S
  <2>1. c \in Blocks(Q) /\ Q.succs[c] \subseteq Blocks(Q)
    BY <1>2
  <2>2. Q.succs[c] \ {} \subseteq S /\ \A d \in S : d \in Blocks(Q) => Q.succs[d] \ {} \subseteq S
    BY <1>2
  <2>3. IsSpread(Q, Q.succs[c], {}, Behind(Q, c))
    BY <2>1, SpreadFacts DEF Behind
  <2> QED BY <2>2, <2>3 DEF IsSpread
<1> QED BY <1>1, <1>2, <1>3

\* a block is in one function
LEMMA FunctionOfBlock ==
  ASSUME NEW Q, WellFormed(Q), NEW F \in Q.fns, NEW b \in Q.blocks[F]
  PROVE  FnOfBlock(Q, b) = F
<1>1. ASSUME NEW G \in Q.fns, b \in Q.blocks[G]
      PROVE  G = F
  <2>1. Q.code[b] \in Seq(Q.insts) /\ Q.code[b] # <<>>
    BY DEF WellFormed, Verified
  <2>2. 1 \in DOMAIN Q.code[b]
    BY <2>1, EmptySeq, LenProperties
  <2> QED BY <1>1, <2>2 DEF WellFormed, Verified
<1> QED BY <1>1 DEF FnOfBlock

LEMMA BlockIsInFunction ==
  ASSUME NEW Q, WellFormed(Q), NEW b \in Blocks(Q)
  PROVE  \E F \in DefinedFns(Q) : /\ b \in Q.blocks[F] /\ FnOfBlock(Q, b) = F
                                  /\ Q.entry[F] \in Q.blocks[F] /\ Q.entry[F] \in Blocks(Q)
                                  /\ Q.blocks[F] \subseteq Blocks(Q)
                                  /\ \A c \in Q.blocks[F] : Q.succs[c] \subseteq Q.blocks[F] /\ FnOfBlock(Q, c) = F
<1>1. PICK F \in Q.fns : b \in Q.blocks[F]
  BY DEF WellFormed
<1>2. F \in DefinedFns(Q)
  BY <1>1 DEF WellFormed, Verified, DefinedFns
<1>3. \A c \in Q.blocks[F] : Q.succs[c] \subseteq Q.blocks[F] /\ FnOfBlock(Q, c) = F
  <2>1. \A c \in Q.blocks[F] : FnOfBlock(Q, c) = F
    BY FunctionOfBlock
  <2> QED BY <2>1 DEF WellFormed, Verified
<1>4. Q.entry[F] \in Q.blocks[F] /\ Q.entry[F] \in Blocks(Q) /\ Q.blocks[F] \subseteq Blocks(Q)
  BY <1>2 DEF WellFormed, Verified
<1> QED BY <1>1, <1>2, <1>3, <1>4

\* the tree holds what the entry leads to, and what b dominates comes behind b
LEMMA TreeFacts ==
  ASSUME NEW Q, WellFormed(Q), NEW b \in Blocks(Q)
  PROVE  /\ Q.dominated[b] \subseteq Blocks(Q)
         /\ Q.dominated[b] \subseteq {b} \cup Behind(Q, b)
         /\ \A x \in Q.dominated[b] : InTree(Q, x)
         /\ InTree(Q, b) => \A x \in Q.succs[b] : InTree(Q, x)
<1>0. /\ IsFiniteSet(Blocks(Q)) /\ Q.succs \in [Blocks(Q) -> SUBSET Blocks(Q)]
      /\ Q.dominated = DominatorTree(Q) /\ DOMAIN Q.succs = Blocks(Q)
  BY DEF WellFormed
<1>1. PICK F \in DefinedFns(Q) :
        /\ b \in Q.blocks[F] /\ FnOfBlock(Q, b) = F
        /\ Q.entry[F] \in Q.blocks[F] /\ Q.entry[F] \in Blocks(Q)
        /\ Q.blocks[F] \subseteq Blocks(Q)
        /\ \A c \in Q.blocks[F] : Q.succs[c] \subseteq Q.blocks[F] /\ FnOfBlock(Q, c) = F
  BY BlockIsInFunction
<1>2. PICK e : e = Q.entry[F]
  OBVIOUS
<1>3. PICK R : R = Spread(Q, {e}, {})
  OBVIOUS
<1>4. /\ e \in R /\ R \subseteq Blocks(Q) /\ \A c \in R : Q.succs[c] \subseteq R
      /\ \A S : e \in S /\ (\A c \in S : c \in Blocks(Q) => Q.succs[c] \subseteq S) => R \subseteq S
  <2>1. {e} \in SUBSET Blocks(Q)
    BY <1>1, <1>2
  <2>2. IsSpread(Q, {e}, {}, R)
    BY <1>0, <1>3, <2>1, SpreadFacts
  <2> QED BY <2>2 DEF IsSpread
<1>6. R \subseteq Q.blocks[F]
  BY <1>1, <1>2, <1>4
<1>7. ASSUME NEW c \in Q.blocks[F]
      PROVE  \E A : /\ Q.dominated[c] = R \ A
                    /\ {e} \ {c} \subseteq A /\ A \subseteq Blocks(Q) \ {c}
                    /\ \A x \in A : Q.succs[x] \ {c} \subseteq A
  <2>0. PICK A : A = Spread(Q, {e}, {c})
    OBVIOUS
  <2>1. {e} \in SUBSET Blocks(Q)
    BY <1>1, <1>2
  <2>2. Q.dominated[c] = R \ A
    BY <1>0, <1>1, <1>2, <1>3, <2>0 DEF DominatorTree
  <2>3. IsSpread(Q, {e}, {c}, A)
    BY <1>0, <2>0, <2>1, SpreadFacts
  <2> QED BY <2>2, <2>3 DEF IsSpread
<1>8. ASSUME NEW c \in Q.blocks[F]
      PROVE  InTree(Q, c) <=> c \in R
  <2>1. PICK A : Q.dominated[c] = R \ A /\ A \subseteq Blocks(Q) \ {c}
    BY <1>7
  <2> QED BY <2>1 DEF InTree
<1>9. PICK A : /\ Q.dominated[b] = R \ A
                /\ {e} \ {b} \subseteq A /\ A \subseteq Blocks(Q) \ {b}
                /\ \A x \in A : Q.succs[x] \ {b} \subseteq A
  BY <1>1, <1>7
<1>10. Q.dominated[b] \subseteq {b} \cup Behind(Q, b)
  <2> DEFINE S == A \cup {b} \cup Behind(Q, b)
  <2>1. e \in S
    BY <1>9
  <2>2. ASSUME NEW c \in S, c \in Blocks(Q)
        PROVE  Q.succs[c] \subseteq S
    <3>1. Q.succs[b] \subseteq Behind(Q, b) /\ \A d \in Behind(Q, b) : Q.succs[d] \subseteq Behind(Q, b)
      BY <1>0, BehindFacts
    <3> QED BY <1>9, <2>2, <3>1
  <2>3. R \subseteq S
    <3> HIDE DEF S
    <3> QED BY <1>4, <2>1, <2>2
  <2> QED BY <1>9, <2>3
<1>11. Q.dominated[b] \subseteq R
  BY <1>9
<1>12. \A x \in Q.dominated[b] : InTree(Q, x)
  BY <1>6, <1>8, <1>11
<1>13. InTree(Q, b) => \A x \in Q.succs[b] : InTree(Q, x)
  BY <1>1, <1>4, <1>8
<1> QED BY <1>4, <1>10, <1>11, <1>12, <1>13

LEMMA FrontierFacts ==
  ASSUME NEW Q, WellFormed(Q), NEW b \in Blocks(Q)
  PROVE  /\ Frontier(Q, b) \subseteq Q.frontier[b] /\ Q.frontier[b] \subseteq Blocks(Q)
         /\ \A c \in Q.frontier[b] : Frontier(Q, c) \subseteq Q.frontier[b]
         /\ \A S : Frontier(Q, b) \subseteq S /\ (\A c \in S : c \in Blocks(Q) => Frontier(Q, c) \subseteq S)
                   => Q.frontier[b] \subseteq S
<1>0. /\ IsFiniteSet(Blocks(Q)) /\ Q.succs \in [Blocks(Q) -> SUBSET Blocks(Q)]
      /\ Q.frontier = IteratedFrontier(Q) /\ DOMAIN Q.succs = Blocks(Q)
  BY DEF WellFormed
<1>1. PICK next : next = [c \in Blocks(Q) |-> Frontier(Q, c)]
  OBVIOUS
<1>2. \A c \in Blocks(Q) : next[c] = Frontier(Q, c) /\ next[c] \in SUBSET Blocks(Q)
  BY <1>0, <1>1, TreeFacts DEF Frontier
<1>3. next \in [Blocks(Q) -> SUBSET Blocks(Q)] /\ next[b] \in SUBSET Blocks(Q)
  BY <1>1, <1>2
<1>4. Q.frontier[b] = Closure(next, next[b])
  BY <1>0, <1>1 DEF IteratedFrontier
<1>5. PICK C : C = Closure(next, next[b])
  OBVIOUS
<1>6. /\ next[b] \subseteq C /\ C \subseteq Blocks(Q)
      /\ \A c \in C : next[c] \subseteq C
      /\ \A S : next[b] \subseteq S /\ (\A c \in S : c \in Blocks(Q) => next[c] \subseteq S) => C \subseteq S
  BY <1>0, <1>3, <1>5, ClosureFacts
<1> QED BY <1>2, <1>4, <1>5, <1>6

\* an edge from what b dominates stays inside, or crosses the frontier
LEMMA EdgeFromDominated ==
  ASSUME NEW Q, NEW b, NEW c \in Q.dominated[b], NEW d \in Q.succs[c]
  PROVE  d \in Q.dominated[b] \ {b} \/ d \in Frontier(Q, b)
BY DEF Frontier

\* the control flow leads from a to exactly the blocks that a, or a block of its iterated
\* frontier, dominates
LEMMA BehindIsDominated ==
  ASSUME NEW Q, WellFormed(Q), NEW a \in Blocks(Q), InTree(Q, a), NEW u \in Behind(Q, a)
  PROVE  u \in Q.dominated[a] \ {a} \/ \E f \in Q.frontier[a] : u \in Q.dominated[f]
<1> DEFINE S == {x \in Blocks(Q) : /\ InTree(Q, x)
                                   /\ x \in Q.dominated[a] \ {a} \/ \E f \in Q.frontier[a] : x \in Q.dominated[f]}
<1>0. IsFiniteSet(Blocks(Q)) /\ Q.succs \in [Blocks(Q) -> SUBSET Blocks(Q)]
  BY DEF WellFormed
<1>1. ASSUME NEW x \in Blocks(Q), InTree(Q, x), NEW y \in Q.succs[x], x \in Q.dominated[a]
      PROVE  y \in S
  <2>1. y \in Blocks(Q) /\ InTree(Q, y)
    BY <1>0, <1>1, TreeFacts
  <2>2. y \in Q.dominated[a] \ {a} \/ y \in Q.frontier[a]
    BY <1>1, EdgeFromDominated, FrontierFacts
  <2>3. y \in Q.dominated[y]
    BY <2>1 DEF InTree
  <2> QED BY <2>1, <2>2, <2>3
<1>2. ASSUME NEW x \in Blocks(Q), InTree(Q, x), NEW y \in Q.succs[x], NEW f \in Q.frontier[a], x \in Q.dominated[f]
      PROVE  y \in S
  <2>1. y \in Blocks(Q) /\ InTree(Q, y)
    BY <1>0, <1>2, TreeFacts
  <2>2. y \in Q.dominated[f] \ {f} \/ y \in Q.frontier[a]
    BY <1>2, EdgeFromDominated, FrontierFacts
  <2>3. y \in Q.dominated[y]
    BY <2>1 DEF InTree
  <2> QED BY <2>1, <2>2, <2>3
<1>3. Q.succs[a] \ {} \subseteq S
  BY <1>1 DEF InTree
<1>4. \A x \in S : x \in Blocks(Q) => Q.succs[x] \ {} \subseteq S
  BY <1>1, <1>2
<1>5. Behind(Q, a) \subseteq S
  <2>1. Q.succs[a] \in SUBSET Blocks(Q)
    BY <1>0
  <2>2. IsSpread(Q, Q.succs[a], {}, Behind(Q, a))
    BY <1>0, <2>1, SpreadFacts DEF Behind
  <2> HIDE DEF S
  <2> QED BY <1>3, <1>4, <2>2 DEF IsSpread
<1> QED BY <1>5

LEMMA DominatedIsBehind ==
  ASSUME NEW Q, WellFormed(Q), NEW a \in Blocks(Q), NEW f \in Q.frontier[a], NEW u \in Q.dominated[f]
  PROVE  u \in Behind(Q, a)
<1> DEFINE S == Behind(Q, a)
<1>0. IsFiniteSet(Blocks(Q)) /\ Q.succs \in [Blocks(Q) -> SUBSET Blocks(Q)]
  BY DEF WellFormed
<1>1. Q.succs[a] \subseteq S /\ S \subseteq Blocks(Q) /\ \A c \in S : Q.succs[c] \subseteq S /\ Behind(Q, c) \subseteq S
  BY <1>0, BehindFacts
<1>2. Frontier(Q, a) \subseteq S
  <2>1. Q.dominated[a] \subseteq {a} \cup S
    BY TreeFacts
  <2> QED BY <1>1, <2>1 DEF Frontier
<1>3. ASSUME NEW c \in S
      PROVE  Q.dominated[c] \subseteq S
  BY <1>1, TreeFacts
<1>4. \A c \in S : Frontier(Q, c) \subseteq S
  BY <1>1, <1>3 DEF Frontier
<1>5. Q.frontier[a] \subseteq S
  <2> HIDE DEF S
  <2> QED BY <1>2, <1>4, FrontierFacts
<1> QED BY <1>3, <1>5

LEMMA BlockOfInst ==
  ASSUME NEW Q, WellFormed(Q), NEW I \in Q.insts, NEW J \in Q.insts, Before(Q, I, J)
  PROVE  Q.blockOf[I] = Q.blockOf[J]
<1> DEFINE a == Q.blockOf[I]
           b == Q.blockOf[J]
<1>1. a \in Blocks(Q) /\ b \in Blocks(Q) /\ J \in ToSet(Q.code[b])
  BY DEF WellFormed
<1>2. PICK j \in DOMAIN Q.code[a] : Q.code[a][j] = J
  BY DEF Before
<1>3. PICK k \in DOMAIN Q.code[b] : Q.code[b][k] = J
  BY <1>1 DEF ToSet
<1>4. PICK F \in Q.fns, G \in Q.fns : a \in Q.blocks[F] /\ b \in Q.blocks[G]
  BY <1>1 DEF WellFormed
<1>5. \A i \in DOMAIN Q.code[a], l \in DOMAIN Q.code[b] : Q.code[a][i] = Q.code[b][l] => a = b
  BY <1>4 DEF WellFormed, Verified
<1> QED BY <1>2, <1>3, <1>5

\* dominance and iterated frontiers find exactly the instructions that paths lead to
LEMMA ReachableMeansPath ==
  ASSUME NEW Q, WellFormed(Q), NEW D \in Q.insts, NEW I \in Q.insts, D # I,
         InTree(Q, Q.blockOf[D]), InTree(Q, Q.blockOf[I])
  PROVE  Reachable(Q, {D}, I) <=> HasPath(Q, D, I)
<1> DEFINE a == Q.blockOf[D]
           u == Q.blockOf[I]
<1>1. a \in Blocks(Q) /\ u \in Blocks(Q)
  BY DEF WellFormed
<1>2. Reachable(Q, {D}, I) <=> Dominates(Q, D, I) \/ \E f \in Q.frontier[a] : u \in Q.dominated[f]
  BY DEF Reachable
<1>3. Dominates(Q, D, I) <=> \/ a # u /\ u \in Q.dominated[a]
                             \/ a = u /\ ~IsOp(Q, I, "phi") /\ Before(Q, D, I)
  BY DEF Dominates
<1>4. HasPath(Q, D, I) <=> u \in Behind(Q, a) \/ (Before(Q, D, I) /\ ~IsOp(Q, I, "phi"))
  BY Zenon DEF HasPath, Behind
<1>5. Before(Q, D, I) => a = u
  BY BlockOfInst
<1>6. u \in Behind(Q, a) => u \in Q.dominated[a] \ {a} \/ \E f \in Q.frontier[a] : u \in Q.dominated[f]
  BY <1>1, BehindIsDominated
<1>7. (\E f \in Q.frontier[a] : u \in Q.dominated[f]) => u \in Behind(Q, a)
  BY <1>1, DominatedIsBehind
<1>8. a # u /\ u \in Q.dominated[a] => u \in Behind(Q, a)
  BY <1>1, TreeFacts
<1> HIDE DEF a, u
<1> QED BY <1>2, <1>3, <1>4, <1>5, <1>6, <1>7, <1>8

\* The test that the transfer functions ask is right on every control flow graph: the
\* dominators and iterated frontiers find a definition to reach another instruction of its
\* function exactly when a path leads from one to the other.
THEOREM ReachableTheorem == Spec => []ReachableIsPath
<1>1. TypeOK => WellFormed(P)
  BY ProgramAssumption DEF TypeOK, P
<1>2. TypeOK => ReachableIsPath
  BY <1>1, ReachableMeansPath DEF ReachableIsPath
<1> QED BY <1>2, TypeTheorem, PTL
===============================================================================
