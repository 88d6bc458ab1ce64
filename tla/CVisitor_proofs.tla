----------------------------- MODULE CVisitor_proofs -----------------------------
(***************************************************************************)
(* Proofs about the visitor of the C interpreter.                          *)
(***************************************************************************)
EXTENDS CVisitor, FiniteSetTheorems, SequenceTheorems, TLAPS

-------------------------------------------------------------------------------
(* The frame in which a task is carried out: one more for each call to be   *)
(* left from there on.                                                      *)

LEMMA LeavesFinite ==
  ASSUME NEW a, Len(a) \in Nat, NEW i \in Nat
  PROVE  IsFiniteSet({j \in i..Len(a) : IsLeave(a, j)})
<1>1. IsFiniteSet(i..Len(a))
  BY FS_Interval
<1> QED BY <1>1, FS_Subset

LEMMA FrameNat ==
  ASSUME NEW a, Len(a) \in Nat, NEW i \in Nat
  PROVE  FrameAt(a, i) \in Nat \ {0}
BY LeavesFinite, FS_CardinalityType DEF FrameAt

LEMMA FrameLater ==
  ASSUME NEW a, Len(a) \in Nat, NEW i \in Nat, NEW k \in Nat, i <= k
  PROVE  FrameAt(a, k) <= FrameAt(a, i)
<1> DEFINE S(n) == {j \in n..Len(a) : IsLeave(a, j)}
<1>1. IsFiniteSet(S(i)) /\ IsFiniteSet(S(k))
  BY LeavesFinite
<1>2. S(k) \in SUBSET S(i)
  OBVIOUS
<1>3. Cardinality(S(k)) <= Cardinality(S(i))
  BY <1>1, <1>2, FS_Subset
<1>4. Cardinality(S(k)) \in Nat /\ Cardinality(S(i)) \in Nat
  BY <1>1, FS_CardinalityType
<1>5. FrameAt(a, k) = 1 + Cardinality(S(k)) /\ FrameAt(a, i) = 1 + Cardinality(S(i))
  BY DEF FrameAt
<1> HIDE DEF S
<1> QED BY <1>3, <1>4, <1>5

LEMMA FrameSame ==
  ASSUME NEW a, Len(a) \in Nat, NEW i \in Nat, NEW k \in Nat, i <= k,
         \A j \in i..(k - 1) : j <= Len(a) => ~ IsLeave(a, j)
  PROVE  FrameAt(a, i) = FrameAt(a, k)
<1>1. {j \in i..Len(a) : IsLeave(a, j)} = {j \in k..Len(a) : IsLeave(a, j)}
  OBVIOUS
<1> QED BY <1>1 DEF FrameAt

LEMMA FrameBelow ==
  ASSUME NEW a, Len(a) \in Nat, NEW i \in 1..Len(a), IsLeave(a, i)
  PROVE  FrameAt(a, i) = FrameAt(a, i + 1) + 1
<1> DEFINE S(n) == {j \in n..Len(a) : IsLeave(a, j)}
<1>0. i \in Nat /\ i <= Len(a) /\ Len(a) \in Nat
  OBVIOUS
<1>1. IsFiniteSet(S(i + 1))
  BY <1>0, LeavesFinite
<1>2. S(i) = S(i + 1) \cup {i} /\ i \notin S(i + 1)
  BY <1>0
<1>3. Cardinality(S(i)) = Cardinality(S(i + 1)) + 1
  BY <1>1, <1>2, FS_AddElement
<1>4. Cardinality(S(i + 1)) \in Nat
  BY <1>1, FS_CardinalityType
<1>5. FrameAt(a, i) = 1 + Cardinality(S(i)) /\ FrameAt(a, i + 1) = 1 + Cardinality(S(i + 1))
  BY DEF FrameAt
<1> HIDE DEF S
<1> QED BY <1>3, <1>4, <1>5

LEMMA FrameLast ==
  ASSUME NEW a, Len(a) \in Nat, \A i \in 1..Len(a) : ~ IsLeave(a, i)
  PROVE  FrameAt(a, 1) = 1
<1>1. {j \in 1..Len(a) : IsLeave(a, j)} = {}
  OBVIOUS
<1>2. Cardinality({j \in 1..Len(a) : IsLeave(a, j)}) = 0
  BY <1>1, FS_EmptySet
<1> QED BY <1>2 DEF FrameAt

(* The task that is next in a is replaced by t, which yields b.             *)
Spliced(a, t, b) ==
  /\ Len(a) \in Nat \ {0} /\ Len(t) \in Nat /\ Len(b) = Len(t) + Len(a) - 1
  /\ \A i \in 1..Len(t) : b[i] = t[i]
  /\ \A i \in 2..Len(a) : b[Len(t) + i - 1] = a[i]

LEMMA SplicedIs ==
  ASSUME NEW T, NEW a \in Seq(T), a # <<>>, NEW t \in Seq(T)
  PROVE  Spliced(a, t, t \o Tail(a))
<1>1. Tail(a) \in Seq(T) /\ Len(Tail(a)) = Len(a) - 1 /\ Len(a) \in Nat /\ Len(t) \in Nat
  OBVIOUS
<1>2. \A i \in 2..Len(a) : Tail(a)[i - 1] = a[i]
  OBVIOUS
<1>3. \A i \in 2..Len(a) : i - 1 \in 1..Len(Tail(a)) /\ (t \o Tail(a))[Len(t) + (i - 1)] = Tail(a)[i - 1]
  BY <1>1
<1>4. \A i \in 2..Len(a) : (t \o Tail(a))[Len(t) + i - 1] = a[i]
  BY <1>1, <1>2, <1>3
<1>5. Len(t \o Tail(a)) = Len(t) + Len(a) - 1 /\ t \o Tail(a) \in Seq(T)
  BY <1>1
<1>6. \A i \in 1..Len(t) : (t \o Tail(a))[i] = t[i]
  BY <1>1
<1>7. Len(a) # 0
  OBVIOUS
<1> QED BY <1>1, <1>4, <1>5, <1>6, <1>7 DEF Spliced

(* where a place of the new agenda comes from *)
LEMMA Origin ==
  ASSUME NEW la \in Nat, NEW lt \in Nat, NEW j \in 1..(lt + la - 1), j \notin 1..lt
  PROVE  \E i \in 2..la : j = lt + i - 1
<1>1. j - lt + 1 \in 2..la /\ j = lt + (j - lt + 1) - 1
  OBVIOUS
<1> QED BY <1>1

(* A task that is not next is in its frame whatever the task that is next   *)
(* is replaced by.                                                          *)
LEMMA FrameShift ==
  ASSUME NEW a, NEW t, NEW b, Spliced(a, t, b), NEW i \in Nat, i >= 2
  PROVE  FrameAt(b, Len(t) + i - 1) = FrameAt(a, i)
<1> DEFINE d == Len(t) - 1
           A == {j \in i..Len(a) : IsLeave(a, j)}
           B == {j \in (i + d)..Len(b) : IsLeave(b, j)}
<1>1. /\ Len(b) = Len(a) + d /\ Len(a) \in Nat /\ d \in Int
      /\ \A j \in 2..Len(a) : b[j + d] = a[j]
  BY DEF Spliced
<1> HIDE DEF d
<1>2. \A j \in i..Len(a) : IsLeave(b, j + d) <=> IsLeave(a, j)
  BY <1>1 DEF IsLeave
<1>3. B = {j + d : j \in A}
  <2>1. ASSUME NEW j \in B
        PROVE  j \in {n + d : n \in A}
    <3>1. j - d \in i..Len(a) /\ (j - d) + d = j
      BY <1>1, <2>1
    <3>2. j - d \in A
      BY <1>2, <2>1, <3>1
    <3> QED BY <3>1, <3>2
  <2>2. ASSUME NEW n \in A
        PROVE  n + d \in B
    BY <1>1, <1>2
  <2> QED BY <2>1, <2>2
<1>4. IsFiniteSet(A)
  BY <1>1, LeavesFinite
<1>5. ExistsBijection(A, B)
  <2> DEFINE f == [j \in A |-> j + d]
  <2>1. f \in [A -> B]
    BY <1>3
  <2>2. A \subseteq Int
    OBVIOUS
  <2>5. \A j \in A : f[j] = j + d /\ j \in Int
    BY <2>2
  <2> HIDE DEF A, f
  <2>3. \A j, k \in A : f[j] = f[k] => j = k
    BY <1>1, <2>5
  <2>4. \A n \in B : \E j \in A : f[j] = n
    BY <1>3, <2>5
  <2> HIDE DEF B
  <2> QED BY <2>1, <2>3, <2>4 DEF ExistsBijection, Bijection, Injection, Surjection, IsInjective
<1>6. Cardinality(A) = Cardinality(B)
  BY <1>4, <1>5, FS_Bijection
<1>7. FrameAt(b, i + d) = FrameAt(a, i)
  BY <1>6 DEF FrameAt
<1> QED BY <1>1, <1>7 DEF d

-------------------------------------------------------------------------------
(* What the tasks ahead say about each other and about the frames, for the  *)
(* tasks a of the program p and the frames F.                               *)

(* Nothing returns to the caller and no values are cleared between the i-th *)
(* task and the j-th.                                                       *)
Stops(task) == task[1] \in {"leave", "popExpr"}
Clear(a, i, j) == \A k \in (i + 1)..(j - 1) : ~ Stops(a[k])

(* the expressions that a task evaluates anew, and those whose value it may *)
(* leave in its frame, or in that of the caller                             *)
LoopParts(p, n) == UNION {Within(p, p[n].kids[i]) : i \in 2..4}

Needs(p, t) ==
  CASE t[1] \in {"visit", "wrap"} -> Within(p, t[2])
    [] t[1] = "test" -> LoopParts(p, t[2])
    [] OTHER -> {}

Touches(p, t) ==
  CASE t[1] \in {"visit", "wrap", "handle", "test"} -> Within(p, t[2])
    [] t[1] = "leave" -> {t[2]}
    [] OTHER -> {}

(* No task leaves a value that a later one evaluates anew.                  *)
Apart(p, a) ==
  \A i, j \in 1..Len(a) :
    i < j /\ Clear(a, i, j) => Touches(p, a[i]) \cap Needs(p, a[j]) = {}

(* No frame keeps a value that a task evaluates anew before it clears them. *)
Waits(a, j) == \A k \in 1..(j - 1) : a[k][1] = "popExpr" => FrameAt(a, k) # FrameAt(a, j)
Fresh(p, a, F) ==
  \A j \in 1..Len(a) : Waits(a, j) => Needs(p, a[j]) \cap F[FrameAt(a, j)].exprs = {}

(* A task is about a node of the function whose frame it works in.          *)
In(p, n, f) == IsFunction(p, f) /\ n \in Within(p, FunctionOf(p, f))
Belongs(p, a) ==
  \A i \in 1..Len(a) :
    /\ (\A k \in (i + 1)..Len(a) : ~ IsLeave(a, k)) => In(p, a[i][2], "main")
    /\ \A k \in (i + 1)..Len(a) :
         IsLeave(a, k) /\ (\A m \in (i + 1)..(k - 1) : ~ IsLeave(a, m))
           => In(p, a[i][2], p[a[k][2]].x)

(* A frame has the parameters of its function and no variables but those    *)
(* that the function declares, and the first one the global ones.           *)
VarsIn(p, ns) == {p[n].x : n \in {m \in ns : p[m].k \in {"var", "array"}}}
VarsOf(p, f) == VarsIn(p, Within(p, FunctionOf(p, f)))
GlobalsOf(p) == {p[p[1].kids[i]].x : i \in {j \in DOMAIN p[1].kids : p[p[1].kids[j]].k \in {"var", "array"}}}
Holds(p, held, f) == Range(ParamsOf(p, f)) \subseteq held /\ held \subseteq VarsOf(p, f)
MainHolds(p, held) == GlobalsOf(p) \subseteq held /\ held \subseteq GlobalsOf(p) \cup VarsOf(p, "main")
Matches(p, a, F) ==
  /\ MainHolds(p, F[1].held)
  /\ \A i \in 1..Len(a) : IsLeave(a, i) => Holds(p, F[FrameAt(a, i)].held, p[a[i][2]].x)

-------------------------------------------------------------------------------
(* The task at hand is replaced by the tasks t.                             *)

LEMMA ApartStep ==
  ASSUME NEW p, NEW a, NEW t, NEW b, Spliced(a, t, b),
         Apart(p, a), Apart(p, t),
         \A i \in 1..Len(t) : Clear(t, i, Len(t) + 1) => Touches(p, t[i]) \subseteq Touches(p, a[1])
  PROVE  Apart(p, b)
<1>0. PICK la \in Nat \ {0}, lt \in Nat : la = Len(a) /\ lt = Len(t)
  BY DEF Spliced
<1>1. /\ Len(b) = lt + la - 1
      /\ \A i \in 1..lt : b[i] = t[i]
      /\ \A i \in 2..la : b[lt + i - 1] = a[i]
  BY <1>0 DEF Spliced
<1>5. /\ \A i, j \in 1..la : i < j /\ Clear(a, i, j) => Touches(p, a[i]) \cap Needs(p, a[j]) = {}
      /\ \A i, j \in 1..lt : i < j /\ Clear(t, i, j) => Touches(p, t[i]) \cap Needs(p, t[j]) = {}
      /\ \A i \in 1..lt : Clear(t, i, lt + 1) => Touches(p, t[i]) \subseteq Touches(p, a[1])
  BY <1>0 DEF Apart
<1>6. \A j \in 1..(lt + la - 1) : j \notin 1..lt => \E i \in 2..la : j = lt + i - 1 /\ b[j] = a[i]
  <2> SUFFICES ASSUME NEW j \in 1..(lt + la - 1), j \notin 1..lt
               PROVE  \E i \in 2..la : j = lt + i - 1 /\ b[j] = a[i]
    OBVIOUS
  <2>1. PICK i \in 2..la : j = lt + i - 1
    BY Origin
  <2> QED BY <1>1, <2>1
<1> SUFFICES ASSUME NEW i \in 1..(lt + la - 1), NEW j \in 1..(lt + la - 1), i < j, Clear(b, i, j)
             PROVE  Touches(p, b[i]) \cap Needs(p, b[j]) = {}
  BY <1>0, <1>1 DEF Apart
<1>2. CASE j \in 1..lt
  <2>1. i \in 1..lt
    BY <1>0, <1>1, <1>2
  <2>2. Clear(t, i, j)
    <3>1. \A k \in (i + 1)..(j - 1) : k \in 1..lt
      BY <1>2, <2>1
    <3> QED BY <1>1, <3>1 DEF Clear
  <2>3. Touches(p, t[i]) \cap Needs(p, t[j]) = {}
    BY <1>2, <1>5, <2>1, <2>2
  <2>4. b[i] = t[i] /\ b[j] = t[j]
    BY <1>1, <1>2, <2>1
  <2> QED BY <2>3, <2>4
<1>3. CASE j \notin 1..lt /\ i \in 1..lt
  <2>1. PICK m \in 2..la : j = lt + m - 1 /\ b[j] = a[m]
    BY <1>3, <1>6
  <2>2. Clear(t, i, lt + 1)
    <3>1. ASSUME NEW k \in (i + 1)..lt
          PROVE  k \in (i + 1)..(j - 1) /\ b[k] = t[k]
      BY <1>1, <1>3, <2>1
    <3>2. lt + 1 - 1 = lt
      OBVIOUS
    <3> QED BY <3>1, <3>2 DEF Clear
  <2>3. Clear(a, 1, m)
    <3>1. ASSUME NEW k \in 2..(m - 1)
          PROVE  lt + k - 1 \in (i + 1)..(j - 1) /\ b[lt + k - 1] = a[k]
      BY <1>0, <1>1, <1>3, <2>1
    <3> QED BY <3>1 DEF Clear
  <2>4. Touches(p, a[1]) \cap Needs(p, a[m]) = {}
    <3>1. 1 \in 1..la /\ m \in 1..la /\ 1 < m
      OBVIOUS
    <3> QED BY <1>5, <2>3, <3>1
  <2>5. Touches(p, t[i]) \subseteq Touches(p, a[1])
    BY <1>3, <1>5, <2>2
  <2>6. b[i] = t[i]
    BY <1>0, <1>1, <1>3
  <2> QED BY <2>1, <2>4, <2>5, <2>6
<1>4. CASE j \notin 1..lt /\ i \notin 1..lt
  <2>1. PICK m \in 2..la : j = lt + m - 1 /\ b[j] = a[m]
    BY <1>4, <1>6
  <2>2. PICK n \in 2..la : i = lt + n - 1 /\ b[i] = a[n]
    BY <1>4, <1>6
  <2>3. n < m
    BY <1>0, <1>1, <2>1, <2>2
  <2>4. Clear(a, n, m)
    <3>1. ASSUME NEW k \in (n + 1)..(m - 1)
          PROVE  lt + k - 1 \in (i + 1)..(j - 1) /\ b[lt + k - 1] = a[k]
      BY <1>0, <1>1, <2>1, <2>2
    <3> QED BY <3>1 DEF Clear
  <2>5. Touches(p, a[n]) \cap Needs(p, a[m]) = {}
    <3>1. n \in 1..la /\ m \in 1..la
      OBVIOUS
    <3> QED BY <1>5, <2>3, <2>4, <3>1
  <2> QED BY <2>1, <2>2, <2>5
<1> QED BY <1>2, <1>3, <1>4

LEMMA BelongsStep ==
  ASSUME NEW p, NEW a, NEW t, NEW b, Spliced(a, t, b),
         Belongs(p, a),
         \A f : In(p, a[1][2], f) => Within(p, a[1][2]) \subseteq Within(p, FunctionOf(p, f)),
         \A i \in 1..Len(t) :
           /\ (\A k \in (i + 1)..Len(t) : ~ IsLeave(t, k)) => t[i][2] \in Within(p, a[1][2])
           /\ \A k \in (i + 1)..Len(t) :
                IsLeave(t, k) /\ (\A m \in (i + 1)..(k - 1) : ~ IsLeave(t, m))
                  => In(p, t[i][2], p[t[k][2]].x)
  PROVE  Belongs(p, b)
<1>0. PICK la \in Nat \ {0}, lt \in Nat : la = Len(a) /\ lt = Len(t)
  BY DEF Spliced
<1>1. /\ Len(b) = lt + la - 1
      /\ \A i \in 1..lt : b[i] = t[i]
      /\ \A i \in 2..la : b[lt + i - 1] = a[i]
  BY <1>0 DEF Spliced
<1>2. \A i \in 2..la : IsLeave(b, lt + i - 1) <=> IsLeave(a, i)
  BY <1>0, <1>1 DEF IsLeave
<1>3. \A i \in 1..lt : IsLeave(b, i) <=> IsLeave(t, i)
  BY <1>0, <1>1 DEF IsLeave
<1>6. \A j \in 1..(lt + la - 1) : j \notin 1..lt => \E i \in 2..la : j = lt + i - 1 /\ b[j] = a[i]
  <2> SUFFICES ASSUME NEW j \in 1..(lt + la - 1), j \notin 1..lt
               PROVE  \E i \in 2..la : j = lt + i - 1 /\ b[j] = a[i]
    OBVIOUS
  <2>1. PICK i \in 2..la : j = lt + i - 1
    BY Origin
  <2> QED BY <1>1, <2>1
<1>7. \A i \in 1..la :
        /\ (\A k \in (i + 1)..la : ~ IsLeave(a, k)) => In(p, a[i][2], "main")
        /\ \A k \in (i + 1)..la :
             IsLeave(a, k) /\ (\A m \in (i + 1)..(k - 1) : ~ IsLeave(a, m))
               => In(p, a[i][2], p[a[k][2]].x)
  BY <1>0 DEF Belongs
<1>8. \A i \in 1..lt :
        /\ (\A k \in (i + 1)..lt : ~ IsLeave(t, k)) => t[i][2] \in Within(p, a[1][2])
        /\ \A k \in (i + 1)..lt :
             IsLeave(t, k) /\ (\A m \in (i + 1)..(k - 1) : ~ IsLeave(t, m))
               => In(p, t[i][2], p[t[k][2]].x)
  BY <1>0
<1> SUFFICES ASSUME NEW i \in 1..(lt + la - 1)
             PROVE  /\ (\A k \in (i + 1)..(lt + la - 1) : ~ IsLeave(b, k)) => In(p, b[i][2], "main")
                    /\ \A k \in (i + 1)..(lt + la - 1) :
                         IsLeave(b, k) /\ (\A m \in (i + 1)..(k - 1) : ~ IsLeave(b, m))
                           => In(p, b[i][2], p[b[k][2]].x)
  BY <1>0, <1>1 DEF Belongs
<1>4. CASE i \in 1..lt
  <2>1. ASSUME \A k \in (i + 1)..(lt + la - 1) : ~ IsLeave(b, k)
        PROVE  In(p, b[i][2], "main")
    <3>1. \A k \in (i + 1)..lt : ~ IsLeave(t, k)
      BY <1>0, <1>1, <1>3, <1>4, <2>1
    <3>2. \A k \in 2..la : ~ IsLeave(a, k)
      <4>1. ASSUME NEW k \in 2..la
            PROVE  lt + k - 1 \in (i + 1)..(lt + la - 1)
        BY <1>0, <1>1, <1>4
      <4> QED BY <1>2, <2>1, <4>1
    <3>3. In(p, a[1][2], "main")
      <4>1. 1 \in 1..la
        OBVIOUS
      <4> QED BY <1>7, <3>2, <4>1
    <3>4. t[i][2] \in Within(p, a[1][2])
      BY <1>4, <1>8, <3>1
    <3> QED BY <1>1, <1>4, <3>3, <3>4 DEF In
  <2>2. ASSUME NEW k \in (i + 1)..(lt + la - 1), IsLeave(b, k),
               \A m \in (i + 1)..(k - 1) : ~ IsLeave(b, m)
        PROVE  In(p, b[i][2], p[b[k][2]].x)
    <3>1. CASE k \in 1..lt
      <4>1. \A m \in (i + 1)..(k - 1) : ~ IsLeave(t, m)
        BY <1>0, <1>1, <1>3, <1>4, <2>2, <3>1
      <4>2. IsLeave(t, k) /\ k \in (i + 1)..lt
        BY <1>3, <2>2, <3>1
      <4> QED BY <1>0, <1>1, <1>4, <3>1, <4>1, <4>2
    <3>2. CASE k \notin 1..lt
      <4>0. k \in 1..(lt + la - 1)
        BY <1>0, <1>1
      <4>1. PICK n \in 2..la : k = lt + n - 1 /\ b[k] = a[n]
        BY <1>0, <1>1, <3>2, <4>0, <1>6
      <4>2. \A m \in (i + 1)..lt : ~ IsLeave(t, m)
        BY <1>0, <1>1, <1>3, <1>4, <2>2, <4>1
      <4>3. \A m \in 2..(n - 1) : ~ IsLeave(a, m)
        <5>1. ASSUME NEW m \in 2..(n - 1)
              PROVE  lt + m - 1 \in (i + 1)..(k - 1)
          BY <1>0, <1>1, <1>4, <4>1
        <5> QED BY <1>2, <2>2, <5>1
      <4>4. IsLeave(a, n)
        BY <2>2, <4>1 DEF IsLeave
      <4>5. 1 \in 1..la /\ n \in (1 + 1)..la
        BY <1>0, <1>1
      <4>6. In(p, a[1][2], p[a[n][2]].x)
        BY <1>7, <4>3, <4>4, <4>5
      <4>7. t[i][2] \in Within(p, a[1][2])
        BY <1>4, <1>8, <4>2
      <4> QED BY <1>0, <1>1, <1>4, <4>1, <4>6, <4>7 DEF In
    <3> QED BY <3>1, <3>2
  <2> QED BY <2>1, <2>2
<1>5. CASE i \notin 1..lt
  <2>0. PICK j \in 2..la : i = lt + j - 1 /\ b[i] = a[j]
    BY <1>0, <1>1, <1>5, <1>6
  <2>1. ASSUME \A k \in (i + 1)..(lt + la - 1) : ~ IsLeave(b, k)
        PROVE  In(p, b[i][2], "main")
    <3>1. \A k \in (j + 1)..la : ~ IsLeave(a, k)
      <4>1. ASSUME NEW k \in (j + 1)..la
            PROVE  lt + k - 1 \in (i + 1)..(lt + la - 1) /\ k \in 2..la
        BY <1>0, <1>1, <2>0
      <4> QED BY <1>2, <2>1, <4>1
    <3> QED BY <1>0, <1>1, <2>0, <3>1 DEF Belongs
  <2>2. ASSUME NEW k \in (i + 1)..(lt + la - 1), IsLeave(b, k),
               \A m \in (i + 1)..(k - 1) : ~ IsLeave(b, m)
        PROVE  In(p, b[i][2], p[b[k][2]].x)
    <3>1. k \in 1..(lt + la - 1) /\ k \notin 1..lt
      BY <1>0, <1>1, <2>0
    <3>2. PICK n \in 2..la : k = lt + n - 1 /\ b[k] = a[n]
      BY <1>0, <1>1, <3>1, <1>6
    <3>3. \A m \in (j + 1)..(n - 1) : ~ IsLeave(a, m)
      <4>1. ASSUME NEW m \in (j + 1)..(n - 1)
            PROVE  lt + m - 1 \in (i + 1)..(k - 1) /\ m \in 2..la
        BY <1>0, <1>1, <2>0, <3>2
      <4> QED BY <1>2, <2>2, <4>1
    <3>4. IsLeave(a, n) /\ n \in (j + 1)..la
      BY <1>0, <1>1, <2>0, <2>2, <3>2 DEF IsLeave
    <3>5. j \in 1..la
      OBVIOUS
    <3>6. In(p, a[j][2], p[a[n][2]].x)
      BY <1>7, <3>3, <3>4, <3>5
    <3> QED BY <2>0, <3>2, <3>6
  <2> QED BY <2>1, <2>2
<1> QED BY <1>4, <1>5

(* the frames in which the tasks behind the one that is next work *)
LEMMA FrameOfRest ==
  ASSUME NEW a, Len(a) \in Nat \ {0}, NEW m \in 2..Len(a), NEW d, d = FrameAt(a, 2)
  PROVE  /\ d \in Nat \ {0} /\ FrameAt(a, m) \in Nat \ {0} /\ FrameAt(a, m) <= d
         /\ FrameAt(a, m) = d => \A k \in 2..(m - 1) : ~ IsLeave(a, k) /\ FrameAt(a, k) = d
<1>1. d \in Nat \ {0} /\ FrameAt(a, m) \in Nat \ {0} /\ FrameAt(a, m) <= d
  BY FrameNat, FrameLater
<1>2. ASSUME FrameAt(a, m) = d, NEW k \in 2..(m - 1)
      PROVE  ~ IsLeave(a, k) /\ FrameAt(a, k) = d
  <2>1. FrameAt(a, k) \in Nat /\ FrameAt(a, k + 1) \in Nat
    <3>1. k \in Nat /\ k + 1 \in Nat
      OBVIOUS
    <3> QED BY <3>1, FrameNat
  <2>2. FrameAt(a, k) <= d /\ FrameAt(a, m) <= FrameAt(a, k + 1)
    BY FrameLater
  <2>3. FrameAt(a, k + 1) <= FrameAt(a, k)
    BY FrameLater
  <2>4. IsLeave(a, k) => FrameAt(a, k) = FrameAt(a, k + 1) + 1
    BY FrameBelow
  <2> QED BY <1>1, <1>2, <2>1, <2>2, <2>3, <2>4
<1> QED BY <1>1, <1>2

LEMMA FreshRest ==
  ASSUME NEW p, NEW a, NEW t, NEW b, Spliced(a, t, b), NEW F, NEW G, NEW d, d = FrameAt(a, 2),
         Fresh(p, a, F), Apart(p, a),
         a[1][1] = "popExpr" => G[d].exprs = {},
         \A f \in 1..(d - 1) : G[f].exprs = F[f].exprs,
         G[d].exprs \subseteq F[d].exprs \cup Touches(p, a[1]),
         NEW j \in 1..Len(b), j \notin 1..Len(t), Waits(b, j)
  PROVE  Needs(p, b[j]) \cap G[FrameAt(b, j)].exprs = {}
<1>0. PICK la \in Nat \ {0}, lt \in Nat : la = Len(a) /\ lt = Len(t)
  BY DEF Spliced
<1>1. /\ Len(b) = lt + la - 1
      /\ \A i \in 2..la : b[lt + i - 1] = a[i]
  BY <1>0 DEF Spliced
<1>2. PICK m \in 2..la : j = lt + m - 1
  <2>1. j \in 1..(lt + la - 1) /\ j \notin 1..lt
    BY <1>0, <1>1
  <2> QED BY <2>1, Origin
<1>3. \A k \in 2..la : FrameAt(b, lt + k - 1) = FrameAt(a, k)
  BY <1>0, FrameShift
<1>4. PICK f : f = FrameAt(a, m)
  OBVIOUS
<1>5. f = FrameAt(b, j) /\ b[j] = a[m]
  BY <1>1, <1>2, <1>3, <1>4
<1>6. /\ d \in Nat \ {0} /\ f \in Nat \ {0} /\ f <= d
      /\ f = d => \A k \in 2..(m - 1) : ~ IsLeave(a, k) /\ FrameAt(a, k) = d
  BY <1>0, <1>4, FrameOfRest
<1>7. \A k \in 2..(m - 1) : a[k][1] = "popExpr" => FrameAt(a, k) # f
  <2> SUFFICES ASSUME NEW k \in 2..(m - 1), a[k][1] = "popExpr"
               PROVE  FrameAt(a, k) # f
    OBVIOUS
  <2>1. lt + k - 1 \in 1..(j - 1) /\ k \in 2..la
    BY <1>2
  <2>2. b[lt + k - 1][1] = "popExpr"
    BY <1>1, <2>1
  <2>3. FrameAt(b, lt + k - 1) # FrameAt(b, j)
    <3>1. \A i \in 1..(j - 1) : b[i][1] = "popExpr" => FrameAt(b, i) # FrameAt(b, j)
      BY DEF Waits
    <3> QED BY <2>1, <2>2, <3>1
  <2> QED BY <1>3, <1>5, <2>1, <2>3
<1>8. CASE a[1][1] = "popExpr" /\ f = d
  BY <1>5, <1>8
<1>9. CASE a[1][1] # "popExpr" \/ f # d
  <2>1. Waits(a, m)
    <3> SUFFICES ASSUME NEW k \in 1..(m - 1), a[k][1] = "popExpr"
                 PROVE  FrameAt(a, k) # f
      BY <1>4 DEF Waits
    <3>1. CASE k = 1
      <4>1. ~ IsLeave(a, 1)
        BY <3>1 DEF IsLeave
      <4>2. FrameAt(a, 1) = d
        BY <1>0, <4>1, FrameSame
      <4> QED BY <1>9, <3>1, <4>2
    <3>2. CASE k # 1
      BY <1>7, <3>2
    <3> QED BY <3>1, <3>2
  <2>2. Needs(p, a[m]) \cap F[f].exprs = {}
    BY <1>0, <1>4, <2>1 DEF Fresh
  <2>3. CASE f # d
    <3>1. G[f].exprs = F[f].exprs
      BY <1>6, <2>3
    <3> QED BY <1>5, <2>2, <3>1
  <2>4. CASE f = d
    <3>1. Clear(a, 1, m)
      <4> SUFFICES ASSUME NEW k \in 2..(m - 1)
                   PROVE  ~ Stops(a[k])
        BY DEF Clear
      <4>1. ~ IsLeave(a, k) /\ FrameAt(a, k) = d
        BY <1>6, <2>4
      <4>2. a[k][1] # "popExpr"
        BY <1>7, <2>4, <4>1
      <4> QED BY <4>1, <4>2 DEF Stops, IsLeave
    <3>2. 1 \in 1..Len(a) /\ m \in 1..Len(a) /\ 1 < m
      BY <1>0
    <3>3. Touches(p, a[1]) \cap Needs(p, a[m]) = {}
      BY <3>1, <3>2 DEF Apart
    <3> QED BY <1>5, <2>2, <2>4, <3>3
  <2> QED BY <2>3, <2>4
<1> QED BY <1>8, <1>9

LEMMA FreshStep ==
  ASSUME NEW p, NEW a, NEW t, NEW b, Spliced(a, t, b), NEW F, NEW G, NEW d, d = FrameAt(a, 2),
         Fresh(p, a, F), Apart(p, a),
         a[1][1] = "popExpr" => G[d].exprs = {},
         \A f \in 1..(d - 1) : G[f].exprs = F[f].exprs,
         G[d].exprs \subseteq F[d].exprs \cup Touches(p, a[1]),
         \A j \in 1..Len(t) : Waits(b, j) => Needs(p, t[j]) \cap G[FrameAt(b, j)].exprs = {}
  PROVE  Fresh(p, b, G)
<1> SUFFICES ASSUME NEW j \in 1..Len(b), Waits(b, j)
             PROVE  Needs(p, b[j]) \cap G[FrameAt(b, j)].exprs = {}
  BY DEF Fresh
<1>1. CASE j \in 1..Len(t)
  <2>1. b[j] = t[j]
    BY <1>1 DEF Spliced
  <2> QED BY <1>1, <2>1
<1>2. CASE j \notin 1..Len(t)
  BY <1>2, FreshRest
<1> QED BY <1>1, <1>2

LEMMA MatchesStep ==
  ASSUME NEW p, NEW a, NEW t, NEW b, Spliced(a, t, b), NEW F, NEW G, NEW d, d = FrameAt(a, 2),
         Belongs(p, a), Matches(p, a, F),
         \A f : In(p, a[1][2], f) => Within(p, a[1][2]) \subseteq Within(p, FunctionOf(p, f)),
         \A f \in 1..(d - 1) : G[f].held = F[f].held,
         F[d].held \subseteq G[d].held,
         G[d].held \subseteq F[d].held \cup VarsIn(p, Within(p, a[1][2])),
         \A j \in 1..Len(t) : IsLeave(t, j) => Holds(p, G[FrameAt(b, j)].held, p[t[j][2]].x)
  PROVE  Matches(p, b, G)
<1>0. PICK la \in Nat \ {0}, lt \in Nat : la = Len(a) /\ lt = Len(t)
  BY DEF Spliced
<1>1. /\ Len(b) = lt + la - 1
      /\ \A i \in 1..lt : b[i] = t[i]
      /\ \A i \in 2..la : b[lt + i - 1] = a[i]
  BY <1>0 DEF Spliced
<1>2. \A f : In(p, a[1][2], f) => VarsIn(p, Within(p, a[1][2])) \subseteq VarsOf(p, f)
  BY DEF VarsOf, VarsIn
<1>3. d \in Nat \ {0}
  BY <1>0, FrameNat
<1>4. MainHolds(p, G[1].held)
  <2>1. MainHolds(p, F[1].held)
    BY DEF Matches
  <2>2. CASE d # 1
    <3>1. G[1].held = F[1].held
      BY <1>3, <2>2
    <3> QED BY <2>1, <3>1
  <2>3. CASE d = 1
    <3>1. ASSUME NEW k \in 2..Len(a)
          PROVE  ~ IsLeave(a, k)
      <4>1. FrameAt(a, k) <= 1 /\ FrameAt(a, k) \in Nat
        BY <1>0, <2>3, FrameLater, FrameNat
      <4>2. FrameAt(a, k + 1) \in Nat \ {0}
        <5>1. k + 1 \in Nat
          OBVIOUS
        <5> QED BY <1>0, <5>1, FrameNat
      <4>3. IsLeave(a, k) => FrameAt(a, k) = FrameAt(a, k + 1) + 1
        BY <1>0, FrameBelow
      <4> QED BY <4>1, <4>2, <4>3
    <3>2. In(p, a[1][2], "main")
      <4>1. 1 \in 1..Len(a)
        BY <1>0
      <4> QED BY <3>1, <4>1 DEF Belongs
    <3>3. VarsIn(p, Within(p, a[1][2])) \subseteq VarsOf(p, "main")
      BY <1>2, <3>2
    <3> QED BY <2>1, <2>3, <3>3 DEF MainHolds
  <2> QED BY <2>2, <2>3
<1>5. ASSUME NEW j \in 1..Len(b), IsLeave(b, j)
      PROVE  Holds(p, G[FrameAt(b, j)].held, p[b[j][2]].x)
  <2>1. CASE j \in 1..lt
    <3>1. b[j] = t[j]
      BY <1>1, <2>1
    <3>2. IsLeave(t, j)
      BY <1>5, <3>1 DEF IsLeave
    <3> QED BY <1>0, <2>1, <3>1, <3>2
  <2>2. CASE j \notin 1..lt
    <3>0. j \in 1..(lt + la - 1)
      BY <1>1
    <3>1. PICK m \in 2..la : j = lt + m - 1
      BY <2>2, <3>0, Origin
    <3>2. b[j] = a[m]
      BY <1>1, <3>1
    <3>3. PICK f : f = FrameAt(a, m)
      OBVIOUS
    <3>4. FrameAt(b, j) = f
      BY <1>0, <3>1, <3>3, FrameShift
    <3>5. IsLeave(a, m)
      BY <1>5, <3>2 DEF IsLeave
    <3>6. m \in 1..Len(a)
      BY <1>0
    <3>7. Holds(p, F[f].held, p[a[m][2]].x)
      BY <3>3, <3>5, <3>6 DEF Matches
    <3>8. /\ f \in Nat \ {0} /\ f <= d
          /\ f = d => \A k \in 2..(m - 1) : ~ IsLeave(a, k) /\ FrameAt(a, k) = d
      BY <1>0, <3>3, FrameOfRest
    <3>9. CASE f # d
      <4>1. G[f].held = F[f].held
        BY <1>3, <3>8, <3>9
      <4> QED BY <3>2, <3>4, <3>7, <4>1
    <3>10. CASE f = d
      <4>1. 1 \in 1..Len(a) /\ m \in (1 + 1)..Len(a)
        BY <1>0
      <4>2. \A k \in (1 + 1)..(m - 1) : ~ IsLeave(a, k)
        BY <3>8, <3>10
      <4>3. In(p, a[1][2], p[a[m][2]].x)
        BY <3>5, <4>1, <4>2 DEF Belongs
      <4>4. VarsIn(p, Within(p, a[1][2])) \subseteq VarsOf(p, p[a[m][2]].x)
        BY <1>2, <4>3
      <4> QED BY <3>2, <3>4, <3>7, <3>10, <4>4 DEF Holds
    <3> QED BY <3>9, <3>10
  <2> QED BY <2>1, <2>2
<1> QED BY <1>4, <1>5 DEF Matches

-------------------------------------------------------------------------------
(* Parts of a program                                                       *)

LEMMA PartFacts ==
  ASSUME NEW p, IsTree(p), NEW n \in DOMAIN p
  PROVE  /\ n \in Within(p, n) /\ Within(p, n) \subseteq DOMAIN p
         /\ \A m \in Within(p, n) : Within(p, m) \subseteq Within(p, n)
         /\ p[n].kids \in Seq(DOMAIN p) /\ Len(p[n].kids) \in Nat
         /\ \A i \in 1..Len(p[n].kids) :
              /\ p[n].kids[i] \in DOMAIN p /\ p[n].kids[i] \in Within(p, n)
              /\ Within(p, p[n].kids[i]) \subseteq Within(p, n)
              /\ n \notin Within(p, p[n].kids[i])
         /\ \A i, j \in 1..Len(p[n].kids) :
              i # j => Within(p, p[n].kids[i]) \cap Within(p, p[n].kids[j]) = {}
<1>1. /\ \A m \in DOMAIN p : m \in Within(p, m)
      /\ p[n].kids \in Seq(DOMAIN p)
      /\ Within(p, n) \subseteq DOMAIN p
      /\ \A m \in Within(p, n) : Within(p, m) \subseteq Within(p, n)
  BY DEF IsTree
<1>2. Within(p, n) = {n} \cup UNION {Within(p, p[n].kids[i]) : i \in DOMAIN p[n].kids}
  BY DEF IsTree
<1>3. \A i, j \in DOMAIN p[n].kids :
        /\ n \notin Within(p, p[n].kids[i])
        /\ i # j => Within(p, p[n].kids[i]) \cap Within(p, p[n].kids[j]) = {}
  BY DEF IsTree
<1>4. PICK ks \in Seq(DOMAIN p) : ks = p[n].kids
  BY <1>1
<1>5. DOMAIN ks = 1..Len(ks) /\ Len(ks) \in Nat /\ \A i \in 1..Len(ks) : ks[i] \in DOMAIN p
  OBVIOUS
<1>6. \A i \in 1..Len(ks) : Within(p, ks[i]) \subseteq Within(p, n)
  BY <1>2, <1>4, <1>5
<1>7. \A i \in 1..Len(ks) : ks[i] \in Within(p, n)
  BY <1>1, <1>5, <1>6
<1> QED BY <1>1, <1>3, <1>4, <1>5, <1>6, <1>7

LEMMA NeedsIs ==
  ASSUME NEW p, NEW t
  PROVE  /\ t[1] \in {"visit", "wrap"} => Needs(p, t) = Within(p, t[2]) /\ Touches(p, t) = Within(p, t[2])
         /\ t[1] = "handle" => Needs(p, t) = {} /\ Touches(p, t) = Within(p, t[2])
         /\ t[1] = "leave" => Needs(p, t) = {} /\ Touches(p, t) = {t[2]}
         /\ t[1] = "popExpr" => Needs(p, t) = {} /\ Touches(p, t) = {}
         /\ t[1] = "test" => /\ Needs(p, t) = LoopParts(p, t[2])
                             /\ Touches(p, t) = Within(p, t[2])
BY DEF Needs, Touches

-------------------------------------------------------------------------------
(* What the visitor replaces a task by: tasks about parts of its node, none *)
(* of which leaves a value that another one, or what is evaluated meanwhile *)
(* (what), evaluates anew.                                                  *)

TaskKinds == {"visit", "wrap", "handle", "leave", "popExpr", "test"}
Tasks(p) == TaskKinds \X DOMAIN p

Expands(p, h, t, what) ==
  /\ t \in Seq(Tasks(p))
  /\ what \subseteq Touches(p, h)
  /\ Apart(p, t)
  /\ \A i \in 1..Len(t) :
       /\ t[i][1] # "leave"
       /\ t[i][1] = "test" => p[t[i][2]].k = "for"
       /\ t[i][2] \in Within(p, h[2])
       /\ Touches(p, t[i]) \subseteq Touches(p, h)
       /\ (\A k \in 1..(i - 1) : t[k][1] # "popExpr")
            => Needs(p, t[i]) \subseteq Needs(p, h) /\ Needs(p, t[i]) \cap what = {}

LEMMA NothingExpands ==
  ASSUME NEW p, NEW h, NEW what, what \subseteq Touches(p, h)
  PROVE  Expands(p, h, <<>>, what)
<1>1. <<>> \in Seq(Tasks(p)) /\ Len(<<>>) = 0
  OBVIOUS
<1> QED BY <1>1 DEF Expands, Apart

LEMMA VisitsExpand ==
  ASSUME NEW p, IsTree(p), NEW h \in Tasks(p), h[1] \in {"visit", "wrap"},
         NEW ns \in Seq(DOMAIN p), Len(ns) <= Len(p[h[2]].kids),
         \A i \in 1..Len(ns) : ns[i] = p[h[2]].kids[i]
  PROVE  Expands(p, h, Visits(ns), {})
<1>1. PICK n \in DOMAIN p : n = h[2]
  BY DEF Tasks
<1>2. PICK l \in Nat : l = Len(ns)
  OBVIOUS
<1>3. PICK t : t = Visits(ns)
  OBVIOUS
<1>4. /\ t \in Seq(Tasks(p)) /\ Len(t) = l
      /\ \A i \in 1..l : t[i] = <<"visit", ns[i]>>
  <2>1. t = [i \in 1..l |-> <<"visit", ns[i]>>]
    BY <1>2, <1>3 DEF Visits
  <2>2. \A i \in 1..l : <<"visit", ns[i]>> \in Tasks(p)
    BY <1>2 DEF Tasks, TaskKinds
  <2>3. t \in Seq(Tasks(p)) /\ Len(t) = l
    BY <2>1, <2>2
  <2> QED BY <2>1, <2>3
<1>5. \A i \in 1..l :
        /\ ns[i] \in Within(p, n) /\ Within(p, ns[i]) \subseteq Within(p, n)
        /\ \A j \in 1..l : i # j => Within(p, ns[i]) \cap Within(p, ns[j]) = {}
  <2>1. PICK ks : ks = p[n].kids
    OBVIOUS
  <2>4. PICK lk \in Nat : lk = Len(ks)
    BY <2>1, PartFacts
  <2>2. \A i \in 1..lk :
          /\ ks[i] \in Within(p, n) /\ Within(p, ks[i]) \subseteq Within(p, n)
          /\ \A j \in 1..lk : i # j => Within(p, ks[i]) \cap Within(p, ks[j]) = {}
    BY <2>1, <2>4, PartFacts
  <2>3. l <= lk /\ \A i \in 1..l : ns[i] = ks[i]
    BY <1>1, <1>2, <2>1, <2>4
  <2>5. \A i \in 1..l : i \in 1..lk
    BY <2>3
  <2> SUFFICES ASSUME NEW i \in 1..l
               PROVE  /\ ns[i] \in Within(p, n) /\ Within(p, ns[i]) \subseteq Within(p, n)
                      /\ \A j \in 1..l : i # j => Within(p, ns[i]) \cap Within(p, ns[j]) = {}
    OBVIOUS
  <2>6. ns[i] = ks[i] /\ i \in 1..lk
    BY <2>3, <2>5
  <2>7. ns[i] \in Within(p, n) /\ Within(p, ns[i]) \subseteq Within(p, n)
    BY <2>2, <2>6
  <2>8. ASSUME NEW j \in 1..l, i # j
        PROVE  Within(p, ns[i]) \cap Within(p, ns[j]) = {}
    <3>1. ns[j] = ks[j] /\ j \in 1..lk
      BY <2>3, <2>5
    <3>2. Within(p, ks[i]) \cap Within(p, ks[j]) = {}
      BY <2>2, <2>6, <2>8, <3>1
    <3> QED BY <2>6, <3>1, <3>2
  <2> QED BY <2>7, <2>8
<1>6. Needs(p, h) = Within(p, n) /\ Touches(p, h) = Within(p, n)
  BY <1>1, NeedsIs
<1>7. \A i \in 1..l : /\ t[i][1] = "visit" /\ t[i][2] = ns[i]
                      /\ Needs(p, t[i]) = Within(p, ns[i]) /\ Touches(p, t[i]) = Within(p, ns[i])
  BY <1>4, NeedsIs
<1>8. Apart(p, t)
  <2>1. \A i, j \in 1..l : i # j => Touches(p, t[i]) \cap Needs(p, t[j]) = {}
    BY <1>5, <1>7
  <2>2. \A i, j \in 1..l : i < j => i # j
    OBVIOUS
  <2> QED BY <1>4, <2>1, <2>2 DEF Apart
<1>9. \A i \in 1..l :
        /\ t[i][1] # "leave" /\ t[i][1] # "test" /\ t[i][2] \in Within(p, h[2])
        /\ Touches(p, t[i]) \subseteq Touches(p, h) /\ Needs(p, t[i]) \subseteq Needs(p, h)
  BY <1>1, <1>5, <1>6, <1>7
<1> QED BY <1>3, <1>4, <1>8, <1>9 DEF Expands

LEMMA HandledExpands ==
  ASSUME NEW p, IsTree(p), NEW n \in DOMAIN p
  PROVE  Expands(p, <<"visit", n>>, << <<"wrap", n>>, <<"handle", n>> >>, {})
<1>1. PICK t : t = << <<"wrap", n>>, <<"handle", n>> >>
  OBVIOUS
<1>2. t \in Seq(Tasks(p)) /\ Len(t) = 2 /\ t[1] = <<"wrap", n>> /\ t[2] = <<"handle", n>>
  BY <1>1 DEF Tasks, TaskKinds
<1>3. /\ Needs(p, t[1]) = Within(p, n) /\ Touches(p, t[1]) = Within(p, n)
      /\ Needs(p, t[2]) = {} /\ Touches(p, t[2]) = Within(p, n)
      /\ t[1][1] = "wrap" /\ t[1][2] = n /\ t[2][1] = "handle" /\ t[2][2] = n
  <2>1. /\ t[1][1] = "wrap" /\ t[1][2] = n /\ t[2][1] = "handle" /\ t[2][2] = n
    BY <1>2
  <2> QED BY <2>1, NeedsIs
<1>4. \A i \in 1..2 : i = 1 \/ i = 2
  OBVIOUS
<1>5. Apart(p, t)
  <2>1. Len(t) = 2 /\ Needs(p, t[2]) = {}
    BY <1>2, <1>3
  <2>2. \A i, j \in 1..2 : i < j => j = 2
    OBVIOUS
  <2> QED BY <2>1, <2>2 DEF Apart
<1>6. PICK h : h = <<"visit", n>>
  OBVIOUS
<1>7. h[2] = n /\ Needs(p, h) = Within(p, n) /\ Touches(p, h) = Within(p, n)
  BY <1>6, NeedsIs
<1>8. n \in Within(p, n)
  BY PartFacts
<1>9. Expands(p, h, t, {})
  BY <1>2, <1>3, <1>4, <1>5, <1>7, <1>8 DEF Expands
<1> QED BY <1>1, <1>6, <1>9

(* a branch of an if, after its condition has been evaluated *)
LEMMA BranchExpands ==
  ASSUME NEW p, IsTree(p), NEW n \in DOMAIN p, NEW i \in 2..Len(p[n].kids)
  PROVE  Expands(p, <<"visit", n>>, << <<"visit", p[n].kids[i]>>, <<"popExpr", n>> >>,
                 Within(p, p[n].kids[1]))
<1>1. PICK c, d : c = p[n].kids[1] /\ d = p[n].kids[i]
  OBVIOUS
<1>2. /\ c \in DOMAIN p /\ d \in DOMAIN p /\ d \in Within(p, n) /\ n \in Within(p, n)
      /\ Within(p, c) \subseteq Within(p, n) /\ Within(p, d) \subseteq Within(p, n)
      /\ Within(p, c) \cap Within(p, d) = {}
  <2>1. 1 \in 1..Len(p[n].kids) /\ i \in 1..Len(p[n].kids) /\ 1 # i
    BY PartFacts
  <2> QED BY <1>1, <2>1, PartFacts
<1>3. PICK t : t = << <<"visit", d>>, <<"popExpr", n>> >>
  OBVIOUS
<1>4. t \in Seq(Tasks(p)) /\ Len(t) = 2 /\ t[1] = <<"visit", d>> /\ t[2] = <<"popExpr", n>>
  BY <1>2, <1>3 DEF Tasks, TaskKinds
<1>5. /\ Needs(p, t[1]) = Within(p, d) /\ Touches(p, t[1]) = Within(p, d)
      /\ Needs(p, t[2]) = {} /\ Touches(p, t[2]) = {}
      /\ t[1][1] = "visit" /\ t[1][2] = d /\ t[2][1] = "popExpr" /\ t[2][2] = n
  <2>1. /\ t[1][1] = "visit" /\ t[1][2] = d /\ t[2][1] = "popExpr" /\ t[2][2] = n
    BY <1>4
  <2> QED BY <2>1, NeedsIs
<1>6. \A k \in 1..2 : k = 1 \/ k = 2
  OBVIOUS
<1>7. Apart(p, t)
  <2>1. Len(t) = 2 /\ Needs(p, t[2]) = {}
    BY <1>4, <1>5
  <2>2. \A k, j \in 1..2 : k < j => j = 2
    OBVIOUS
  <2> QED BY <2>1, <2>2 DEF Apart
<1>8. PICK h : h = <<"visit", n>>
  OBVIOUS
<1>9. h[2] = n /\ Needs(p, h) = Within(p, n) /\ Touches(p, h) = Within(p, n)
  BY <1>8, NeedsIs
<1>10. Expands(p, h, t, Within(p, c))
  BY <1>2, <1>4, <1>5, <1>6, <1>7, <1>9 DEF Expands
<1> QED BY <1>1, <1>3, <1>8, <1>10

LEMMA NoBranchExpands ==
  ASSUME NEW p, IsTree(p), NEW n \in DOMAIN p, Len(p[n].kids) >= 1
  PROVE  Expands(p, <<"visit", n>>, << <<"popExpr", n>> >>, Within(p, p[n].kids[1]))
<1>1. PICK c : c = p[n].kids[1]
  OBVIOUS
<1>2. n \in Within(p, n) /\ Within(p, c) \subseteq Within(p, n)
  BY <1>1, PartFacts
<1>3. PICK t : t = << <<"popExpr", n>> >>
  OBVIOUS
<1>4. t \in Seq(Tasks(p)) /\ Len(t) = 1 /\ t[1] = <<"popExpr", n>>
  BY <1>2, <1>3 DEF Tasks, TaskKinds
<1>5. /\ Needs(p, t[1]) = {} /\ Touches(p, t[1]) = {}
      /\ t[1][1] = "popExpr" /\ t[1][2] = n
  <2>1. /\ t[1][1] = "popExpr" /\ t[1][2] = n
    BY <1>4
  <2> QED BY <2>1, NeedsIs
<1>6. \A k \in 1..1 : k = 1
  OBVIOUS
<1>7. Apart(p, t)
  <2>1. Len(t) = 1
    BY <1>4
  <2>2. \A i, j \in 1..1 : ~ (i < j)
    OBVIOUS
  <2> QED BY <2>1, <2>2 DEF Apart
<1>8. PICK h : h = <<"visit", n>>
  OBVIOUS
<1>9. h[2] = n /\ Needs(p, h) = Within(p, n) /\ Touches(p, h) = Within(p, n)
  BY <1>8, NeedsIs
<1>10. Expands(p, h, t, Within(p, c))
  BY <1>2, <1>4, <1>5, <1>6, <1>7, <1>9 DEF Expands
<1> QED BY <1>1, <1>3, <1>8, <1>10

(* the body of a while and the while again: the values are cleared between  *)
LEMMA WhileExpands ==
  ASSUME NEW p, IsTree(p), NEW n \in DOMAIN p, Len(p[n].kids) = 2
  PROVE  Expands(p, <<"visit", n>>,
                 << <<"wrap", p[n].kids[2]>>, <<"popExpr", n>>, <<"visit", n>> >>,
                 Within(p, p[n].kids[1]))
<1>1. PICK c, d : c = p[n].kids[1] /\ d = p[n].kids[2]
  OBVIOUS
<1>2. /\ c \in DOMAIN p /\ d \in DOMAIN p /\ d \in Within(p, n) /\ n \in Within(p, n)
      /\ Within(p, c) \subseteq Within(p, n) /\ Within(p, d) \subseteq Within(p, n)
      /\ Within(p, c) \cap Within(p, d) = {}
  <2>1. 1 \in 1..Len(p[n].kids) /\ 2 \in 1..Len(p[n].kids) /\ 1 # 2
    OBVIOUS
  <2> QED BY <1>1, <2>1, PartFacts
<1>3. PICK t : t = << <<"wrap", d>>, <<"popExpr", n>>, <<"visit", n>> >>
  OBVIOUS
<1>4. /\ t \in Seq(Tasks(p)) /\ Len(t) = 3
      /\ t[1] = <<"wrap", d>> /\ t[2] = <<"popExpr", n>> /\ t[3] = <<"visit", n>>
  BY <1>2, <1>3 DEF Tasks, TaskKinds
<1>5. /\ Needs(p, t[1]) = Within(p, d) /\ Touches(p, t[1]) = Within(p, d)
      /\ Needs(p, t[2]) = {} /\ Touches(p, t[2]) = {}
      /\ Needs(p, t[3]) = Within(p, n) /\ Touches(p, t[3]) = Within(p, n)
      /\ t[1][1] = "wrap" /\ t[1][2] = d /\ t[2][1] = "popExpr" /\ t[2][2] = n
      /\ t[3][1] = "visit" /\ t[3][2] = n
  <2>1. /\ t[1][1] = "wrap" /\ t[1][2] = d /\ t[2][1] = "popExpr" /\ t[2][2] = n
        /\ t[3][1] = "visit" /\ t[3][2] = n
    BY <1>4
  <2> QED BY <2>1, NeedsIs
<1>6. \A k \in 1..3 : k = 1 \/ k = 2 \/ k = 3
  OBVIOUS
<1>7. Apart(p, t)
  <2>1. ~ Clear(t, 1, 3)
    <3>1. 2 \in (1 + 1)..(3 - 1) /\ Stops(t[2])
      BY <1>5 DEF Stops
    <3> QED BY <3>1 DEF Clear
  <2>2. Len(t) = 3 /\ Needs(p, t[2]) = {} /\ Touches(p, t[2]) = {}
    BY <1>4, <1>5
  <2>3. \A i, j \in 1..3 : i < j => j = 2 \/ (i = 1 /\ j = 3) \/ (i = 2 /\ j = 3)
    OBVIOUS
  <2> QED BY <2>1, <2>2, <2>3 DEF Apart
<1>8. PICK h : h = <<"visit", n>>
  OBVIOUS
<1>9. h[2] = n /\ Needs(p, h) = Within(p, n) /\ Touches(p, h) = Within(p, n)
  BY <1>8, NeedsIs
<1>10. Expands(p, h, t, Within(p, c))
  BY <1>2, <1>4, <1>5, <1>6, <1>7, <1>9 DEF Expands
<1> QED BY <1>1, <1>3, <1>8, <1>10

LEMMA ForExpands ==
  ASSUME NEW p, IsTree(p), NEW n \in DOMAIN p, Len(p[n].kids) = 4, p[n].k = "for"
  PROVE  Expands(p, <<"visit", n>>, << <<"visit", p[n].kids[1]>>, <<"test", n>> >>, {})
<1>1. PICK c : c = p[n].kids[1]
  OBVIOUS
<1>2. /\ c \in DOMAIN p /\ c \in Within(p, n) /\ n \in Within(p, n)
      /\ Within(p, c) \subseteq Within(p, n)
      /\ \A i \in 2..4 : /\ Within(p, c) \cap Within(p, p[n].kids[i]) = {}
                         /\ Within(p, p[n].kids[i]) \subseteq Within(p, n)
  <2>1. 1 \in 1..Len(p[n].kids) /\ \A i \in 2..4 : i \in 1..Len(p[n].kids) /\ 1 # i
    OBVIOUS
  <2> QED BY <1>1, <2>1, PartFacts
<1>3. PICK t : t = << <<"visit", c>>, <<"test", n>> >>
  OBVIOUS
<1>4. t \in Seq(Tasks(p)) /\ Len(t) = 2 /\ t[1] = <<"visit", c>> /\ t[2] = <<"test", n>>
  BY <1>2, <1>3 DEF Tasks, TaskKinds
<1>5. /\ Needs(p, t[1]) = Within(p, c) /\ Touches(p, t[1]) = Within(p, c)
      /\ Needs(p, t[2]) = LoopParts(p, n)
      /\ Touches(p, t[2]) = Within(p, n)
      /\ t[1][1] = "visit" /\ t[1][2] = c /\ t[2][1] = "test" /\ t[2][2] = n
  <2>1. /\ t[1][1] = "visit" /\ t[1][2] = c /\ t[2][1] = "test" /\ t[2][2] = n
    BY <1>4
  <2> QED BY <2>1, NeedsIs
<1>6. \A k \in 1..2 : k = 1 \/ k = 2
  OBVIOUS
<1>7. Apart(p, t)
  <2>1. Touches(p, t[1]) \cap Needs(p, t[2]) = {}
    BY <1>2, <1>5 DEF LoopParts
  <2>2. \A i, j \in 1..2 : i < j => i = 1 /\ j = 2
    OBVIOUS
  <2> QED BY <1>4, <2>1, <2>2 DEF Apart
<1>8. PICK h : h = <<"visit", n>>
  OBVIOUS
<1>9. h[2] = n /\ Needs(p, h) = Within(p, n) /\ Touches(p, h) = Within(p, n)
  BY <1>8, NeedsIs
<1>11. Needs(p, t[2]) \subseteq Within(p, n)
  BY <1>2, <1>5 DEF LoopParts
<1>10. Expands(p, h, t, {})
  BY <1>2, <1>4, <1>5, <1>6, <1>7, <1>9, <1>11 DEF Expands
<1> QED BY <1>1, <1>3, <1>8, <1>10

(* the body of a for, its increment and the condition again *)
LEMMA TestExpands ==
  ASSUME NEW p, IsTree(p), NEW n \in DOMAIN p, Len(p[n].kids) = 4, p[n].k = "for"
  PROVE  Expands(p, <<"test", n>>,
                 << <<"wrap", p[n].kids[4]>>, <<"visit", p[n].kids[3]>>, <<"popExpr", n>>,
                    <<"test", n>> >>,
                 Within(p, p[n].kids[2]))
<1>1. PICK c, d, e : c = p[n].kids[2] /\ d = p[n].kids[3] /\ e = p[n].kids[4]
  OBVIOUS
<1>2. /\ d \in DOMAIN p /\ d \in Within(p, n) /\ Within(p, d) \subseteq Within(p, n)
      /\ e \in DOMAIN p /\ e \in Within(p, n) /\ Within(p, e) \subseteq Within(p, n)
      /\ n \in Within(p, n) /\ Within(p, c) \subseteq Within(p, n)
      /\ Within(p, c) \cap Within(p, d) = {} /\ Within(p, c) \cap Within(p, e) = {}
      /\ Within(p, e) \cap Within(p, d) = {}
  <2>1. 2 \in 1..Len(p[n].kids) /\ 3 \in 1..Len(p[n].kids) /\ 4 \in 1..Len(p[n].kids)
    OBVIOUS
  <2>2. n \in Within(p, n)
    BY PartFacts
  <2>3. Within(p, c) \subseteq Within(p, n)
    BY <1>1, <2>1, PartFacts
  <2>4. d \in DOMAIN p /\ d \in Within(p, n) /\ Within(p, d) \subseteq Within(p, n)
    BY <1>1, <2>1, PartFacts
  <2>5. e \in DOMAIN p /\ e \in Within(p, n) /\ Within(p, e) \subseteq Within(p, n)
    BY <1>1, <2>1, PartFacts
  <2>6. \A i, j \in 1..Len(p[n].kids) :
          i # j => Within(p, p[n].kids[i]) \cap Within(p, p[n].kids[j]) = {}
    BY PartFacts
  <2>7. /\ Within(p, p[n].kids[2]) \cap Within(p, p[n].kids[3]) = {}
        /\ Within(p, p[n].kids[2]) \cap Within(p, p[n].kids[4]) = {}
        /\ Within(p, p[n].kids[4]) \cap Within(p, p[n].kids[3]) = {}
    BY <2>1, <2>6
  <2>8. /\ Within(p, c) \cap Within(p, d) = {} /\ Within(p, c) \cap Within(p, e) = {}
        /\ Within(p, e) \cap Within(p, d) = {}
    BY <1>1, <2>7
  <2> QED BY <2>2, <2>3, <2>4, <2>5, <2>6, <2>7, <2>8
<1>3. PICK t : t = << <<"wrap", e>>, <<"visit", d>>, <<"popExpr", n>>, <<"test", n>> >>
  OBVIOUS
<1>4. /\ t \in Seq(Tasks(p)) /\ Len(t) = 4
      /\ t[1] = <<"wrap", e>> /\ t[2] = <<"visit", d>> /\ t[3] = <<"popExpr", n>>
      /\ t[4] = <<"test", n>>
  BY <1>2, <1>3 DEF Tasks, TaskKinds
<1>5. /\ Needs(p, t[1]) = Within(p, e) /\ Touches(p, t[1]) = Within(p, e)
      /\ Needs(p, t[2]) = Within(p, d) /\ Touches(p, t[2]) = Within(p, d)
      /\ Needs(p, t[3]) = {} /\ Touches(p, t[3]) = {}
      /\ Touches(p, t[4]) = Within(p, n)
      /\ t[1][1] = "wrap" /\ t[1][2] = e /\ t[2][1] = "visit" /\ t[2][2] = d
      /\ t[3][1] = "popExpr" /\ t[3][2] = n /\ t[4][1] = "test" /\ t[4][2] = n
  <2>1. /\ t[1][1] = "wrap" /\ t[1][2] = e /\ t[2][1] = "visit" /\ t[2][2] = d
        /\ t[3][1] = "popExpr" /\ t[3][2] = n /\ t[4][1] = "test" /\ t[4][2] = n
    BY <1>4
  <2> QED BY <2>1, NeedsIs
<1>6. \A k \in 1..4 : k = 1 \/ k = 2 \/ k = 3 \/ k = 4
  OBVIOUS
<1>7. Apart(p, t)
  <2>1. ~ Clear(t, 1, 4) /\ ~ Clear(t, 2, 4)
    <3>1. 3 \in (1 + 1)..(4 - 1) /\ 3 \in (2 + 1)..(4 - 1) /\ Stops(t[3])
      BY <1>5 DEF Stops
    <3> QED BY <3>1 DEF Clear
  <2>2. /\ Touches(p, t[1]) \cap Needs(p, t[2]) = {}
        /\ Touches(p, t[1]) \cap Needs(p, t[3]) = {}
        /\ Touches(p, t[2]) \cap Needs(p, t[3]) = {}
        /\ Touches(p, t[3]) \cap Needs(p, t[4]) = {}
    BY <1>2, <1>5
  <2>3. \A i, j \in 1..4 : i < j => \/ i = 1 /\ j \in {2, 3, 4}
                                    \/ i = 2 /\ j \in {3, 4}
                                    \/ i = 3 /\ j = 4
    OBVIOUS
  <2>4. ASSUME NEW i \in 1..4, NEW j \in 1..4, i < j, Clear(t, i, j)
        PROVE  Touches(p, t[i]) \cap Needs(p, t[j]) = {}
    BY <2>1, <2>2, <2>3, <2>4
  <2> QED BY <1>4, <2>4 DEF Apart
<1>8. PICK h : h = <<"test", n>>
  OBVIOUS
<1>9. /\ h[2] = n /\ Touches(p, h) = Within(p, n)
      /\ Needs(p, h) = LoopParts(p, n)
  BY <1>8, NeedsIs
<1>10. Within(p, d) \subseteq Needs(p, h) /\ Within(p, e) \subseteq Needs(p, h)
  BY <1>1, <1>9 DEF LoopParts
<1>11. \A i \in 1..4 :
         /\ t[i][1] # "leave"
         /\ t[i][1] = "test" => p[t[i][2]].k = "for"
         /\ t[i][2] \in Within(p, n)
         /\ Touches(p, t[i]) \subseteq Within(p, n)
  BY <1>2, <1>5, <1>6
<1>12. \A i \in 1..4 :
         (\A k \in 1..(i - 1) : t[k][1] # "popExpr")
           => Needs(p, t[i]) \subseteq Needs(p, h) /\ Needs(p, t[i]) \cap Within(p, c) = {}
  <2>1. \A i \in 1..3 :
          Needs(p, t[i]) \subseteq Needs(p, h) /\ Needs(p, t[i]) \cap Within(p, c) = {}
    BY <1>2, <1>5, <1>10
  <2>2. 3 \in 1..(4 - 1) /\ t[3][1] = "popExpr"
    BY <1>5
  <2> QED BY <1>6, <2>1, <2>2
<1>13. Expands(p, h, t, Within(p, c))
  BY <1>2, <1>4, <1>7, <1>9, <1>11, <1>12 DEF Expands
<1> QED BY <1>1, <1>3, <1>8, <1>13

-------------------------------------------------------------------------------
(* The inductive invariant, for the tasks a of the program p and the frames *)
(* F, and how it is preserved.                                              *)

Holding(p, a, F) ==
  /\ Len(F) = FrameAt(a, 1)
  /\ Belongs(p, a)
  /\ Apart(p, a)
  /\ Fresh(p, a, F)
  /\ Matches(p, a, F)

(* In a tree, the parts of a node of a function are parts of the function.  *)
LEMMA PartsOfFunction ==
  ASSUME NEW p, IsTree(p), NEW n, NEW f, In(p, n, f)
  PROVE  FunctionOf(p, f) \in DOMAIN p /\ Within(p, n) \subseteq Within(p, FunctionOf(p, f))
<1>1. FunctionOf(p, f) \in DOMAIN p
  BY DEF In, IsFunction, FunctionOf
<1>2. n \in Within(p, FunctionOf(p, f))
  BY DEF In
<1> QED BY <1>1, <1>2, PartFacts

LEMMA ExpandsStep ==
  ASSUME NEW p, IsTree(p), NEW a \in Seq(Tasks(p)), a # <<>>, NEW F, NEW G, NEW t, NEW what,
         Holding(p, a, F), Expands(p, a[1], t, what), a[1][1] \notin {"leave", "popExpr"},
         Len(G) = Len(F),
         \A f \in 1..(Len(F) - 1) : G[f] = F[f],
         G[Len(F)].exprs \subseteq F[Len(F)].exprs \cup what,
         F[Len(F)].held \subseteq G[Len(F)].held,
         G[Len(F)].held \subseteq F[Len(F)].held \cup VarsIn(p, Within(p, a[1][2]))
  PROVE  Holding(p, t \o Tail(a), G)
<1>1. PICK b : b = t \o Tail(a)
  OBVIOUS
<1>2. t \in Seq(Tasks(p))
  BY DEF Expands
<1>3. Spliced(a, t, b)
  BY <1>1, <1>2, SplicedIs
<1>4. PICK la \in Nat \ {0}, lt \in Nat : la = Len(a) /\ lt = Len(t)
  BY <1>3 DEF Spliced
<1>5. Len(b) = lt + la - 1 /\ \A i \in 1..lt : b[i] = t[i]
  BY <1>3, <1>4 DEF Spliced
<1>6. PICK d : d = FrameAt(a, 2)
  OBVIOUS
<1>7. d \in Nat \ {0} /\ FrameAt(a, 1) = d /\ Len(F) = d
  <2>1. ~ IsLeave(a, 1)
    BY DEF IsLeave
  <2>2. FrameAt(a, 1) = d
    BY <1>4, <1>6, <2>1, FrameSame
  <2>3. d \in Nat \ {0}
    BY <1>4, <1>6, FrameNat
  <2> QED BY <2>2, <2>3 DEF Holding
<1>8. \A i \in 1..(lt + 1) : FrameAt(b, i) = d
  <2>1. FrameAt(b, lt + 1) = d
    <3>1. FrameAt(b, lt + 2 - 1) = FrameAt(a, 2)
      BY <1>3, <1>4, FrameShift
    <3> QED BY <1>6, <3>1
  <2>2. \A i \in 1..lt : ~ IsLeave(b, i)
    <3>1. \A i \in 1..lt : t[i][1] # "leave"
      BY <1>4 DEF Expands
    <3> QED BY <1>5, <3>1 DEF IsLeave
  <2> SUFFICES ASSUME NEW i \in 1..(lt + 1)
               PROVE  FrameAt(b, i) = d
    OBVIOUS
  <2>3. Len(b) \in Nat
    BY <1>5
  <2>4. \A j \in i..(lt + 1 - 1) : j <= Len(b) => ~ IsLeave(b, j)
    BY <2>2
  <2>5. FrameAt(b, i) = FrameAt(b, lt + 1)
    BY <2>3, <2>4, FrameSame
  <2> QED BY <2>1, <2>5
<1>9. PICK h : h = a[1]
  OBVIOUS
<1>10. \A i \in 1..lt :
         /\ t[i][1] # "leave" /\ t[i][2] \in Within(p, h[2]) /\ Touches(p, t[i]) \subseteq Touches(p, h)
         /\ (\A k \in 1..(i - 1) : t[k][1] # "popExpr")
              => Needs(p, t[i]) \subseteq Needs(p, h) /\ Needs(p, t[i]) \cap what = {}
  BY <1>4, <1>9 DEF Expands
<1>11. what \subseteq Touches(p, h) /\ Apart(p, t)
  BY <1>9 DEF Expands
<1>12. Apart(p, a) /\ Belongs(p, a) /\ Fresh(p, a, F) /\ Matches(p, a, F)
  BY DEF Holding
<1>13. Len(G) = FrameAt(b, 1)
  BY <1>7, <1>8
<1>14. Belongs(p, b)
  <2>1. \A f : In(p, a[1][2], f) => Within(p, a[1][2]) \subseteq Within(p, FunctionOf(p, f))
    BY PartsOfFunction
  <2>2. \A i \in 1..Len(t) :
           /\ t[i][2] \in Within(p, a[1][2])
           /\ \A k \in (i + 1)..Len(t) : ~ IsLeave(t, k)
    BY <1>4, <1>9, <1>10 DEF IsLeave
  <2> QED BY <1>3, <1>12, <2>1, <2>2, BelongsStep
<1>15. Apart(p, b)
  BY <1>3, <1>4, <1>9, <1>10, <1>11, <1>12, ApartStep
<1>16. Fresh(p, b, G)
  <2>1. ASSUME NEW j \in 1..lt, Waits(b, j)
        PROVE  Needs(p, t[j]) \cap G[FrameAt(b, j)].exprs = {}
    <3>1. FrameAt(b, j) = d
      BY <1>8
    <3>2. \A k \in 1..(j - 1) : t[k][1] # "popExpr"
      <4> SUFFICES ASSUME NEW k \in 1..(j - 1), t[k][1] = "popExpr"
                   PROVE  FALSE
        OBVIOUS
      <4>1. b[k] = t[k] /\ FrameAt(b, k) = d
        BY <1>5, <1>8
      <4>2. b[k][1] = "popExpr" => FrameAt(b, k) # FrameAt(b, j)
        BY <2>1 DEF Waits
      <4> QED BY <3>1, <4>1, <4>2
    <3>3. Needs(p, t[j]) \subseteq Needs(p, h) /\ Needs(p, t[j]) \cap what = {}
      BY <1>10, <3>2
    <3>4. Needs(p, h) \cap F[d].exprs = {}
      <4>1. Waits(a, 1)
        BY DEF Waits
      <4>2. 1 \in 1..Len(a)
        BY <1>4
      <4>3. Needs(p, a[1]) \cap F[FrameAt(a, 1)].exprs = {}
        BY <1>12, <4>1, <4>2 DEF Fresh
      <4> QED BY <1>7, <1>9, <4>3
    <3>5. G[d].exprs \subseteq F[d].exprs \cup what
      BY <1>7
    <3> QED BY <3>1, <3>3, <3>4, <3>5
  <2>2. \A f \in 1..(d - 1) : G[f].exprs = F[f].exprs
    BY <1>7
  <2>3. G[d].exprs \subseteq F[d].exprs \cup Touches(p, a[1])
    BY <1>7, <1>9, <1>11
  <2> QED BY <1>3, <1>4, <1>6, <1>12, <2>1, <2>2, <2>3, FreshStep
<1>17. Matches(p, b, G)
  <2>1. \A f : In(p, a[1][2], f) => Within(p, a[1][2]) \subseteq Within(p, FunctionOf(p, f))
    BY PartsOfFunction
  <2>2. \A f \in 1..(d - 1) : G[f].held = F[f].held
    BY <1>7
  <2>3. F[d].held \subseteq G[d].held /\ G[d].held \subseteq F[d].held \cup VarsIn(p, Within(p, a[1][2]))
    BY <1>7
  <2>4. \A j \in 1..Len(t) : ~ IsLeave(t, j)
    BY <1>4, <1>10 DEF IsLeave
  <2> QED BY <1>3, <1>6, <1>12, <2>1, <2>2, <2>3, <2>4, MatchesStep
<1> QED BY <1>1, <1>13, <1>14, <1>15, <1>16, <1>17 DEF Holding

(* The task is done, and the frame at hand is the one of the task after it. *)
LEMMA DoneStep ==
  ASSUME NEW p, IsTree(p), NEW a \in Seq(Tasks(p)), a # <<>>, NEW F, NEW G,
         NEW d, d = FrameAt(a, 2),
         Holding(p, a, F),
         Len(G) = d,
         \A f \in 1..(d - 1) : G[f] = F[f],
         a[1][1] = "popExpr" => G[d].exprs = {},
         G[d].exprs \subseteq F[d].exprs \cup Touches(p, a[1]),
         G[d].held = F[d].held
  PROVE  Holding(p, <<>> \o Tail(a), G)
<1>0. <<>> \in Seq(Tasks(p)) /\ Len(<<>>) = 0
  OBVIOUS
<1>1. PICK t : t = <<>> /\ t \in Seq(Tasks(p)) /\ Len(t) = 0
  BY <1>0
<1>2. PICK b : b = t \o Tail(a)
  OBVIOUS
<1>3. Spliced(a, t, b)
  BY <1>1, <1>2, SplicedIs
<1>4. Len(G) = FrameAt(b, 1)
  <2>1. FrameAt(b, Len(t) + 2 - 1) = FrameAt(a, 2)
    BY <1>3, FrameShift
  <2>2. Len(t) + 2 - 1 = 1
    BY <1>1
  <2> QED BY <2>1, <2>2
<1>5. Apart(p, a) /\ Belongs(p, a) /\ Fresh(p, a, F) /\ Matches(p, a, F)
  BY DEF Holding
<1>6. \A f : In(p, a[1][2], f) => Within(p, a[1][2]) \subseteq Within(p, FunctionOf(p, f))
  BY PartsOfFunction
<1>7. \A i \in 1..Len(t) : FALSE
  BY <1>1
<1>8. Belongs(p, b)
  BY <1>3, <1>5, <1>6, <1>7, BelongsStep
<1>9. Apart(p, b)
  <2>1. Apart(p, t)
    BY <1>7 DEF Apart
  <2> QED BY <1>3, <1>5, <1>7, <2>1, ApartStep
<1>10. Fresh(p, b, G)
  <2>1. \A f \in 1..(d - 1) : G[f].exprs = F[f].exprs
    OBVIOUS
  <2> QED BY <1>3, <1>5, <1>7, <2>1, FreshStep
<1>11. Matches(p, b, G)
  <2>1. \A f \in 1..(d - 1) : G[f].held = F[f].held
    OBVIOUS
  <2> QED BY <1>3, <1>5, <1>6, <1>7, <2>1, MatchesStep
<1> QED BY <1>1, <1>2, <1>4, <1>8, <1>9, <1>10, <1>11 DEF Holding

(* The parts of a function *)
LEMMA FunctionFacts ==
  ASSUME NEW p, IsProgram(p), NEW f, IsFunction(p, f)
  PROVE  /\ BodyOf(p, f) \in DOMAIN p /\ In(p, BodyOf(p, f), f)
         /\ Range(ParamsOf(p, f)) \subseteq VarsOf(p, f)
         /\ FunctionOf(p, f) \in DOMAIN p /\ p[FunctionOf(p, f)].k = "fun"
<1>1. PICK n : n = FunctionOf(p, f)
  OBVIOUS
<1>2. n \in DOMAIN p /\ p[n].k = "fun"
  BY <1>1 DEF IsFunction, FunctionOf
<1>3. IsTree(p)
  BY DEF IsProgram
<1>4. PICK ks : ks = p[n].kids
  OBVIOUS
<1>5. ks \in Seq(DOMAIN p) /\ ks # <<>> /\ \A i \in 1..(Len(ks) - 1) : p[ks[i]].k = "var"
  <2>1. ks \in Seq(DOMAIN p)
    BY <1>2, <1>3, <1>4, PartFacts
  <2>2. ks # <<>> /\ \A i \in 1..(Len(ks) - 1) : p[ks[i]].k = "var"
    BY <1>2, <1>4 DEF IsProgram
  <2> QED BY <2>1, <2>2
<1>6. \A i \in 1..Len(ks) : ks[i] \in DOMAIN p /\ ks[i] \in Within(p, n)
  BY <1>2, <1>3, <1>4, PartFacts
<1>7. Len(ks) \in 1..Len(ks) /\ Last(ks) = ks[Len(ks)]
  BY <1>5 DEF Last
<1>8. BodyOf(p, f) = ks[Len(ks)]
  BY <1>1, <1>4, <1>7 DEF BodyOf
<1>9. Range(ParamsOf(p, f)) = {p[ks[i]].x : i \in 1..(Len(ks) - 1)}
  BY <1>1, <1>4 DEF ParamsOf, Range
<1>10. \A i \in 1..(Len(ks) - 1) : ks[i] \in Within(p, n) /\ p[ks[i]].k = "var"
  BY <1>5, <1>6
<1>11. Range(ParamsOf(p, f)) \subseteq VarsOf(p, f)
  BY <1>1, <1>9, <1>10 DEF VarsOf, VarsIn
<1> QED BY <1>1, <1>2, <1>6, <1>7, <1>8, <1>11 DEF In

LEMMA EnterStep ==
  ASSUME NEW p, IsProgram(p), NEW a \in Seq(Tasks(p)), a # <<>>, NEW F, NEW G, NEW n, NEW f,
         Holding(p, a, F),
         a[1] = <<"handle", n>>, p[n].x = f, IsFunction(p, f), n \in DOMAIN p,
         Len(G) = Len(F) + 1,
         \A i \in 1..(Len(F) - 1) : G[i] = F[i],
         G[Len(F)].exprs \subseteq F[Len(F)].exprs \cup Within(p, n),
         G[Len(F)].held = F[Len(F)].held,
         G[Len(F) + 1] = NewFrame(Range(ParamsOf(p, f)))
  PROVE  Holding(p, << <<"wrap", BodyOf(p, f)>>, <<"leave", n>> >> \o Tail(a), G)
<1>0. IsTree(p)
  BY DEF IsProgram
<1>1. PICK c : c = BodyOf(p, f)
  OBVIOUS
<1>2. PICK t : t = << <<"wrap", c>>, <<"leave", n>> >>
  OBVIOUS
<1>3. PICK b : b = t \o Tail(a)
  OBVIOUS
<1>4. c \in DOMAIN p /\ In(p, c, f) /\ Range(ParamsOf(p, f)) \subseteq VarsOf(p, f)
  BY <1>1, FunctionFacts
<1>5. t \in Seq(Tasks(p)) /\ Len(t) = 2 /\ t[1] = <<"wrap", c>> /\ t[2] = <<"leave", n>>
  BY <1>2, <1>4 DEF Tasks, TaskKinds
<1>6. Spliced(a, t, b)
  BY <1>3, <1>5, SplicedIs
<1>24. Len(t) = 2
  BY <1>5
<1>7. /\ Needs(p, t[1]) = Within(p, c) /\ Needs(p, t[2]) = {} /\ Touches(p, t[2]) = {n}
      /\ t[1][1] = "wrap" /\ t[1][2] = c /\ t[2][1] = "leave" /\ t[2][2] = n
      /\ a[1][1] = "handle" /\ a[1][2] = n /\ Touches(p, a[1]) = Within(p, n)
  <2>1. /\ t[1][1] = "wrap" /\ t[1][2] = c /\ t[2][1] = "leave" /\ t[2][2] = n
    BY <1>5
  <2> QED BY <2>1, NeedsIs
<1>8. IsLeave(t, 2) /\ ~ IsLeave(t, 1) /\ Stops(t[2])
  BY <1>7 DEF IsLeave, Stops
<1>9. \A k \in 1..2 : k = 1 \/ k = 2
  OBVIOUS
<1>10. PICK la \in Nat \ {0} : la = Len(a)
  BY <1>6 DEF Spliced
<1>11. Len(b) = la + 1 /\ b[1] = t[1] /\ b[2] = t[2]
  <2>1. \A i \in 1..2 : b[i] = t[i]
    BY <1>5, <1>6 DEF Spliced
  <2>2. Len(b) = 2 + la - 1
    BY <1>5, <1>6, <1>10 DEF Spliced
  <2> QED BY <2>1, <2>2
<1>12. PICK d : d = FrameAt(a, 2)
  OBVIOUS
<1>13. d \in Nat \ {0} /\ FrameAt(a, 1) = d /\ Len(F) = d
  <2>1. ~ IsLeave(a, 1)
    BY DEF IsLeave
  <2>2. FrameAt(a, 1) = d
    BY <1>10, <1>12, <2>1, FrameSame
  <2>3. d \in Nat \ {0}
    BY <1>10, <1>12, FrameNat
  <2> QED BY <2>2, <2>3 DEF Holding
<1>14. FrameAt(b, 1) = d + 1 /\ FrameAt(b, 2) = d + 1
  <2>1. FrameAt(b, 2 + 2 - 1) = FrameAt(a, 2)
    <3>1. FrameAt(b, Len(t) + 2 - 1) = FrameAt(a, 2)
      BY <1>6, FrameShift
    <3> QED BY <1>24, <3>1
  <2>2. Len(b) \in Nat /\ 2 \in 1..Len(b)
    BY <1>10, <1>11
  <2>3. IsLeave(b, 2) /\ ~ IsLeave(b, 1)
    BY <1>7, <1>11 DEF IsLeave
  <2>4. FrameAt(b, 2) = FrameAt(b, 2 + 1) + 1
    BY <2>2, <2>3, FrameBelow
  <2>5. FrameAt(b, 1) = FrameAt(b, 2)
    BY <2>2, <2>3, FrameSame
  <2> QED BY <1>12, <2>1, <2>4, <2>5
<1>15. Apart(p, a) /\ Belongs(p, a) /\ Fresh(p, a, F) /\ Matches(p, a, F)
  BY DEF Holding
<1>16. \A g : In(p, a[1][2], g) => Within(p, a[1][2]) \subseteq Within(p, FunctionOf(p, g))
  BY <1>0, PartsOfFunction
<1>17. n \in Within(p, n)
  BY <1>0, PartFacts
<1>18. Belongs(p, b)
  <2>1. ASSUME NEW i \in 1..2, \A k \in (i + 1)..2 : ~ IsLeave(t, k)
        PROVE  t[i][2] \in Within(p, a[1][2])
    <3>1. i # 1
      <4>1. 2 \in (1 + 1)..2
        OBVIOUS
      <4> QED BY <1>8, <2>1, <4>1
    <3> QED BY <1>7, <1>9, <1>17, <3>1
  <2>2. ASSUME NEW i \in 1..2, NEW k \in (i + 1)..2
        PROVE  In(p, t[i][2], p[t[k][2]].x)
    <3>1. i = 1 /\ k = 2
      OBVIOUS
    <3> QED BY <1>4, <1>7, <3>1
  <2> QED BY <1>5, <1>6, <1>15, <1>16, <2>1, <2>2, BelongsStep
<1>19. Apart(p, b)
  <2>1. Apart(p, t)
    <3>1. \A i, j \in 1..2 : i < j => j = 2
      OBVIOUS
    <3> QED BY <1>5, <1>7, <3>1 DEF Apart
  <2>2. ASSUME NEW i \in 1..2, Clear(t, i, 2 + 1)
        PROVE  Touches(p, t[i]) \subseteq Touches(p, a[1])
    <3>1. i # 1
      <4>1. 2 \in (1 + 1)..(2 + 1 - 1)
        OBVIOUS
      <4> QED BY <1>8, <2>2, <4>1 DEF Clear
    <3> QED BY <1>7, <1>9, <1>17, <3>1
  <2> QED BY <1>5, <1>6, <1>15, <2>1, <2>2, ApartStep
<1>20. Fresh(p, b, G)
  <2>1. \A i \in 1..(d - 1) : G[i].exprs = F[i].exprs
    BY <1>13
  <2>2. G[d].exprs \subseteq F[d].exprs \cup Touches(p, a[1])
    BY <1>7, <1>13
  <2>3. G[d + 1].exprs = {}
    BY <1>13 DEF NewFrame
  <2>4. \A j \in 1..2 : Needs(p, t[j]) \cap G[FrameAt(b, j)].exprs = {}
    BY <1>7, <1>9, <1>14, <2>3
  <2>5. a[1][1] # "popExpr"
    BY <1>7
  <2>6. \A j \in 1..Len(t) : Needs(p, t[j]) \cap G[FrameAt(b, j)].exprs = {}
    BY <1>24, <2>4
  <2> QED BY <1>6, <1>12, <1>15, <2>1, <2>2, <2>5, <2>6, FreshStep
<1>21. Matches(p, b, G)
  <2>1. \A i \in 1..(d - 1) : G[i].held = F[i].held
    BY <1>13
  <2>2. F[d].held \subseteq G[d].held /\ G[d].held \subseteq F[d].held \cup VarsIn(p, Within(p, a[1][2]))
    BY <1>13
  <2>3. G[d + 1].held = Range(ParamsOf(p, f))
    BY <1>13 DEF NewFrame
  <2>4. \A j \in 1..2 : IsLeave(t, j) => Holds(p, G[FrameAt(b, j)].held, p[t[j][2]].x)
    BY <1>4, <1>7, <1>8, <1>9, <1>14, <2>3 DEF Holds
  <2>5. \A j \in 1..Len(t) : IsLeave(t, j) => Holds(p, G[FrameAt(b, j)].held, p[t[j][2]].x)
    BY <1>24, <2>4
  <2>6. Belongs(p, a) /\ Matches(p, a, F)
    BY <1>15
  <2> QED BY <1>6, <1>12, <1>16, <2>1, <2>2, <2>5, <2>6, MatchesStep
<1>22. Len(G) = FrameAt(b, 1)
  BY <1>13, <1>14
<1> QED BY <1>1, <1>2, <1>3, <1>18, <1>19, <1>20, <1>21, <1>22 DEF Holding

-------------------------------------------------------------------------------
(* The tasks and the frames have their types.                               *)

FrameType(p) == [held : SUBSET {p[n].x : n \in DOMAIN p}, exprs : SUBSET DOMAIN p,
                 returned : BOOLEAN]

CallOf(p, n) == p[n].k = "call" /\ p[n].x \notin Builtins
TaskOK(p, task) ==
  /\ task[1] = "leave" => CallOf(p, task[2])
  /\ task[1] = "test"  => p[task[2]].k = "for"

Typed(p, a, F) ==
  /\ a \in Seq(Tasks(p)) /\ \A i \in 1..Len(a) : TaskOK(p, a[i])
  /\ F \in Seq(FrameType(p)) /\ F # <<>>

LEMMA TypedIs == TypeOK <=> prog \in Programs /\ Typed(Code, agenda, frames)
<1>1. \A a \in Seq(Tasks(Code)) : DOMAIN a = 1..Len(a)
  OBVIOUS
<1>2. Tasks(Code) = {"visit", "wrap", "handle", "leave", "popExpr", "test"} \X DOMAIN Code
  BY DEF Tasks, TaskKinds
<1>3. FrameType(Code) = [held : SUBSET {X(n) : n \in DOMAIN Code}, exprs : SUBSET DOMAIN Code,
                         returned : BOOLEAN]
  BY DEF FrameType, X
<1>4. ASSUME NEW a \in Seq(Tasks(Code)), NEW i \in 1..Len(a)
      PROVE  TaskOK(Code, a[i]) <=> /\ a[i][1] = "leave" => CallsFunction(a[i][2])
                                    /\ a[i][1] = "test"  => K(a[i][2]) = "for"
  <2>1. PICK n : n = a[i][2]
    OBVIOUS
  <2>2. CallOf(Code, n) <=> CallsFunction(n)
    BY DEF CallOf, CallsFunction, K, X
  <2>3. Code[n].k = K(n)
    BY DEF K
  <2> QED BY <2>1, <2>2, <2>3 DEF TaskOK
<1>5. TypeOK =>
        /\ agenda \in Seq(Tasks(Code))
        /\ \A i \in 1..Len(agenda) : TaskOK(Code, agenda[i])
  BY <1>1, <1>2, <1>4 DEF TypeOK
<1>6. /\ agenda \in Seq(Tasks(Code))
      /\ \A i \in 1..Len(agenda) : TaskOK(Code, agenda[i])
      => \A i \in DOMAIN agenda :
           /\ agenda[i][1] = "leave" => CallsFunction(agenda[i][2])
           /\ agenda[i][1] = "test"  => K(agenda[i][2]) = "for"
  BY <1>1, <1>4
<1>7. ASSUME TypeOK
      PROVE  prog \in Programs /\ Typed(Code, agenda, frames)
  BY <1>3, <1>5, <1>7 DEF TypeOK, Typed
<1>8. ASSUME prog \in Programs, Typed(Code, agenda, frames)
      PROVE  TypeOK
  BY <1>2, <1>3, <1>6, <1>8 DEF TypeOK, Typed
<1> QED BY <1>7, <1>8

LEMMA TasksOK ==
  ASSUME NEW p, NEW a \in Seq(Tasks(p)), a # <<>>, NEW t \in Seq(Tasks(p)),
         \A i \in 1..Len(a) : TaskOK(p, a[i]), \A i \in 1..Len(t) : TaskOK(p, t[i])
  PROVE  /\ t \o Tail(a) \in Seq(Tasks(p))
         /\ \A i \in 1..Len(t \o Tail(a)) : TaskOK(p, (t \o Tail(a))[i])
<1>1. PICK b : b = t \o Tail(a)
  OBVIOUS
<1>2. Spliced(a, t, b)
  BY <1>1, SplicedIs
<1>3. PICK la \in Nat \ {0}, lt \in Nat : la = Len(a) /\ lt = Len(t)
  BY <1>2 DEF Spliced
<1>4. /\ Len(b) = lt + la - 1 /\ \A i \in 1..lt : b[i] = t[i]
      /\ \A i \in 2..la : b[lt + i - 1] = a[i]
  BY <1>2, <1>3 DEF Spliced
<1>5. ASSUME NEW i \in 1..(lt + la - 1)
      PROVE  TaskOK(p, b[i])
  <2>1. CASE i \in 1..lt
    BY <1>3, <1>4, <2>1
  <2>2. CASE i \notin 1..lt
    <3>1. PICK j \in 2..la : i = lt + j - 1
      BY <2>2, Origin
    <3>2. j \in 1..Len(a)
      BY <1>3
    <3> QED BY <1>4, <3>1, <3>2
  <2> QED BY <2>1, <2>2
<1>6. b \in Seq(Tasks(p))
  <2>1. Tail(a) \in Seq(Tasks(p))
    OBVIOUS
  <2> QED BY <1>1, <2>1
<1> QED BY <1>1, <1>4, <1>5, <1>6

LEMMA ExpandsOK ==
  ASSUME NEW p, NEW h, NEW t, NEW what, Expands(p, h, t, what)
  PROVE  t \in Seq(Tasks(p)) /\ \A i \in 1..Len(t) : TaskOK(p, t[i])
BY DEF Expands, TaskOK

Invariant(p, a, F) == Typed(p, a, F) /\ Holding(p, a, F)

(* The task at hand is replaced by tasks in the same function, and nothing  *)
(* happens to the frames but that the one at hand becomes r.                *)
LEMMA FrameChange ==
  ASSUME NEW p, NEW F \in Seq(FrameType(p)), F # <<>>, NEW r \in FrameType(p),
         NEW G, G = [F EXCEPT ![Len(F)] = r]
  PROVE  /\ G \in Seq(FrameType(p)) /\ G # <<>> /\ Len(G) = Len(F) /\ G[Len(F)] = r
         /\ \A i \in 1..(Len(F) - 1) : G[i] = F[i]
<1>1. PICK l \in Nat : l = Len(F)
  OBVIOUS
<1>2. l # 0 /\ DOMAIN F = 1..l /\ \A i \in 1..l : F[i] \in FrameType(p)
  BY <1>1
<1>3. G = [i \in 1..l |-> IF i = l THEN r ELSE F[i]]
  BY <1>1, <1>2
<1>4. \A i \in 1..l : G[i] = IF i = l THEN r ELSE F[i]
  BY <1>3
<1>5. G \in Seq(FrameType(p)) /\ Len(G) = l
  BY <1>2, <1>3
<1>6. l \in 1..l /\ \A i \in 1..(l - 1) : i \in 1..l /\ i # l
  BY <1>2
<1>7. G # <<>>
  BY <1>2, <1>5
<1> QED BY <1>1, <1>4, <1>5, <1>6, <1>7

LEMMA KeepStep ==
  ASSUME NEW p, IsProgram(p), NEW a, NEW F, NEW G, NEW t, NEW what, NEW r \in FrameType(p),
         Invariant(p, a, F), a # <<>>,
         Expands(p, a[1], t, what), a[1][1] \notin {"leave", "popExpr"},
         G = [F EXCEPT ![Len(F)] = r],
         r.exprs \subseteq F[Len(F)].exprs \cup what,
         F[Len(F)].held \subseteq r.held,
         r.held \subseteq F[Len(F)].held \cup VarsIn(p, Within(p, a[1][2]))
  PROVE  Invariant(p, t \o Tail(a), G)
<1>1. Typed(p, a, F) /\ Holding(p, a, F)
  BY DEF Invariant
<1>2. a \in Seq(Tasks(p)) /\ F \in Seq(FrameType(p)) /\ F # <<>>
  BY <1>1 DEF Typed
<1>3. IsTree(p)
  BY DEF IsProgram
<1>4. /\ G \in Seq(FrameType(p)) /\ G # <<>> /\ Len(G) = Len(F) /\ G[Len(F)] = r
      /\ \A i \in 1..(Len(F) - 1) : G[i] = F[i]
  BY <1>2, FrameChange
<1>5. Holding(p, t \o Tail(a), G)
  BY <1>1, <1>2, <1>3, <1>4, ExpandsStep
<1>6. t \in Seq(Tasks(p)) /\ \A i \in 1..Len(t) : TaskOK(p, t[i])
  BY ExpandsOK
<1>7. \A i \in 1..Len(a) : TaskOK(p, a[i])
  BY <1>1 DEF Typed
<1>8. Typed(p, t \o Tail(a), G)
  BY <1>2, <1>4, <1>6, <1>7, TasksOK DEF Typed
<1> QED BY <1>5, <1>8 DEF Invariant

(* the same, when nothing is evaluated *)
LEMMA QuietStep ==
  ASSUME NEW p, IsProgram(p), NEW a, NEW F, NEW t,
         Invariant(p, a, F), a # <<>>,
         Expands(p, a[1], t, {}), a[1][1] \notin {"leave", "popExpr"}
  PROVE  Invariant(p, t \o Tail(a), F)
<1>1. F \in Seq(FrameType(p)) /\ F # <<>>
  BY DEF Invariant, Typed
<1>2. Len(F) \in DOMAIN F /\ F[Len(F)] \in FrameType(p)
  BY <1>1
<1>3. F = [F EXCEPT ![Len(F)] = F[Len(F)]]
  BY <1>1, <1>2
<1> QED BY <1>2, <1>3, KeepStep

(* the same, when the values of some of the expressions what are kept *)
LEMMA EvaluateStep ==
  ASSUME NEW p, IsProgram(p), NEW a, NEW F, NEW G, NEW t, NEW what, NEW E,
         Invariant(p, a, F), a # <<>>,
         Expands(p, a[1], t, what), a[1][1] \notin {"leave", "popExpr"},
         what \subseteq DOMAIN p,
         G = [F EXCEPT ![Len(F)].exprs = E],
         E \subseteq F[Len(F)].exprs \cup what
  PROVE  Invariant(p, t \o Tail(a), G)
<1>1. F \in Seq(FrameType(p)) /\ F # <<>>
  BY DEF Invariant, Typed
<1>2. Len(F) \in DOMAIN F /\ F[Len(F)] \in FrameType(p)
  BY <1>1
<1>3. PICK o : o = F[Len(F)]
  OBVIOUS
<1>4. PICK r : r = [held |-> o.held, exprs |-> E, returned |-> o.returned]
  OBVIOUS
<1>5. o \in FrameType(p) /\ E \subseteq DOMAIN p
  BY <1>2, <1>3 DEF FrameType
<1>6. r \in FrameType(p) /\ r.exprs = E /\ r.held = o.held
  BY <1>4, <1>5 DEF FrameType
<1>7. r = [o EXCEPT !.exprs = E]
  BY <1>4, <1>5 DEF FrameType
<1>8. G = [F EXCEPT ![Len(F)] = r]
  BY <1>2, <1>3, <1>7
<1> QED BY <1>3, <1>6, <1>8, KeepStep

-------------------------------------------------------------------------------
(* The invariant of the visitor, one step per action                        *)

Inv == prog \in Programs /\ Invariant(Code, agenda, frames)

(* The task at hand, as the lemmas above name it.                           *)
LEMMA TaskIs ==
  ASSUME NEW p, NEW a \in Seq(Tasks(p)), a # <<>>
  PROVE  /\ Head(a) = a[1] /\ a[1] \in Tasks(p) /\ a[1] = <<a[1][1], a[1][2]>>
         /\ a[1][2] \in DOMAIN p /\ 1 \in 1..Len(a)
<1>1. Head(a) = a[1] /\ a[1] \in Tasks(p) /\ 1 \in 1..Len(a)
  OBVIOUS
<1> QED BY <1>1 DEF Tasks

LEMMA AtTask ==
  ASSUME Inv, agenda # <<>>
  PROVE  /\ Node \in DOMAIN Code /\ Node = agenda[1][2]
         /\ agenda[1] = <<Head(agenda)[1], Node>>
         /\ agenda[1] \in Tasks(Code) /\ TaskOK(Code, agenda[1])
         /\ IsProgram(Code) /\ IsTree(Code)
         /\ agenda \in Seq(Tasks(Code)) /\ frames \in Seq(FrameType(Code)) /\ frames # <<>>
         /\ Depth \in Nat \ {0} /\ Depth \in DOMAIN frames /\ Top \in FrameType(Code)
         /\ Part(Node) \subseteq DOMAIN Code
<1>1. Typed(Code, agenda, frames) /\ prog \in Programs
  BY DEF Inv, Invariant
<1>2. agenda \in Seq(Tasks(Code)) /\ frames \in Seq(FrameType(Code)) /\ frames # <<>>
  BY <1>1 DEF Typed
<1>3. /\ Head(agenda) = agenda[1] /\ agenda[1] \in Tasks(Code)
      /\ agenda[1] = <<agenda[1][1], agenda[1][2]>>
      /\ agenda[1][2] \in DOMAIN Code /\ 1 \in 1..Len(agenda)
  BY <1>2, TaskIs
<1>4. TaskOK(Code, agenda[1])
  BY <1>1, <1>3 DEF Typed
<1>5. IsProgram(Code)
  BY <1>1, ProgramAssumption DEF Code
<1>6. IsTree(Code)
  BY <1>5 DEF IsProgram
<1>7. Depth \in Nat \ {0} /\ Depth \in DOMAIN frames /\ Top \in FrameType(Code)
  BY <1>2 DEF Depth, Top
<1>8. Node \in DOMAIN Code /\ Node = agenda[1][2]
  BY <1>3 DEF Node
<1>9. Part(Node) \subseteq DOMAIN Code
  BY <1>6, <1>8, PartFacts DEF Part
<1> QED BY <1>2, <1>3, <1>4, <1>5, <1>6, <1>7, <1>8, <1>9

LEMMA QuietInv ==
  ASSUME Inv, agenda # <<>>, NEW t, Perform(t), UNCHANGED frames,
         Expands(Code, agenda[1], t, {}), agenda[1][1] \notin {"leave", "popExpr"}
  PROVE  Inv'
<1>1. IsProgram(Code)
  BY AtTask
<1>2. Invariant(Code, agenda, frames) /\ prog \in Programs
  BY DEF Inv
<1>3. Invariant(Code, t \o Tail(agenda), frames)
  BY <1>1, <1>2, QuietStep
<1>4. agenda' = t \o Tail(agenda) /\ prog' = prog /\ frames' = frames
  BY DEF Perform
<1>5. Code' = Code
  BY <1>4 DEF Code
<1> QED BY <1>2, <1>3, <1>4, <1>5 DEF Inv

LEMMA EvaluateInv ==
  ASSUME Inv, agenda # <<>>, NEW t, NEW what, Perform(t), Evaluate(what), frames' = Evaluated,
         Expands(Code, agenda[1], t, what), agenda[1][1] \notin {"leave", "popExpr"},
         what \subseteq Part(Node)
  PROVE  Inv'
<1>1. IsProgram(Code) /\ Part(Node) \subseteq DOMAIN Code
  BY AtTask
<1>2. Invariant(Code, agenda, frames) /\ prog \in Programs
  BY DEF Inv
<1>3. PICK E : E = Kept
  OBVIOUS
<1>4. PICK G : G = frames'
  OBVIOUS
<1>5. G = [frames EXCEPT ![Len(frames)].exprs = E]
  BY <1>3, <1>4 DEF Evaluated, Depth
<1>6. E \subseteq frames[Len(frames)].exprs \cup what
  BY <1>3 DEF Evaluate, Top, Depth
<1>7. Invariant(Code, t \o Tail(agenda), G)
  BY <1>1, <1>2, <1>5, <1>6, EvaluateStep
<1>8. agenda' = t \o Tail(agenda) /\ prog' = prog
  BY DEF Perform
<1>9. Code' = Code
  BY <1>8 DEF Code
<1> QED BY <1>2, <1>4, <1>7, <1>8, <1>9 DEF Inv

LEMMA ChildrenExpand ==
  ASSUME Inv, agenda # <<>>, agenda[1][1] \in {"visit", "wrap"}
  PROVE  Expands(Code, agenda[1], Visits(Children(Node)), {})
<1>1. /\ Node \in DOMAIN Code /\ Node = agenda[1][2] /\ agenda[1] \in Tasks(Code) /\ IsTree(Code)
  BY AtTask
<1>2. PICK ks \in Seq(DOMAIN Code) : ks = Code[Node].kids
  BY <1>1, PartFacts
<1>3. PICK ns : ns = Children(Node)
  OBVIOUS
<1>4. ns = <<>> \/ ns = ks
  BY <1>2, <1>3 DEF Children, Kids
<1>5. ns \in Seq(DOMAIN Code) /\ Len(ns) <= Len(ks) /\ \A i \in 1..Len(ns) : ns[i] = ks[i]
  <2>1. <<>> \in Seq(DOMAIN Code) /\ Len(<<>>) = 0 /\ Len(ks) \in Nat
    OBVIOUS
  <2>2. CASE ns = <<>>
    BY <2>1, <2>2
  <2>3. CASE ns = ks
    BY <2>1, <2>3
  <2> QED BY <1>4, <2>2, <2>3
<1>6. Expands(Code, agenda[1], Visits(ns), {})
  BY <1>1, <1>2, <1>5, VisitsExpand
<1> QED BY <1>3, <1>6

LEMMA VisitStmtInv == ASSUME Inv, VisitStmt PROVE Inv'
<1>1. agenda # <<>> /\ Head(agenda)[1] = "visit" /\ Perform(Visits(Children(Node))) /\ UNCHANGED frames
  BY DEF VisitStmt, Visiting, IsNext
<1>2. agenda[1][1] = "visit"
  BY <1>1, AtTask
<1> QED BY <1>1, <1>2, ChildrenExpand, QuietInv

LEMMA VisitStmtWrapInv == ASSUME Inv, VisitStmtWrap PROVE Inv'
<1>1. /\ agenda # <<>> /\ Head(agenda)[1] = "wrap" /\ UNCHANGED frames
      /\ Perform(<<>>) \/ Perform(Visits(Children(Node)))
  BY DEF VisitStmtWrap, IsNext
<1>2. agenda[1][1] = "wrap"
  BY <1>1, AtTask
<1>3. Expands(Code, agenda[1], <<>>, {})
  BY NothingExpands
<1> QED BY <1>1, <1>2, <1>3, ChildrenExpand, QuietInv

LEMMA VisitHandledInv == ASSUME Inv, VisitHandled PROVE Inv'
<1>1. /\ agenda # <<>> /\ Head(agenda)[1] = "visit" /\ UNCHANGED frames
      /\ Perform(<< <<"wrap", Node>>, <<"handle", Node>> >>)
  BY DEF VisitHandled, Visiting, IsNext
<1>2. agenda[1] = <<"visit", Node>> /\ Node \in DOMAIN Code /\ IsTree(Code)
  BY <1>1, AtTask
<1>3. agenda[1][1] = "visit"
  BY <1>2
<1> QED BY <1>1, <1>2, <1>3, HandledExpands, QuietInv

LEMMA VisitReturnStmtInv == ASSUME Inv, VisitReturnStmt PROVE Inv'
<1>1. /\ agenda # <<>> /\ Head(agenda)[1] = "visit" /\ UNCHANGED frames
      /\ Perform(<<>>) \/ Perform(<< <<"wrap", Node>>, <<"handle", Node>> >>)
  BY DEF VisitReturnStmt, Visiting, IsNext
<1>2. agenda[1] = <<"visit", Node>> /\ Node \in DOMAIN Code /\ IsTree(Code)
  BY <1>1, AtTask
<1>3. agenda[1][1] = "visit"
  BY <1>2
<1>4. Expands(Code, agenda[1], <<>>, {})
  BY NothingExpands
<1> QED BY <1>1, <1>2, <1>3, <1>4, HandledExpands, QuietInv

LEMMA VisitForStmtInv == ASSUME Inv, VisitForStmt PROVE Inv'
<1>1. /\ agenda # <<>> /\ Head(agenda)[1] = "visit" /\ UNCHANGED frames /\ Code[Node].k = "for"
      /\ Perform(<< <<"visit", Code[Node].kids[1]>>, <<"test", Node>> >>)
  BY DEF VisitForStmt, Visiting, IsNext, K, Kid, Kids
<1>2. agenda[1] = <<"visit", Node>> /\ Node \in DOMAIN Code /\ IsTree(Code) /\ IsProgram(Code)
  BY <1>1, AtTask
<1>3. agenda[1][1] = "visit"
  BY <1>2
<1>4. Len(Code[Node].kids) = 4
  BY <1>1, <1>2 DEF IsProgram
<1> QED BY <1>1, <1>2, <1>3, <1>4, ForExpands, QuietInv

LEMMA VisitWhileStmtInv == ASSUME Inv, VisitWhileStmt PROVE Inv'
<1>1. /\ agenda # <<>> /\ Head(agenda)[1] = "visit" /\ Code[Node].k = "while"
      /\ \/ Perform(<<>>)
         \/ Perform(<< <<"wrap", Code[Node].kids[2]>>, <<"popExpr", Node>>, <<"visit", Node>> >>)
      /\ Evaluate(Within(Code, Code[Node].kids[1])) /\ frames' = Evaluated
  BY DEF VisitWhileStmt, Visiting, IsNext, K, Kid, Kids, Part
<1>2. agenda[1] = <<"visit", Node>> /\ Node \in DOMAIN Code /\ IsTree(Code) /\ IsProgram(Code)
  BY <1>1, AtTask
<1>3. agenda[1][1] = "visit" /\ Touches(Code, agenda[1]) = Part(Node)
  <2>1. agenda[1][1] = "visit" /\ agenda[1][2] = Node
    BY <1>2
  <2> QED BY <2>1, NeedsIs DEF Part
<1>4. Len(Code[Node].kids) = 2
  BY <1>1, <1>2 DEF IsProgram
<1>5. Within(Code, Code[Node].kids[1]) \subseteq Part(Node)
  <2>1. 1 \in 1..Len(Code[Node].kids)
    BY <1>4
  <2> QED BY <1>2, <2>1, PartFacts DEF Part
<1>6. Expands(Code, agenda[1], <<>>, Within(Code, Code[Node].kids[1]))
  BY <1>3, <1>5, NothingExpands
<1> QED BY <1>1, <1>2, <1>3, <1>4, <1>5, <1>6, WhileExpands, EvaluateInv

LEMMA TestForInv == ASSUME Inv, TestFor PROVE Inv'
<1>1. /\ agenda # <<>> /\ Head(agenda)[1] = "test"
      /\ \/ Perform(<<>>)
         \/ Perform(<< <<"wrap", Code[Node].kids[4]>>, <<"visit", Code[Node].kids[3]>>,
                       <<"popExpr", Node>>, <<"test", Node>> >>)
      /\ Evaluate(Within(Code, Code[Node].kids[2])) /\ frames' = Evaluated
  BY DEF TestFor, IsNext, Kid, Kids, Part
<1>2. /\ agenda[1] = <<"test", Node>> /\ Node \in DOMAIN Code /\ IsTree(Code) /\ IsProgram(Code)
      /\ TaskOK(Code, agenda[1])
  BY <1>1, AtTask
<1>3. agenda[1][1] = "test" /\ Touches(Code, agenda[1]) = Part(Node) /\ Code[Node].k = "for"
  <2>1. agenda[1][1] = "test" /\ agenda[1][2] = Node
    BY <1>2
  <2>2. Code[Node].k = "for"
    BY <1>2, <2>1 DEF TaskOK
  <2> QED BY <2>1, <2>2, NeedsIs DEF Part
<1>4. Len(Code[Node].kids) = 4
  BY <1>2, <1>3 DEF IsProgram
<1>5. Within(Code, Code[Node].kids[2]) \subseteq Part(Node)
  <2>1. 2 \in 1..Len(Code[Node].kids)
    BY <1>4
  <2> QED BY <1>2, <2>1, PartFacts DEF Part
<1>6. Expands(Code, agenda[1], <<>>, Within(Code, Code[Node].kids[2]))
  BY <1>3, <1>5, NothingExpands
<1> QED BY <1>1, <1>2, <1>3, <1>4, <1>5, <1>6, TestExpands, EvaluateInv

LEMMA Pair == ASSUME NEW y, NEW z PROVE <<y>> \o <<z>> = <<y, z>>
<1>0. \A x \in {y, z} : <<x>> \in Seq({y, z}) /\ Len(<<x>>) = 1 /\ <<x>>[1] = x
  OBVIOUS
<1>1. PICK s : s = <<y>> /\ s \in Seq({y, z}) /\ Len(s) = 1 /\ s[1] = y
  BY <1>0
<1>2. PICK t : t = <<z>> /\ t \in Seq({y, z}) /\ Len(t) = 1 /\ t[1] = z
  BY <1>0
<1>3. PICK u : u = s \o t
  OBVIOUS
<1>4. u \in Seq({y, z}) /\ Len(u) = 2 /\ u[1] = y /\ u[2] = z
  BY <1>1, <1>2, <1>3
<1>5. u = <<y, z>>
  BY <1>4
<1> QED BY <1>1, <1>2, <1>3, <1>5

LEMMA VisitIfStmtInv == ASSUME Inv, VisitIfStmt PROVE Inv'
<1>1. /\ agenda # <<>> /\ Head(agenda)[1] = "visit" /\ Code[Node].k = "if"
      /\ Evaluate(Within(Code, Code[Node].kids[1])) /\ frames' = Evaluated
  BY DEF VisitIfStmt, Visiting, IsNext, K, Kid, Kids, Part
<1>2. /\ agenda[1] = <<"visit", Node>> /\ Node \in DOMAIN Code /\ IsTree(Code) /\ IsProgram(Code)
  BY <1>1, AtTask
<1>3. agenda[1][1] = "visit"
  BY <1>2
<1>4. PICK ks \in Seq(DOMAIN Code) : ks = Code[Node].kids
  BY <1>2, PartFacts
<1>5. Len(ks) \in {2, 3}
  BY <1>1, <1>2, <1>4 DEF IsProgram
<1>6. Within(Code, ks[1]) \subseteq Part(Node)
  <2>1. 1 \in 1..Len(ks)
    BY <1>5
  <2> QED BY <1>2, <1>4, <2>1, PartFacts DEF Part
<1>7. PICK branch \in {<<ks[2]>>, SubSeq(ks, 3, Len(ks))} :
         Perform(Visits(branch) \o << <<"popExpr", Node>> >>)
  BY <1>4 DEF VisitIfStmt, Kid, Kids
<1>8. branch = <<>> \/ \E i \in 2..Len(ks) : branch = <<ks[i]>>
  <2>1. CASE Len(ks) = 2
    <3>1. SubSeq(ks, 3, 2) = <<>>
      BY SubSeqEmpty
    <3> QED BY <1>7, <2>1, <3>1
  <2>2. CASE Len(ks) = 3
    <3>1. \A i \in 3..3 : ks[i] \in DOMAIN Code
      BY <2>2
    <3>2. /\ SubSeq(ks, 3, 3) \in Seq(DOMAIN Code) /\ Len(SubSeq(ks, 3, 3)) = 1
          /\ SubSeq(ks, 3, 3)[1] = ks[3]
      BY <3>1, SubSeqProperties
    <3>4. PICK u : u = SubSeq(ks, 3, 3)
      OBVIOUS
    <3>5. u \in Seq(DOMAIN Code) /\ Len(u) = 1 /\ u[1] = ks[3]
      BY <3>2, <3>4
    <3>3. u = <<ks[3]>>
      BY <3>5
    <3> QED BY <1>7, <2>2, <3>3, <3>4
  <2> QED BY <1>5, <2>1, <2>2
<1>9. PICK t : t = Visits(branch) \o << <<"popExpr", Node>> >>
  OBVIOUS
<1>10. Expands(Code, agenda[1], t, Within(Code, ks[1]))
  <2>1. CASE branch = <<>>
    <3>1. Visits(branch) = <<>>
      BY <2>1 DEF Visits
    <3>2. t = << <<"popExpr", Node>> >>
      BY <1>9, <3>1
    <3>3. Len(ks) >= 1
      BY <1>5
    <3> QED BY <1>2, <1>4, <3>2, <3>3, NoBranchExpands
  <2>2. ASSUME NEW i \in 2..Len(ks), branch = <<ks[i]>>
        PROVE  Expands(Code, agenda[1], t, Within(Code, ks[1]))
    <3>1. Visits(branch) = << <<"visit", ks[i]>> >>
      BY <2>2 DEF Visits
    <3>2. t = << <<"visit", ks[i]>>, <<"popExpr", Node>> >>
      BY <1>9, <3>1, Pair
    <3> QED BY <1>2, <1>4, <3>2, BranchExpands
  <2> QED BY <1>8, <2>1, <2>2
<1>11. Perform(t)
  BY <1>7, <1>9
<1> QED BY <1>1, <1>3, <1>4, <1>6, <1>10, <1>11, EvaluateInv

LEMMA HandleInv == ASSUME Inv, Handle PROVE Inv'
<1>1. /\ agenda # <<>> /\ Head(agenda)[1] = "handle" /\ Perform(<<>>) /\ Evaluate(Part(Node))
      /\ frames' = [frames EXCEPT ![Depth] =
           [held |-> @.held \cup (IF K(Node) = "decls" THEN Declared(Kids(Node)) ELSE {}),
            exprs |-> Kept,
            returned |-> @.returned \/ K(Node) = "return"]]
  BY DEF Handle, IsNext
<1>2. /\ agenda[1] = <<"handle", Node>> /\ Node \in DOMAIN Code /\ IsTree(Code) /\ IsProgram(Code)
      /\ Depth \in DOMAIN frames /\ Top \in FrameType(Code) /\ Part(Node) \subseteq DOMAIN Code
  BY <1>1, AtTask
<1>3. agenda[1][1] = "handle" /\ agenda[1][2] = Node /\ Touches(Code, agenda[1]) = Part(Node)
  <2>1. agenda[1][1] = "handle" /\ agenda[1][2] = Node
    BY <1>2
  <2> QED BY <2>1, NeedsIs DEF Part
<1>4. PICK o : o = Top
  OBVIOUS
<1>5. PICK new : new = IF K(Node) = "decls" THEN Declared(Kids(Node)) ELSE {}
  OBVIOUS
<1>6. PICK E : E = Kept
  OBVIOUS
<1>7. PICK ret : ret = (o.returned \/ K(Node) = "return")
  OBVIOUS
<1>8. PICK r : r = [held |-> o.held \cup new, exprs |-> E, returned |-> ret]
  OBVIOUS
<1>9. PICK G : G = frames'
  OBVIOUS
<1>10. G = [frames EXCEPT ![Len(frames)] = r]
  BY <1>1, <1>4, <1>5, <1>6, <1>7, <1>8, <1>9 DEF Top, Depth
<1>11. new \subseteq VarsIn(Code, Part(Node))
  <2>1. PICK ks \in Seq(DOMAIN Code) :
           ks = Code[Node].kids /\ \A i \in 1..Len(ks) : ks[i] \in Part(Node)
    BY <1>2, PartFacts DEF Part
  <2>2. Declared(ks) \subseteq VarsIn(Code, Part(Node))
    <3>1. DOMAIN ks = 1..Len(ks)
      OBVIOUS
    <3> QED BY <2>1, <3>1 DEF Declared, VarsIn, K, X
  <2> QED BY <1>5, <2>1, <2>2 DEF Kids
<1>12. E \subseteq o.exprs \cup Part(Node)
  BY <1>1, <1>4, <1>6 DEF Evaluate
<1>13. o \in FrameType(Code)
  BY <1>2, <1>4
<1>14. VarsIn(Code, Part(Node)) \subseteq {Code[n].x : n \in DOMAIN Code}
  BY <1>2 DEF VarsIn
<1>15. r \in FrameType(Code) /\ r.held = o.held \cup new /\ r.exprs = E
  <2>1. ret \in BOOLEAN
    BY <1>7
  <2>2. o.held \cup new \subseteq {Code[n].x : n \in DOMAIN Code} /\ E \subseteq DOMAIN Code
    BY <1>2, <1>11, <1>12, <1>13, <1>14 DEF FrameType
  <2> QED BY <1>8, <2>1, <2>2 DEF FrameType
<1>16. Expands(Code, agenda[1], <<>>, Part(Node))
  BY <1>3, NothingExpands
<1>17. Invariant(Code, agenda, frames) /\ prog \in Programs
  BY DEF Inv
<1>18. o = frames[Len(frames)]
  BY <1>4 DEF Top, Depth
<1>19. Invariant(Code, <<>> \o Tail(agenda), G)
  <2>1. r.exprs \subseteq frames[Len(frames)].exprs \cup Part(Node)
    BY <1>12, <1>15, <1>18
  <2>2. /\ frames[Len(frames)].held \subseteq r.held
        /\ r.held \subseteq frames[Len(frames)].held \cup VarsIn(Code, Within(Code, agenda[1][2]))
    BY <1>3, <1>11, <1>15, <1>18 DEF Part
  <2>3. agenda[1][1] \notin {"leave", "popExpr"}
    BY <1>3
  <2> QED BY <1>1, <1>2, <1>10, <1>15, <1>16, <1>17, <2>1, <2>2, <2>3, KeepStep
<1>20. agenda' = <<>> \o Tail(agenda) /\ prog' = prog
  BY <1>1 DEF Perform
<1>21. Code' = Code
  BY <1>20 DEF Code
<1> QED BY <1>9, <1>17, <1>19, <1>20, <1>21 DEF Inv

LEMMA PopExprInv == ASSUME Inv, PopExpr PROVE Inv'
<1>1. /\ agenda # <<>> /\ Head(agenda)[1] = "popExpr" /\ Perform(<<>>)
      /\ frames' = [frames EXCEPT ![Depth].exprs = {}]
  BY DEF PopExpr, IsNext
<1>2. /\ agenda[1] = <<"popExpr", Node>> /\ IsTree(Code) /\ IsProgram(Code)
      /\ Depth \in DOMAIN frames /\ Top \in FrameType(Code)
      /\ agenda \in Seq(Tasks(Code)) /\ frames \in Seq(FrameType(Code)) /\ frames # <<>>
  BY <1>1, AtTask
<1>3. agenda[1][1] = "popExpr"
  BY <1>2
<1>4. PICK o : o = frames[Len(frames)]
  OBVIOUS
<1>5. PICK r : r = [held |-> o.held, exprs |-> {}, returned |-> o.returned]
  OBVIOUS
<1>6. o \in FrameType(Code)
  BY <1>2, <1>4 DEF Top, Depth
<1>7. r \in FrameType(Code) /\ r.exprs = {} /\ r.held = o.held /\ r = [o EXCEPT !.exprs = {}]
  BY <1>5, <1>6 DEF FrameType
<1>8. PICK G : G = frames'
  OBVIOUS
<1>9. G = [frames EXCEPT ![Len(frames)] = r]
  BY <1>1, <1>4, <1>7, <1>8 DEF Depth
<1>10. /\ G \in Seq(FrameType(Code)) /\ G # <<>> /\ Len(G) = Len(frames) /\ G[Len(frames)] = r
       /\ \A i \in 1..(Len(frames) - 1) : G[i] = frames[i]
  BY <1>2, <1>7, <1>9, FrameChange
<1>11. Invariant(Code, agenda, frames) /\ prog \in Programs
  BY DEF Inv
<1>12. Typed(Code, agenda, frames) /\ Holding(Code, agenda, frames)
  BY <1>11 DEF Invariant
<1>13. Len(frames) = FrameAt(agenda, 2)
  <2>1. ~ IsLeave(agenda, 1)
    BY <1>3 DEF IsLeave
  <2>2. Len(agenda) \in Nat
    BY <1>2
  <2>3. FrameAt(agenda, 1) = FrameAt(agenda, 2)
    BY <2>1, <2>2, FrameSame
  <2> QED BY <1>12, <2>3 DEF Holding
<1>14. Holding(Code, <<>> \o Tail(agenda), G)
  <2>1. PICK d : d = FrameAt(agenda, 2) /\ d = Len(frames)
    BY <1>13
  <2>2. Len(G) = d /\ \A i \in 1..(d - 1) : G[i] = frames[i]
    BY <1>10, <2>1
  <2>3. G[d].exprs = {} /\ G[d].held = frames[d].held
    BY <1>4, <1>7, <1>10, <2>1
  <2>4. G[d].exprs \subseteq frames[d].exprs \cup Touches(Code, agenda[1])
    BY <2>3
  <2> QED BY <1>1, <1>2, <1>12, <2>1, <2>2, <2>3, <2>4, DoneStep
<1>15. Typed(Code, <<>> \o Tail(agenda), G)
  <2>1. <<>> \in Seq(Tasks(Code)) /\ \A i \in 1..Len(<<>>) : TaskOK(Code, <<>>[i])
    OBVIOUS
  <2>2. \A i \in 1..Len(agenda) : TaskOK(Code, agenda[i])
    BY <1>12 DEF Typed
  <2> QED BY <1>1, <1>2, <1>10, <2>1, <2>2, TasksOK DEF Typed
<1>16. agenda' = <<>> \o Tail(agenda) /\ prog' = prog
  BY <1>1 DEF Perform
<1>17. Code' = Code
  BY <1>16 DEF Code
<1> QED BY <1>8, <1>11, <1>14, <1>15, <1>16, <1>17 DEF Inv, Invariant

LEMMA LeaveCallInv == ASSUME Inv, LeaveCall PROVE Inv'
<1>1. /\ agenda # <<>> /\ Head(agenda)[1] = "leave" /\ Perform(<<>>)
      /\ frames' = [Front(frames) EXCEPT ![Depth - 1].exprs = @ \cup {Node}]
  BY DEF LeaveCall, IsNext
<1>2. /\ agenda[1] = <<"leave", Node>> /\ IsTree(Code) /\ IsProgram(Code) /\ Node \in DOMAIN Code
      /\ agenda \in Seq(Tasks(Code)) /\ frames \in Seq(FrameType(Code)) /\ frames # <<>>
  BY <1>1, AtTask
<1>3. agenda[1][1] = "leave" /\ agenda[1][2] = Node /\ Touches(Code, agenda[1]) = {Node}
  <2>1. agenda[1][1] = "leave" /\ agenda[1][2] = Node
    BY <1>2
  <2> QED BY <2>1, NeedsIs
<1>4. Invariant(Code, agenda, frames) /\ prog \in Programs
  BY DEF Inv
<1>5. Typed(Code, agenda, frames) /\ Holding(Code, agenda, frames)
  BY <1>4 DEF Invariant
<1>6. PICK d : d = FrameAt(agenda, 2)
  OBVIOUS
<1>7. d \in Nat \ {0} /\ Len(frames) = d + 1
  <2>1. Len(agenda) \in Nat /\ 1 \in 1..Len(agenda) /\ IsLeave(agenda, 1)
    BY <1>1, <1>2, <1>3 DEF IsLeave
  <2>2. FrameAt(agenda, 1) = FrameAt(agenda, 1 + 1) + 1
    BY <2>1, FrameBelow
  <2>3. d \in Nat \ {0}
    BY <1>6, <2>1, FrameNat
  <2> QED BY <1>5, <1>6, <2>2, <2>3 DEF Holding
<1>8. PICK H : H = Front(frames)
  OBVIOUS
<1>9. H \in Seq(FrameType(Code)) /\ Len(H) = d /\ H # <<>> /\ \A i \in 1..d : H[i] = frames[i]
  <2>1. H = SubSeq(frames, 1, d)
    BY <1>7, <1>8 DEF Front
  <2>2. \A i \in 1..d : frames[i] \in FrameType(Code)
    BY <1>2, <1>7
  <2>3. /\ H \in Seq(FrameType(Code)) /\ Len(H) = d - 1 + 1
        /\ \A i \in 1..(d - 1 + 1) : H[i] = frames[1 + i - 1]
    BY <1>7, <2>1, <2>2, SubSeqProperties
  <2>4. Len(H) = d /\ \A i \in 1..d : H[i] = frames[i]
    BY <1>7, <2>3
  <2>5. H # <<>>
    BY <1>7, <2>4
  <2> QED BY <2>3, <2>4, <2>5
<1>10. PICK o : o = frames[d]
  OBVIOUS
<1>11. o \in FrameType(Code) /\ H[d] = o /\ d \in DOMAIN H
  BY <1>2, <1>7, <1>9, <1>10
<1>12. PICK r : r = [held |-> o.held, exprs |-> o.exprs \cup {Node}, returned |-> o.returned]
  OBVIOUS
<1>13. /\ r \in FrameType(Code) /\ r.exprs = o.exprs \cup {Node} /\ r.held = o.held
       /\ r = [o EXCEPT !.exprs = o.exprs \cup {Node}]
  <2>1. PICK E : E = o.exprs \cup {Node}
    OBVIOUS
  <2>2. E \subseteq DOMAIN Code
    BY <1>2, <1>11, <2>1 DEF FrameType
  <2>3. r = [held |-> o.held, exprs |-> E, returned |-> o.returned]
    BY <1>12, <2>1
  <2>4. r \in FrameType(Code) /\ r.exprs = E /\ r.held = o.held /\ r = [o EXCEPT !.exprs = E]
    BY <1>11, <2>2, <2>3 DEF FrameType
  <2> QED BY <2>1, <2>4
<1>14. PICK G : G = frames'
  OBVIOUS
<1>15. G = [H EXCEPT ![Len(H)] = r]
  <2>1. Depth - 1 = d
    BY <1>7 DEF Depth
  <2>2. G = [H EXCEPT ![d].exprs = @ \cup {Node}]
    BY <1>1, <1>8, <1>14, <2>1
  <2> QED BY <1>9, <1>11, <1>13, <2>2
<1>16. /\ G \in Seq(FrameType(Code)) /\ G # <<>> /\ Len(G) = d /\ G[d] = r
       /\ \A i \in 1..(d - 1) : G[i] = H[i]
  BY <1>9, <1>13, <1>15, FrameChange
<1>17. \A i \in 1..(d - 1) : G[i] = frames[i]
  BY <1>7, <1>9, <1>16
<1>18. Holding(Code, <<>> \o Tail(agenda), G)
  <2>1. agenda[1][1] # "popExpr"
    BY <1>3
  <2>2. G[d].exprs \subseteq frames[d].exprs \cup Touches(Code, agenda[1]) /\ G[d].held = frames[d].held
    BY <1>3, <1>10, <1>13, <1>16
  <2> QED BY <1>1, <1>2, <1>5, <1>6, <1>16, <1>17, <2>1, <2>2, DoneStep
<1>19. Typed(Code, <<>> \o Tail(agenda), G)
  <2>1. <<>> \in Seq(Tasks(Code)) /\ \A i \in 1..Len(<<>>) : TaskOK(Code, <<>>[i])
    OBVIOUS
  <2>2. \A i \in 1..Len(agenda) : TaskOK(Code, agenda[i])
    BY <1>5 DEF Typed
  <2> QED BY <1>1, <1>2, <1>16, <2>1, <2>2, TasksOK DEF Typed
<1>20. agenda' = <<>> \o Tail(agenda) /\ prog' = prog
  BY <1>1 DEF Perform
<1>21. Code' = Code
  BY <1>20 DEF Code
<1> QED BY <1>4, <1>14, <1>18, <1>19, <1>20, <1>21 DEF Inv, Invariant

LEMMA EnterFunctionInv == ASSUME Inv, EnterFunction PROVE Inv'
<1>1. PICK f, c : f = X(Node) /\ c = BodyOf(Code, f)
  OBVIOUS
<1>2. /\ agenda # <<>> /\ Head(agenda)[1] = "handle" /\ CallsFunction(Node)
      /\ Perform(<< <<"wrap", c>>, <<"leave", Node>> >>) /\ Evaluate(Part(Node))
      /\ frames' = Append(Evaluated, NewFrame(Range(ParamsOf(Code, f))))
  BY <1>1 DEF EnterFunction, IsNext
<1>3. /\ agenda[1] = <<"handle", Node>> /\ Node \in DOMAIN Code /\ IsProgram(Code)
      /\ agenda \in Seq(Tasks(Code)) /\ frames \in Seq(FrameType(Code)) /\ frames # <<>>
      /\ Depth \in Nat \ {0} /\ Top \in FrameType(Code) /\ Part(Node) \subseteq DOMAIN Code
  BY <1>2, AtTask
<1>4. Code[Node].x = f /\ CallOf(Code, Node) /\ IsFunction(Code, f)
  <2>1. Code[Node].k = "call" /\ Code[Node].x = f /\ f \notin Builtins
    BY <1>1, <1>2 DEF CallsFunction, K, X
  <2>2. IsFunction(Code, f)
    BY <1>3, <2>1 DEF IsProgram
  <2> QED BY <2>1, <2>2 DEF CallOf
<1>5. c \in DOMAIN Code /\ Range(ParamsOf(Code, f)) \subseteq VarsOf(Code, f)
      /\ FunctionOf(Code, f) \in DOMAIN Code
  BY <1>1, <1>3, <1>4, FunctionFacts
<1>6. Invariant(Code, agenda, frames) /\ prog \in Programs
  BY DEF Inv
<1>7. Typed(Code, agenda, frames) /\ Holding(Code, agenda, frames)
  BY <1>6 DEF Invariant
<1>8. PICK d : d = Len(frames) /\ d \in Nat \ {0} /\ d \in DOMAIN frames
  BY <1>3 DEF Depth
<1>9. PICK E : E = Kept
  OBVIOUS
<1>10. PICK o : o = frames[d]
  OBVIOUS
<1>11. E \subseteq o.exprs \cup Part(Node) /\ o \in FrameType(Code)
  BY <1>2, <1>3, <1>8, <1>9, <1>10 DEF Evaluate, Top, Depth
<1>12. PICK r : r = [held |-> o.held, exprs |-> E, returned |-> o.returned]
  OBVIOUS
<1>13. E \subseteq DOMAIN Code
  BY <1>3, <1>11 DEF FrameType
<1>14. r \in FrameType(Code) /\ r.exprs = E /\ r.held = o.held /\ r = [o EXCEPT !.exprs = E]
  BY <1>11, <1>12, <1>13 DEF FrameType
<1>15. PICK H : H = Evaluated
  OBVIOUS
<1>16. H = [frames EXCEPT ![Len(frames)] = r]
  BY <1>8, <1>9, <1>10, <1>14, <1>15 DEF Evaluated, Depth
<1>17. /\ H \in Seq(FrameType(Code)) /\ H # <<>> /\ Len(H) = d /\ H[d] = r
       /\ \A i \in 1..(d - 1) : H[i] = frames[i]
  <2>1. /\ H \in Seq(FrameType(Code)) /\ H # <<>> /\ Len(H) = Len(frames) /\ H[Len(frames)] = r
        /\ \A i \in 1..(Len(frames) - 1) : H[i] = frames[i]
    <3>1. r \in FrameType(Code) /\ frames \in Seq(FrameType(Code)) /\ frames # <<>>
      BY <1>3, <1>14
    <3> QED BY <1>16, <3>1, FrameChange
  <2> QED BY <1>8, <2>1
<1>18. PICK nf : nf = NewFrame(Range(ParamsOf(Code, f)))
  OBVIOUS
<1>19. nf \in FrameType(Code)
  <2>1. VarsOf(Code, f) \subseteq {Code[n].x : n \in DOMAIN Code}
    <3>1. Within(Code, FunctionOf(Code, f)) \subseteq DOMAIN Code
      BY <1>3, <1>5, PartFacts DEF IsProgram
    <3> QED BY <3>1 DEF VarsOf, VarsIn
  <2>2. nf = [held |-> Range(ParamsOf(Code, f)), exprs |-> {}, returned |-> FALSE]
    BY <1>18 DEF NewFrame
  <2> QED BY <1>5, <2>1, <2>2 DEF FrameType
<1>20. PICK G : G = frames'
  OBVIOUS
<1>21. G = Append(H, nf)
  BY <1>2, <1>15, <1>18, <1>20
<1>22. /\ G \in Seq(FrameType(Code)) /\ G # <<>> /\ Len(G) = d + 1 /\ G[d + 1] = nf
       /\ \A i \in 1..d : G[i] = H[i]
  BY <1>17, <1>19, <1>21
<1>23. G[d] = r /\ \A i \in 1..(d - 1) : G[i] = frames[i]
  BY <1>8, <1>17, <1>22
<1>24. PICK t : t = << <<"wrap", c>>, <<"leave", Node>> >>
  OBVIOUS
<1>25. Holding(Code, t \o Tail(agenda), G)
  <2>1. G[d].exprs \subseteq frames[d].exprs \cup Within(Code, Node)
    BY <1>10, <1>11, <1>14, <1>23 DEF Part
  <2>2. G[d].held = frames[d].held
    BY <1>10, <1>14, <1>23
  <2>3. G[d + 1] = NewFrame(Range(ParamsOf(Code, f)))
    BY <1>18, <1>22
  <2>4. Holding(Code, << <<"wrap", BodyOf(Code, f)>>, <<"leave", Node>> >> \o Tail(agenda), G)
    BY <1>2, <1>3, <1>4, <1>7, <1>8, <1>22, <1>23, <2>1, <2>2, <2>3, EnterStep
  <2> QED BY <1>1, <1>24, <2>4
<1>26. Typed(Code, t \o Tail(agenda), G)
  <2>1. t \in Seq(Tasks(Code)) /\ Len(t) = 2 /\ t[1] = <<"wrap", c>> /\ t[2] = <<"leave", Node>>
    BY <1>3, <1>5, <1>24 DEF Tasks, TaskKinds
  <2>2. /\ t[1][1] = "wrap" /\ t[2][1] = "leave" /\ t[2][2] = Node
    BY <2>1
  <2>3. \A i \in 1..2 : i = 1 \/ i = 2
    OBVIOUS
  <2>4. \A i \in 1..Len(t) : TaskOK(Code, t[i])
    BY <1>4, <2>1, <2>2, <2>3 DEF TaskOK
  <2>5. \A i \in 1..Len(agenda) : TaskOK(Code, agenda[i])
    BY <1>7 DEF Typed
  <2> QED BY <1>2, <1>3, <1>22, <2>1, <2>4, <2>5, TasksOK DEF Typed
<1>27. agenda' = t \o Tail(agenda) /\ prog' = prog
  BY <1>2, <1>24 DEF Perform
<1>28. Code' = Code
  BY <1>27 DEF Code
<1> QED BY <1>6, <1>20, <1>25, <1>26, <1>27, <1>28 DEF Inv, Invariant

(* At first, the parts of the body of main are ahead, and the frame of main *)
(* may keep values of the initializers of the global variables.             *)
LEMMA BeginHolds ==
  ASSUME NEW p, IsProgram(p), NEW a, NEW F, NEW E,
         a = Visits(p[BodyOf(p, "main")].kids),
         \A e \in E : \E i \in DOMAIN p[1].kids : p[p[1].kids[i]].k = "var" /\ e \in Within(p, p[1].kids[i]),
         F = << [held |-> GlobalsOf(p), exprs |-> E, returned |-> FALSE] >>
  PROVE  Invariant(p, a, F)
<1>1. IsTree(p) /\ IsFunction(p, "main") /\ 1 \in DOMAIN p
  BY DEF IsProgram
<1>2. PICK c : c = BodyOf(p, "main")
  OBVIOUS
<1>3. PICK fun : fun = FunctionOf(p, "main")
  OBVIOUS
<1>4. /\ c \in DOMAIN p /\ c \in Within(p, fun) /\ fun \in DOMAIN p /\ p[fun].k = "fun"
  BY <1>1, <1>2, <1>3, FunctionFacts DEF In
<1>5. PICK ks \in Seq(DOMAIN p) : ks = p[c].kids
  BY <1>1, <1>4, PartFacts
<1>6. PICK ds \in Seq(DOMAIN p) :
         /\ ds = p[1].kids /\ \A i \in 1..Len(ds) : Within(p, ds[i]) \subseteq DOMAIN p
         /\ \A i, j \in 1..Len(ds) : i # j => Within(p, ds[i]) \cap Within(p, ds[j]) = {}
  <2>1. /\ p[1].kids \in Seq(DOMAIN p) /\ Within(p, 1) \subseteq DOMAIN p
        /\ \A i \in 1..Len(p[1].kids) : Within(p, p[1].kids[i]) \subseteq Within(p, 1)
    BY <1>1, PartFacts
  <2>2. \A i, j \in 1..Len(p[1].kids) : i # j => Within(p, p[1].kids[i]) \cap Within(p, p[1].kids[j]) = {}
    BY <1>1, PartFacts
  <2> QED BY <2>1, <2>2
<1>7. DOMAIN ds = 1..Len(ds)
  OBVIOUS
<1>8. E \subseteq DOMAIN p /\ E \cap Within(p, fun) = {}
  <2>1. ASSUME NEW e \in E
        PROVE  e \in DOMAIN p /\ e \notin Within(p, fun)
    <3>1. PICK i \in 1..Len(ds) : p[ds[i]].k = "var" /\ e \in Within(p, ds[i])
      BY <1>6, <1>7
    <3>2. PICK j \in 1..Len(ds) : ds[j] = fun
      BY <1>4, <1>6, <1>7 DEF IsProgram
    <3>3. i # j
      BY <1>4, <3>1, <3>2
    <3> QED BY <1>6, <3>1, <3>2, <3>3
  <2> QED BY <2>1
<1>9. PICK h : h = <<"visit", c>>
  OBVIOUS
<1>10. /\ h \in Tasks(p) /\ h[1] = "visit" /\ h[2] = c
       /\ Needs(p, h) = Within(p, c)
  <2>1. h \in Tasks(p) /\ h[1] = "visit" /\ h[2] = c
    BY <1>4, <1>9 DEF Tasks, TaskKinds
  <2> QED BY <2>1, NeedsIs
<1>11. Expands(p, h, Visits(ks), {})
  <2>1. Len(ks) <= Len(p[h[2]].kids) /\ \A i \in 1..Len(ks) : ks[i] = p[h[2]].kids[i]
    BY <1>5, <1>10
  <2> QED BY <1>1, <1>10, <2>1, VisitsExpand
<1>12. a = Visits(ks) /\ Expands(p, h, a, {})
  BY <1>2, <1>5, <1>11
<1>13. PICK l \in Nat : l = Len(a) /\ a \in Seq(Tasks(p)) /\ Len(a) \in Nat
  BY <1>12 DEF Expands
<1>14. \A i \in 1..l : a[i][1] = "visit"
  <2>1. DOMAIN ks = 1..Len(ks) /\ Len(ks) \in Nat
    OBVIOUS
  <2>2. a = [i \in 1..Len(ks) |-> <<"visit", ks[i]>>]
    BY <1>12, <2>1 DEF Visits
  <2>3. DOMAIN a = 1..l
    BY <1>13
  <2> QED BY <2>2, <2>3
<1>15. \A i \in 1..l : ~ IsLeave(a, i)
  BY <1>14 DEF IsLeave
<1>16. \A i \in 1..l : a[i][2] \in Within(p, c) /\ Needs(p, a[i]) \subseteq Within(p, c)
  <2>1. ASSUME NEW i \in 1..l
        PROVE  a[i][2] \in Within(p, c) /\ Needs(p, a[i]) \subseteq Within(p, c)
    <3>1. \A k \in 1..(i - 1) : a[k][1] # "popExpr"
      BY <1>14
    <3>2. /\ a[i][2] \in Within(p, h[2])
          /\ (\A k \in 1..(i - 1) : a[k][1] # "popExpr") => Needs(p, a[i]) \subseteq Needs(p, h)
      BY <1>12, <1>13 DEF Expands
    <3> QED BY <1>10, <3>1, <3>2
  <2> QED BY <2>1
<1>17. Within(p, c) \subseteq Within(p, fun)
  BY <1>1, <1>4, PartFacts
<1>18. Belongs(p, a)
  <2>1. \A i \in 1..l : In(p, a[i][2], "main")
    BY <1>1, <1>3, <1>16, <1>17 DEF In
  <2>2. \A i \in 1..l : \A k \in (i + 1)..l : ~ IsLeave(a, k)
    BY <1>15
  <2> QED BY <1>13, <2>1, <2>2 DEF Belongs
<1>19. Apart(p, a)
  BY <1>12 DEF Expands
<1>20. \A j \in 1..l : FrameAt(a, j) = 1
  <2>1. FrameAt(a, 1) = 1
    BY <1>13, <1>15, FrameLast
  <2> SUFFICES ASSUME NEW j \in 1..l PROVE FrameAt(a, j) = 1
    OBVIOUS
  <2>2. \A k \in 1..(j - 1) : k <= Len(a) => ~ IsLeave(a, k)
    BY <1>13, <1>15
  <2>3. FrameAt(a, 1) = FrameAt(a, j)
    BY <1>13, <2>2, FrameSame
  <2> QED BY <2>1, <2>3
<1>21. PICK r : r = [held |-> GlobalsOf(p), exprs |-> E, returned |-> FALSE]
  OBVIOUS
<1>22. F = <<r>> /\ r.held = GlobalsOf(p) /\ r.exprs = E
  BY <1>21
<1>23. Len(F) = 1 /\ F[1] = r
  BY <1>22
<1>24. Fresh(p, a, F)
  BY <1>8, <1>13, <1>16, <1>17, <1>20, <1>22, <1>23 DEF Fresh
<1>25. Matches(p, a, F)
  BY <1>13, <1>15, <1>22, <1>23 DEF Matches, MainHolds
<1>26. Len(F) = FrameAt(a, 1)
  BY <1>13, <1>15, <1>23, FrameLast
<1>27. Typed(p, a, F)
  <2>1. GlobalsOf(p) \subseteq {p[n].x : n \in DOMAIN p}
    BY <1>6, <1>7 DEF GlobalsOf
  <2>2. r \in FrameType(p)
    BY <1>8, <1>21, <2>1 DEF FrameType
  <2>5. \A x \in FrameType(p) : <<x>> \in Seq(FrameType(p)) /\ <<x>> # <<>>
    OBVIOUS
  <2>3. F \in Seq(FrameType(p)) /\ F # <<>>
    BY <1>22, <2>2, <2>5
  <2>4. \A i \in 1..l : TaskOK(p, a[i])
    BY <1>14 DEF TaskOK
  <2> QED BY <1>13, <2>3, <2>4 DEF Typed
<1> QED BY <1>18, <1>19, <1>24, <1>25, <1>26, <1>27 DEF Invariant, Holding

LEMMA InvInit == Init => Inv
<1> SUFFICES ASSUME Init PROVE Inv
  OBVIOUS
<1>1. prog \in Programs /\ IsProgram(Code)
  BY ProgramAssumption DEF Init, Code
<1>2. PICK E : E = frames[1].exprs
  OBVIOUS
<1>3. agenda = Visits(Code[BodyOf(Code, "main")].kids)
  BY DEF Init, Kids
<1>4. \A e \in E : \E i \in DOMAIN Code[1].kids :
        Code[Code[1].kids[i]].k = "var" /\ e \in Within(Code, Code[1].kids[i])
  BY <1>2 DEF Init, Part, Kid, Kids, K
<1>5. Globals = GlobalsOf(Code)
  BY DEF Globals, GlobalsOf, Declared, Kids, K, X
<1>6. frames = << [held |-> GlobalsOf(Code), exprs |-> E, returned |-> FALSE] >>
  <2>1. frames = <<[NewFrame(Globals) EXCEPT !.exprs = E]>>
    BY <1>2 DEF Init
  <2>2. PICK g : g = Globals
    OBVIOUS
  <2>3. PICK z : z = NewFrame(g)
    OBVIOUS
  <2>4. z = [held |-> g, exprs |-> {}, returned |-> FALSE]
    BY <2>3 DEF NewFrame
  <2>6. z \in [held : {g}, exprs : {{}}, returned : {FALSE}]
    BY <2>4
  <2>7. z.held = g /\ z.returned = FALSE
    BY <2>4
  <2>8. [z EXCEPT !.exprs = E] = [held |-> z.held, exprs |-> E, returned |-> z.returned]
    BY <2>6
  <2>5. [z EXCEPT !.exprs = E] = [held |-> g, exprs |-> E, returned |-> FALSE]
    BY <2>7, <2>8
  <2> QED BY <1>5, <2>1, <2>2, <2>3, <2>5
<1>7. Invariant(Code, agenda, frames)
  BY <1>1, <1>3, <1>4, <1>6, BeginHolds
<1> QED BY <1>1, <1>7 DEF Inv

LEMMA InvStep == Inv /\ [Next]_vars => Inv'
<1> SUFFICES ASSUME Inv, [Next]_vars PROVE Inv'
  OBVIOUS
<1>1. CASE VisitStmt        BY <1>1, VisitStmtInv
<1>2. CASE VisitStmtWrap    BY <1>2, VisitStmtWrapInv
<1>3. CASE VisitHandled     BY <1>3, VisitHandledInv
<1>4. CASE VisitReturnStmt  BY <1>4, VisitReturnStmtInv
<1>5. CASE Handle           BY <1>5, HandleInv
<1>6. CASE EnterFunction    BY <1>6, EnterFunctionInv
<1>7. CASE LeaveCall        BY <1>7, LeaveCallInv
<1>8. CASE VisitIfStmt      BY <1>8, VisitIfStmtInv
<1>9. CASE VisitWhileStmt   BY <1>9, VisitWhileStmtInv
<1>10. CASE VisitForStmt    BY <1>10, VisitForStmtInv
<1>11. CASE TestFor         BY <1>11, TestForInv
<1>12. CASE PopExpr         BY <1>12, PopExprInv
<1>13. CASE UNCHANGED vars
  BY <1>13 DEF vars, Inv, Invariant, Typed, Holding, Code
<1> QED BY <1>1, <1>2, <1>3, <1>4, <1>5, <1>6, <1>7, <1>8, <1>9, <1>10, <1>11, <1>12, <1>13 DEF Next

-------------------------------------------------------------------------------
(* The visitor, whatever the program and whatever its expressions evaluate  *)
(* to.                                                                      *)

\* Tasks are about nodes of the program, a call is left only where a function of the program was
\* called, and every frame is one of the program's.
THEOREM TypeTheorem == Spec => []TypeOK
<1>1. Inv => TypeOK
  BY TypedIs DEF Inv, Invariant
<1> QED BY <1>1, InvInit, InvStep, PTL DEF Spec

\* The frames on the stack are those of main and of the calls under way, innermost last, each with
\* variables of its function only and with all its parameters (ASTInterpreter.cpp:84-91,
\* Environment.h:325-340).
THEOREM FramesTheorem == Spec => []FramesMatchCalls
<1>1. ASSUME Inv
      PROVE  FramesMatchCalls
  <2>1. Typed(Code, agenda, frames) /\ Holding(Code, agenda, frames) /\ prog \in Programs
    BY <1>1 DEF Inv, Invariant
  <2>2. Len(frames) = FrameAt(agenda, 1)
    BY <2>1 DEF Holding
  <2>3. /\ MainHolds(Code, frames[1].held)
        /\ \A i \in 1..Len(agenda) : IsLeave(agenda, i) =>
             Holds(Code, frames[FrameAt(agenda, i)].held, Code[agenda[i][2]].x)
    BY <2>1 DEF Holding, Matches
  <2>4. DOMAIN agenda = 1..Len(agenda)
    BY <2>1 DEF Typed
  <2>5. Globals = GlobalsOf(Code)
    BY DEF Globals, GlobalsOf, Declared, Kids, K, X
  <2>6. \A f : DeclaredIn(f) = VarsOf(Code, f)
    BY DEF DeclaredIn, VarsOf, VarsIn, Part, K, X
  <2>7. Globals \subseteq frames[1].held /\ frames[1].held \subseteq Globals \cup DeclaredIn("main")
    BY <2>3, <2>5, <2>6 DEF MainHolds
  <2>8. ASSUME NEW i \in DOMAIN agenda, IsLeave(agenda, i)
        PROVE  LET held == frames[FrameAt(agenda, i)].held
                   f == X(agenda[i][2])
               IN  Range(ParamsOf(Code, f)) \subseteq held /\ held \subseteq DeclaredIn(f)
    <3>1. Holds(Code, frames[FrameAt(agenda, i)].held, Code[agenda[i][2]].x)
      BY <2>3, <2>4, <2>8
    <3>2. X(agenda[i][2]) = Code[agenda[i][2]].x
      BY DEF X
    <3> QED BY <2>6, <3>1, <3>2 DEF Holds
  <2> QED BY <2>2, <2>7, <2>8 DEF FramesMatchCalls
<1> QED BY <1>1, InvInit, InvStep, PTL DEF Spec

\* An expression that is to be evaluated anew has no value kept from before: popExpr clears the
\* frame between two evaluations of it, in every loop and at every depth of calls, although
\* push never overwrites a value (util.h:64-72, Environment.h:389-393).
THEOREM StaleTheorem == Spec => []NothingStale
<1>1. ASSUME Inv
      PROVE  NothingStale
  <2>1. CASE agenda = <<>>
    BY <2>1 DEF NothingStale, IsNext
  <2>2. CASE agenda # <<>>
    <3>1. /\ Node \in DOMAIN Code /\ Node = agenda[1][2] /\ agenda[1] = <<Head(agenda)[1], Node>>
          /\ IsTree(Code) /\ IsProgram(Code) /\ TaskOK(Code, agenda[1]) /\ agenda \in Seq(Tasks(Code))
      BY <1>1, <2>2, AtTask
    <3>2. Holding(Code, agenda, frames)
      BY <1>1 DEF Inv, Invariant
    <3>3. Needs(Code, agenda[1]) \cap frames[Len(frames)].exprs = {}
      <4>1. Waits(agenda, 1)
        BY DEF Waits
      <4>2. 1 \in 1..Len(agenda)
        BY <2>2, <3>1
      <4>3. Needs(Code, agenda[1]) \cap frames[FrameAt(agenda, 1)].exprs = {}
        BY <3>2, <4>1, <4>2 DEF Holding, Fresh
      <4> QED BY <3>2, <4>3 DEF Holding
    <3>4. agenda[1][1] = Head(agenda)[1]
      BY <3>1
    <3>5. CASE Head(agenda)[1] = "visit"
      <4>1. Needs(Code, agenda[1]) = Part(Node)
        BY <3>1, <3>4, <3>5, NeedsIs DEF Part
      <4> QED BY <2>2, <3>3, <3>5, <4>1 DEF NothingStale, IsNext
    <3>6. CASE Head(agenda)[1] = "test"
      <4>1. Needs(Code, agenda[1]) = LoopParts(Code, Node)
        BY <3>1, <3>4, <3>6, NeedsIs
      <4>2. Part(Kid(Node, 2)) \subseteq LoopParts(Code, Node)
        BY DEF Part, Kid, Kids, LoopParts
      <4>3. "test" # "visit"
        OBVIOUS
      <4> QED BY <2>2, <3>3, <3>6, <4>1, <4>2, <4>3 DEF NothingStale, IsNext
    <3>7. CASE Head(agenda)[1] \notin {"visit", "test"}
      BY <2>2, <3>7 DEF NothingStale, IsNext
    <3> QED BY <3>5, <3>6, <3>7
  <2> QED BY <2>1, <2>2
<1> QED BY <1>1, InvInit, InvStep, PTL DEF Spec
===============================================================================
