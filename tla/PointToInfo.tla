------------------------------ MODULE PointToInfo ------------------------------
(***************************************************************************)
(* The dataflow value of PointTo.h and what every instruction but call and *)
(* return makes of it.                                                     *)
(*                                                                         *)
(* A PointToInfo is two maps from values to sets of values, pt_map and     *)
(* field_pt_map.  Here it is one set of facts <<m, v, w>>: map m holds w   *)
(* for v.  operator== tells a missing key from an empty set, and the       *)
(* worklists of the analysis depend on it, so every key that is present    *)
(* has the fact <<m, v, NoValue>> besides.  merge is then union.           *)
(***************************************************************************)
EXTENDS IR, FiniteSets

CONSTANT Null    \* the null pointer constant

Pt    == "pt_map"
Field == "field_pt_map"

Pts(D, m, v) == {f[3] : f \in {g \in D : g[1] = m /\ g[2] = v}} \ {NoValue}

\* a slip, for the mutants: the later value replaces the earlier one
Overwrite(dest, src) == src

Merge(dest, src) == dest \cup src

\* operator[] creates the key it does not find
Touch(D, m, V) == D \cup {<<m, v, NoValue>> : v \in V}

\* a slip, for the mutants: clear() is forgotten, so updates are weak
AssignWeakly(D, m, V, S) == D \cup ({m} \X V \X (S \cup {NoValue}))

\* for every v of V: clear(), then insert(S)
Assign(D, m, V, S) == {f \in D : ~(f[1] = m /\ f[2] \in V)}
                        \cup ({m} \X V \X (S \cup {NoValue}))

\* a slip, for the mutants: what v points to is not known yet, and v is forgotten
OnlyKnown(D, v) == Pts(D, Pt, v)

\* "what v points to, or v itself when that is not known yet"
PtsOrSelf(D, v) == IF Pts(D, Pt, v) = {} THEN {v} ELSE Pts(D, Pt, v)

-------------------------------------------------------------------------------
(***************************************************************************)
(* The transfer functions.  D is the value before instruction I of P.      *)
(***************************************************************************)

PhiOut(P, I, D) ==
  LET fromFn == P.inst[I].vals \cap P.fns
      other  == P.inst[I].vals \ (P.fns \cup {Null})
      D1     == Touch(Assign(D, Pt, {I}, {}), Pt, other)
  IN  Assign(D1, Pt, {I}, fromFn \cup UNION {Pts(D1, Pt, v) : v \in other})

StoreOut(P, I, D) ==
  LET val   == P.inst[I].val
      ptr   == P.inst[I].ptr
      D1    == Touch(D, Pt, {val})
      stored == PtsOrSelf(D1, val)
  IN  IF IsOp(P, ptr, "gep")
      THEN LET base == P.inst[ptr].ptr
               D2   == Touch(D1, Pt, {base})
           IN  Assign(D2, Field, PtsOrSelf(D2, base), stored)
      ELSE Assign(D1, Pt, {ptr}, stored)

LoadOut(P, I, D) ==
  LET ptr == P.inst[I].ptr
      D1  == Assign(D, Pt, {I}, {})
  IN  IF IsOp(P, ptr, "gep")
      THEN LET base == P.inst[ptr].ptr
               objs == PtsOrSelf(D1, base)
               D2   == Touch(Touch(D1, Pt, {base}), Field, objs)
           IN  Assign(D2, Pt, {I}, UNION {Pts(D2, Field, v) : v \in objs})
      ELSE LET D2 == Touch(D1, Pt, {ptr})
           IN  Assign(D2, Pt, {I}, Pts(D2, Pt, ptr))

GepOut(P, I, D) ==
  LET base == P.inst[I].ptr
      D1   == Touch(Assign(D, Pt, {I}, {}), Pt, {base})
  IN  Assign(D1, Pt, {I}, PtsOrSelf(D1, base))

\* the sources are references into the maps: clearing dst clears them if dst = src
CopyTo(D, m, dst, src) ==
  LET D1 == Assign(Touch(D, m, {src}), m, {dst}, {})
  IN  Assign(D1, m, {dst}, Pts(D1, m, src))

MemCpyOut(P, I, D) ==
  LET to   == P.inst[I].dst
      from == P.inst[I].src
  IN  IF IsOp(P, to, "bitcast") /\ IsOp(P, from, "bitcast")
      THEN LET dst == P.inst[to].ptr
               src == P.inst[from].ptr
           IN  CopyTo(CopyTo(D, Pt, dst, src), Field, dst, src)
      ELSE D

Out(P, I, D) ==
  CASE P.inst[I].op = "phi"    -> PhiOut(P, I, D)
    [] P.inst[I].op = "store"  -> StoreOut(P, I, D)
    [] P.inst[I].op = "load"   -> LoadOut(P, I, D)
    [] P.inst[I].op = "gep"    -> GepOut(P, I, D)
    [] P.inst[I].op = "memcpy" -> MemCpyOut(P, I, D)
    [] OTHER                   -> D

-------------------------------------------------------------------------------
(***************************************************************************)
(* getValuePointToFunctions walks pt_map from v until only functions are   *)
(* left.  It has no visited set: it comes back only if no value that is    *)
(* not a function is reached from itself.                                  *)
(***************************************************************************)
StepFrom(P, D, v) == {v} \cup (IF v \in P.fns THEN {} ELSE Pts(D, Pt, v))

Walk(P, D, S) ==
  LET keys == {f[2] : f \in D}
      step[n \in 0..Cardinality(keys)] ==
        IF n = 0 THEN S ELSE UNION {StepFrom(P, D, v) : v \in step[n-1]}
  IN  step[Cardinality(keys)]

WalkReturns(P, D, v) ==
  v \in P.fns \/ \A u \in Walk(P, D, Pts(D, Pt, v)) \ P.fns : u \notin Walk(P, D, Pts(D, Pt, u))

PointToFunctions(P, D, v) ==
  IF v \in P.fns THEN {v} ELSE Walk(P, D, Pts(D, Pt, v)) \cap P.fns

-------------------------------------------------------------------------------
(***************************************************************************)
(* Renaming between a call and its callee.  pairs is the iteration order   *)
(* of arg_map, each <<from, to>>: every set that holds from is given to,   *)
(* and the entry of from moves to to, one pair after the other, so that a  *)
(* name introduced by one pair may be renamed by the next.                 *)
(***************************************************************************)
Renamed(v, pairs) ==
  LET after[k \in 0..Len(pairs)] ==      \* the first k pairs
        IF k = 0 THEN v
        ELSE IF after[k-1] = pairs[k][1] THEN pairs[k][2] ELSE after[k-1]
  IN  after[Len(pairs)]

RenameFacts(D, keyPairs, valuePairs) ==
  {<<f[1], Renamed(f[2], keyPairs), Renamed(f[3], valuePairs)>> : f \in D}

\* arg_map.insert keeps the first formal of an actual that is passed twice
ArgPairs(P, I, F, order) ==
  [k \in DOMAIN order |->
     <<order[k], P.params[F][CHOOSE i \in DOMAIN P.inst[I].args :
         /\ P.inst[I].args[i] = order[k]
         /\ \A j \in 1..(i-1) : P.inst[I].args[j] # order[k]]>>]

(***************************************************************************)
(* What call I hands to the entry of callee F, from D before the call; a   *)
(* function passed as an argument is not renamed in the sets but becomes   *)
(* what the formal points to.                                              *)
(***************************************************************************)
PassedTo(P, I, F, order, D) ==
  LET pairs == ArgPairs(P, I, F, order)
      data  == [k \in DOMAIN pairs |->
                  IF pairs[k][1] \in P.fns THEN <<pairs[k][1], pairs[k][1]>> ELSE pairs[k]]
  IN  RenameFacts(D, pairs, data)
        \cup UNION {{Pt} \X {p[2]} \X {p[1], NoValue} : p \in {q \in ToSet(pairs) : q[1] \in P.fns}}

(***************************************************************************)
(* What return R of F hands back to call I, from D before the return: the  *)
(* returned value becomes the call, formals become actuals.                *)
(***************************************************************************)
ReturnedTo(P, I, F, order, R, D) ==
  LET pairs == ArgPairs(P, I, F, order)
      back  == [k \in DOMAIN pairs |-> <<pairs[k][2], pairs[k][1]>>]
      val   == P.inst[R].val
      D1    == IF val \in {NoValue, NonPtr} THEN D
               ELSE {<<f[1], IF f[1] = Pt /\ f[2] = val THEN I ELSE f[2], f[3]>> : f \in D}
                      \cup {<<Pt, I, NoValue>>}
  IN  RenameFacts(D1, back, back)
===============================================================================
