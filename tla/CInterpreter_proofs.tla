--------------------------- MODULE CInterpreter_proofs ---------------------------
(***************************************************************************)
(* Theorems about the C interpreter, for every program and every input:    *)
(* its frames, kept values and heap are typed; each of its steps is one of *)
(* the visitor of CVisitor; and so the stack of frames matches the calls   *)
(* under way and no value is stale.                                        *)
(*                                                                         *)
(* Three things are shown of the environment's recursion: that the list of *)
(* what is under evaluation comes to its end, what the evaluation changes  *)
(* in the frames, and that the types survive it.                           *)
(***************************************************************************)
EXTENDS CInterpreter, FiniteSetTheorems, FunctionTheorems, SequenceTheorems,
        WellFoundedInduction, TLAPS

-------------------------------------------------------------------------------
(* Environments: the types of what util.h keeps.                            *)

\* the kinds of nodes whose value is kept
Keeps == {"bin", "asg", "neg", "deref", "sizeof", "index", "call"}

IsFrame(f) ==
  /\ DOMAIN f = {"varmap", "exprmap", "ret"}
  /\ \A d \in DOMAIN f.varmap : f.varmap[d] \in Seq(Int) /\ f.varmap[d] # <<>>
  /\ \A e \in DOMAIN f.exprmap : e \in DOMAIN Code /\ K(e) \in Keeps /\ f.exprmap[e] \in Int
  /\ f.ret \in Seq(Int)

\* brk lies behind all blocks, and these behind one another
IsMemory(mem, blocks, brk) ==
  /\ brk \in Int
  /\ \A b \in DOMAIN blocks : /\ b \in Int /\ b < brk
                              /\ \A a \in blocks[b] : a \in Int /\ a < brk
  /\ \A b, c \in DOMAIN blocks : b # c => blocks[b] \cap blocks[c] = {}
  /\ DOMAIN mem = UNION {blocks[b] : b \in DOMAIN blocks}
  /\ \A a \in DOMAIN mem : mem[a] \in Int

IsEnv(s) ==
  /\ DOMAIN s = {"frames", "heap", "mem", "blocks", "brk", "input", "output", "fault"}
  /\ Len(s.frames) \in Nat \ {0} /\ DOMAIN s.frames = 1..Len(s.frames)
  /\ \A f \in 1..Len(s.frames) : IsFrame(s.frames[f])
  /\ IsMemory(s.mem, s.blocks, s.brk) /\ DOMAIN s.blocks \subseteq s.heap
  /\ s.input \in Seq(Int)
  /\ s.fault \in {"none", "assertion", "undefined"}

\* From s to t the frame at hand gains values of expressions in what, and the variables ds.
Changes(s, t, what, ds) ==
  /\ Depth(t) = Depth(s)
  /\ \A f \in 1..Depth(s) :
       /\ t.frames[f].ret = s.frames[f].ret
       /\ DOMAIN t.frames[f].varmap
            = DOMAIN s.frames[f].varmap \cup (IF f = Depth(s) THEN ds ELSE {})
       /\ DOMAIN s.frames[f].exprmap \subseteq DOMAIN t.frames[f].exprmap
       /\ DOMAIN t.frames[f].exprmap
            \subseteq DOMAIN s.frames[f].exprmap \cup (IF f = Depth(s) THEN what ELSE {})

(* What leaves the frames alone changes nothing in them.                    *)
LEMMA ChangesNothing ==
  ASSUME NEW s, NEW t, t.frames = s.frames, NEW what
  PROVE  Changes(s, t, what, {})
BY DEF Changes, Depth

(* One change after another is a change.                                    *)
LEMMA ChangesMore ==
  ASSUME NEW s, NEW t, NEW u, IsEnv(s), NEW w, NEW x, NEW what, NEW ds, NEW es,
         Changes(s, t, w, ds), Changes(t, u, x, es), w \subseteq what, x \subseteq what
  PROVE  Changes(s, u, what, ds \cup es)
<1>1. Depth(u) = Depth(s) /\ Depth(t) = Depth(s)
  BY DEF Changes
<1>2. ASSUME NEW f \in 1..Depth(s)
      PROVE  /\ u.frames[f].ret = s.frames[f].ret
             /\ DOMAIN u.frames[f].varmap
                  = DOMAIN s.frames[f].varmap \cup (IF f = Depth(s) THEN ds \cup es ELSE {})
             /\ DOMAIN s.frames[f].exprmap \subseteq DOMAIN u.frames[f].exprmap
             /\ DOMAIN u.frames[f].exprmap
                  \subseteq DOMAIN s.frames[f].exprmap \cup (IF f = Depth(s) THEN what ELSE {})
  <2>1. /\ t.frames[f].ret = s.frames[f].ret
        /\ DOMAIN t.frames[f].varmap
             = DOMAIN s.frames[f].varmap \cup (IF f = Depth(s) THEN ds ELSE {})
        /\ DOMAIN s.frames[f].exprmap \subseteq DOMAIN t.frames[f].exprmap
        /\ DOMAIN t.frames[f].exprmap
             \subseteq DOMAIN s.frames[f].exprmap \cup (IF f = Depth(s) THEN w ELSE {})
    BY DEF Changes
  <2>2. /\ u.frames[f].ret = t.frames[f].ret
        /\ DOMAIN u.frames[f].varmap
             = DOMAIN t.frames[f].varmap \cup (IF f = Depth(s) THEN es ELSE {})
        /\ DOMAIN t.frames[f].exprmap \subseteq DOMAIN u.frames[f].exprmap
        /\ DOMAIN u.frames[f].exprmap
             \subseteq DOMAIN t.frames[f].exprmap \cup (IF f = Depth(s) THEN x ELSE {})
    BY <1>1 DEF Changes
  <2> QED BY <2>1, <2>2
<1> QED BY <1>1, <1>2 DEF Changes

(* One frame is replaced.                                                   *)
Replaced(s, f, g) == [s EXCEPT !.frames = [s.frames EXCEPT ![f] = g]]

(* A frame may take the place of another.                                   *)
LEMMA FrameReplaced ==
  ASSUME NEW s, IsEnv(s), NEW f \in 1..Depth(s), NEW g, IsFrame(g), NEW t, t = Replaced(s, f, g)
  PROVE  /\ IsEnv(t) /\ Depth(t) = Depth(s)
         /\ \A i \in 1..Depth(s) : t.frames[i] = IF i = f THEN g ELSE s.frames[i]
<1>1. /\ t.frames = [s.frames EXCEPT ![f] = g] /\ DOMAIN t = DOMAIN s
      /\ t.mem = s.mem /\ t.blocks = s.blocks /\ t.brk = s.brk /\ t.heap = s.heap
      /\ t.input = s.input /\ t.fault = s.fault
  BY DEF IsEnv, Replaced
<1>2. /\ Depth(s) \in Nat \ {0} /\ DOMAIN s.frames = 1..Depth(s) /\ Len(s.frames) = Depth(s)
      /\ \A i \in 1..Depth(s) : IsFrame(s.frames[i])
  BY DEF IsEnv, Depth
<1>3. DOMAIN t.frames = 1..Depth(s) /\ Len(t.frames) = Depth(s)
  BY <1>1, <1>2
<1>4. \A i \in 1..Depth(s) : t.frames[i] = IF i = f THEN g ELSE s.frames[i]
  BY <1>1, <1>2
<1>5. \A i \in 1..Depth(s) : IsFrame(t.frames[i])
  BY <1>2, <1>4
<1> QED BY <1>1, <1>2, <1>3, <1>4, <1>5 DEF IsEnv, Depth

(* What is not a frame is replaced.                                         *)
LEMMA FramesKept ==
  ASSUME NEW s, IsEnv(s), NEW t, DOMAIN t = DOMAIN s, t.frames = s.frames,
         IsMemory(t.mem, t.blocks, t.brk), DOMAIN t.blocks \subseteq t.heap, t.input \in Seq(Int),
         t.fault \in {"none", "assertion", "undefined"}
  PROVE  IsEnv(t)
BY DEF IsEnv

(* A fault is all that Fault leaves behind.                                 *)
LEMMA FaultFacts ==
  ASSUME NEW s, IsEnv(s), NEW why \in {"assertion", "undefined"}
  PROVE  /\ IsEnv(Fault(why, s)) /\ Fault(why, s).frames = s.frames
         /\ \A x \in DOMAIN s \ {"fault"} : Fault(why, s)[x] = s[x]
<1> DEFINE t == Fault(why, s)
<1>1. CASE s.fault = "none"
  <2>1. t = [s EXCEPT !.fault = why]
    BY <1>1 DEF Fault
  <2> HIDE DEF t
  <2>2. /\ DOMAIN t = DOMAIN s /\ t.frames = s.frames /\ t.fault = why
        /\ t.mem = s.mem /\ t.blocks = s.blocks /\ t.brk = s.brk /\ t.input = s.input
        /\ t.heap = s.heap
        /\ \A x \in DOMAIN s \ {"fault"} : t[x] = s[x]
    BY <2>1 DEF IsEnv
  <2>3. IsEnv(t)
    BY <2>2, FramesKept DEF IsEnv
  <2> QED BY <2>2, <2>3 DEF t
<1>2. CASE s.fault # "none"
  BY <1>2 DEF Fault
<1> QED BY <1>1, <1>2

(* An assertion leaves no more than its failure behind.                     *)
LEMMA CheckFacts ==
  ASSUME NEW s, IsEnv(s), NEW holds
  PROVE  /\ IsEnv(Check(holds, s)) /\ Check(holds, s).frames = s.frames
         /\ \A x \in DOMAIN s \ {"fault"} : Check(holds, s)[x] = s[x]
BY FaultFacts DEF Check

-------------------------------------------------------------------------------
(* The operations of util.h.                                                *)

(* push keeps a value of e, and nothing else changes in the frames          *)
(* (util.h:64-67).                                                          *)
LEMMA PushExprFacts ==
  ASSUME NEW s, IsEnv(s), NEW e \in DOMAIN Code, K(e) \in Keeps, NEW v \in Int,
         NEW t, t = PushExpr(e, v, s)
  PROVE  IsEnv(t) /\ Changes(s, t, {e}, {}) /\ HasExpr(e, t)
<1> DEFINE d == Depth(s)
           m == Added(s.frames[d].exprmap, e, v)
           g == [s.frames[d] EXCEPT !.exprmap = m]
<1>1. t = Replaced(s, d, g)
  BY DEF Replaced, PushExpr
<1>2. d \in 1..Depth(s) /\ IsFrame(s.frames[d]) /\ d \in Nat
  BY DEF IsEnv, Depth
<1>3. /\ g.varmap = s.frames[d].varmap /\ g.exprmap = m /\ g.ret = s.frames[d].ret
      /\ DOMAIN g = {"varmap", "exprmap", "ret"}
  BY <1>2 DEF IsFrame
<1>4. /\ DOMAIN m = DOMAIN s.frames[d].exprmap \cup {e}
      /\ \A x \in DOMAIN m : m[x] = IF x \in DOMAIN s.frames[d].exprmap
                                    THEN s.frames[d].exprmap[x] ELSE v
  BY DEF Added
<1> HIDE DEF m, g
<1>5. IsFrame(g)
  BY <1>2, <1>3, <1>4 DEF IsFrame
<1>6. /\ IsEnv(t) /\ Depth(t) = d
      /\ \A i \in 1..d : t.frames[i] = IF i = d THEN g ELSE s.frames[i]
  <2> HIDE DEF d
  <2> QED BY <1>1, <1>2, <1>5, FrameReplaced DEF d
<1>7. HasExpr(e, t)
  BY <1>2, <1>3, <1>4, <1>6 DEF HasExpr, Top
<1> QED BY <1>2, <1>3, <1>4, <1>6, <1>7 DEF Changes

(* A declaration gets entries in the topmost frame (util.h:23-34).          *)
LEMMA PushEntriesFacts ==
  ASSUME NEW s, IsEnv(s), NEW d, NEW vs \in Seq(Int), vs # <<>>,
         NEW t, t = PushEntries(d, vs, s)
  PROVE  IsEnv(t) /\ Changes(s, t, {}, {d})
<1> DEFINE n == Depth(s)
           old == s.frames[n].varmap
           m == [c \in DOMAIN old \cup {d} |->
                   (IF c = d THEN vs ELSE <<>>) \o (IF c \in DOMAIN old THEN old[c] ELSE <<>>)]
           g == [s.frames[n] EXCEPT !.varmap = m]
<1>1. t = Replaced(s, n, g)
  BY DEF Replaced, PushEntries
<1>2. n \in 1..Depth(s) /\ IsFrame(s.frames[n]) /\ n \in Nat
  BY DEF IsEnv, Depth
<1>3. /\ g.varmap = m /\ g.exprmap = s.frames[n].exprmap /\ g.ret = s.frames[n].ret
      /\ DOMAIN g = {"varmap", "exprmap", "ret"}
  BY <1>2 DEF IsFrame
<1>4. ASSUME NEW c \in DOMAIN m
      PROVE  m[c] \in Seq(Int) /\ m[c] # <<>>
  <2>1. c \in DOMAIN old => old[c] \in Seq(Int) /\ old[c] # <<>>
    BY <1>2 DEF IsFrame
  <2> DEFINE a == IF c = d THEN vs ELSE <<>>
             b == IF c \in DOMAIN old THEN old[c] ELSE <<>>
  <2>2. a \in Seq(Int) /\ b \in Seq(Int)
    BY <2>1
  <2>3. a # <<>> \/ b # <<>>
    BY <2>1
  <2>4. m[c] = a \o b
    OBVIOUS
  <2> HIDE DEF a, b, m
  <2> QED BY <2>2, <2>3, <2>4
<1>5. DOMAIN m = DOMAIN old \cup {d}
  OBVIOUS
<1> HIDE DEF m, g
<1>6. IsFrame(g)
  BY <1>2, <1>3, <1>4 DEF IsFrame
<1>7. /\ IsEnv(t) /\ Depth(t) = n
      /\ \A i \in 1..n : t.frames[i] = IF i = n THEN g ELSE s.frames[i]
  <2> HIDE DEF n
  <2> QED BY <1>1, <1>2, <1>6, FrameReplaced DEF n
<1> QED BY <1>2, <1>3, <1>5, <1>7 DEF Changes

\* a set of places that is not empty has a last one
LEMMA Last1 ==
  ASSUME NEW n \in Nat, NEW S \in SUBSET (1..n), S # {}
  PROVE  Max(S) \in S
<1> DEFINE T == {n - k : k \in S}
<1>1. T \subseteq Nat /\ T # {}
  <2>1. \A k \in S : n - k \in Nat
    OBVIOUS
  <2> QED BY <2>1
<1>2. PICK x \in T : \A y \in T : ~ (<<y, x>> \in OpToRel(<, Nat))
  <2> HIDE DEF T
  <2> QED BY <1>1, WFMin, NatLessThanWellFounded, Zenon
<1>3. \A y \in T : ~ (y < x)
  BY <1>1, <1>2 DEF OpToRel
<1>4. PICK k \in S : x = n - k
  OBVIOUS
<1>5. \A j \in S : j \in Nat /\ ~ (n - j < n - k)
  BY <1>3, <1>4
<1>6. \A j \in S : k >= j
  BY <1>4, <1>5
<1> QED BY <1>4, <1>6 DEF Max

(* The frame that is found for a declaration has an entry of it             *)
(* (util.h:58-61).                                                          *)
LEMMA VarDeclaredFacts ==
  ASSUME NEW s, IsEnv(s), NEW d, VarDeclared(d, s) # 0
  PROVE  /\ VarDeclared(d, s) \in 1..Depth(s)
         /\ d \in DOMAIN s.frames[VarDeclared(d, s)].varmap
         /\ s.frames[VarDeclared(d, s)].varmap[d] \in Seq(Int)
         /\ s.frames[VarDeclared(d, s)].varmap[d] # <<>>
<1> DEFINE F == FramesWith(d, s)
<1>1. F # {} /\ VarDeclared(d, s) = Max(F)
  BY DEF VarDeclared
<1>2. F \subseteq 1..Depth(s) /\ Depth(s) \in Nat
  BY DEF FramesWith, IsEnv, Depth
<1>3. Max(F) \in F
  <2> HIDE DEF F
  <2> QED BY <1>1, <1>2, Last1
<1>4. VarDeclared(d, s) \in 1..Depth(s) /\ d \in DOMAIN s.frames[VarDeclared(d, s)].varmap
  BY <1>1, <1>2, <1>3 DEF FramesWith
<1>5. IsFrame(s.frames[VarDeclared(d, s)])
  BY <1>4 DEF IsEnv, Depth
<1> QED BY <1>4, <1>5 DEF IsFrame

\* whether a variable is declared is a matter of the maps' domains
LEMMA VarDeclaredSame ==
  ASSUME NEW s, NEW t, NEW what, Changes(s, t, what, {}), NEW d
  PROVE  VarDeclared(d, t) = VarDeclared(d, s)
<1>1. FramesWith(d, t) = FramesWith(d, s)
  BY DEF FramesWith, Changes
<1> QED BY <1>1 DEF VarDeclared

(* A variable's value is an int, and reading it changes no frame            *)
(* (util.h:36-40).                                                          *)
LEMMA GetVarFacts ==
  ASSUME NEW s, IsEnv(s), NEW d
  PROVE  GetVar(d, s).v \in Int /\ IsEnv(GetVar(d, s).s) /\ GetVar(d, s).s.frames = s.frames
<1> DEFINE entries == s.frames[VarDeclared(d, s)].varmap[d]
           t == Check(Len(entries) = 1, s)
<1>1. CASE VarDeclared(d, s) = 0
  BY <1>1 DEF GetVar, With
<1>2. CASE VarDeclared(d, s) # 0
  <2>1. GetVar(d, s) = With(entries[1], t)
    BY <1>2 DEF GetVar
  <2>2. entries[1] \in Int
    <3>1. entries \in Seq(Int) /\ entries # <<>>
      BY <1>2, VarDeclaredFacts
    <3> HIDE DEF entries
    <3> QED BY <3>1
  <2>3. IsEnv(t) /\ t.frames = s.frames
    BY CheckFacts
  <2> HIDE DEF entries, t
  <2> QED BY <2>1, <2>2, <2>3 DEF With
<1> QED BY <1>1, <1>2

(* So it is with an array's element (util.h:42-56).                         *)
LEMMA GetElementFacts ==
  ASSUME NEW s, IsEnv(s), NEW d, VarDeclared(d, s) # 0, NEW i \in Int
  PROVE  /\ GetElement(d, i, s).v \in Int /\ IsEnv(GetElement(d, i, s).s)
         /\ GetElement(d, i, s).s.frames = s.frames
<1> DEFINE entries == s.frames[VarDeclared(d, s)].varmap[d]
           inside == i >= 0 /\ i < Len(entries)
           t == Check(inside, s)
           v == IF inside THEN entries[i + 1] ELSE 0
<1>1. GetElement(d, i, s) = With(v, t)
  BY DEF GetElement
<1>2. v \in Int
  <2>1. entries \in Seq(Int)
    BY VarDeclaredFacts
  <2> HIDE DEF entries
  <2> QED BY <2>1
<1>3. IsEnv(t) /\ t.frames = s.frames
  BY CheckFacts
<1> HIDE DEF t, v
<1> QED BY <1>1, <1>2, <1>3 DEF With

(* An entry of a variable is overwritten.                                   *)
LEMMA EntrySet ==
  ASSUME NEW s, IsEnv(s), NEW k \in 1..Depth(s), NEW d \in DOMAIN s.frames[k].varmap, NEW i,
         NEW v \in Int
  PROVE  /\ IsEnv([s EXCEPT !.frames[k].varmap[d][i] = v])
         /\ Changes(s, [s EXCEPT !.frames[k].varmap[d][i] = v], {}, {})
<1> DEFINE old == s.frames[k].varmap
           e == [old[d] EXCEPT ![i] = v]
           m == [old EXCEPT ![d] = e]
           g == [s.frames[k] EXCEPT !.varmap = m]
           t == Replaced(s, k, g)
<1>1. t = [s EXCEPT !.frames[k].varmap[d][i] = v]
  BY DEF Replaced
<1>2. IsFrame(s.frames[k]) /\ Depth(s) \in Nat
  BY DEF IsEnv, Depth
<1>3. old[d] \in Seq(Int) /\ old[d] # <<>>
  BY <1>2 DEF IsFrame
<1>4. e \in Seq(Int) /\ e # <<>>
  <2>1. PICK q \in Seq(Int) : q = old[d]
    BY <1>3
  <2>2. PICK w : w = [q EXCEPT ![i] = v]
    OBVIOUS
  <2>3. CASE i \in 1..Len(q)
    <3>1. w \in Seq(Int) /\ Len(w) = Len(q)
      BY <2>2, <2>3, ExceptSeq
    <3>2. Len(q) \in Nat \ {0}
      BY <2>1, <1>3
    <3> QED BY <2>1, <2>2, <3>1, <3>2
  <2>4. CASE i \notin 1..Len(q)
    <3>1. w = q
      BY <2>2, <2>4
    <3> QED BY <1>3, <2>1, <2>2, <3>1
  <2> QED BY <2>3, <2>4
<1>5. /\ g.varmap = m /\ g.exprmap = s.frames[k].exprmap /\ g.ret = s.frames[k].ret
      /\ DOMAIN g = {"varmap", "exprmap", "ret"}
  BY <1>2 DEF IsFrame
<1>6. DOMAIN m = DOMAIN old /\ \A c \in DOMAIN m : m[c] = IF c = d THEN e ELSE old[c]
  OBVIOUS
<1> HIDE DEF e, m, g
<1>7. IsFrame(g)
  <2>1. \A c \in DOMAIN old : old[c] \in Seq(Int) /\ old[c] # <<>>
    BY <1>2 DEF IsFrame
  <2>2. \A c \in DOMAIN m : m[c] \in Seq(Int) /\ m[c] # <<>>
    <3> HIDE DEF old
    <3> QED BY <1>4, <1>6, <2>1
  <2> QED BY <1>2, <1>5, <2>2 DEF IsFrame
<1>8. /\ IsEnv(t) /\ Depth(t) = Depth(s)
      /\ \A j \in 1..Depth(s) : t.frames[j] = IF j = k THEN g ELSE s.frames[j]
  BY <1>7, FrameReplaced
<1> HIDE DEF t
<1>9. DOMAIN g.varmap = DOMAIN old /\ g.exprmap = s.frames[k].exprmap /\ g.ret = s.frames[k].ret
  BY <1>5, <1>6
<1>10. \A j \in 1..Depth(s) : /\ t.frames[j].ret = s.frames[j].ret
                              /\ DOMAIN t.frames[j].varmap = DOMAIN s.frames[j].varmap
                              /\ t.frames[j].exprmap = s.frames[j].exprmap
  BY <1>8, <1>9
<1>11. IsEnv(t) /\ Changes(s, t, {}, {})
  BY <1>8, <1>10 DEF Changes
<1> QED BY <1>1, <1>11, Zenon

(* Writing a variable gives a value to a declaration that has one.          *)
LEMMA SetVarFacts ==
  ASSUME NEW s, IsEnv(s), NEW d, NEW v \in Int
  PROVE  IsEnv(SetVar(d, v, s)) /\ Changes(s, SetVar(d, v, s), {}, {})
<1> DEFINE t == GetVar(d, s).s
           f == VarDeclared(d, s)
<1>1. CASE f = 0
  BY <1>1, ChangesNothing DEF SetVar
<1>2. CASE f # 0
  <2>1. IsEnv(t) /\ t.frames = s.frames
    BY GetVarFacts
  <2>2. f \in 1..Depth(t) /\ d \in DOMAIN t.frames[f].varmap
    BY <1>2, <2>1, VarDeclaredFacts DEF Depth
  <2>3. PICK u : u = [t EXCEPT !.frames[f].varmap[d][1] = v]
    OBVIOUS
  <2>4. u = SetVar(d, v, s)
    BY <1>2, <2>3 DEF SetVar
  <2> HIDE DEF t, f
  <2>5. IsEnv(u) /\ Changes(t, u, {}, {})
    BY <2>1, <2>2, <2>3, EntrySet, Zenon
  <2> QED BY <2>1, <2>4, <2>5 DEF Changes, Depth
<1> QED BY <1>1, <1>2

(* So does writing an element.                                              *)
LEMMA SetElementFacts ==
  ASSUME NEW s, IsEnv(s), NEW d, VarDeclared(d, s) # 0, NEW i \in Int, NEW v \in Int
  PROVE  IsEnv(SetElement(d, i, v, s)) /\ Changes(s, SetElement(d, i, v, s), {}, {})
<1> DEFINE t == GetElement(d, i, s).s
           f == VarDeclared(d, s)
<1>1. IsEnv(t) /\ t.frames = s.frames
  BY GetElementFacts
<1>2. CASE t.fault # "none"
  BY <1>1, <1>2, ChangesNothing DEF SetElement
<1>3. CASE t.fault = "none"
  <2>2. f \in 1..Depth(t) /\ d \in DOMAIN t.frames[f].varmap
    BY <1>1, VarDeclaredFacts DEF Depth
  <2>3. PICK u : u = [t EXCEPT !.frames[f].varmap[d][i + 1] = v]
    OBVIOUS
  <2>4. u = SetElement(d, i, v, s)
    BY <1>3, <2>3 DEF SetElement
  <2> HIDE DEF t, f
  <2>5. IsEnv(u) /\ Changes(t, u, {}, {})
    BY <1>1, <2>2, <2>3, EntrySet, Zenon
  <2> QED BY <1>1, <2>4, <2>5 DEF Changes, Depth
<1> QED BY <1>2, <1>3

(* A read of the heap gives an int, and without a fault the cell is         *)
(* allocated (util.h:127-131).                                              *)
LEMMA GetCellFacts ==
  ASSUME NEW s, IsEnv(s), NEW a
  PROVE  /\ GetCell(a, s).v \in Int /\ IsEnv(GetCell(a, s).s) /\ GetCell(a, s).s.frames = s.frames
         /\ GetCell(a, s).s.fault = "none" => a \in DOMAIN GetCell(a, s).s.mem
<1> DEFINE t == Check(a \in s.heap, s)
           u == Fault("undefined", t)
<1>1. IsEnv(t) /\ t.frames = s.frames
  BY CheckFacts
<1>2. IsEnv(u) /\ u.frames = t.frames /\ u.fault # "none"
  <2> HIDE DEF t
  <2>1. IsEnv(u) /\ u.frames = t.frames
    BY <1>1, FaultFacts
  <2>2. u.fault # "none"
    BY <1>1 DEF Fault, IsEnv
  <2> QED BY <2>1, <2>2
<1>3. a \in DOMAIN t.mem => t.mem[a] \in Int
  BY <1>1 DEF IsEnv, IsMemory
<1>4. GetCell(a, s) = IF a \in DOMAIN t.mem THEN With(t.mem[a], t) ELSE With(0, u)
  BY DEF GetCell
<1> HIDE DEF t, u
<1> QED BY <1>1, <1>2, <1>3, <1>4 DEF With

(* A write to the heap changes no frame.                                    *)
LEMMA SetCellFacts ==
  ASSUME NEW s, IsEnv(s), NEW a, NEW v \in Int
  PROVE  IsEnv(SetCell(a, v, s)) /\ SetCell(a, v, s).frames = s.frames
<1> DEFINE t == GetCell(a, s).s
<1>1. IsEnv(t) /\ t.frames = s.frames /\ (t.fault = "none" => a \in DOMAIN t.mem)
  BY GetCellFacts
<1>2. CASE t.fault # "none"
  BY <1>1, <1>2 DEF SetCell
<1>3. CASE t.fault = "none"
  <2>1. PICK u : u = [t EXCEPT !.mem[a] = v]
    OBVIOUS
  <2>2. u = SetCell(a, v, s)
    BY <1>3, <2>1 DEF SetCell
  <2> HIDE DEF t
  <2>3. PICK m : m = [t.mem EXCEPT ![a] = v]
    OBVIOUS
  <2>4. DOMAIN m = DOMAIN t.mem /\ \A x \in DOMAIN m : m[x] = IF x = a THEN v ELSE t.mem[x]
    BY <2>3
  <2>5. /\ DOMAIN u = DOMAIN t /\ u.frames = t.frames /\ u.blocks = t.blocks /\ u.brk = t.brk
        /\ u.input = t.input /\ u.fault = t.fault /\ u.mem = m /\ u.heap = t.heap
    BY <1>1, <2>1, <2>3 DEF IsEnv
  <2>6. IsMemory(u.mem, u.blocks, u.brk)
    <3>1. IsMemory(t.mem, t.blocks, t.brk)
      BY <1>1 DEF IsEnv
    <3>2. \A x \in DOMAIN m : m[x] \in Int
      BY <2>4, <3>1 DEF IsMemory
    <3> QED BY <2>4, <2>5, <3>1, <3>2 DEF IsMemory
  <2>7. IsEnv(u)
    <3>1. /\ u.input \in Seq(Int) /\ u.fault \in {"none", "assertion", "undefined"}
          /\ DOMAIN u.blocks \subseteq u.heap
      BY <1>1, <2>5 DEF IsEnv
    <3> QED BY <1>1, <2>5, <2>6, <3>1, FramesKept
  <2> QED BY <1>1, <2>2, <2>5, <2>7
<1> QED BY <1>2, <1>3

(* malloc gives cells that nobody has, and registers them                   *)
(* (Environment.h:309-317).                                                 *)
LEMMA MallocFacts ==
  ASSUME NEW s, IsEnv(s), NEW size \in Int
  PROVE  /\ Malloc(size, s).v \in Int /\ IsEnv(Malloc(size, s).s)
         /\ Malloc(size, s).s.frames = s.frames
<1> DEFINE cells == {s.brk + CellSize * i : i \in 0..((size \div CellSize) - 1)}
           mem == [a \in DOMAIN s.mem \cup cells |-> IF a \in cells THEN 0 ELSE s.mem[a]]
           blocks == Added(s.blocks, s.brk, cells)
           f == [s EXCEPT !.mem = mem, !.blocks = blocks, !.brk = s.brk + size + CellSize]
           t == [f EXCEPT !.heap = f.heap \cup {s.brk}]
<1>1. CASE size < 0
  <2>1. Malloc(size, s) = With(0, Fault("undefined", s))
    BY <1>1 DEF Malloc
  <2>2. IsEnv(Fault("undefined", s)) /\ Fault("undefined", s).frames = s.frames
    BY FaultFacts
  <2> QED BY <2>1, <2>2 DEF With
<1>2. CASE ~ (size < 0)
  <2>1. Malloc(size, s) = With(s.brk, t)
    BY <1>2 DEF Malloc, Fresh
  <2>2. IsMemory(s.mem, s.blocks, s.brk) /\ s.brk \in Int
    BY DEF IsEnv, IsMemory
  <2>3. \A a \in cells : a \in Int /\ s.brk <= a /\ a < s.brk + size + CellSize
    BY <1>2, <2>2 DEF CellSize
  <2>4. /\ DOMAIN blocks = DOMAIN s.blocks \cup {s.brk} /\ s.brk \notin DOMAIN s.blocks
        /\ \A b \in DOMAIN s.blocks : blocks[b] = s.blocks[b]
        /\ blocks[s.brk] = cells
    <3>1. s.brk \notin DOMAIN s.blocks
      BY <2>2 DEF IsMemory
    <3> HIDE DEF cells
    <3> QED BY <3>1 DEF Added
  <2>5. /\ DOMAIN mem = DOMAIN s.mem \cup cells
        /\ \A a \in DOMAIN mem : mem[a] = IF a \in cells THEN 0 ELSE s.mem[a]
    OBVIOUS
  <2>6. /\ DOMAIN t = DOMAIN s /\ t.frames = s.frames /\ t.mem = mem /\ t.blocks = blocks
        /\ t.brk = s.brk + size + CellSize /\ t.input = s.input /\ t.fault = s.fault
        /\ t.heap = s.heap \cup {s.brk}
    <3> HIDE DEF mem, blocks
    <3> QED BY DEF IsEnv
  <2> HIDE DEF cells, mem, blocks, t
  <2>7. s.brk < t.brk /\ t.brk \in Int
    BY <1>2, <2>2, <2>6 DEF CellSize
  <2>8. IsMemory(t.mem, t.blocks, t.brk)
    <3>1. \A b \in DOMAIN blocks : /\ b \in Int /\ b < t.brk
                                   /\ \A a \in blocks[b] : a \in Int /\ a < t.brk
      <4>1. \A b \in DOMAIN s.blocks : /\ b \in Int /\ b < s.brk
                                       /\ \A a \in s.blocks[b] : a \in Int /\ a < s.brk
        BY <2>2 DEF IsMemory
      <4> QED BY <2>2, <2>3, <2>4, <2>6, <2>7, <4>1
    <3>2. \A b, c \in DOMAIN blocks : b # c => blocks[b] \cap blocks[c] = {}
      <4>1. \A b \in DOMAIN s.blocks : s.blocks[b] \cap cells = {}
        <5>1. \A b \in DOMAIN s.blocks : \A a \in s.blocks[b] : a \in Int /\ a < s.brk
          BY <2>2 DEF IsMemory
        <5>2. \A a \in cells : ~ (a < s.brk)
          BY <2>2, <2>3
        <5> QED BY <5>1, <5>2
      <4>2. \A b, c \in DOMAIN s.blocks : b # c => s.blocks[b] \cap s.blocks[c] = {}
        BY <2>2 DEF IsMemory
      <4> QED BY <2>4, <4>1, <4>2
    <3>3. DOMAIN mem = UNION {blocks[b] : b \in DOMAIN blocks}
      <4>1. DOMAIN s.mem = UNION {s.blocks[b] : b \in DOMAIN s.blocks}
        BY <2>2 DEF IsMemory
      <4> QED BY <2>4, <2>5, <4>1
    <3>4. \A a \in DOMAIN mem : mem[a] \in Int
      <4>1. \A a \in DOMAIN s.mem : s.mem[a] \in Int
        BY <2>2 DEF IsMemory
      <4> QED BY <2>5, <4>1
    <3> QED BY <2>6, <2>7, <3>1, <3>2, <3>3, <3>4 DEF IsMemory
  <2>9. IsEnv(t)
    <3>1. t.input \in Seq(Int) /\ t.fault \in {"none", "assertion", "undefined"}
      BY <2>6 DEF IsEnv
    <3>2. DOMAIN t.blocks \subseteq t.heap
      BY <2>4, <2>6 DEF IsEnv
    <3> QED BY <2>6, <2>8, <3>1, <3>2, FramesKept
  <2> QED BY <2>1, <2>2, <2>6, <2>9 DEF With
<1> QED BY <1>1, <1>2

(* free takes the cells of a block away.                                    *)
LEMMA FreeFacts ==
  ASSUME NEW s, IsEnv(s), NEW a
  PROVE  IsEnv(Free(a, s)) /\ Free(a, s).frames = s.frames
<1> DEFINE t == Check(a \in s.heap, s)
           mem == [c \in DOMAIN t.mem \ t.blocks[a] |-> t.mem[c]]
           blocks == [b \in DOMAIN t.blocks \ {a} |-> t.blocks[b]]
           u == [t EXCEPT !.mem = mem, !.blocks = blocks]
<1>1. IsEnv(t) /\ t.frames = s.frames
  BY CheckFacts
<1>2. CASE a \notin DOMAIN t.blocks
  <2>1. Free(a, s) = Fault("undefined", t)
    BY <1>2 DEF Free
  <2> HIDE DEF t
  <2> QED BY <1>1, <2>1, FaultFacts
<1>3. CASE a \in DOMAIN t.blocks
  <2>1. Free(a, s) = u
    BY <1>3 DEF Free
  <2> HIDE DEF t
  <2>2. IsMemory(t.mem, t.blocks, t.brk)
    BY <1>1 DEF IsEnv
  <2>3. /\ DOMAIN mem = DOMAIN t.mem \ t.blocks[a] /\ \A c \in DOMAIN mem : mem[c] = t.mem[c]
        /\ DOMAIN blocks = DOMAIN t.blocks \ {a}
        /\ \A b \in DOMAIN blocks : blocks[b] = t.blocks[b]
    OBVIOUS
  <2>4. /\ DOMAIN u = DOMAIN t /\ u.frames = t.frames /\ u.mem = mem /\ u.blocks = blocks
        /\ u.brk = t.brk /\ u.input = t.input /\ u.fault = t.fault /\ u.heap = t.heap
    <3> HIDE DEF mem, blocks
    <3> QED BY <1>1 DEF IsEnv
  <2> HIDE DEF mem, blocks, u
  <2>5. IsMemory(u.mem, u.blocks, u.brk)
    <3>1. /\ t.brk \in Int
          /\ \A b \in DOMAIN t.blocks : /\ b \in Int /\ b < t.brk
                                        /\ \A x \in t.blocks[b] : x \in Int /\ x < t.brk
          /\ \A b, c \in DOMAIN t.blocks : b # c => t.blocks[b] \cap t.blocks[c] = {}
          /\ DOMAIN t.mem = UNION {t.blocks[b] : b \in DOMAIN t.blocks}
          /\ \A x \in DOMAIN t.mem : t.mem[x] \in Int
      BY <2>2 DEF IsMemory
    <3>2. DOMAIN mem = UNION {blocks[b] : b \in DOMAIN blocks}
      <4>1. ASSUME NEW x \in DOMAIN mem
            PROVE  \E b \in DOMAIN blocks : x \in blocks[b]
        <5>1. PICK b \in DOMAIN t.blocks : x \in t.blocks[b]
          BY <2>3, <3>1
        <5> QED BY <2>3, <5>1
      <4>2. ASSUME NEW b \in DOMAIN blocks, NEW x \in blocks[b]
            PROVE  x \in DOMAIN mem
        BY <1>3, <2>3, <3>1
      <4> QED BY <4>1, <4>2
    <3>3. \A b, c \in DOMAIN blocks : b # c => blocks[b] \cap blocks[c] = {}
      BY <2>3, <3>1
    <3> QED BY <2>3, <2>4, <3>1, <3>2, <3>3 DEF IsMemory
  <2>6. IsEnv(u)
    <3>1. u.input \in Seq(Int) /\ u.fault \in {"none", "assertion", "undefined"}
      BY <1>1, <2>4 DEF IsEnv
    <3>2. DOMAIN u.blocks \subseteq u.heap
      BY <1>1, <2>3, <2>4 DEF IsEnv
    <3> QED BY <1>1, <2>4, <2>5, <3>1, <3>2, FramesKept
  <2> QED BY <1>1, <2>1, <2>4, <2>6
<1> QED BY <1>2, <1>3

(* GET reads an int or, at the end of the input, 0.                         *)
LEMMA GetFacts ==
  ASSUME NEW s, IsEnv(s)
  PROVE  Get(s).v \in Int /\ IsEnv(Get(s).s) /\ Get(s).s.frames = s.frames
<1> DEFINE i == IF s.input = <<>> THEN s.input ELSE Tail(s.input)
           v == IF s.input = <<>> THEN 0 ELSE Head(s.input)
           t == [s EXCEPT !.input = i]
<1>1. Get(s) = With(v, t)
  BY DEF Get
<1>2. s.input \in Seq(Int)
  BY DEF IsEnv
<1>3. v \in Int /\ i \in Seq(Int)
  <2>1. PICK q \in Seq(Int) : q = s.input
    BY <1>2
  <2> QED BY <2>1
<1> HIDE DEF i, v
<1>4. /\ DOMAIN t = DOMAIN s /\ t.frames = s.frames /\ t.input = i
      /\ t.mem = s.mem /\ t.blocks = s.blocks /\ t.brk = s.brk /\ t.fault = s.fault
      /\ t.heap = s.heap
  BY DEF IsEnv
<1> HIDE DEF t
<1>5. IsEnv(t)
  <2>1. /\ IsMemory(s.mem, s.blocks, s.brk) /\ s.fault \in {"none", "assertion", "undefined"}
        /\ DOMAIN s.blocks \subseteq s.heap
    BY DEF IsEnv
  <2> QED BY <1>3, <1>4, <2>1, FramesKept
<1> QED BY <1>1, <1>3, <1>4, <1>5 DEF With

-------------------------------------------------------------------------------
(* What the handlers do, the operands having their values.                  *)

Valued(ns, v) == \A i \in DOMAIN ns : ns[i] \in DOMAIN v /\ v[ns[i]] \in Int

(* The operators map ints to ints; the divisor is not 0.                    *)
LEMMA BinaryInt ==
  ASSUME NEW o \in Operators, NEW a \in Int, NEW b \in Int, o = "/" => b # 0
  PROVE  Binary(o, a, b) \in Int
<1>1. CASE o = "/"
  <2>1. b \in Int \ {0}
    BY <1>1
  <2>2. PICK c \in Nat \ {0} : c = IF b > 0 THEN b ELSE -b
    BY <2>1
  <2>3. PICK e \in Int : e = IF a >= 0 THEN a ELSE -a
    OBVIOUS
  <2>4. e \div c \in Int /\ -(e \div c) \in Int
    BY <2>2, <2>3
  <2>5. Quotient(a, b) \in Int
    BY <2>2, <2>3, <2>4 DEF Quotient
  <2>6. Binary(o, a, b) = Quotient(a, b)
    BY <1>1 DEF Binary
  <2> QED BY <2>5, <2>6
<1>2. CASE o # "/"
  BY <1>2 DEF Binary, Operators, CellSize
<1> QED BY <1>1, <1>2

(* The parts of an expression.                                              *)
LEMMA ShapeIs ==
  ASSUME IsProgram(Code), NEW n \in DOMAIN Code
  PROVE  /\ Kids(n) \in Seq(DOMAIN Code) /\ Len(Kids(n)) \in Nat /\ DOMAIN Kids(n) = 1..Len(Kids(n))
         /\ K(n) \in Expressions \cup {"var", "return", "array"} =>
              \A i \in 1..Len(Kids(n)) : K(Kid(n, i)) \in Expressions
         /\ K(n) \in {"bin", "asg", "index"} => Len(Kids(n)) = 2
         /\ K(n) \in {"neg", "deref", "paren", "cast", "return", "array"} => Len(Kids(n)) = 1
         /\ K(n) = "call" => Len(Kids(n)) = Arity(Code, X(n))
         /\ K(n) = "var" => Len(Kids(n)) \in {0, 1}
         /\ K(n) = "bin" => X(n) \in Operators
         /\ K(n) = "lit" => Code[n].v \in Int
         /\ K(n) = "array" => Code[Kid(n, 1)].v \in Nat \ {0}
         /\ K(n) = "decls" => \A i \in 1..Len(Kids(n)) : K(Kid(n, i)) \in {"var", "array"}
         /\ K(n) \in {"if", "while"} => K(Kid(n, 1)) \in Expressions
         /\ K(n) = "for" => K(Kid(n, 2)) \in Expressions
<1>1. Kids(n) \in Seq(DOMAIN Code)
  BY DEF IsProgram, IsTree, Kids
<1>2. HasShapes(Code)
  BY DEF IsProgram
<1>3. Len(Kids(n)) \in Nat /\ DOMAIN Kids(n) = 1..Len(Kids(n))
  BY <1>1
<1> QED BY <1>1, <1>2, <1>3 DEF HasShapes, Kids, Kid, K, X

(* The value of n is kept and the frames are else as t, which has the       *)
(* frames of s.                                                             *)
LEMMA PushAfter ==
  ASSUME NEW s, IsEnv(s), NEW t, IsEnv(t), Changes(s, t, {}, {}),
         NEW n \in DOMAIN Code, K(n) \in Keeps, ~ CallsFunction(n), NEW v \in Int
  PROVE  IsEnv(PushExpr(n, v, t)) /\ Changes(s, PushExpr(n, v, t), {n}, {})
<1>1. PICK u : u = PushExpr(n, v, t)
  OBVIOUS
<1>2. IsEnv(u) /\ Changes(t, u, {n}, {})
  BY <1>1, PushExprFacts
<1>3. Changes(s, u, {n}, {} \cup {})
  BY <1>2, ChangesMore
<1> QED BY <1>1, <1>2, <1>3

(* An assignment keeps the environment's types and a value of its own       *)
(* (Environment.h:165-206).                                                 *)
LEMMA AssignFacts ==
  ASSUME NEW s, IsEnv(s), IsProgram(Code), NEW n \in DOMAIN Code, K(n) = "asg",
         NEW v, Valued(Operands(n, s), v), NEW t, t = HandleAssign(n, v, s)
  PROVE  IsEnv(t) /\ Changes(s, t, {n}, {})
<1> DEFINE l == Kid(n, 1)
           r == v[Kid(n, 2)]
           d == X(Kid(l, 1))
<1>0. K(n) \in Keeps /\ ~ CallsFunction(n)
  BY DEF Keeps, CallsFunction
<1>1. CASE K(l) = "ref" /\ VarDeclared(X(l), s) # 0
  <2>1. Operands(n, s) = <<Kid(n, 2)>>
    BY <1>1 DEF Operands
  <2>2. r \in Int
    BY <2>1 DEF Valued
  <2>3. PICK u : u = SetVar(X(l), r, s)
    OBVIOUS
  <2>4. t = PushExpr(n, r, u)
    BY <1>1, <2>3 DEF HandleAssign
  <2>5. IsEnv(u) /\ Changes(s, u, {}, {})
    BY <2>2, <2>3, SetVarFacts
  <2> HIDE DEF r, d, l
  <2> QED BY <1>0, <2>2, <2>4, <2>5, PushAfter
<1>2. CASE K(l) = "deref"
  <2>1. Operands(n, s) = <<Kid(l, 1), Kid(n, 2)>>
    BY <1>2 DEF Operands
  <2>2. r \in Int
    BY <2>1 DEF Valued
  <2>3. PICK u : u = SetCell(v[Kid(l, 1)], r, s)
    OBVIOUS
  <2>4. t = PushExpr(n, r, u)
    BY <1>2, <2>3 DEF HandleAssign
  <2>5. IsEnv(u) /\ Changes(s, u, {}, {})
    BY <2>2, <2>3, SetCellFacts, ChangesNothing
  <2> HIDE DEF r, d, l
  <2> QED BY <1>0, <2>2, <2>4, <2>5, PushAfter
<1>3. CASE K(l) = "index"
  <2>1. Operands(n, s) = <<Kid(l, 2), Kid(n, 2)>>
    BY <1>3 DEF Operands
  <2>2. r \in Int /\ v[Kid(l, 2)] \in Int
    BY <2>1 DEF Valued
  <2>3. PICK u : u = IF VarDeclared(d, s) = 0 THEN s ELSE SetElement(d, v[Kid(l, 2)], r, s)
    OBVIOUS
  <2>4. t = PushExpr(n, r, u)
    BY <1>3, <2>3 DEF HandleAssign
  <2>5. IsEnv(u) /\ Changes(s, u, {}, {})
    BY <2>2, <2>3, SetElementFacts, ChangesNothing
  <2> HIDE DEF r, d, l
  <2> QED BY <1>0, <2>2, <2>4, <2>5, PushAfter
<1>4. CASE /\ ~ (K(l) = "ref" /\ VarDeclared(X(l), s) # 0) /\ K(l) # "deref" /\ K(l) # "index"
  <2>1. t = s
    BY <1>4 DEF HandleAssign
  <2> QED BY <2>1, ChangesNothing
<1> QED BY <1>1, <1>2, <1>3, <1>4

(* So does the sum of an address and an offset (Environment.h:212-223).     *)
LEMMA OffsetFacts ==
  ASSUME NEW s, IsEnv(s), NEW n \in DOMAIN Code, K(n) = "bin", X(n) \in Operators, X(n) # "/",
         NEW v, v[Kid(n, 1)] \in Int, v[Kid(n, 2)] \in Int
  PROVE  IsEnv(HandleOffset(n, v, s)) /\ Changes(s, HandleOffset(n, v, s), {n}, {})
<1> DEFINE p == Binary(X(n), v[Kid(n, 1)], v[Kid(n, 2)])
           t == Check(v[Kid(n, 1)] \in s.heap, s)
           u == [t EXCEPT !.heap = @ \cup {p}]
<1>1. HandleOffset(n, v, s) = PushExpr(n, p, u)
  BY DEF HandleOffset
<1>2. p \in Int
  BY BinaryInt
<1>3. IsEnv(t) /\ t.frames = s.frames
  BY CheckFacts
<1> HIDE DEF p, t
<1>4. /\ DOMAIN u = DOMAIN t /\ u.frames = t.frames /\ u.mem = t.mem /\ u.blocks = t.blocks
      /\ u.brk = t.brk /\ u.input = t.input /\ u.fault = t.fault /\ t.heap \subseteq u.heap
  BY <1>3 DEF IsEnv
<1> HIDE DEF u
<1>5. IsEnv(u)
  <2>1. /\ IsMemory(t.mem, t.blocks, t.brk) /\ t.input \in Seq(Int)
        /\ t.fault \in {"none", "assertion", "undefined"} /\ DOMAIN t.blocks \subseteq t.heap
    BY <1>3 DEF IsEnv
  <2> QED BY <1>3, <1>4, <2>1, FramesKept
<1>6. Changes(s, u, {}, {})
  BY <1>3, <1>4, ChangesNothing
<1>7. K(n) \in Keeps /\ ~ CallsFunction(n)
  BY DEF Keeps, CallsFunction
<1> QED BY <1>1, <1>2, <1>5, <1>6, <1>7, PushAfter

(* So does any binary operator (Environment.h:159-281).                     *)
LEMMA BinOpFacts ==
  ASSUME NEW s, IsEnv(s), IsProgram(Code), NEW n \in DOMAIN Code, K(n) \in {"bin", "asg"},
         NEW v, Valued(Operands(n, s), v), NEW t, t = HandleBinOp(n, v, s)
  PROVE  IsEnv(t) /\ Changes(s, t, {n}, {})
<1>1. CASE K(n) = "asg"
  BY <1>1, AssignFacts DEF HandleBinOp
<1>2. CASE K(n) = "bin"
  <2>1. Kids(n) \in Seq(DOMAIN Code) /\ Len(Kids(n)) = 2 /\ X(n) \in Operators
    BY <1>2, ShapeIs
  <2>2. Operands(n, s) = Kids(n) /\ DOMAIN Kids(n) = 1..2
    BY <1>2, <2>1 DEF Operands
  <2>3. v[Kid(n, 1)] \in Int /\ v[Kid(n, 2)] \in Int
    BY <2>2 DEF Valued, Kid
  <2>4. CASE X(n) \in {"p+", "p-"}
    <3>1. t = HandleOffset(n, v, s)
      BY <1>2, <2>4 DEF HandleBinOp
    <3> QED BY <1>2, <2>1, <2>3, <2>4, <3>1, OffsetFacts
  <2>5. CASE X(n) = "/" /\ v[Kid(n, 2)] = 0
    <3>1. t = Fault("undefined", s)
      BY <1>2, <2>5 DEF HandleBinOp
    <3> QED BY <3>1, FaultFacts, ChangesNothing
  <2>6. CASE X(n) \notin {"p+", "p-"} /\ ~ (X(n) = "/" /\ v[Kid(n, 2)] = 0)
    <3>1. PICK b : b = Binary(X(n), v[Kid(n, 1)], v[Kid(n, 2)])
      OBVIOUS
    <3>2. t = PushExpr(n, b, s)
      BY <1>2, <2>6, <3>1 DEF HandleBinOp
    <3>3. b \in Int
      BY <2>1, <2>3, <2>6, <3>1, BinaryInt
    <3>4. K(n) \in Keeps /\ ~ CallsFunction(n)
      BY <1>2 DEF Keeps, CallsFunction
    <3> QED BY <3>2, <3>3, <3>4, PushAfter, ChangesNothing
  <2> QED BY <2>4, <2>5, <2>6
<1> QED BY <1>1, <1>2

(* So do unary operators (Environment.h:135-157).                           *)
LEMMA UnaryOpFacts ==
  ASSUME NEW s, IsEnv(s), IsProgram(Code), NEW n \in DOMAIN Code, K(n) \in {"neg", "deref"},
         NEW v, Valued(Operands(n, s), v), NEW t, t = HandleUnaryOp(n, v, s)
  PROVE  IsEnv(t) /\ Changes(s, t, {n}, {})
<1>1. Kids(n) \in Seq(DOMAIN Code) /\ Len(Kids(n)) = 1
  BY ShapeIs
<1>2. Operands(n, s) = Kids(n) /\ DOMAIN Kids(n) = 1..1
  BY <1>1 DEF Operands
<1>3. PICK a \in Int : a = v[Kid(n, 1)]
  BY <1>2 DEF Valued, Kid
<1>4. K(n) \in Keeps /\ ~ CallsFunction(n)
  BY DEF Keeps, CallsFunction
<1>5. CASE K(n) = "neg"
  <2>1. t = PushExpr(n, -a, s) /\ -a \in Int
    BY <1>3, <1>5 DEF HandleUnaryOp
  <2> QED BY <1>4, <2>1, PushAfter, ChangesNothing
<1>6. CASE K(n) # "neg"
  <2>1. PICK c : c = GetCell(a, s)
    OBVIOUS
  <2>2. t = PushExpr(n, c.v, c.s)
    BY <1>3, <1>6, <2>1 DEF HandleUnaryOp
  <2>3. c.v \in Int /\ IsEnv(c.s) /\ Changes(s, c.s, {}, {})
    BY <2>1, GetCellFacts, ChangesNothing
  <2> QED BY <1>4, <2>2, <2>3, PushAfter
<1> QED BY <1>5, <1>6

(* So does an array's element (Environment.h:94-107).                       *)
LEMMA IndexFacts ==
  ASSUME NEW s, IsEnv(s), IsProgram(Code), NEW n \in DOMAIN Code, K(n) = "index",
         NEW v, Valued(Operands(n, s), v), NEW t, t = HandleArraySubscriptExpr(n, v, s)
  PROVE  IsEnv(t) /\ Changes(s, t, {n}, {})
<1>1. Operands(n, s) = <<Kid(n, 2)>>
  BY DEF Operands
<1>2. PICK i \in Int : i = v[Kid(n, 2)]
  BY <1>1 DEF Valued
<1>3. PICK d : d = X(Kid(n, 1))
  OBVIOUS
<1>4. CASE VarDeclared(d, s) = 0
  BY <1>3, <1>4, ChangesNothing DEF HandleArraySubscriptExpr
<1>5. CASE VarDeclared(d, s) # 0
  <2>1. PICK e : e = GetElement(d, i, s)
    OBVIOUS
  <2>2. t = PushExpr(n, e.v, e.s)
    BY <1>2, <1>3, <1>5, <2>1 DEF HandleArraySubscriptExpr
  <2>3. e.v \in Int /\ IsEnv(e.s) /\ Changes(s, e.s, {}, {})
    BY <1>5, <2>1, GetElementFacts, ChangesNothing
  <2>4. K(n) \in Keeps /\ ~ CallsFunction(n)
    BY DEF Keeps, CallsFunction
  <2> QED BY <2>2, <2>3, <2>4, PushAfter
<1> QED BY <1>4, <1>5

(* A declaration's entries are made of ints (Environment.h:344-380).        *)
LEMMA VarDeclFacts ==
  ASSUME NEW s, IsEnv(s), IsProgram(Code), NEW n \in DOMAIN Code, K(n) \in {"var", "array"},
         NEW v, Valued(Operands(n, s), v), NEW t, t = HandleVarDecl(n, v, s)
  PROVE  IsEnv(t) /\ Changes(s, t, {}, {X(n)})
<1>1. CASE K(n) = "array"
  <2>1. PICK c \in Nat \ {0} : c = Code[Kid(n, 1)].v
    BY <1>1, ShapeIs
  <2>2. PICK vs : vs = [i \in 1..c |-> 0]
    OBVIOUS
  <2>3. vs \in Seq(Int) /\ vs # <<>>
    <3>1. vs \in [1..c -> Int] /\ Len(vs) = c
      BY <2>1, <2>2
    <3>2. vs \in Seq(Int)
      BY <2>1, <2>2
    <3> QED BY <2>1, <3>1, <3>2
  <2>4. t = PushEntries(X(n), vs, s)
    BY <1>1, <2>1, <2>2 DEF HandleVarDecl, PushArray
  <2> QED BY <2>3, <2>4, PushEntriesFacts
<1>2. CASE K(n) = "var"
  <2>1. PICK w : w = IF Kids(n) = <<>> THEN 0 ELSE v[Kid(n, 1)]
    OBVIOUS
  <2>2. t = PushEntries(X(n), <<w>>, s)
    BY <1>2, <2>1 DEF HandleVarDecl, PushVar
  <2>3. w \in Int
    <3>1. Kids(n) \in Seq(DOMAIN Code) /\ Len(Kids(n)) \in {0, 1} /\ Operands(n, s) = Kids(n)
      BY <1>2, ShapeIs DEF Operands
    <3>2. CASE Kids(n) = <<>>
      BY <2>1, <3>2
    <3>3. CASE Kids(n) # <<>>
      <4>1. 1 \in DOMAIN Kids(n)
        BY <3>1, <3>3
      <4> QED BY <2>1, <3>1, <3>3, <4>1 DEF Valued, Kid
    <3> QED BY <3>2, <3>3
  <2>4. <<w>> \in Seq(Int) /\ <<w>> # <<>>
    BY <2>3
  <2> QED BY <2>2, <2>4, PushEntriesFacts
<1> QED BY <1>1, <1>2

(* A builtin function is called.                                            *)
LEMMA BuiltinFacts ==
  ASSUME NEW s, IsEnv(s), IsProgram(Code), NEW n \in DOMAIN Code, K(n) = "call", X(n) \in Builtins,
         NEW v, Valued(Operands(n, s), v), NEW t, t = HandleCallExpr(n, v, s)
  PROVE  IsEnv(t) /\ Changes(s, t, {n}, {})
<1>0. K(n) \in Keeps /\ ~ CallsFunction(n)
  BY DEF Keeps, CallsFunction
<1>1. CASE X(n) = "GET"
  <2>1. PICK g : g = Get(s)
    OBVIOUS
  <2>2. t = PushExpr(n, g.v, g.s)
    BY <1>1, <2>1 DEF HandleCallExpr
  <2>3. g.v \in Int /\ IsEnv(g.s) /\ Changes(s, g.s, {}, {})
    BY <2>1, GetFacts, ChangesNothing
  <2> QED BY <1>0, <2>2, <2>3, PushAfter
<1>2. CASE X(n) # "GET"
  <2>1. Kids(n) \in Seq(DOMAIN Code) /\ Len(Kids(n)) = 1 /\ Operands(n, s) = Kids(n)
    <3>1. Arity(Code, X(n)) = 1
      BY <1>2 DEF Arity
    <3> QED BY <3>1, ShapeIs DEF Operands
  <2>2. 1 \in DOMAIN Kids(n)
    BY <2>1
  <2>3. PICK a \in Int : a = v[Kid(n, 1)]
    BY <2>1, <2>2 DEF Valued, Kid
  <2>4. CASE X(n) = "PRINT"
    <3>1. t = [s EXCEPT !.output = Append(s.output, a)]
      BY <2>3, <2>4 DEF HandleCallExpr
    <3>2. /\ DOMAIN t = DOMAIN s /\ t.frames = s.frames /\ t.mem = s.mem /\ t.blocks = s.blocks
          /\ t.brk = s.brk /\ t.input = s.input /\ t.fault = s.fault /\ t.heap = s.heap
      BY <3>1 DEF IsEnv
    <3>3. IsEnv(t)
      <4>1. /\ IsMemory(s.mem, s.blocks, s.brk) /\ s.input \in Seq(Int)
            /\ s.fault \in {"none", "assertion", "undefined"} /\ DOMAIN s.blocks \subseteq s.heap
        BY DEF IsEnv
      <4> QED BY <3>2, <4>1, FramesKept
    <3> QED BY <3>2, <3>3, ChangesNothing
  <2>5. CASE X(n) = "MALLOC"
    <3>1. PICK g : g = Malloc(a, s)
      OBVIOUS
    <3>2. t = PushExpr(n, g.v, g.s)
      BY <2>3, <2>5, <3>1 DEF HandleCallExpr
    <3>3. g.v \in Int /\ IsEnv(g.s) /\ Changes(s, g.s, {}, {})
      BY <3>1, MallocFacts, ChangesNothing
    <3> QED BY <1>0, <3>2, <3>3, PushAfter
  <2>6. CASE X(n) = "FREE"
    <3>1. t = Free(a, s)
      BY <2>3, <2>6 DEF HandleCallExpr
    <3> QED BY <3>1, FreeFacts, ChangesNothing
  <2> QED BY <1>2, <2>4, <2>5, <2>6 DEF Builtins
<1> QED BY <1>1, <1>2

(* All of them.                                                             *)
DeclaredBy(n) == IF K(n) \in {"var", "array"} THEN {X(n)} ELSE {}

(* Whatever is handled in the environment leaves a value of its own, or the *)
(* entries of what it declares.                                             *)
LEMMA OperateFacts ==
  ASSUME NEW s, IsEnv(s), IsProgram(Code), NEW n \in DOMAIN Code,
         K(n) # "return", ~ CallsFunction(n),
         NEW v, Valued(Operands(n, s), v), NEW t, t = Operate(n, v, s)
  PROVE  IsEnv(t) /\ Changes(s, t, {n}, DeclaredBy(n))
<1>1. CASE K(n) \in {"var", "array"}
  <2>1. t = HandleVarDecl(n, v, s) /\ DeclaredBy(n) = {X(n)}
    BY <1>1 DEF Operate, DeclaredBy
  <2>2. IsEnv(t) /\ Changes(s, t, {}, {X(n)})
    BY <1>1, <2>1, VarDeclFacts
  <2>3. Changes(t, t, {n}, {})
    BY ChangesNothing
  <2>4. Changes(s, t, {n}, {X(n)} \cup {})
    BY <2>2, <2>3, ChangesMore
  <2> QED BY <2>1, <2>2, <2>4
<1>2. CASE K(n) \notin {"var", "array"}
  <2>0. DeclaredBy(n) = {}
    BY <1>2 DEF DeclaredBy
  <2>1. CASE K(n) \in {"bin", "asg"}
    BY <2>0, <2>1, BinOpFacts DEF Operate
  <2>2. CASE K(n) \in {"neg", "deref"}
    BY <2>0, <2>2, UnaryOpFacts DEF Operate
  <2>3. CASE K(n) = "index"
    BY <2>0, <2>3, IndexFacts DEF Operate
  <2>4. CASE K(n) = "sizeof"
    <3>1. t = PushExpr(n, CellSize, s) /\ CellSize \in Int
      BY <2>4 DEF Operate, CellSize
    <3>2. K(n) \in Keeps
      BY <2>4 DEF Keeps
    <3> QED BY <2>0, <3>1, <3>2, PushAfter, ChangesNothing
  <2>5. CASE K(n) = "ref"
    BY <2>0, <2>5, GetVarFacts, ChangesNothing DEF Operate
  <2>6. CASE K(n) = "call"
    <3>1. X(n) \in Builtins
      BY <2>6 DEF CallsFunction
    <3> QED BY <2>0, <2>6, <3>1, BuiltinFacts DEF Operate
  <2>7. CASE K(n) \notin {"bin", "asg", "neg", "deref", "index", "sizeof", "ref", "call"}
    <3>1. t = s
      BY <1>2, <2>7 DEF Operate
    <3> QED BY <2>0, <3>1, ChangesNothing
  <2> QED BY <2>1, <2>2, <2>3, <2>4, <2>5, <2>6, <2>7
<1> QED BY <1>1, <1>2

-------------------------------------------------------------------------------
(* The parts of the program that an evaluation goes through.                *)

(* What is evaluated with n lies in its subtree.                            *)
LEMMA PartIs ==
  ASSUME IsProgram(Code), NEW n \in DOMAIN Code
  PROVE  /\ n \in Part(n) /\ Part(n) \subseteq DOMAIN Code
         /\ \A m \in Part(n) : Part(m) \subseteq Part(n)
         /\ \A i \in 1..Len(Kids(n)) :
              /\ Kid(n, i) \in DOMAIN Code /\ Kid(n, i) \in Part(n) /\ n \notin Part(Kid(n, i))
              /\ Part(Kid(n, i)) \subseteq Part(n)
         /\ \A i, j \in 1..Len(Kids(n)) : i # j => Part(Kid(n, i)) \cap Part(Kid(n, j)) = {}
<1>1. IsTree(Code)
  BY DEF IsProgram
<1>2. /\ Kids(n) \in Seq(DOMAIN Code) /\ DOMAIN Kids(n) = 1..Len(Kids(n))
      /\ \A m \in DOMAIN Code : m \in Part(m)
      /\ Part(n) \subseteq DOMAIN Code
      /\ \A m \in Part(n) : Part(m) \subseteq Part(n)
  <2>1. Kids(n) \in Seq(DOMAIN Code)
    BY <1>1 DEF IsTree, Kids
  <2> QED BY <1>1, <2>1 DEF IsTree, Part
<1>3. \A i \in DOMAIN Kids(n) : Part(Kid(n, i)) \subseteq Part(n)
  BY <1>1 DEF IsTree, Part, Kids, Kid
<1>4. \A i, j \in DOMAIN Kids(n) :
        n \notin Part(Kid(n, i)) /\ (i # j => Part(Kid(n, i)) \cap Part(Kid(n, j)) = {})
  BY <1>1 DEF IsTree, Part, Kids, Kid
<1>5. \A i \in 1..Len(Kids(n)) : Kid(n, i) \in DOMAIN Code
  BY <1>2 DEF Kid
<1> QED BY <1>2, <1>3, <1>4, <1>5

\* nodes that can be evaluated together
Askable(ns) ==
  /\ ns \in Seq(DOMAIN Code)
  /\ \A i \in 1..Len(ns) : K(ns[i]) \in Expressions \cup {"var", "array", "fun"}
  /\ \A i, j \in 1..Len(ns) : i # j => Part(ns[i]) \cap Part(ns[j]) = {}

(* One expression, or declaration, may be evaluated,                        *)
LEMMA OneAskable ==
  ASSUME NEW n \in DOMAIN Code, K(n) \in Expressions \cup {"var", "array", "fun"}
  PROVE  Askable(<<n>>)
BY DEF Askable

(* and so may two that have nothing in common.                              *)
LEMMA TwoAskable ==
  ASSUME NEW n \in DOMAIN Code, K(n) \in Expressions, NEW m \in DOMAIN Code, K(m) \in Expressions,
         Part(n) \cap Part(m) = {}
  PROVE  Askable(<<n, m>>)
<1>1. <<n, m>> \in Seq(DOMAIN Code) /\ Len(<<n, m>>) = 2 /\ <<n, m>>[1] = n /\ <<n, m>>[2] = m
  OBVIOUS
<1> QED BY <1>1 DEF Askable

(* The operands of n are parts of it that have nothing in common.           *)
Inside(ns, n) == \A i \in 1..Len(ns) : /\ ns[i] \in Part(n) /\ Part(ns[i]) \subseteq Part(n)
                                       /\ n \notin Part(ns[i])

(* A node's operands are expressions inside it that have nothing in common. *)
LEMMA OperandFacts ==
  ASSUME IsProgram(Code), NEW n \in DOMAIN Code, NEW s, NEW ns, ns = Operands(n, s)
  PROVE  /\ Askable(ns) /\ Inside(ns, n)
         /\ K(n) # "decls" => \A i \in 1..Len(ns) : K(ns[i]) \in Expressions
<1> DEFINE Good(ms) == /\ Askable(ms) /\ Inside(ms, n)
                       /\ K(n) # "decls" => \A i \in 1..Len(ms) : K(ms[i]) \in Expressions
           l == Kid(n, 1)
<1>1. CASE K(n) \in {"bin", "neg", "deref", "paren", "cast", "var", "decls", "return", "call"}
  <2>1. ns = Kids(n)
    BY <1>1 DEF Operands
  <2>2. ns \in Seq(DOMAIN Code) /\ \A i \in 1..Len(ns) : ns[i] = Kid(n, i)
    BY <2>1, ShapeIs DEF Kid
  <2>3. \A i \in 1..Len(ns) : K(ns[i]) \in Expressions \cup {"var", "array"}
    BY <1>1, <2>1, <2>2, ShapeIs DEF Expressions
  <2>4. K(n) # "decls" => \A i \in 1..Len(ns) : K(ns[i]) \in Expressions
    BY <1>1, <2>1, <2>2, ShapeIs DEF Expressions
  <2>5. Inside(ns, n) /\ \A i, j \in 1..Len(ns) : i # j => Part(ns[i]) \cap Part(ns[j]) = {}
    BY <2>1, <2>2, PartIs DEF Inside
  <2> QED BY <2>2, <2>3, <2>4, <2>5 DEF Askable
<1>2. CASE K(n) \in {"index", "asg"}
  <2>1. /\ l \in DOMAIN Code /\ Kid(n, 2) \in DOMAIN Code
        /\ K(l) \in Expressions /\ K(Kid(n, 2)) \in Expressions
        /\ Part(l) \cap Part(Kid(n, 2)) = {}
        /\ l \in Part(n) /\ Part(l) \subseteq Part(n) /\ n \notin Part(l)
        /\ Kid(n, 2) \in Part(n) /\ Part(Kid(n, 2)) \subseteq Part(n) /\ n \notin Part(Kid(n, 2))
    <3>1. Len(Kids(n)) = 2 /\ K(n) \in Expressions
      BY <1>2, ShapeIs DEF Expressions
    <3>2. 1 \in 1..Len(Kids(n)) /\ 2 \in 1..Len(Kids(n))
      BY <3>1
    <3>3. K(Kid(n, 1)) \in Expressions /\ K(Kid(n, 2)) \in Expressions
      BY <3>1, <3>2, ShapeIs
    <3>4. Part(Kid(n, 1)) \cap Part(Kid(n, 2)) = {}
      BY <3>2, PartIs
    <3> QED BY <3>2, <3>3, <3>4, PartIs
  <2>2. CASE ns = <<Kid(n, 2)>>
    <3> HIDE DEF l
    <3>1. Askable(ns)
      BY <2>1, <2>2, OneAskable
    <3> QED BY <2>1, <2>2, <3>1 DEF Inside
  <2>3. ASSUME NEW i \in {1, 2}, K(l) = IF i = 1 THEN "deref" ELSE "index",
               ns = <<Kid(l, i), Kid(n, 2)>>
        PROVE  Good(ns)
    <3>1. i \in 1..Len(Kids(l))
      <4>1. CASE i = 1
        <5>1. K(l) = "deref"
          BY <2>3, <4>1
        <5>2. Len(Kids(l)) = 1
          <6> HIDE DEF l
          <6> QED BY <2>1, <5>1, ShapeIs
        <5> QED BY <4>1, <5>2
      <4>2. CASE i = 2
        <5>1. K(l) = "index"
          BY <2>3, <4>2
        <5>2. Len(Kids(l)) = 2
          <6> HIDE DEF l
          <6> QED BY <2>1, <5>1, ShapeIs
        <5> QED BY <4>2, <5>2
      <4> QED BY <4>1, <4>2
    <3>2. PICK m : m = Kid(l, i)
      OBVIOUS
    <3>3. /\ m \in DOMAIN Code /\ m \in Part(l) /\ Part(m) \subseteq Part(l)
          /\ K(m) \in Expressions
      <4>1. K(m) \in Expressions
        <5> HIDE DEF l
        <5> QED BY <2>1, <3>1, <3>2, ShapeIs
      <4>2. m \in DOMAIN Code /\ m \in Part(l) /\ Part(m) \subseteq Part(l)
        <5> HIDE DEF l
        <5> QED BY <2>1, <3>1, <3>2, PartIs
      <4> QED BY <4>1, <4>2
    <3>4. Askable(<<m, Kid(n, 2)>>)
      <4>1. Part(m) \cap Part(Kid(n, 2)) = {}
        BY <2>1, <3>3
      <4> QED BY <2>1, <3>3, <4>1, TwoAskable
    <3>5. PICK r : r = Kid(n, 2)
      OBVIOUS
    <3> HIDE DEF l, Good
    <3>6. ns = <<m, r>> /\ Len(ns) = 2 /\ ns[1] = m /\ ns[2] = r
      BY <2>3, <3>2, <3>5
    <3>7. Inside(ns, n)
      BY <2>1, <3>3, <3>5, <3>6 DEF Inside
    <3>8. \A j \in 1..Len(ns) : K(ns[j]) \in Expressions
      BY <2>1, <3>3, <3>5, <3>6
    <3> QED BY <3>4, <3>5, <3>6, <3>7, <3>8 DEF Good
  <2>4. CASE ns = <<>>
    BY <2>4 DEF Askable, Inside
  <2>5. \/ ns = <<Kid(n, 2)>>
        \/ K(l) = "deref" /\ ns = <<Kid(l, 1), Kid(n, 2)>>
        \/ K(l) = "index" /\ ns = <<Kid(l, 2), Kid(n, 2)>>
        \/ ns = <<>>
    BY <1>2 DEF Operands
  <2>6. CASE K(l) = "deref" /\ ns = <<Kid(l, 1), Kid(n, 2)>>
    <3> HIDE DEF l
    <3>1. Good(ns)
      <4> HIDE DEF Good
      <4> QED BY <2>3, <2>6
    <3> QED BY <3>1
  <2>7. CASE K(l) = "index" /\ ns = <<Kid(l, 2), Kid(n, 2)>>
    <3> HIDE DEF l
    <3>1. Good(ns)
      <4> HIDE DEF Good
      <4> QED BY <2>3, <2>7
    <3> QED BY <3>1
  <2> QED BY <2>2, <2>4, <2>5, <2>6, <2>7
<1>3. CASE K(n) \notin {"bin", "neg", "deref", "paren", "cast", "var", "decls", "return", "call",
                        "index", "asg"}
  <2>1. ns = <<>>
    BY <1>3 DEF Operands
  <2> QED BY <2>1 DEF Askable, Inside
<1> QED BY <1>1, <1>2, <1>3

\* the operands stay what they are while no variable is declared
LEMMA OperandsSame ==
  ASSUME NEW s, NEW t, NEW what, Changes(s, t, what, {}), NEW n
  PROVE  Operands(n, t) = Operands(n, s)
BY VarDeclaredSame DEF Operands

(* What is involved in an evaluation.                                       *)
LEMMA InvolvedFacts ==
  ASSUME IsProgram(Code), NEW ns, Askable(ns)
  PROVE  /\ Involved(ns) \subseteq DOMAIN Code /\ IsFiniteSet(Involved(ns))
         /\ \A i \in 1..Len(ns) : ns[i] \in Involved(ns)
         /\ \A n \in Involved(ns) : \A s : \A i \in 1..Len(Operands(n, s)) :
              Operands(n, s)[i] \in Involved(ns)
         /\ \A n \in Involved(ns) : K(n) \in Keeps =>
              \E i \in 1..Len(ns) : K(ns[i]) \notin {"fun", "array"} /\ n \in Part(ns[i])
<1> DEFINE Of(i) == IF K(ns[i]) \in {"fun", "array"} THEN {ns[i]} ELSE Part(ns[i])
<1>1. /\ Len(ns) \in Nat /\ DOMAIN ns = 1..Len(ns)
      /\ \A i \in 1..Len(ns) : ns[i] \in DOMAIN Code /\ ns[i] \in Part(ns[i])
                               /\ Part(ns[i]) \subseteq DOMAIN Code
  <2>1. ns \in Seq(DOMAIN Code)
    BY DEF Askable
  <2>2. \A i \in 1..Len(ns) : ns[i] \in DOMAIN Code
    BY <2>1
  <2> QED BY <2>1, <2>2, PartIs
<1>2. Involved(ns) = UNION {Of(i) : i \in 1..Len(ns)}
  BY <1>1 DEF Involved
<1>3. \A i \in 1..Len(ns) : ns[i] \in Of(i) /\ Of(i) \subseteq DOMAIN Code
  BY <1>1
<1>4. Involved(ns) \subseteq DOMAIN Code /\ \A i \in 1..Len(ns) : ns[i] \in Involved(ns)
  <2> HIDE DEF Of
  <2> QED BY <1>2, <1>3
<1>5. IsFiniteSet(Involved(ns))
  <2>1. DOMAIN Code = 1..Len(Code) /\ Len(Code) \in Nat
    BY DEF IsProgram, IsTree
  <2>2. IsFiniteSet(DOMAIN Code)
    BY <2>1, FS_Interval
  <2> QED BY <1>4, <2>2, FS_Subset
<1>6. ASSUME NEW n \in Involved(ns), NEW s, NEW i \in 1..Len(Operands(n, s))
      PROVE  Operands(n, s)[i] \in Involved(ns)
  <2>1. PICK j \in 1..Len(ns) : n \in Of(j)
    BY <1>2
  <2>2. K(ns[j]) \notin {"fun", "array"}
    <3>1. SUFFICES ASSUME K(ns[j]) \in {"fun", "array"} PROVE FALSE
      OBVIOUS
    <3>2. n = ns[j] /\ Operands(n, s) = <<>>
      BY <2>1, <3>1 DEF Operands
    <3> QED BY <3>2
  <2>3. n \in DOMAIN Code /\ n \in Part(ns[j])
    BY <1>4, <2>1, <2>2
  <2>4. Inside(Operands(n, s), n)
    BY <2>3, OperandFacts
  <2>5. Operands(n, s)[i] \in Part(n)
    BY <2>4 DEF Inside
  <2>6. Part(n) \subseteq Part(ns[j])
    BY <1>1, <2>3, PartIs
  <2>7. Operands(n, s)[i] \in Of(j)
    BY <2>2, <2>5, <2>6
  <2> HIDE DEF Of
  <2> QED BY <1>2, <2>7
<1>7. ASSUME NEW n \in Involved(ns), K(n) \in Keeps
      PROVE  \E i \in 1..Len(ns) : K(ns[i]) \notin {"fun", "array"} /\ n \in Part(ns[i])
  <2>1. PICK i \in 1..Len(ns) : n \in Of(i)
    BY <1>2
  <2>2. K(ns[i]) \notin {"fun", "array"}
    BY <1>7, <2>1 DEF Keeps
  <2> QED BY <2>1, <2>2
<1> QED BY <1>4, <1>5, <1>6, <1>7

-------------------------------------------------------------------------------
(* The turns of an evaluation.  That the recursion has a solution is shown  *)
(* from its beginnings, which are the same up to where both go.             *)

(* TurnAfter is Turn.                                                       *)
LEMMA TurnIs == ASSUME NEW r PROVE TurnAfter(r) = Turn(r)
<1>1. {Turn(q) : q \in {r}} = {Turn(r)}
  OBVIOUS
<1>2. PICK t : t = Turn(r)
  OBVIOUS
<1> QED BY <1>1, <1>2 DEF TurnAfter

\* induction over the natural numbers, for a set of them instead of a predicate
LEMMA SetInduction ==
  ASSUME NEW S \in SUBSET Nat, 0 \in S, \A n \in S : n + 1 \in S
  PROVE  S = Nat
<1> SUFFICES ASSUME Nat \ S # {} PROVE FALSE
  OBVIOUS
<1>1. PICK x \in Nat \ S : \A y \in Nat \ S : ~ (<<y, x>> \in OpToRel(<, Nat))
  BY WFMin, NatLessThanWellFounded, Zenon
<1>2. \A y \in Nat \ S : ~ (y < x)
  BY <1>1 DEF OpToRel
<1>3. x # 0 /\ x - 1 \in Nat
  OBVIOUS
<1>4. x - 1 \in S
  BY <1>2, <1>3
<1> QED BY <1>3, <1>4

\* g is the first n turns from the start
Begins(start, g, n) ==
  /\ g = [k \in 0..n |-> g[k]]
  /\ g[0] = start /\ \A k \in 0..n : k # 0 => g[k] = TurnAfter(g[k - 1])

(* What begins the turns is made of turns.                                  *)
LEMMA BeginAt ==
  ASSUME NEW start, NEW g, NEW n \in Nat, Begins(start, g, n), NEW k \in 0..n, k # 0
  PROVE  g[k] = TurnAfter(g[k - 1])
BY DEF Begins

(* It can be made longer,                                                   *)
LEMMA BeginsLonger ==
  ASSUME NEW start, NEW g, NEW n \in Nat, Begins(start, g, n)
  PROVE  \E h : Begins(start, h, n + 1)
<1>1. PICK w : w = TurnAfter(g[n])
  OBVIOUS
<1>2. PICK h : h = [k \in 0..(n + 1) |-> IF k = n + 1 THEN w ELSE g[k]]
  OBVIOUS
<1>3. h = [k \in 0..(n + 1) |-> h[k]]
  BY <1>2
<1>4. h[0] = start
  BY <1>2 DEF Begins
<1>5. ASSUME NEW k \in 0..(n + 1), k # 0
      PROVE  h[k] = TurnAfter(h[k - 1])
  <2>1. k - 1 \in 0..n /\ h[k - 1] = g[k - 1]
    BY <1>2, <1>5
  <2>2. CASE k = n + 1
    BY <1>1, <1>2, <2>1, <2>2
  <2>3. CASE k # n + 1
    <3>1. k \in 0..n
      BY <1>5, <2>3
    <3>2. g[k] = TurnAfter(g[k - 1])
      BY <1>5, <3>1, BeginAt
    <3> QED BY <1>2, <2>1, <2>3, <3>2
  <2> QED BY <2>2, <2>3
<1> QED BY <1>3, <1>4, <1>5 DEF Begins

(* in one way only.                                                         *)
LEMMA BeginsSame ==
  ASSUME NEW start, NEW n \in Nat, NEW g, Begins(start, g, n), NEW h, Begins(start, h, n)
  PROVE  g = h
<1> DEFINE T == {k \in Nat : k \in 0..n => g[k] = h[k]}
<1>1. 0 \in T
  BY DEF Begins
<1>2. ASSUME NEW k \in T, k + 1 \in 0..n
      PROVE  g[k + 1] = h[k + 1]
  <2>1. g[k] = h[k]
    BY <1>2
  <2>2. PICK l \in 0..n : l = k + 1 /\ l # 0 /\ l - 1 = k
    BY <1>2
  <2>3. g[l] = TurnAfter(g[l - 1]) /\ h[l] = TurnAfter(h[l - 1])
    BY <2>2, BeginAt
  <2> QED BY <2>1, <2>2, <2>3
<1>3. T = Nat
  <2>1. T \in SUBSET Nat /\ \A k \in T : k + 1 \in T
    BY <1>2
  <2> HIDE DEF T
  <2> QED BY <1>1, <2>1, SetInduction
<1>4. \A k \in 0..n : g[k] = h[k]
  BY <1>3
<1>5. g = [k \in 0..n |-> g[k]] /\ h = [k \in 0..n |-> h[k]]
  BY DEF Begins
<1> HIDE DEF T
<1> QED BY <1>4, <1>5

(* So there is a function that satisfies the recursion.                     *)
LEMMA TurnsExist ==
  ASSUME NEW start
  PROVE  \E g : g = [n \in Nat |-> IF n = 0 THEN start ELSE TurnAfter(g[n - 1])]
<1> DEFINE S == {n \in Nat : \E g : Begins(start, g, n)}
           The(n) == CHOOSE g : Begins(start, g, n)
<1>1. S = Nat
  <2>1. 0 \in S
    <3>1. PICK g : g = [k \in 0..0 |-> start]
      OBVIOUS
    <3>2. Begins(start, g, 0)
      BY <3>1 DEF Begins
    <3> QED BY <3>2
  <2>2. S \in SUBSET Nat /\ \A n \in S : n + 1 \in S
    BY BeginsLonger
  <2> HIDE DEF S
  <2> QED BY <2>1, <2>2, SetInduction
<1>2. \A n \in Nat : Begins(start, The(n), n)
  BY <1>1
<1>3. PICK g : g = [n \in Nat |-> The(n)[n]]
  OBVIOUS
<1>4. g[0] = start
  BY <1>2, <1>3 DEF Begins
<1>5. ASSUME NEW n \in Nat, n # 0
      PROVE  g[n] = TurnAfter(g[n - 1])
  <2>1. PICK a, b : a = The(n) /\ b = The(n - 1)
    OBVIOUS
  <2>2. Begins(start, a, n) /\ Begins(start, b, n - 1) /\ n - 1 \in Nat
    BY <1>2, <1>5, <2>1
  <2>3. PICK c : c = [k \in 0..(n - 1) |-> a[k]]
    OBVIOUS
  <2>4. Begins(start, c, n - 1)
    <3>1. \A k \in 0..(n - 1) : k # 0 => a[k] = TurnAfter(a[k - 1])
      BY <1>5, <2>2, BeginAt
    <3>2. c = [k \in 0..(n - 1) |-> c[k]] /\ c[0] = start
      BY <1>5, <2>2, <2>3 DEF Begins
    <3>3. ASSUME NEW k \in 0..(n - 1), k # 0
          PROVE  c[k] = TurnAfter(c[k - 1])
      <4>1. c[k] = a[k] /\ c[k - 1] = a[k - 1]
        BY <1>5, <2>3, <3>3
      <4> QED BY <3>1, <3>3, <4>1
    <3> QED BY <3>2, <3>3 DEF Begins
  <2>5. c = b
    BY <2>2, <2>4, BeginsSame
  <2>6. a[n] = TurnAfter(a[n - 1]) /\ c[n - 1] = a[n - 1]
    BY <1>5, <2>2, <2>3, BeginAt
  <2> QED BY <1>3, <2>1, <2>2, <2>5, <2>6
<1>6. g = [n \in Nat |-> IF n = 0 THEN start ELSE TurnAfter(g[n - 1])]
  <2> HIDE DEF The
  <2>1. g = [n \in Nat |-> g[n]]
    BY <1>3
  <2> QED BY <1>4, <1>5, <2>1
<1> QED BY <1>6

Start(ns, s) == [todo |-> ns, v |-> EmptyMap, s |-> s]

(* Each turn follows from the one before.                                   *)
LEMMA TurnsIs ==
  ASSUME NEW ns, NEW s
  PROVE  /\ Turns(ns, s)[0] = Start(ns, s)
         /\ \A n \in Nat : Turns(ns, s)[n + 1] = Turn(Turns(ns, s)[n])
<1> DEFINE Body(g) == [k \in Nat |-> IF k = 0 THEN [todo |-> ns, v |-> EmptyMap, s |-> s]
                                              ELSE TurnAfter(g[k - 1])]
<1>1. PICK f : f = Turns(ns, s)
  OBVIOUS
<1>2. f = CHOOSE g : g = Body(g)
  BY <1>1, Zenon DEF Turns
<1>3. \E g : g = Body(g)
  BY TurnsExist
<1>4. f = Body(f)
  <2> HIDE DEF Body
  <2> QED BY <1>2, <1>3
<1>5. f[0] = Start(ns, s) /\ \A n \in Nat : f[n + 1] = TurnAfter(f[n])
  BY <1>4 DEF Start
<1> QED BY <1>1, <1>5, TurnIs

-------------------------------------------------------------------------------
(* What holds between the turns of the evaluation of ns from s: what is     *)
(* under evaluation has no value yet, none of it is part of what comes      *)
(* before it, and what has a value is what the environment differs in.      *)

VarsAmong(ns) == {X(m) : m \in {n \in ns : K(n) \in {"var", "array"}}}

\* evaluated is an expression, and what evaluation began with
Known(ns, n) == K(n) \in Expressions \/ \E i \in 1..Len(ns) : n = ns[i]

Waiting(ns, todo, v) ==
  /\ todo \in Seq(Involved(ns))
  /\ \A i \in 1..Len(todo) : /\ todo[i] \notin DOMAIN v /\ Known(ns, todo[i])
                             /\ K(todo[i]) \in Expressions \cup {"var", "array", "fun"}
  /\ \A i, j \in 1..Len(todo) : i < j => todo[j] \notin Part(todo[i])

Going(ns, s, r) ==
  /\ DOMAIN r = {"todo", "v", "s"}
  /\ Waiting(ns, r.todo, r.v)
  /\ \A m \in DOMAIN r.v : m \in Involved(ns) /\ r.v[m] \in Int /\ Known(ns, m)
  /\ \A i \in 1..Len(ns) : ns[i] \in DOMAIN r.v \/ \E j \in 1..Len(r.todo) : ns[i] = r.todo[j]
  /\ IsEnv(r.s)
  /\ Changes(s, r.s, Involved(ns), VarsAmong(DOMAIN r.v))

\* from r to t an operand is asked for or a node is done
Went(ns, s, r, t) ==
  /\ Going(ns, s, t)
  /\ \/ Len(t.todo) = Len(r.todo) + 1 /\ t.v = r.v
     \/ /\ Len(t.todo) = Len(r.todo) - 1
        /\ \E n \in Involved(ns) \ DOMAIN r.v : DOMAIN t.v = DOMAIN r.v \cup {n}

(* What holds between turns holds before the first.                         *)
LEMMA StartGoes ==
  ASSUME IsProgram(Code), NEW ns, Askable(ns), NEW s, IsEnv(s)
  PROVE  Going(ns, s, Start(ns, s))
<1>1. PICK r : r = Start(ns, s)
  OBVIOUS
<1>2. DOMAIN r = {"todo", "v", "s"} /\ r.todo = ns /\ r.v = EmptyMap /\ r.s = s
  BY <1>1 DEF Start
<1>3. DOMAIN r.v = {}
  BY <1>2 DEF EmptyMap
<1>4. Waiting(ns, ns, r.v)
  <2>1. /\ ns \in Seq(DOMAIN Code)
        /\ \A i \in 1..Len(ns) : K(ns[i]) \in Expressions \cup {"var", "array", "fun"}
        /\ \A i, j \in 1..Len(ns) : i # j => Part(ns[i]) \cap Part(ns[j]) = {}
    BY DEF Askable
  <2>2. \A i \in 1..Len(ns) : ns[i] \in Involved(ns) /\ ns[i] \in DOMAIN Code
    BY <2>1, InvolvedFacts
  <2>3. ns \in Seq(Involved(ns))
    BY <2>1, <2>2
  <2>4. ASSUME NEW i \in 1..Len(ns), NEW j \in 1..Len(ns), i < j
        PROVE  ns[j] \notin Part(ns[i])
    <3>0. Len(ns) \in Nat
      BY <2>1
    <3>1. Part(ns[i]) \cap Part(ns[j]) = {}
      <4>1. i # j
        BY <2>4, <3>0
      <4> QED BY <2>1, <4>1, Zenon
    <3>2. ns[j] \in Part(ns[j])
      BY <2>2, PartIs
    <3> QED BY <3>1, <3>2
  <2> QED BY <1>3, <2>1, <2>3, <2>4 DEF Waiting, Known
<1>5. VarsAmong(DOMAIN r.v) = {}
  BY <1>3 DEF VarsAmong
<1>6. Changes(s, r.s, Involved(ns), VarsAmong(DOMAIN r.v))
  BY <1>2, <1>5, ChangesNothing
<1> QED BY <1>1, <1>2, <1>3, <1>4, <1>6 DEF Going

(* An operand is asked for.                                                 *)
Asked(r, q) == [r EXCEPT !.todo = <<q>> \o r.todo]

(* It goes on to hold when an operand is evaluated first.                   *)
LEMMA AskGoes ==
  ASSUME IsProgram(Code), NEW ns, Askable(ns), NEW s, NEW r, Going(ns, s, r), r.todo # <<>>,
         NEW n, n = Head(r.todo), NEW i \in DOMAIN Operands(n, r.s),
         Operands(n, r.s)[i] \notin DOMAIN r.v,
         NEW t, t = Asked(r, Operands(n, r.s)[i])
  PROVE  Went(ns, s, r, t)
<1> DEFINE U == Involved(ns)
<1>1. PICK q : q = Operands(n, r.s)[i]
  OBVIOUS
<1>2. PICK old \in Seq(U) : old = r.todo
  BY DEF Going, Waiting
<1>3. /\ Len(old) \in Nat \ {0} /\ n = old[1] /\ 1 \in 1..Len(old) /\ n \in U
  BY <1>2
<1>4. PICK new : new = <<q>> \o old
  OBVIOUS
<1>5. n \in DOMAIN Code
  BY <1>3, InvolvedFacts
<1>6. /\ i \in 1..Len(Operands(n, r.s)) /\ q \in U /\ q \notin DOMAIN r.v /\ q \in Part(n)
      /\ Part(q) \subseteq Part(n) /\ n \notin Part(q) /\ K(q) \in Expressions
  <2>1. /\ Askable(Operands(n, r.s)) /\ Inside(Operands(n, r.s), n)
        /\ K(n) # "decls" => \A j \in 1..Len(Operands(n, r.s)) : K(Operands(n, r.s)[j]) \in Expressions
    BY <1>5, OperandFacts
  <2>2. i \in 1..Len(Operands(n, r.s))
    BY <2>1 DEF Askable
  <2>3. K(n) # "decls"
    <3>1. K(n) \in Expressions \cup {"var", "array", "fun"}
      BY <1>2, <1>3 DEF Going, Waiting
    <3> QED BY <3>1 DEF Expressions
  <2>4. q \in U
    BY <1>1, <1>3, <2>2, InvolvedFacts
  <2> QED BY <1>1, <2>1, <2>2, <2>3, <2>4 DEF Inside
<1>7. /\ new \in Seq(U) /\ Len(new) = Len(old) + 1 /\ new[1] = q
      /\ \A j \in 2..Len(new) : j - 1 \in 1..Len(old) /\ new[j] = old[j - 1]
  BY <1>2, <1>3, <1>4, <1>6
<1>8. /\ \A j \in 1..Len(old) : /\ old[j] \notin DOMAIN r.v /\ Known(ns, old[j])
                                /\ K(old[j]) \in Expressions \cup {"var", "array", "fun"}
      /\ \A j, k \in 1..Len(old) : j < k => old[k] \notin Part(old[j])
  BY <1>2 DEF Going, Waiting
<1>9. Waiting(ns, new, r.v)
  <2>1. ASSUME NEW j \in 1..Len(new)
        PROVE  /\ new[j] \notin DOMAIN r.v /\ Known(ns, new[j])
               /\ K(new[j]) \in Expressions \cup {"var", "array", "fun"}
    <3>1. CASE j = 1
      BY <1>6, <1>7, <3>1 DEF Known
    <3>2. CASE j # 1
      BY <1>7, <1>8, <3>2
    <3> QED BY <3>1, <3>2
  <2>2. ASSUME NEW j \in 1..Len(new), NEW k \in 1..Len(new), j < k
        PROVE  new[k] \notin Part(new[j])
    <3>1. k \in 2..Len(new) /\ k - 1 \in 1..Len(old) /\ new[k] = old[k - 1]
      BY <1>7, <2>2
    <3>2. CASE j = 1
      <4>1. CASE k = 2
        BY <1>3, <1>6, <1>7, <3>1, <3>2, <4>1
      <4>2. CASE k # 2
        <5>1. 1 < k - 1
          BY <3>1, <4>2
        <5>2. old[k - 1] \notin Part(n)
          BY <1>3, <1>8, <3>1, <5>1
        <5> QED BY <1>6, <1>7, <3>1, <3>2, <5>2
      <4> QED BY <4>1, <4>2
    <3>3. CASE j # 1
      <4>1. j - 1 \in 1..Len(old) /\ new[j] = old[j - 1] /\ j - 1 < k - 1
        BY <1>7, <2>2, <3>1, <3>3
      <4> QED BY <1>8, <3>1, <4>1
    <3> QED BY <3>2, <3>3
  <2> QED BY <1>7, <2>1, <2>2 DEF Waiting
<1>10. DOMAIN t = {"todo", "v", "s"} /\ t.todo = new /\ t.v = r.v /\ t.s = r.s
  BY <1>1, <1>2, <1>4 DEF Going, Asked
<1>11. ASSUME NEW j \in 1..Len(ns)
       PROVE  ns[j] \in DOMAIN t.v \/ \E k \in 1..Len(t.todo) : ns[j] = t.todo[k]
  <2>1. ns[j] \in DOMAIN r.v \/ \E k \in 1..Len(old) : ns[j] = old[k]
    BY <1>2 DEF Going
  <2>2. ASSUME NEW k \in 1..Len(old), ns[j] = old[k]
        PROVE  \E m \in 1..Len(new) : ns[j] = new[m]
    <3>1. k + 1 \in 2..Len(new) /\ (k + 1) - 1 = k
      <4>1. k \in Int /\ 1 <= k /\ k <= Len(old)
        BY <1>3
      <4>2. Len(new) = Len(old) + 1 /\ Len(old) \in Nat
        BY <1>3, <1>7
      <4> QED BY <4>1, <4>2
    <3>2. new[k + 1] = old[k]
      BY <1>7, <3>1
    <3> QED BY <2>2, <3>1, <3>2
  <2> QED BY <1>10, <2>1, <2>2
<1>12. Going(ns, s, t)
  <2>1. /\ \A m \in DOMAIN r.v : m \in U /\ r.v[m] \in Int /\ Known(ns, m)
        /\ IsEnv(r.s) /\ Changes(s, r.s, U, VarsAmong(DOMAIN r.v))
    BY DEF Going
  <2> QED BY <1>9, <1>10, <1>11, <2>1 DEF Going
<1> QED BY <1>2, <1>7, <1>10, <1>12 DEF Went

(* The value of an expression is an int.                                    *)
LEMMA ValueFacts ==
  ASSUME IsProgram(Code), NEW s, IsEnv(s), NEW n \in DOMAIN Code, NEW v,
         K(n) \in {"paren", "cast"} => v[Kid(n, 1)] \in Int
  PROVE  ValueOf(n, v, s) \in Int
<1>1. CASE HasExpr(n, s)
  <2>1. IsFrame(Top(s))
    BY DEF IsEnv, Depth, Top
  <2>2. Top(s).exprmap[n] \in Int
    BY <1>1, <2>1 DEF IsFrame, HasExpr
  <2>3. ValueOf(n, v, s) = Top(s).exprmap[n]
    <3>1. K(n) \in Keeps
      BY <1>1, <2>1 DEF IsFrame, HasExpr
    <3> QED BY <1>1, <3>1 DEF ValueOf, Keeps
  <2> QED BY <2>2, <2>3
<1>2. CASE ~ HasExpr(n, s)
  <2>1. CASE K(n) = "lit"
    BY <1>2, <2>1, ShapeIs DEF ValueOf
  <2>2. CASE K(n) = "ref"
    BY <1>2, <2>2, GetVarFacts DEF ValueOf
  <2>3. CASE K(n) \in {"paren", "cast"}
    BY <1>2, <2>3 DEF ValueOf
  <2>4. CASE K(n) \notin {"lit", "ref", "paren", "cast"}
    BY <1>2, <2>4 DEF ValueOf
  <2> QED BY <2>1, <2>2, <2>3, <2>4
<1> QED BY <1>1, <1>2

\* the environment after n is done
LEMMA DoneFacts ==
  ASSUME IsProgram(Code), NEW s, IsEnv(s), NEW n \in DOMAIN Code, NEW v,
         K(n) \in Expressions \cup {"var", "array", "fun"},
         ~ NotHandled(n, s) => Valued(Operands(n, s), v),
         NEW t, t = IF NotHandled(n, s) THEN s ELSE Operate(n, v, s)
  PROVE  IsEnv(t) /\ Changes(s, t, {n}, DeclaredBy(n)) /\ ValueOf(n, v, t) \in Int
<1>1. HasExpr(n, s) => K(n) \in Keeps
  <2>1. IsFrame(Top(s))
    BY DEF IsEnv, Depth, Top
  <2> QED BY <2>1 DEF HasExpr, IsFrame
<1>2. IsEnv(t) /\ Changes(s, t, {n}, DeclaredBy(n))
  <2>1. CASE NotHandled(n, s)
    <3>1. K(n) \notin {"var", "array"}
      BY <1>1, <2>1 DEF NotHandled, Keeps
    <3>2. DeclaredBy(n) = {} /\ t = s
      BY <2>1, <3>1 DEF DeclaredBy
    <3> QED BY <3>2, ChangesNothing
  <2>2. CASE ~ NotHandled(n, s)
    <3>1. K(n) # "return" /\ ~ CallsFunction(n)
      BY <2>2 DEF NotHandled, CallsFunction, Expressions
    <3> QED BY <2>2, <3>1, OperateFacts
  <2> QED BY <2>1, <2>2
<1>3. K(n) \in {"paren", "cast"} => v[Kid(n, 1)] \in Int
  <2>1. SUFFICES ASSUME K(n) \in {"paren", "cast"} PROVE v[Kid(n, 1)] \in Int
    OBVIOUS
  <2>2. ~ NotHandled(n, s)
    BY <1>1, <2>1 DEF NotHandled, Keeps
  <2>3. Operands(n, s) = Kids(n) /\ 1 \in DOMAIN Kids(n)
    <3>1. Len(Kids(n)) = 1 /\ DOMAIN Kids(n) = 1..Len(Kids(n))
      BY <2>1, ShapeIs
    <3> QED BY <2>1, <3>1 DEF Operands
  <2> QED BY <2>2, <2>3 DEF Valued, Kid
<1> QED BY <1>2, <1>3, ValueFacts

(* The node under evaluation is done.                                       *)
Done(r, n, w, u) == [todo |-> Tail(r.todo), v |-> Added(r.v, n, w), s |-> u]

(* It goes on to hold when a node is through: it will not be under          *)
(* evaluation again.                                                        *)
LEMMA DoneGoes ==
  ASSUME IsProgram(Code), NEW ns, Askable(ns), NEW s, IsEnv(s), NEW r, Going(ns, s, r),
         r.todo # <<>>, NEW n, n = Head(r.todo), NEW u,
         IsEnv(u), Changes(r.s, u, {n}, DeclaredBy(n)), NEW w \in Int,
         NEW t, t = Done(r, n, w, u)
  PROVE  Went(ns, s, r, t)
<1> DEFINE U == Involved(ns)
<1>1. PICK old \in Seq(U) : old = r.todo
  BY DEF Going, Waiting
<1>2. /\ Len(old) \in Nat \ {0} /\ n = old[1] /\ 1 \in 1..Len(old) /\ n \in U
  BY <1>1
<1>3. PICK new : new = Tail(old)
  OBVIOUS
<1>4. /\ new \in Seq(U) /\ Len(new) = Len(old) - 1
      /\ \A j \in 1..Len(new) : j + 1 \in 1..Len(old) /\ new[j] = old[j + 1]
  BY <1>1, <1>2, <1>3
<1>5. /\ \A j \in 1..Len(old) : /\ old[j] \notin DOMAIN r.v /\ Known(ns, old[j])
                                /\ K(old[j]) \in Expressions \cup {"var", "array", "fun"}
      /\ \A j, k \in 1..Len(old) : j < k => old[k] \notin Part(old[j])
  BY <1>1 DEF Going, Waiting
<1>6. PICK v : v = Added(r.v, n, w)
  OBVIOUS
<1>7. /\ DOMAIN v = DOMAIN r.v \cup {n} /\ v[n] = w
      /\ \A m \in DOMAIN r.v : v[m] = r.v[m]
  BY <1>2, <1>5, <1>6 DEF Added
<1>8. DOMAIN t = {"todo", "v", "s"} /\ t.todo = new /\ t.v = v /\ t.s = u
  BY <1>1, <1>3, <1>6 DEF Done
<1>9. Waiting(ns, new, v)
  <2>1. ASSUME NEW j \in 1..Len(new)
        PROVE  /\ new[j] \notin DOMAIN v /\ Known(ns, new[j])
               /\ K(new[j]) \in Expressions \cup {"var", "array", "fun"}
    <3>1. j + 1 \in 1..Len(old) /\ new[j] = old[j + 1] /\ 1 < j + 1
      BY <1>4
    <3>2. new[j] \notin Part(n)
      BY <1>2, <1>5, <3>1
    <3>3. n \in Part(n)
      BY <1>2, InvolvedFacts, PartIs
    <3> QED BY <1>5, <1>7, <3>1, <3>2, <3>3
  <2>2. ASSUME NEW j \in 1..Len(new), NEW k \in 1..Len(new), j < k
        PROVE  new[k] \notin Part(new[j])
    <3>1. j + 1 < k + 1
      BY <1>4, <2>2
    <3> QED BY <1>4, <1>5, <3>1
  <2> QED BY <1>4, <2>1, <2>2 DEF Waiting
<1>10. ASSUME NEW j \in 1..Len(ns)
       PROVE  ns[j] \in DOMAIN t.v \/ \E k \in 1..Len(t.todo) : ns[j] = t.todo[k]
  <2>1. ns[j] \in DOMAIN r.v \/ \E k \in 1..Len(old) : ns[j] = old[k]
    BY <1>1 DEF Going
  <2>2. ASSUME NEW k \in 1..Len(old), ns[j] = old[k], k # 1
        PROVE  \E m \in 1..Len(new) : ns[j] = new[m]
    <3>1. k - 1 \in 1..Len(new) /\ (k - 1) + 1 = k
      BY <1>2, <1>4, <2>2
    <3>2. new[k - 1] = old[k]
      BY <1>4, <3>1
    <3> QED BY <2>2, <3>1, <3>2
  <2> QED BY <1>2, <1>7, <1>8, <2>1, <2>2
<1>11. \A m \in DOMAIN v : m \in U /\ v[m] \in Int /\ Known(ns, m)
  <2>1. \A m \in DOMAIN r.v : m \in U /\ r.v[m] \in Int /\ Known(ns, m)
    BY DEF Going
  <2> QED BY <1>2, <1>5, <1>7, <2>1
<1>12. Changes(s, u, U, VarsAmong(DOMAIN v))
  <2>1. Changes(s, r.s, U, VarsAmong(DOMAIN r.v))
    BY DEF Going
  <2>2. VarsAmong(DOMAIN v) = VarsAmong(DOMAIN r.v) \cup DeclaredBy(n)
    BY <1>7 DEF VarsAmong, DeclaredBy
  <2>3. {n} \subseteq U
    BY <1>2
  <2> HIDE DEF U
  <2> QED BY <2>1, <2>2, <2>3, ChangesMore
<1>13. Going(ns, s, t)
  BY <1>8, <1>9, <1>10, <1>11, <1>12 DEF Going
<1> QED BY <1>1, <1>2, <1>4, <1>5, <1>7, <1>8, <1>13 DEF Went

(* A set of naturals that is not empty has a first one.                     *)
LEMMA First1 ==
  ASSUME NEW S \in SUBSET Nat, S # {}
  PROVE  Min(S) \in S
<1>1. PICK x \in S : \A y \in S : ~ (<<y, x>> \in OpToRel(<, Nat))
  BY WFMin, NatLessThanWellFounded, Zenon
<1>2. \A y \in S : ~ (y < x)
  BY <1>1 DEF OpToRel
<1>3. \A y \in S : x <= y
  BY <1>2
<1> QED BY <1>3 DEF Min

(* One turn: an operand is asked for or the node under evaluation is done.  *)
LEMMA TurnGoes ==
  ASSUME IsProgram(Code), NEW ns, Askable(ns), NEW s, IsEnv(s), NEW r, Going(ns, s, r),
         r.todo # <<>>, NEW t, t = Turn(r)
  PROVE  Went(ns, s, r, t)
<1> DEFINE n == Head(r.todo)
           asked == Operands(n, r.s)
           open == IF NotHandled(n, r.s) THEN {} ELSE {i \in DOMAIN asked : asked[i] \notin DOMAIN r.v}
           u == IF NotHandled(n, r.s) THEN r.s ELSE Operate(n, r.v, r.s)
<1>1. t = IF open # {} THEN [r EXCEPT !.todo = <<asked[Min(open)]>> \o r.todo]
                       ELSE [todo |-> Tail(r.todo), v |-> Added(r.v, n, ValueOf(n, r.v, u)), s |-> u]
  BY DEF Turn
<1>2. /\ n \in DOMAIN Code /\ K(n) \in Expressions \cup {"var", "array", "fun"} /\ IsEnv(r.s)
  <2>1. PICK old \in Seq(Involved(ns)) : old = r.todo
    BY DEF Going, Waiting
  <2>2. 1 \in 1..Len(old) /\ n = old[1] /\ n \in Involved(ns)
    BY <2>1
  <2>3. K(n) \in Expressions \cup {"var", "array", "fun"}
    BY <2>1, <2>2 DEF Going, Waiting
  <2>4. n \in DOMAIN Code
    BY <2>2, InvolvedFacts
  <2> QED BY <2>3, <2>4 DEF Going
<1>3. PICK m : m = n
  OBVIOUS
<1>4. CASE open # {}
  <2>1. /\ ~ NotHandled(n, r.s)
        /\ open = {i \in DOMAIN asked : asked[i] \notin DOMAIN r.v}
    BY <1>4
  <2>2. open \in SUBSET Nat
    <3>1. Askable(asked)
      BY <1>2, OperandFacts
    <3>2. DOMAIN asked \subseteq Nat
      <4> HIDE DEF asked
      <4> QED BY <3>1 DEF Askable
    <3> QED BY <2>1, <3>2
  <2>3. Min(open) \in open
    <3> HIDE DEF open
    <3> QED BY <1>4, <2>2, First1
  <2>4. PICK i : i = Min(open)
    OBVIOUS
  <2>5. i \in DOMAIN Operands(m, r.s) /\ Operands(m, r.s)[i] \notin DOMAIN r.v
    BY <1>3, <2>1, <2>3, <2>4
  <2>6. t = Asked(r, Operands(m, r.s)[i])
    BY <1>1, <1>3, <1>4, <2>4 DEF Asked
  <2>8. m = Head(r.todo)
    BY <1>3
  <2> HIDE DEF n, asked, open, u
  <2>7. Went(ns, s, r, t)
    BY <2>5, <2>6, <2>8, AskGoes
  <2> QED BY <2>7
<1>5. CASE open = {}
  <2>1. ~ NotHandled(n, r.s) => Valued(Operands(n, r.s), r.v)
    <3>1. SUFFICES ASSUME ~ NotHandled(n, r.s), NEW i \in DOMAIN asked
                   PROVE  asked[i] \in DOMAIN r.v /\ r.v[asked[i]] \in Int
      BY DEF Valued
    <3>2. asked[i] \in DOMAIN r.v
      BY <1>5, <3>1
    <3> QED BY <3>2 DEF Going
  <2>2. IsEnv(u) /\ Changes(r.s, u, {n}, DeclaredBy(n)) /\ ValueOf(n, r.v, u) \in Int
    <3>1. PICK w : w = u
      OBVIOUS
    <3>2. w = IF NotHandled(m, r.s) THEN r.s ELSE Operate(m, r.v, r.s)
      BY <1>3, <3>1
    <3>3. ~ NotHandled(m, r.s) => Valued(Operands(m, r.s), r.v)
      BY <1>3, <2>1
    <3>4. m \in DOMAIN Code /\ K(m) \in Expressions \cup {"var", "array", "fun"}
      BY <1>2, <1>3
    <3>5. IsEnv(w) /\ Changes(r.s, w, {m}, DeclaredBy(m)) /\ ValueOf(m, r.v, w) \in Int
      BY <1>2, <3>2, <3>3, <3>4, DoneFacts
    <3> QED BY <1>3, <3>1, <3>5
  <2>3. t = Done(r, n, ValueOf(n, r.v, u), u)
    BY <1>1, <1>5 DEF Done
  <2> HIDE DEF u, open, asked
  <2>4. PICK w \in Int : w = ValueOf(n, r.v, u)
    BY <2>2
  <2>9. PICK x : x = u
    OBVIOUS
  <2>5. t = Done(r, m, w, x)
    BY <1>3, <2>3, <2>4, <2>9
  <2>6. m = Head(r.todo) /\ IsEnv(x) /\ Changes(r.s, x, {m}, DeclaredBy(m))
    BY <1>3, <2>2, <2>9
  <2> HIDE DEF n
  <2>7. w \in Int
    BY <2>4
  <2>8. Went(ns, s, r, t)
    BY <2>5, <2>6, <2>7, DoneGoes, Zenon
  <2> QED BY <2>8
<1> QED BY <1>4, <1>5

(* What is under evaluation is among what has no value yet, so there is     *)
(* no more of it.                                                           *)
LEMMA FewWait ==
  ASSUME IsProgram(Code), NEW ns, Askable(ns), NEW s, NEW r, Going(ns, s, r)
  PROVE  /\ Cardinality(Involved(ns) \ DOMAIN r.v) \in Nat /\ Len(r.todo) \in Nat
         /\ Len(r.todo) <= Cardinality(Involved(ns) \ DOMAIN r.v)
<1> DEFINE T == Involved(ns) \ DOMAIN r.v
<1>1. IsFiniteSet(T)
  BY InvolvedFacts, FS_Subset
<1>2. PICK old \in Seq(Involved(ns)) : old = r.todo
  BY DEF Going, Waiting
<1>3. Len(old) \in Nat /\ DOMAIN old = 1..Len(old) /\ \A i \in 1..Len(old) : old[i] \in Involved(ns)
  BY <1>2
<1>4. \A i \in 1..Len(old) : old[i] \in T /\ old[i] \in Part(old[i])
  <2>1. \A i \in 1..Len(old) : old[i] \in T
    BY <1>2, <1>3 DEF Going, Waiting
  <2>2. \A i \in 1..Len(old) : old[i] \in DOMAIN Code
    BY <1>3, InvolvedFacts
  <2> QED BY <2>1, <2>2, PartIs
<1>5. \A i, j \in 1..Len(old) : i # j => old[i] # old[j]
  <2>1. \A i, j \in 1..Len(old) : i < j => old[j] \notin Part(old[i])
    BY <1>2 DEF Going, Waiting
  <2>2. \A i, j \in 1..Len(old) : i < j => old[i] # old[j]
    BY <1>4, <2>1
  <2>3. \A i, j \in 1..Len(old) : i # j => i < j \/ j < i
    BY <1>3
  <2> QED BY <2>2, <2>3
<1>6. PICK f : f = [i \in 1..Len(old) |-> old[i]]
  OBVIOUS
<1> HIDE DEF T
<1>7. f \in Injection(1..Len(old), T)
  <2>1. f \in [1..Len(old) -> T]
    BY <1>4, <1>6
  <2>2. \A i, j \in 1..Len(old) : f[i] = f[j] => i = j
    BY <1>5, <1>6
  <2> QED BY <2>1, <2>2, Fun_IsInj
<1>8. Cardinality(1..Len(old)) <= Cardinality(T)
  BY <1>1, <1>7, FS_Injection
<1>9. Cardinality(1..Len(old)) = Len(old)
  <2>1. PICK l \in Nat : l = Len(old)
    BY <1>3
  <2>2. Cardinality(1..l) = IF 1 > l THEN 0 ELSE l - 1 + 1
    BY FS_Interval
  <2> QED BY <2>1, <2>2
<1>10. Cardinality(T) \in Nat
  BY <1>1, FS_CardinalityType
<1> QED BY <1>2, <1>3, <1>8, <1>9, <1>10 DEF T

\* after k turns it is over, or two turns less remain for each node that has a value
OnTime(ns, r, k) ==
  \/ r.todo = <<>>
  \/ 2 * Cardinality(Involved(ns) \ DOMAIN r.v) + k <= 2 * Cardinality(Involved(ns)) + Len(r.todo)

(* Every turn puts a node on the list or takes one off for good, so the     *)
(* list is empty in time.                                                   *)
LEMMA TurnOnTime ==
  ASSUME IsProgram(Code), NEW ns, Askable(ns), NEW s, IsEnv(s), NEW k \in Nat,
         NEW r, Going(ns, s, r), OnTime(ns, r, k), NEW t, t = Turn(r)
  PROVE  Going(ns, s, t) /\ OnTime(ns, t, k + 1)
<1>1. CASE r.todo = <<>>
  BY <1>1 DEF Turn, OnTime
<1>2. CASE r.todo # <<>>
  <2>1. /\ Going(ns, s, t)
        /\ \/ Len(t.todo) = Len(r.todo) + 1 /\ t.v = r.v
           \/ /\ Len(t.todo) = Len(r.todo) - 1
              /\ \E n \in Involved(ns) \ DOMAIN r.v : DOMAIN t.v = DOMAIN r.v \cup {n}
    BY <1>2, TurnGoes DEF Went
  <2>2. PICK c \in Nat : c = Cardinality(Involved(ns))
    BY InvolvedFacts, FS_CardinalityType
  <2>3. PICK a \in Nat : a = Cardinality(Involved(ns) \ DOMAIN r.v)
    BY FewWait
  <2>4. PICK b \in Nat : b = Cardinality(Involved(ns) \ DOMAIN t.v)
    BY <2>1, FewWait
  <2>5. PICK lr \in Nat, lt \in Nat : lr = Len(r.todo) /\ lt = Len(t.todo)
    BY <2>1, FewWait
  <2>6. 2 * a + k <= 2 * c + lr
    BY <1>2, <2>2, <2>3, <2>5 DEF OnTime
  <2>7. (lt = lr + 1 /\ b = a) \/ (lt = lr - 1 /\ b = a - 1)
    <3>1. CASE Len(t.todo) = Len(r.todo) + 1 /\ t.v = r.v
      BY <2>3, <2>4, <2>5, <3>1
    <3>2. ASSUME Len(t.todo) = Len(r.todo) - 1,
                 NEW n \in Involved(ns) \ DOMAIN r.v, DOMAIN t.v = DOMAIN r.v \cup {n}
          PROVE  lt = lr - 1 /\ b = a - 1
      <4>1. PICK S : S = Involved(ns) \ DOMAIN r.v
        OBVIOUS
      <4>2. IsFiniteSet(S) /\ n \in S
        BY <3>2, <4>1, InvolvedFacts, FS_Subset
      <4>3. S \ {n} = Involved(ns) \ DOMAIN t.v
        BY <3>2, <4>1
      <4>4. Cardinality(S \ {n}) = Cardinality(S) - 1
        BY <4>2, FS_RemoveElement
      <4> QED BY <2>3, <2>4, <2>5, <3>2, <4>1, <4>3, <4>4
    <3> QED BY <2>1, <3>1, <3>2
  <2>8. 2 * b + (k + 1) <= 2 * c + lt
    BY <2>6, <2>7
  <2> QED BY <2>1, <2>2, <2>4, <2>5, <2>8 DEF OnTime
<1> QED BY <1>1, <1>2

(* The evaluation: all of ns have a value, and the frame at hand keeps no   *)
(* values but of what is involved and has the variables that ns declares.   *)
LEMMA EvaluateFacts ==
  ASSUME IsProgram(Code), NEW ns, Askable(ns), NEW s, IsEnv(s), NEW r, r = Evaluate(ns, s)
  PROVE  /\ IsEnv(r.s) /\ Changes(s, r.s, Involved(ns), Declared(ns))
         /\ Valued(ns, r.v)
<1> DEFINE f == Turns(ns, s)
           S == {k \in Nat : Going(ns, s, f[k]) /\ OnTime(ns, f[k], k)}
<1>1. 0 \in S
  <2>1. f[0] = Start(ns, s)
    BY TurnsIs
  <2>2. Going(ns, s, f[0])
    BY <2>1, StartGoes
  <2>3. OnTime(ns, f[0], 0)
    <3>1. DOMAIN f[0].v = {} /\ f[0].todo = ns
      BY <2>1 DEF Start, EmptyMap
    <3>2. Involved(ns) \ DOMAIN f[0].v = Involved(ns)
      BY <3>1
    <3>3. PICK c \in Nat : c = Cardinality(Involved(ns))
      BY InvolvedFacts, FS_CardinalityType
    <3>4. PICK l \in Nat : l = Len(f[0].todo)
      BY <2>2, FewWait
    <3>5. 2 * c + 0 <= 2 * c + l
      OBVIOUS
    <3> HIDE DEF f
    <3> QED BY <3>2, <3>3, <3>4, <3>5 DEF OnTime
  <2> QED BY <2>2, <2>3
<1>2. \A k \in S : k + 1 \in S
  <2>1. SUFFICES ASSUME NEW k \in S PROVE k + 1 \in S
    OBVIOUS
  <2>2. k \in Nat /\ Going(ns, s, f[k]) /\ OnTime(ns, f[k], k) /\ f[k + 1] = Turn(f[k])
    BY <2>1, TurnsIs
  <2>3. Going(ns, s, f[k + 1]) /\ OnTime(ns, f[k + 1], k + 1)
    BY <2>2, TurnOnTime
  <2> QED BY <2>2, <2>3
<1>3. S = Nat
  <2>1. S \in SUBSET Nat
    OBVIOUS
  <2> HIDE DEF S
  <2> QED BY <1>1, <1>2, <2>1, SetInduction
<1>4. PICK c \in Nat : c = Cardinality(Involved(ns))
  BY InvolvedFacts, FS_CardinalityType
<1>5. r = f[2 * c]
  BY <1>4 DEF Evaluate
<1>6. 2 * c \in S
  BY <1>3, <1>4
<1>7. Going(ns, s, r) /\ OnTime(ns, r, 2 * c)
  BY <1>5, <1>6
<1> HIDE DEF S, f
<1>8. r.todo = <<>>
  <2>1. SUFFICES ASSUME r.todo # <<>> PROVE FALSE
    OBVIOUS
  <2>2. PICK l \in Nat, a \in Nat : l = Len(r.todo) /\ a = Cardinality(Involved(ns) \ DOMAIN r.v) /\ l <= a
    BY <1>7, FewWait
  <2>3. 2 * a + 2 * c <= 2 * c + l
    BY <1>4, <1>7, <2>1, <2>2 DEF OnTime
  <2>4. l = 0
    BY <1>4, <2>2, <2>3
  <2>5. PICK q \in Seq(Involved(ns)) : q = r.todo
    BY <1>7 DEF Going, Waiting
  <2>6. Len(q) = 0
    BY <2>2, <2>4, <2>5
  <2>7. q = <<>>
    BY <2>5, <2>6
  <2> QED BY <2>1, <2>5, <2>7, Zenon
<1>9. \A i \in 1..Len(ns) : ns[i] \in DOMAIN r.v
  <2>1. Len(r.todo) = 0
    BY <1>8
  <2> QED BY <1>7, <2>1 DEF Going
<1>10. DOMAIN ns = 1..Len(ns)
  BY DEF Askable
<1>11. Valued(ns, r.v)
  BY <1>7, <1>9, <1>10 DEF Valued, Going
<1>12. VarsAmong(DOMAIN r.v) = Declared(ns)
  <2>1. ASSUME NEW m \in DOMAIN r.v, K(m) \in {"var", "array"}
        PROVE  \E i \in DOMAIN ns : m = ns[i]
    <3>1. Known(ns, m)
      BY <1>7 DEF Going
    <3>2. K(m) \notin Expressions
      BY <2>1 DEF Expressions
    <3> QED BY <1>10, <3>1, <3>2 DEF Known
  <2> QED BY <1>9, <1>10, <2>1 DEF VarsAmong, Declared
<1> QED BY <1>7, <1>11, <1>12 DEF Going

-------------------------------------------------------------------------------
(* The environment's operations, as the visitor sees them.                  *)

\* the frames of s, as CFrames has those of env
FrameOf(f) == [held |-> DOMAIN f.varmap, exprs |-> DOMAIN f.exprmap, returned |-> f.ret # <<>>]
FramesOf(s) == [f \in DOMAIN s.frames |-> FrameOf(s.frames[f])]

(* The frames that the visitor sees are those of the environment.           *)
LEMMA FramesAre ==
  ASSUME NEW s, IsEnv(s)
  PROVE  /\ DOMAIN FramesOf(s) = 1..Depth(s) /\ Len(FramesOf(s)) = Depth(s)
         /\ Depth(s) \in Nat \ {0} /\ Depth(s) \in 1..Depth(s)
         /\ \A f \in 1..Depth(s) : FramesOf(s)[f] = FrameOf(s.frames[f])
<1>1. DOMAIN s.frames = 1..Depth(s) /\ Depth(s) \in Nat \ {0}
  BY DEF IsEnv, Depth
<1>2. DOMAIN FramesOf(s) = 1..Depth(s)
  BY <1>1 DEF FramesOf
<1>3. PICK d \in Nat \ {0} : d = Depth(s)
  BY <1>1
<1>4. Len(FramesOf(s)) = d
  BY <1>2, <1>3
<1> QED BY <1>1, <1>2, <1>3, <1>4 DEF FramesOf

(* The frame at hand keeps values of expressions in what.                   *)
Keeping(F, G, d, what) ==
  /\ F[d].exprs \subseteq G[d].exprs /\ G[d].exprs \subseteq F[d].exprs \cup what
  /\ G = [F EXCEPT ![d].exprs = G[d].exprs]

(* An evaluation that declares nothing is the visitor's evaluation.         *)
LEMMA ChangedFrames ==
  ASSUME NEW s, IsEnv(s), NEW t, IsEnv(t), NEW what, Changes(s, t, what, {})
  PROVE  Keeping(FramesOf(s), FramesOf(t), Depth(s), what)
<1>0. PICK F, G : F = FramesOf(s) /\ G = FramesOf(t)
  OBVIOUS
<1>1. PICK d \in Nat \ {0} : d = Depth(s) /\ F = FramesOf(s) /\ G = FramesOf(t)
  BY <1>0, FramesAre
<1>2. /\ Depth(t) = d
      /\ \A f \in 1..d :
           /\ t.frames[f].ret = s.frames[f].ret
           /\ DOMAIN t.frames[f].varmap = DOMAIN s.frames[f].varmap
           /\ DOMAIN s.frames[f].exprmap \subseteq DOMAIN t.frames[f].exprmap
           /\ DOMAIN t.frames[f].exprmap
                \subseteq DOMAIN s.frames[f].exprmap \cup (IF f = d THEN what ELSE {})
  BY <1>1 DEF Changes
<1>3. /\ DOMAIN F = 1..d /\ DOMAIN G = 1..d /\ d \in 1..d
      /\ \A f \in 1..d : F[f] = FrameOf(s.frames[f]) /\ G[f] = FrameOf(t.frames[f])
  BY <1>1, <1>2, FramesAre
<1>4. F[d].exprs \subseteq G[d].exprs /\ G[d].exprs \subseteq F[d].exprs \cup what
  BY <1>2, <1>3 DEF FrameOf
<1>5. \A f \in 1..d \ {d} : G[f] = F[f]
  <2>1. ASSUME NEW f \in 1..d, f # d
        PROVE  DOMAIN t.frames[f].exprmap = DOMAIN s.frames[f].exprmap
    BY <1>2, <2>1
  <2> QED BY <1>2, <1>3, <2>1 DEF FrameOf
<1>6. G[d] = [F[d] EXCEPT !.exprs = G[d].exprs]
  BY <1>2, <1>3 DEF FrameOf
<1>7. G = [F EXCEPT ![d].exprs = G[d].exprs]
  <2>1. PICK e : e = [F[d] EXCEPT !.exprs = G[d].exprs]
    OBVIOUS
  <2>2. PICK H : H = [F EXCEPT ![d] = e]
    OBVIOUS
  <2>3. H = [F EXCEPT ![d].exprs = G[d].exprs]
    BY <2>1, <2>2
  <2>4. DOMAIN H = 1..d /\ \A f \in 1..d : H[f] = G[f]
    BY <1>3, <1>5, <1>6, <2>1, <2>2
  <2>5. H = [f \in 1..d |-> H[f]] /\ G = [f \in 1..d |-> G[f]]
    <3>1. G = [f \in 1..d |-> G[f]]
      BY <1>1, <1>3 DEF FramesOf
    <3>2. H = [f \in 1..d |-> H[f]]
      BY <1>3, <2>2, <3>1, <1>1 DEF FramesOf
    <3> QED BY <3>1, <3>2
  <2> QED BY <2>3, <2>4, <2>5
<1> QED BY <1>1, <1>4, <1>7 DEF Keeping

(* A condition is evaluated.                                                *)
LEMMA ConditionFacts ==
  ASSUME IsProgram(Code), NEW n \in DOMAIN Code, K(n) \in Expressions, NEW s, IsEnv(s),
         NEW c, c = EvaluateExpr(n, s)
  PROVE  IsEnv(c.s) /\ Keeping(FramesOf(s), FramesOf(c.s), Depth(s), Part(n))
<1>1. PICK r : r = Evaluate(<<n>>, s)
  OBVIOUS
<1>2. c.s = r.s
  BY <1>1 DEF EvaluateExpr, With
<1>3. Askable(<<n>>)
  BY OneAskable
<1>4. IsEnv(r.s) /\ Changes(s, r.s, Involved(<<n>>), Declared(<<n>>))
  BY <1>1, <1>3, EvaluateFacts
<1>5. K(n) \notin {"var", "array", "fun"}
  BY DEF Expressions
<1>6. Declared(<<n>>) = {}
  <2>1. \A i \in DOMAIN <<n>> : K(<<n>>[i]) \notin {"var", "array"}
    BY <1>5
  <2> QED BY <2>1 DEF Declared
<1>7. Involved(<<n>>) = Part(n)
  <2>1. DOMAIN <<n>> = {1} /\ <<n>>[1] = n
    OBVIOUS
  <2> QED BY <1>5, <2>1 DEF Involved
<1> QED BY <1>2, <1>4, <1>6, <1>7, ChangedFrames

(* The operands of a node are evaluated.                                    *)
LEMMA OperandsEvaluated ==
  ASSUME IsProgram(Code), NEW n \in DOMAIN Code, NEW s, IsEnv(s), NEW r, r = Evaluate(Operands(n, s), s)
  PROVE  /\ IsEnv(r.s)
         /\ Changes(s, r.s, Part(n), IF K(n) = "decls" THEN Declared(Kids(n)) ELSE {})
         /\ Valued(Operands(n, r.s), r.v)
<1>1. PICK ns : ns = Operands(n, s)
  OBVIOUS
<1>2. /\ Askable(ns) /\ Inside(ns, n)
      /\ K(n) # "decls" => \A i \in 1..Len(ns) : K(ns[i]) \in Expressions
  BY <1>1, OperandFacts
<1>3. IsEnv(r.s) /\ Changes(s, r.s, Involved(ns), Declared(ns)) /\ Valued(ns, r.v)
  BY <1>1, <1>2, EvaluateFacts
<1>4. DOMAIN ns = 1..Len(ns)
  BY <1>2 DEF Askable
<1>5. Involved(ns) \subseteq Part(n)
  BY <1>2, <1>4 DEF Involved, Inside
<1>6. Declared(ns) = IF K(n) = "decls" THEN Declared(Kids(n)) ELSE {}
  <2>1. CASE K(n) = "decls"
    BY <1>1, <2>1 DEF Operands
  <2>2. CASE K(n) # "decls"
    <3>1. \A i \in DOMAIN ns : K(ns[i]) \notin {"var", "array"}
      BY <1>2, <1>4, <2>2 DEF Expressions
    <3> QED BY <2>2, <3>1 DEF Declared
  <2> QED BY <2>1, <2>2
<1>7. Changes(s, r.s, Part(n), Declared(ns))
  BY <1>3, <1>5 DEF Changes
<1>8. Operands(n, r.s) = ns
  <2>1. CASE K(n) = "decls"
    BY <1>1, <2>1 DEF Operands
  <2>2. CASE K(n) # "decls"
    BY <1>1, <1>6, <1>7, <2>2, OperandsSame
  <2> QED BY <2>1, <2>2
<1> QED BY <1>3, <1>6, <1>7, <1>8

\* the kinds of nodes that the visitor has the environment handle
HandledKinds == {"index", "decls", "neg", "deref", "bin", "asg", "call", "return"}

(* No function of the program is called.                                    *)
LEMMA HandlerFacts ==
  ASSUME IsProgram(Code), NEW n \in DOMAIN Code, K(n) \in HandledKinds \ {"return"},
         ~ CallsFunction(n), NEW s, IsEnv(s), NEW t, t = Handler(n, s)
  PROVE  /\ IsEnv(t)
         /\ Changes(s, t, Part(n), IF K(n) = "decls" THEN Declared(Kids(n)) ELSE {})
<1>1. PICK r : r = Evaluate(Operands(n, s), s)
  OBVIOUS
<1>2. PICK ds : ds = IF K(n) = "decls" THEN Declared(Kids(n)) ELSE {}
  OBVIOUS
<1>3. IsEnv(r.s) /\ Changes(s, r.s, Part(n), ds) /\ Valued(Operands(n, r.s), r.v)
  BY <1>1, <1>2, OperandsEvaluated
<1>4. t = Operate(n, r.v, r.s)
  BY <1>1 DEF Handler
<1>5. DeclaredBy(n) = {} /\ K(n) # "return"
  BY DEF DeclaredBy, HandledKinds
<1>6. IsEnv(t) /\ Changes(r.s, t, {n}, {})
  BY <1>3, <1>4, <1>5, OperateFacts
<1>7. {n} \subseteq Part(n)
  BY PartIs
<1>8. Changes(s, t, Part(n), ds \cup {})
  BY <1>3, <1>6, <1>7, ChangesMore
<1> QED BY <1>2, <1>6, <1>8

(* A return statement is evaluated and leaves its value in the frame        *)
(* (Environment.h:382-385).                                                 *)
LEMMA ReturnFacts ==
  ASSUME IsProgram(Code), NEW n \in DOMAIN Code, K(n) = "return", NEW s, IsEnv(s),
         NEW t, t = Handler(n, s)
  PROVE  /\ IsEnv(t)
         /\ \E u : /\ IsEnv(u) /\ Changes(s, u, Part(n), {}) /\ Depth(t) = Depth(u)
                   /\ \A f \in 1..Depth(u) :
                        /\ t.frames[f].varmap = u.frames[f].varmap
                        /\ t.frames[f].exprmap = u.frames[f].exprmap
                        /\ (t.frames[f].ret # <<>>)
                             = (u.frames[f].ret # <<>> \/ f = Depth(u))
<1>1. PICK r : r = Evaluate(Operands(n, s), s)
  OBVIOUS
<1>2. PICK u : u = r.s
  OBVIOUS
<1>3. IsEnv(u) /\ Changes(s, u, Part(n), {}) /\ Valued(Operands(n, u), r.v)
  BY <1>1, <1>2, OperandsEvaluated
<1>4. PICK v \in Int : v = r.v[Kid(n, 1)]
  <2>1. Operands(n, u) = Kids(n) /\ 1 \in DOMAIN Kids(n)
    <3>1. Len(Kids(n)) = 1 /\ DOMAIN Kids(n) = 1..Len(Kids(n))
      BY ShapeIs
    <3> QED BY <3>1 DEF Operands
  <2> QED BY <1>3, <2>1 DEF Valued, Kid
<1>5. t = [u EXCEPT !.frames[Depth(u)].ret = <<v>>]
  <2>1. t = HandleReturnStmt(n, r.v, u)
    BY <1>1, <1>2 DEF Handler, Operate
  <2> QED BY <1>4, <2>1 DEF HandleReturnStmt
<1>6. PICK d : d = Depth(u)
  OBVIOUS
<1>7. PICK g : g = [u.frames[d] EXCEPT !.ret = <<v>>]
  OBVIOUS
<1>8. t = Replaced(u, d, g)
  BY <1>5, <1>6, <1>7 DEF Replaced
<1>9. d \in 1..Depth(u) /\ IsFrame(u.frames[d]) /\ d \in Nat
  BY <1>3, <1>6 DEF IsEnv, Depth
<1>10. /\ g.varmap = u.frames[d].varmap /\ g.exprmap = u.frames[d].exprmap /\ g.ret = <<v>>
       /\ DOMAIN g = {"varmap", "exprmap", "ret"}
  BY <1>7, <1>9 DEF IsFrame
<1>11. IsFrame(g)
  <2>1. g.ret \in Seq(Int)
    BY <1>4, <1>10
  <2> QED BY <1>9, <1>10, <2>1 DEF IsFrame
<1>12. /\ IsEnv(t) /\ Depth(t) = Depth(u)
       /\ \A i \in 1..Depth(u) : t.frames[i] = IF i = d THEN g ELSE u.frames[i]
  BY <1>3, <1>8, <1>9, <1>11, FrameReplaced
<1>13. g.ret # <<>>
  BY <1>10
<1>14. ASSUME NEW f \in 1..Depth(u)
       PROVE  /\ t.frames[f].varmap = u.frames[f].varmap
              /\ t.frames[f].exprmap = u.frames[f].exprmap
              /\ (t.frames[f].ret # <<>>) = (u.frames[f].ret # <<>> \/ f = Depth(u))
  BY <1>6, <1>10, <1>12, <1>13
<1> QED BY <1>3, <1>12, <1>14

(* A function of the program is called.                                     *)
LEMMA FunctionIs ==
  ASSUME IsProgram(Code), NEW f, IsFunction(Code, f)
  PROVE  \E k \in Nat : /\ DOMAIN ParamsOf(Code, f) = 1..k /\ Len(ParamsOf(Code, f)) = k
<1>1. FunctionOf(Code, f) \in DOMAIN Code /\ K(FunctionOf(Code, f)) = "fun"
  BY DEF IsFunction, FunctionOf, K
<1>2. PICK m \in DOMAIN Code : m = FunctionOf(Code, f)
  BY <1>1
<1>3. Code[m].kids # <<>> /\ Code[m].kids \in Seq(DOMAIN Code)
  BY <1>1, <1>2 DEF IsProgram, IsTree, K
<1>4. PICK k \in Nat : k = Len(Code[m].kids) - 1
  BY <1>3
<1>5. ParamsOf(Code, f) = [i \in 1..k |-> Code[Code[m].kids[i]].x]
  BY <1>2, <1>4 DEF ParamsOf
<1> QED BY <1>5

(* The arguments of the call n have been evaluated and a frame pushed.      *)
Entered(s, t, n) ==
  \E u, g : /\ IsEnv(u) /\ Changes(s, u, Part(n), {})
            /\ t.frames = Append(u.frames, g) /\ Depth(t) = Depth(u) + 1
            /\ FrameOf(g) = [held |-> Range(ParamsOf(Code, X(n))), exprs |-> {}, returned |-> FALSE]

(* A call evaluates its arguments and gets a frame that holds the           *)
(* parameters (Environment.h:325-340).                                      *)
LEMMA EnterFacts ==
  ASSUME IsProgram(Code), NEW n \in DOMAIN Code, CallsFunction(n), NEW s, IsEnv(s),
         NEW t, t = Handler(n, s)
  PROVE  IsEnv(t) /\ Entered(s, t, n)
<1>1. PICK r : r = Evaluate(Operands(n, s), s)
  OBVIOUS
<1>2. PICK u : u = r.s
  OBVIOUS
<1>3. K(n) = "call" /\ X(n) \notin Builtins /\ IsFunction(Code, X(n))
  BY DEF CallsFunction, IsProgram, K, X
<1>4. IsEnv(u) /\ Changes(s, u, Part(n), {}) /\ Valued(Operands(n, u), r.v)
  BY <1>1, <1>2, <1>3, OperandsEvaluated
<1>0. PICK ps : ps = ParamsOf(Code, X(n))
  OBVIOUS
<1>5. PICK k \in Nat : ps = ParamsOf(Code, X(n)) /\ DOMAIN ps = 1..k /\ Len(ps) = k
  <2>1. PICK f : f = X(n)
    OBVIOUS
  <2>2. IsFunction(Code, f)
    BY <1>3, <2>1
  <2>3. PICK k \in Nat : DOMAIN ParamsOf(Code, f) = 1..k /\ Len(ParamsOf(Code, f)) = k
    BY <2>2, FunctionIs
  <2> QED BY <1>0, <2>1, <2>3
<1>6. Len(Kids(n)) = k /\ DOMAIN Kids(n) = 1..k /\ Operands(n, u) = Kids(n)
  <2>1. Arity(Code, X(n)) = k
    BY <1>3, <1>5 DEF Arity, Builtins
  <2>2. Len(Kids(n)) = k /\ DOMAIN Kids(n) = 1..Len(Kids(n))
    BY <1>3, <2>1, ShapeIs
  <2> QED BY <1>3, <2>2 DEF Operands
<1>7. \A i \in 1..k : r.v[Kid(n, i)] \in Int
  BY <1>4, <1>6 DEF Valued, Kid
<1> DEFINE argument(d) == Kid(n, CHOOSE i \in DOMAIN ps : ps[i] = d)
<1>8. PICK m : m = [d \in Range(ps) |-> <<r.v[argument(d)]>>]
  OBVIOUS
<1>9. \A d \in Range(ps) : r.v[argument(d)] \in Int
  <2>1. SUFFICES ASSUME NEW d \in Range(ps) PROVE r.v[argument(d)] \in Int
    OBVIOUS
  <2>2. \E i \in DOMAIN ps : ps[i] = d
    BY DEF Range
  <2>3. (CHOOSE i \in DOMAIN ps : ps[i] = d) \in 1..k
    BY <1>5, <2>2
  <2> QED BY <1>7, <2>3
<1>10. DOMAIN m = Range(ps) /\ \A d \in DOMAIN m : m[d] \in Seq(Int) /\ m[d] # <<>>
  <2> HIDE DEF argument
  <2>1. \A d \in DOMAIN m : m[d] = <<r.v[argument(d)]>> /\ r.v[argument(d)] \in Int
    BY <1>8, <1>9
  <2>2. \A w \in Int : <<w>> \in Seq(Int) /\ <<w>> # <<>>
    OBVIOUS
  <2> QED BY <1>8, <2>1, <2>2
<1>11. PICK g : g = [NewFrame EXCEPT !.varmap = m]
  OBVIOUS
<1>12. t = [u EXCEPT !.frames = Append(u.frames, g)]
  <2>1. t = PushFrame(n, r.v, u)
    <3>1. t = HandleCallExpr(n, r.v, u)
      BY <1>1, <1>2, <1>3 DEF Handler, Operate
    <3> QED BY <1>3, <3>1 DEF HandleCallExpr, Builtins
  <2> QED BY <1>5, <1>8, <1>11, <2>1 DEF PushFrame
<1>13. /\ DOMAIN g = {"varmap", "exprmap", "ret"} /\ g.varmap = m /\ DOMAIN g.exprmap = {}
       /\ g.ret = <<>>
  BY <1>11 DEF NewFrame, EmptyMap
<1>14. IsFrame(g)
  BY <1>10, <1>13 DEF IsFrame
<1>15. FrameOf(g) = [held |-> Range(ps), exprs |-> {}, returned |-> FALSE]
  BY <1>10, <1>13 DEF FrameOf
<1>16. /\ DOMAIN t = DOMAIN u /\ t.frames = Append(u.frames, g)
       /\ t.mem = u.mem /\ t.blocks = u.blocks /\ t.brk = u.brk /\ t.heap = u.heap
       /\ t.input = u.input /\ t.fault = u.fault
  BY <1>4, <1>12 DEF IsEnv
<1>17. /\ Depth(t) = Depth(u) + 1 /\ DOMAIN t.frames = 1..Depth(t)
       /\ \A i \in 1..Depth(t) : t.frames[i] = IF i = Depth(t) THEN g ELSE u.frames[i]
  <2>1. PICK d \in Nat \ {0} : d = Len(u.frames) /\ DOMAIN u.frames = 1..d
    BY <1>4 DEF IsEnv
  <2>2. t.frames = [i \in 1..(d + 1) |-> IF i <= d THEN u.frames[i] ELSE g]
    BY <1>16, <2>1
  <2>3. Len(t.frames) = d + 1
    BY <2>1, <2>2
  <2> QED BY <2>1, <2>2, <2>3 DEF Depth
<1>18. IsEnv(t)
  <2>1. /\ Len(u.frames) \in Nat \ {0}
        /\ \A f \in 1..Len(u.frames) : IsFrame(u.frames[f])
        /\ IsMemory(u.mem, u.blocks, u.brk) /\ u.input \in Seq(Int)
        /\ u.fault \in {"none", "assertion", "undefined"} /\ DOMAIN u.blocks \subseteq u.heap
        /\ DOMAIN u = {"frames", "heap", "mem", "blocks", "brk", "input", "output", "fault"}
    BY <1>4 DEF IsEnv
  <2>2. \A f \in 1..Depth(t) : IsFrame(t.frames[f])
    BY <1>14, <1>17, <2>1 DEF Depth
  <2>3. Len(t.frames) \in Nat \ {0}
    BY <1>17, <2>1 DEF Depth
  <2> QED BY <1>16, <1>17, <2>1, <2>2, <2>3 DEF IsEnv, Depth
<1> QED BY <1>4, <1>5, <1>15, <1>16, <1>17, <1>18 DEF Entered

(* Frames that differ in the topmost one only differ by an EXCEPT.          *)
LEMMA FrameIs ==
  ASSUME NEW F, NEW G, NEW d \in Nat \ {0}, F = [f \in 1..d |-> F[f]], G = [f \in 1..d |-> G[f]],
         \A f \in 1..d : f # d => G[f] = F[f], NEW e, G[d] = e
  PROVE  G = [F EXCEPT ![d] = e]
<1>1. PICK H : H = [F EXCEPT ![d] = e]
  OBVIOUS
<1>2. H = [f \in 1..d |-> H[f]] /\ \A f \in 1..d : H[f] = G[f]
  BY <1>1
<1> QED BY <1>1, <1>2

(* The frames seen are a function of the depth.                             *)
LEMMA FramesMap ==
  ASSUME NEW s, IsEnv(s)
  PROVE  FramesOf(s) = [f \in 1..Depth(s) |-> FramesOf(s)[f]]
BY FramesAre DEF FramesOf

(* What is seen of a frame.                                                 *)
LEMMA FrameFields ==
  ASSUME NEW f, NEW e, e = FrameOf(f)
  PROVE  /\ e.held = DOMAIN f.varmap /\ e.exprs = DOMAIN f.exprmap
         /\ e.returned = (f.ret # <<>>) /\ e.returned \in BOOLEAN
         /\ e = [held |-> e.held, exprs |-> e.exprs, returned |-> e.returned]
BY DEF FrameOf

(* What changes in the frames, when variables are declared in the one at    *)
(* hand or its function returns.                                            *)
Handled(s, t, d, what, ds, ret) ==
  /\ Depth(s) = d /\ Depth(t) = d
  /\ \A f \in 1..d :
       /\ (t.frames[f].ret # <<>>) = (s.frames[f].ret # <<>> \/ (f = d /\ ret))
       /\ DOMAIN t.frames[f].varmap = DOMAIN s.frames[f].varmap \cup (IF f = d THEN ds ELSE {})
       /\ DOMAIN s.frames[f].exprmap \subseteq DOMAIN t.frames[f].exprmap
       /\ DOMAIN t.frames[f].exprmap
            \subseteq DOMAIN s.frames[f].exprmap \cup (IF f = d THEN what ELSE {})

Becoming(F, G, d, what, ds, ret) ==
  /\ F[d].exprs \subseteq G[d].exprs /\ G[d].exprs \subseteq F[d].exprs \cup what
  /\ G = [F EXCEPT ![d] = [held |-> F[d].held \cup ds, exprs |-> G[d].exprs,
                           returned |-> F[d].returned \/ ret]]

(* What the environment handles is what the visitor's Becoming says.        *)
LEMMA HandledBecoming ==
  ASSUME NEW s, IsEnv(s), NEW t, IsEnv(t), NEW d, NEW what, NEW ds, NEW ret \in BOOLEAN,
         Handled(s, t, d, what, ds, ret)
  PROVE  Becoming(FramesOf(s), FramesOf(t), d, what, ds, ret)
<1>1. PICK F, G : F = FramesOf(s) /\ G = FramesOf(t)
  OBVIOUS
<1>2. d \in Nat \ {0} /\ d \in 1..d /\ F = [f \in 1..d |-> F[f]] /\ G = [f \in 1..d |-> G[f]]
  BY <1>1, FramesAre, FramesMap DEF Handled
<1>3. \A f \in 1..d : F[f] = FrameOf(s.frames[f]) /\ G[f] = FrameOf(t.frames[f])
  BY <1>1, FramesAre DEF Handled
<1>4. \A f \in 1..d : /\ F[f].held = DOMAIN s.frames[f].varmap /\ F[f].exprs = DOMAIN s.frames[f].exprmap
                       /\ F[f].returned = (s.frames[f].ret # <<>>) /\ F[f].returned \in BOOLEAN
                       /\ F[f] = [held |-> F[f].held, exprs |-> F[f].exprs, returned |-> F[f].returned]
  BY <1>3, FrameFields
<1>5. \A f \in 1..d : /\ G[f].held = DOMAIN t.frames[f].varmap /\ G[f].exprs = DOMAIN t.frames[f].exprmap
                       /\ G[f].returned = (t.frames[f].ret # <<>>) /\ G[f].returned \in BOOLEAN
                       /\ G[f] = [held |-> G[f].held, exprs |-> G[f].exprs, returned |-> G[f].returned]
  BY <1>3, FrameFields
<1>6. ASSUME NEW f \in 1..d
      PROVE  /\ G[f].held = F[f].held \cup (IF f = d THEN ds ELSE {})
             /\ F[f].exprs \subseteq G[f].exprs
             /\ G[f].exprs \subseteq F[f].exprs \cup (IF f = d THEN what ELSE {})
             /\ G[f].returned = (F[f].returned \/ (f = d /\ ret))
  <2>1. /\ DOMAIN t.frames[f].varmap = DOMAIN s.frames[f].varmap \cup (IF f = d THEN ds ELSE {})
        /\ DOMAIN s.frames[f].exprmap \subseteq DOMAIN t.frames[f].exprmap
        /\ DOMAIN t.frames[f].exprmap
             \subseteq DOMAIN s.frames[f].exprmap \cup (IF f = d THEN what ELSE {})
    BY DEF Handled
  <2>2. (t.frames[f].ret # <<>>) = (s.frames[f].ret # <<>> \/ (f = d /\ ret))
    BY DEF Handled
  <2>3. G[f].returned = (F[f].returned \/ (f = d /\ ret))
    BY <1>4, <1>5, <2>2, Zenon
  <2> QED BY <1>4, <1>5, <2>1, <2>3
<1>7. ASSUME NEW f \in 1..d, f # d
      PROVE  G[f] = F[f]
  <2>1. G[f].held = F[f].held /\ G[f].exprs = F[f].exprs /\ G[f].returned = F[f].returned
    <3>1. G[f].returned = (F[f].returned \/ (f = d /\ ret)) /\ F[f].returned \in BOOLEAN
      BY <1>4, <1>6
    <3> QED BY <1>6, <1>7, <3>1
  <2> QED BY <1>4, <1>5, <2>1, Zenon
<1>8. PICK e : e = [held |-> F[d].held \cup ds, exprs |-> G[d].exprs, returned |-> F[d].returned \/ ret]
  OBVIOUS
<1>9. G[d] = e
  <2>1. G[d].held = F[d].held \cup ds /\ G[d].returned = (F[d].returned \/ ret)
    BY <1>2, <1>6, Zenon
  <2> QED BY <1>2, <1>5, <1>8, <2>1, Zenon
<1>10. F[d].exprs \subseteq G[d].exprs /\ G[d].exprs \subseteq F[d].exprs \cup what
  BY <1>2, <1>6
<1>11. G = [F EXCEPT ![d] = e]
  BY <1>2, <1>7, <1>9, FrameIs
<1>12. Becoming(F, G, d, what, ds, ret)
  BY <1>8, <1>10, <1>11, Zenon DEF Becoming
<1> QED BY <1>1, <1>12

(* What a step of the visitor that has n handled does to the frames.        *)
LEMMA HandledFrames ==
  ASSUME IsProgram(Code), NEW n \in DOMAIN Code, K(n) \in HandledKinds, ~ CallsFunction(n),
         NEW s, IsEnv(s), NEW t, t = Handler(n, s)
  PROVE  /\ IsEnv(t)
         /\ Becoming(FramesOf(s), FramesOf(t), Depth(s), Part(n),
                     IF K(n) = "decls" THEN Declared(Kids(n)) ELSE {}, K(n) = "return")
<1>1. PICK d : d = Depth(s)
  OBVIOUS
<1>2. PICK ds : ds = IF K(n) = "decls" THEN Declared(Kids(n)) ELSE {}
  OBVIOUS
<1>3. PICK ret \in BOOLEAN : ret = (K(n) = "return")
  OBVIOUS
<1>4. CASE K(n) # "return"
  <2>1. IsEnv(t) /\ Changes(s, t, Part(n), ds)
    BY <1>2, <1>4, HandlerFacts
  <2>2. ret = FALSE
    BY <1>3, <1>4
  <2>3. Handled(s, t, d, Part(n), ds, FALSE)
    BY <1>1, <2>1 DEF Handled, Changes
  <2>4. Handled(s, t, d, Part(n), ds, ret)
    BY <2>2, <2>3
  <2>5. Becoming(FramesOf(s), FramesOf(t), d, Part(n), ds, ret)
    BY <2>1, <2>4, HandledBecoming
  <2> QED BY <1>1, <1>2, <1>3, <2>1, <2>5, Zenon
<1>5. CASE K(n) = "return"
  <2>1. PICK u : /\ IsEnv(u) /\ Changes(s, u, Part(n), {}) /\ Depth(t) = Depth(u)
                 /\ \A f \in 1..Depth(u) :
                      /\ t.frames[f].varmap = u.frames[f].varmap
                      /\ t.frames[f].exprmap = u.frames[f].exprmap
                      /\ (t.frames[f].ret # <<>>) = (u.frames[f].ret # <<>> \/ f = Depth(u))
    BY <1>5, ReturnFacts
  <2>2. IsEnv(t)
    BY <1>5, ReturnFacts
  <2>3. ret = TRUE /\ ds = {}
    BY <1>2, <1>3, <1>5
  <2>4. Handled(s, t, d, Part(n), {}, TRUE)
    <3>1. Depth(u) = d /\ Depth(t) = d
      BY <1>1, <2>1 DEF Changes
    <3>2. ASSUME NEW f \in 1..d
          PROVE  /\ DOMAIN t.frames[f].varmap = DOMAIN s.frames[f].varmap \cup (IF f = d THEN {} ELSE {})
                 /\ DOMAIN s.frames[f].exprmap \subseteq DOMAIN t.frames[f].exprmap
                 /\ DOMAIN t.frames[f].exprmap
                      \subseteq DOMAIN s.frames[f].exprmap \cup (IF f = d THEN Part(n) ELSE {})
                 /\ u.frames[f].ret = s.frames[f].ret
                 /\ (t.frames[f].ret # <<>>) = (u.frames[f].ret # <<>> \/ f = d)
      BY <1>1, <2>1, <3>1, <3>2 DEF Changes
    <3>3. ASSUME NEW f \in 1..d
          PROVE  (t.frames[f].ret # <<>>) = (s.frames[f].ret # <<>> \/ (f = d /\ TRUE))
      BY <3>2, Zenon
    <3> QED BY <1>1, <3>1, <3>2, <3>3, Zenon DEF Handled
  <2>5. Handled(s, t, d, Part(n), ds, ret)
    BY <2>3, <2>4
  <2>6. Becoming(FramesOf(s), FramesOf(t), d, Part(n), ds, ret)
    BY <2>2, <2>5, HandledBecoming
  <2> QED BY <1>1, <1>2, <1>3, <2>2, <2>6, Zenon
<1> QED BY <1>4, <1>5

(* The frame of a function that has been called is removed.                 *)
LEMMA LeaveFacts ==
  ASSUME NEW n \in DOMAIN Code, CallsFunction(n), NEW v \in Int,
         NEW s, IsEnv(s), Depth(s) >= 2,
         NEW t, t = PushExpr(n, v, [s EXCEPT !.frames = Front(s.frames)])
  PROVE  /\ IsEnv(t)
         /\ FramesOf(t) = [Front(FramesOf(s)) EXCEPT ![Depth(s) - 1].exprs = @ \cup {n}]
<1>0. PICK d \in Nat \ {0, 1} : d = Depth(s) /\ DOMAIN s.frames = 1..d
  BY DEF IsEnv, Depth
<1>1. PICK fs : fs = Front(s.frames)
  OBVIOUS
<1>2. fs = [f \in 1..(d - 1) |-> s.frames[f]] /\ Len(fs) = d - 1
  BY <1>0, <1>1 DEF Front, Depth
<1>3. PICK u : u = [s EXCEPT !.frames = fs]
  OBVIOUS
<1>4. /\ DOMAIN u = DOMAIN s /\ u.frames = fs /\ u.mem = s.mem /\ u.blocks = s.blocks
      /\ u.brk = s.brk /\ u.input = s.input /\ u.fault = s.fault /\ u.heap = s.heap
  BY <1>3 DEF IsEnv
<1>5. IsEnv(u) /\ Depth(u) = d - 1
  <2>1. /\ \A f \in 1..d : IsFrame(s.frames[f])
        /\ IsMemory(s.mem, s.blocks, s.brk) /\ s.input \in Seq(Int)
        /\ s.fault \in {"none", "assertion", "undefined"} /\ DOMAIN s.blocks \subseteq s.heap
        /\ DOMAIN s = {"frames", "heap", "mem", "blocks", "brk", "input", "output", "fault"}
    BY <1>0 DEF IsEnv, Depth
  <2>2. /\ Len(u.frames) = d - 1 /\ DOMAIN u.frames = 1..(d - 1)
        /\ \A f \in 1..(d - 1) : IsFrame(u.frames[f])
    BY <1>2, <1>4, <2>1
  <2> QED BY <1>0, <1>4, <2>1, <2>2 DEF IsEnv, Depth
<1>6. t = PushExpr(n, v, u)
  BY <1>1, <1>3
<1>7. K(n) \in Keeps
  BY DEF CallsFunction, Keeps
<1>8. IsEnv(t) /\ Changes(u, t, {n}, {}) /\ HasExpr(n, t)
  BY <1>5, <1>6, <1>7, PushExprFacts
<1>9. PICK F, G : F = FramesOf(u) /\ G = FramesOf(t)
  OBVIOUS
<1>10. Keeping(F, G, d - 1, {n})
  BY <1>5, <1>8, <1>9, ChangedFrames
<1>11. n \in G[d - 1].exprs
  <2>1. Depth(t) = d - 1
    BY <1>5, <1>8 DEF Changes
  <2>2. G[d - 1] = FrameOf(t.frames[d - 1])
    BY <1>8, <1>9, <2>1, FramesAre
  <2> QED BY <1>8, <2>1, <2>2 DEF FrameOf, HasExpr, Top
<1>12. G[d - 1].exprs = F[d - 1].exprs \cup {n}
  BY <1>10, <1>11 DEF Keeping
<1>13. F = Front(FramesOf(s))
  <2>1. PICK H : H = FramesOf(s)
    OBVIOUS
  <2>2. Len(H) = d /\ \A f \in 1..d : H[f] = FrameOf(s.frames[f])
    BY <1>0, <2>1, FramesAre
  <2>3. Front(H) = [f \in 1..(d - 1) |-> H[f]]
    BY <1>0, <2>2 DEF Front
  <2>4. F = [f \in 1..(d - 1) |-> FrameOf(u.frames[f])]
    BY <1>2, <1>4, <1>9 DEF FramesOf
  <2>5. \A f \in 1..(d - 1) : FrameOf(u.frames[f]) = H[f]
    BY <1>2, <1>4, <2>2
  <2> QED BY <2>1, <2>3, <2>4, <2>5
<1>14. G = [F EXCEPT ![d - 1].exprs = F[d - 1].exprs \cup {n}]
  BY <1>10, <1>12 DEF Keeping
<1> QED BY <1>0, <1>8, <1>9, <1>13, <1>14

(* The values of the frame at hand are forgotten.                           *)
LEMMA ExprsForgotten ==
  ASSUME NEW s, IsEnv(s), NEW t, IsEnv(t), NEW d, Depth(s) = d, Depth(t) = d, NEW g,
         g.varmap = s.frames[d].varmap, DOMAIN g.exprmap = {}, g.ret = s.frames[d].ret,
         \A i \in 1..d : t.frames[i] = IF i = d THEN g ELSE s.frames[i]
  PROVE  FramesOf(t) = [FramesOf(s) EXCEPT ![d].exprs = {}]
<1>1. PICK F, G : F = FramesOf(s) /\ G = FramesOf(t)
  OBVIOUS
<1>2. d \in Nat \ {0} /\ d \in 1..d /\ F = [f \in 1..d |-> F[f]] /\ G = [f \in 1..d |-> G[f]]
  BY <1>1, FramesAre, FramesMap
<1>3. \A f \in 1..d : F[f] = FrameOf(s.frames[f]) /\ G[f] = FrameOf(t.frames[f])
  BY <1>1, FramesAre
<1>4. \A f \in 1..d : f # d => G[f] = F[f]
  BY <1>3
<1>5. PICK x, y : x = F[d] /\ y = G[d]
  OBVIOUS
<1>6. /\ x.held = DOMAIN s.frames[d].varmap /\ x.returned = (s.frames[d].ret # <<>>)
      /\ x = [held |-> x.held, exprs |-> x.exprs, returned |-> x.returned]
  <2>1. x = FrameOf(s.frames[d])
    BY <1>2, <1>3, <1>5
  <2> QED BY <2>1, FrameFields
<1>7. /\ y.held = DOMAIN g.varmap /\ y.exprs = {} /\ y.returned = (g.ret # <<>>)
      /\ y = [held |-> y.held, exprs |-> y.exprs, returned |-> y.returned]
  <2>1. y = FrameOf(g)
    BY <1>2, <1>3, <1>5
  <2> QED BY <2>1, FrameFields
<1>8. y.held = x.held /\ y.returned = x.returned
  BY <1>6, <1>7, Zenon
<1>9. y = [held |-> x.held, exprs |-> {}, returned |-> x.returned]
  BY <1>7, <1>8, Zenon
<1>10. PICK e : e = [x EXCEPT !.exprs = {}]
  OBVIOUS
<1>11. e = y
  <2>1. DOMAIN x = {"held", "exprs", "returned"}
    BY <1>6
  <2>2. e = [i \in {"held", "exprs", "returned"} |-> IF i = "exprs" THEN {} ELSE x[i]]
    BY <1>10, <2>1
  <2>3. y = [i \in {"held", "exprs", "returned"} |-> y[i]] /\ y["exprs"] = {} /\ y["held"] = x["held"]
    BY <1>9
  <2>4. y["returned"] = x["returned"]
    BY <1>8
  <2> QED BY <2>2, <2>3, <2>4
<1>12. G = [F EXCEPT ![d] = e]
  BY <1>2, <1>4, <1>5, <1>11, FrameIs
<1> QED BY <1>1, <1>5, <1>10, <1>12, Zenon

Forgotten(s) == [s EXCEPT !.frames[Depth(s)].exprmap = EmptyMap]

(* Forgetting the expressions of the topmost frame is seen as such.         *)
LEMMA PopFacts ==
  ASSUME NEW s, IsEnv(s)
  PROVE  IsEnv(Forgotten(s)) /\ FramesOf(Forgotten(s)) = [FramesOf(s) EXCEPT ![Depth(s)].exprs = {}]
<1>0. PICK d \in Nat \ {0} : d = Depth(s) /\ d \in 1..d
  BY FramesAre
<1>1. PICK g : g = [s.frames[d] EXCEPT !.exprmap = EmptyMap]
  OBVIOUS
<1>2. PICK t : t = Forgotten(s)
  OBVIOUS
<1>3. t = Replaced(s, d, g)
  BY <1>0, <1>1, <1>2 DEF Replaced, Forgotten
<1>4. IsFrame(s.frames[d])
  BY <1>0 DEF IsEnv, Depth
<1>5. /\ DOMAIN g = {"varmap", "exprmap", "ret"} /\ g.varmap = s.frames[d].varmap
      /\ DOMAIN g.exprmap = {} /\ g.ret = s.frames[d].ret
  BY <1>1, <1>4 DEF IsFrame, EmptyMap
<1>6. IsFrame(g)
  BY <1>4, <1>5 DEF IsFrame
<1>7. /\ IsEnv(t) /\ Depth(t) = d
      /\ \A i \in 1..d : t.frames[i] = IF i = d THEN g ELSE s.frames[i]
  BY <1>0, <1>3, <1>6, FrameReplaced
<1>8. FramesOf(t) = [FramesOf(s) EXCEPT ![d].exprs = {}]
  BY <1>0, <1>5, <1>7, ExprsForgotten
<1> QED BY <1>0, <1>2, <1>7, <1>8

-------------------------------------------------------------------------------
(* The visitor. *)

\* the visitor, with what is proved of it; its frames are what it sees of the environment's
P == INSTANCE CVisitor_proofs

(* The copy of the visitor that was proved about has the same trees,        *)
LEMMA SameWithin == \A p, n : P!Within(p, n) = Within(p, n)
BY DEF P!Within, Within, P!Last, Last

(* functions,                                                               *)
LEMMA SameFunctions ==
  \A p, f : /\ P!FunctionOf(p, f) = FunctionOf(p, f) /\ P!BodyOf(p, f) = BodyOf(p, f)
            /\ P!ParamsOf(p, f) = ParamsOf(p, f) /\ P!IsFunction(p, f) = IsFunction(p, f)
<1>1. \A p, f : P!FunctionOf(p, f) = FunctionOf(p, f)
  BY DEF P!FunctionOf, FunctionOf
<1>2. \A p, f : P!BodyOf(p, f) = BodyOf(p, f)
  BY <1>1 DEF P!BodyOf, BodyOf, P!Last, Last
<1>3. \A p, f : P!ParamsOf(p, f) = ParamsOf(p, f)
  BY <1>1 DEF P!ParamsOf, ParamsOf
<1>4. \A p, f : P!IsFunction(p, f) = IsFunction(p, f)
  BY DEF P!IsFunction, IsFunction
<1> QED BY <1>1, <1>2, <1>3, <1>4

(* kinds of nodes                                                           *)
LEMMA SameSets == P!Builtins = Builtins /\ P!Operators = Operators /\ P!Expressions = Expressions
BY DEF P!Builtins, Builtins, P!Operators, Operators, P!Expressions, Expressions

(* and programs.                                                            *)
LEMMA SamePrograms == \A p : IsProgram(p) => P!IsProgram(p)
<1> SUFFICES ASSUME NEW p, IsProgram(p) PROVE P!IsProgram(p)
  OBVIOUS
<1>1. P!IsTree(p)
  <2>1. IsTree(p)
    BY DEF IsProgram
  <2>2. DOMAIN p = 1..Len(p) /\ Len(p) \in Nat
    BY <2>1 DEF IsTree
  <2>3. ASSUME NEW n \in DOMAIN p
        PROVE  /\ p[n].kids \in Seq(DOMAIN p)
               /\ P!Within(p, n) \subseteq DOMAIN p
               /\ P!Within(p, n) = {n} \cup UNION {P!Within(p, p[n].kids[i]) : i \in DOMAIN p[n].kids}
               /\ \A m \in P!Within(p, n) : P!Within(p, m) \subseteq P!Within(p, n)
               /\ \A i, j \in DOMAIN p[n].kids :
                    /\ n \notin P!Within(p, p[n].kids[i])
                    /\ i # j => P!Within(p, p[n].kids[i]) \cap P!Within(p, p[n].kids[j]) = {}
    <3>1. /\ p[n].kids \in Seq(DOMAIN p)
          /\ Within(p, n) \subseteq DOMAIN p
          /\ Within(p, n) = {n} \cup UNION {Within(p, p[n].kids[i]) : i \in DOMAIN p[n].kids}
          /\ \A m \in Within(p, n) : Within(p, m) \subseteq Within(p, n)
          /\ \A i, j \in DOMAIN p[n].kids :
               /\ n \notin Within(p, p[n].kids[i])
               /\ i # j => Within(p, p[n].kids[i]) \cap Within(p, p[n].kids[j]) = {}
      BY <2>1 DEF IsTree
    <3> QED BY <3>1, SameWithin
  <2> QED BY <2>2, <2>3 DEF P!IsTree
<1>2. \A f : P!Arity(p, f) = Arity(p, f)
  BY SameFunctions, SameSets DEF P!Arity, Arity
<1>3. P!HasShapes(p) = HasShapes(p)
  BY <1>2, SameSets DEF P!HasShapes, HasShapes
<1>4. P!IsFunction(p, "main") = IsFunction(p, "main")
  BY SameFunctions
<1>5. \A n : P!IsFunction(p, p[n].x) = IsFunction(p, p[n].x)
  BY SameFunctions
<1> QED BY <1>1, <1>3, <1>4, <1>5, SameSets DEF P!IsProgram, IsProgram

(* The state that the visitor sees.                                         *)
LEMMA SameState ==
  /\ P!Code = Code /\ P!Node = Node /\ P!frames = FramesOf(env) /\ P!frames' = FramesOf(env')
  /\ \A n : /\ P!K(n) = K(n) /\ P!X(n) = X(n) /\ P!Kids(n) = Kids(n) /\ P!Part(n) = Part(n)
            /\ P!CallsFunction(n) = CallsFunction(n) /\ P!Children(n) = Children(n)
  /\ \A n, i : P!Kid(n, i) = Kid(n, i)
  /\ \A ns : P!Visits(ns) = Visits(ns) /\ P!Declared(ns) = Declared(ns)
  /\ \A w : P!IsNext(w) = IsNext(w)
<1>1. P!Code = Code
  BY DEF P!Code, Code
<1>2. P!Node = Node
  BY DEF P!Node, Node
<1>3. P!frames = FramesOf(env)
  BY DEF P!frames, FramesOf, FrameOf
<1>4. P!frames' = FramesOf(env')
  BY DEF P!frames, FramesOf, FrameOf
<1>5. \A n : P!K(n) = K(n) /\ P!X(n) = X(n) /\ P!Kids(n) = Kids(n)
  BY <1>1 DEF P!K, K, P!X, X, P!Kids, Kids
<1>6. \A n : P!Part(n) = Part(n)
  BY <1>1, SameWithin DEF P!Part, Part
<1>7. \A n : P!CallsFunction(n) = CallsFunction(n)
  BY <1>5, SameSets DEF P!CallsFunction, CallsFunction
<1>8. \A n : P!Children(n) = Children(n)
  BY <1>5 DEF P!Children, Children
<1>9. \A n, i : P!Kid(n, i) = Kid(n, i)
  BY <1>5 DEF P!Kid, Kid
<1>10. \A ns : P!Visits(ns) = Visits(ns)
  BY DEF P!Visits, Visits
<1>11. \A ns : P!Declared(ns) = Declared(ns)
  BY <1>5 DEF P!Declared, Declared
<1>12. \A w : P!IsNext(w) = IsNext(w)
  BY DEF P!IsNext, IsNext
<1> QED BY <1>1, <1>2, <1>3, <1>4, <1>5, <1>6, <1>7, <1>8, <1>9, <1>10, <1>11, <1>12

(* The assumptions, as the instance has them.                               *)
LEMMA Assumptions ==
  /\ \A q \in Programs : P!IsProgram(q.code)
  /\ \A q \in Programs : q.input \in Seq(Int)
BY SamePrograms, ProgramAssumption, InputAssumption

-------------------------------------------------------------------------------
(* What is invariant: the visitor's invariant, the environment's types, and *)
(* that a node has been visited before it is handled.                       *)

HandlesHandled ==
  \A i \in 1..Len(agenda) : agenda[i][1] = "handle" => K(agenda[i][2]) \in HandledKinds

Inv == P!Inv /\ IsEnv(env) /\ HandlesHandled

(* The environment is typed after a step if it is by the same program.      *)
LEMMA EnvNext ==
  ASSUME prog' = prog, IsEnv(env')
  PROVE  IsEnv(env)'
<1>1. Code' = Code
  BY DEF Code
<1>2. \A n : K(n)' = K(n) /\ X(n)' = X(n)
  BY <1>1 DEF K, X
<1> QED BY <1>1, <1>2 DEF IsEnv, IsFrame

(* The task at hand.                                                        *)
LEMMA AtTask ==
  ASSUME Inv, agenda # <<>>
  PROVE  /\ Node \in DOMAIN Code /\ Node = agenda[1][2] /\ Head(agenda)[1] = agenda[1][1]
         /\ 1 \in 1..Len(agenda) /\ Len(agenda) \in Nat /\ IsProgram(Code) /\ IsEnv(env)
         /\ agenda[1][1] = "leave" => CallsFunction(Node)
         /\ agenda[1][1] = "test"  => K(Node) = "for"
         /\ P!Depth = Depth(env) /\ P!Top = FramesOf(env)[Depth(env)] /\ Depth(env) \in Nat \ {0}
<1>1. /\ P!Node \in DOMAIN P!Code /\ P!Node = agenda[1][2] /\ agenda \in Seq(P!Tasks(P!Code))
      /\ agenda[1] = <<Head(agenda)[1], P!Node>> /\ P!TaskOK(P!Code, agenda[1])
  BY Assumptions, P!AtTask DEF Inv
<1>2. prog \in Programs
  BY DEF Inv, P!Inv
<1>3. IsProgram(Code) /\ IsEnv(env)
  BY <1>2, ProgramAssumption DEF Code, Inv
<1>4. P!CallOf(P!Code, P!Node) = CallsFunction(Node)
  BY SameState, SameSets DEF P!CallOf, CallsFunction, K, X
<1>5. /\ agenda[1][1] = "leave" => CallsFunction(Node)
      /\ agenda[1][1] = "test"  => K(Node) = "for"
  BY <1>1, <1>4, SameState DEF P!TaskOK, K
<1>6. Len(agenda) \in Nat /\ 1 \in 1..Len(agenda)
  BY <1>1
<1>7. P!Depth = Depth(env) /\ Depth(env) \in Nat \ {0}
  BY <1>3, SameState, FramesAre DEF P!Depth
<1>8. P!Top = FramesOf(env)[Depth(env)]
  BY <1>7, SameState DEF P!Top
<1> QED BY <1>1, <1>3, <1>5, <1>6, <1>7, <1>8, SameState

-------------------------------------------------------------------------------
(* Each step is one of the visitor's.                                       *)

(* The agenda is the visitor's.                                             *)
LEMMA PerformIs ==
  ASSUME NEW tasks, NEW s, Perform(tasks, s)
  PROVE  P!Perform(tasks) /\ env' = s /\ prog' = prog /\ agenda' = tasks \o Tail(agenda)
BY DEF Perform, P!Perform

(* So is the test whether the function has returned.                        *)
LEMMA ReturnedIs ==
  ASSUME Inv, agenda # <<>>
  PROVE  P!Top.returned = Returned(env)
<1>1. P!Top = FramesOf(env)[Depth(env)] /\ Depth(env) \in Nat \ {0} /\ IsEnv(env)
  BY AtTask
<1>2. PICK s, d : s = env /\ d = Depth(s)
  OBVIOUS
<1>3. IsEnv(s) /\ d \in Nat \ {0}
  BY <1>1, <1>2
<1>4. FramesOf(s)[d] = FrameOf(s.frames[d])
  BY <1>2, <1>3, FramesAre
<1>5. FrameOf(s.frames[d]).returned = (s.frames[d].ret # <<>>)
  BY FrameFields
<1> QED BY <1>1, <1>2, <1>4, <1>5 DEF Returned, Top

(* And so is what an evaluation leaves.                                     *)
LEMMA EvaluateIs ==
  ASSUME Inv, agenda # <<>>, NEW what, Keeping(FramesOf(env), FramesOf(env'), Depth(env), what)
  PROVE  P!Evaluate(what) /\ P!frames' = P!Evaluated
<1>1. /\ P!Depth = Depth(env) /\ P!Top = FramesOf(env)[Depth(env)]
      /\ P!frames = FramesOf(env) /\ P!frames' = FramesOf(env')
  BY AtTask, SameState
<1>2. P!Kept = FramesOf(env')[Depth(env)].exprs
  BY <1>1 DEF P!Kept
<1>3. P!Evaluated = [FramesOf(env) EXCEPT ![Depth(env)].exprs = FramesOf(env')[Depth(env)].exprs]
  BY <1>1, <1>2 DEF P!Evaluated
<1> QED BY <1>1, <1>2, <1>3 DEF P!Evaluate, Keeping

(* VisitStmt is the visitor's, and so on for each of its methods.           *)
LEMMA VisitStmtImplements ==
  ASSUME Inv, VisitStmt
  PROVE  P!VisitStmt /\ IsEnv(env')
<1>1. /\ IsNext("visit") /\ Perform(Visits(Children(Node)), env)
      /\ K(Node) \in {"block", "paren", "cast", "lit", "ref", "sizeof", "var", "array"}
  BY DEF VisitStmt, Visiting, At
<1>2. P!Perform(Visits(Children(Node))) /\ env' = env
  BY <1>1, PerformIs
<1>3. P!Perform(P!Visits(P!Children(P!Node))) /\ P!frames' = P!frames
  BY <1>2, SameState
<1>4. P!Visiting({"block", "paren", "cast", "lit", "ref", "sizeof", "var", "array"})
  BY <1>1, SameState DEF P!Visiting
<1> QED BY <1>2, <1>3, <1>4 DEF P!VisitStmt, Inv

(* VisitStmtWrap (ASTInterpreter.cpp).                                      *)
LEMMA VisitStmtWrapImplements ==
  ASSUME Inv, VisitStmtWrap
  PROVE  P!VisitStmtWrap /\ IsEnv(env')
<1>1. /\ IsNext("wrap")
      /\ Perform(IF Returned(env) THEN <<>> ELSE Visits(Children(Node)), env)
  BY DEF VisitStmtWrap, At
<1>2. P!Perform(IF Returned(env) THEN <<>> ELSE Visits(Children(Node))) /\ env' = env
  BY <1>1, PerformIs
<1>3. P!Top.returned = Returned(env)
  BY <1>1, ReturnedIs DEF IsNext
<1>4. P!Perform(IF P!Top.returned THEN <<>> ELSE P!Visits(P!Children(P!Node)))
  BY <1>2, <1>3, SameState
<1> QED BY <1>1, <1>2, <1>4, SameState DEF P!VisitStmtWrap, Inv

(* The methods that visit the children and then tell the environment.       *)
LEMMA VisitHandledImplements ==
  ASSUME Inv, VisitHandled
  PROVE  P!VisitHandled /\ IsEnv(env')
<1>1. /\ IsNext("visit") /\ Perform(<< <<"wrap", Node>>, <<"handle", Node>> >>, env)
      /\ K(Node) \in {"index", "decls", "neg", "deref", "bin", "asg", "call"}
  BY DEF VisitHandled, Visiting, At
<1>2. P!Perform(<< <<"wrap", Node>>, <<"handle", Node>> >>) /\ env' = env
  BY <1>1, PerformIs
<1>3. P!Visiting({"index", "decls", "neg", "deref", "bin", "asg", "call"})
  BY <1>1, SameState DEF P!Visiting
<1> QED BY <1>2, <1>3, SameState DEF P!VisitHandled, Inv

(* VisitReturnStmt, which does nothing when the function has returned.      *)
LEMMA VisitReturnStmtImplements ==
  ASSUME Inv, VisitReturnStmt
  PROVE  P!VisitReturnStmt /\ IsEnv(env')
<1> DEFINE tasks == IF Returned(env) THEN <<>> ELSE << <<"wrap", Node>>, <<"handle", Node>> >>
<1>1. IsNext("visit") /\ Perform(tasks, env) /\ K(Node) \in {"return"}
  BY DEF VisitReturnStmt, Visiting, At
<1>2. P!Perform(tasks) /\ env' = env
  BY <1>1, PerformIs
<1>3. P!Visiting({"return"})
  BY <1>1, SameState DEF P!Visiting
<1>4. P!Top.returned = Returned(env)
  BY <1>1, ReturnedIs DEF IsNext
<1> QED BY <1>2, <1>3, <1>4, SameState DEF P!VisitReturnStmt, Inv

(* VisitForStmt begins with its initialization.                             *)
LEMMA VisitForStmtImplements ==
  ASSUME Inv, VisitForStmt
  PROVE  P!VisitForStmt /\ IsEnv(env')
<1>1. /\ IsNext("visit") /\ Perform(<< <<"visit", Kid(Node, 1)>>, <<"test", Node>> >>, env)
      /\ K(Node) \in {"for"}
  BY DEF VisitForStmt, Visiting, At
<1>2. P!Perform(<< <<"visit", Kid(Node, 1)>>, <<"test", Node>> >>) /\ env' = env
  BY <1>1, PerformIs
<1>3. P!Visiting({"for"})
  BY <1>1, SameState DEF P!Visiting
<1> QED BY <1>2, <1>3, SameState DEF P!VisitForStmt, Inv

(* The environment handles an expression, a declaration or a return         *)
(* statement.                                                               *)
LEMMA HandleImplements ==
  ASSUME Inv, HandlesHandled, Handle, ~ CallsFunction(Node)
  PROVE  P!Handle /\ IsEnv(env')
<1>1. IsNext("handle") /\ Perform(Entering(Node), Handler(Node, env))
  BY DEF Handle, At
<1>2. Entering(Node) = <<>>
  BY DEF Entering
<1>3. P!Perform(<<>>) /\ env' = Handler(Node, env)
  BY <1>1, <1>2, PerformIs
<1>4. /\ Node \in DOMAIN Code /\ Node = agenda[1][2] /\ Head(agenda)[1] = agenda[1][1]
      /\ 1 \in 1..Len(agenda) /\ IsProgram(Code) /\ IsEnv(env)
      /\ P!Depth = Depth(env) /\ P!Top = FramesOf(env)[Depth(env)]
  BY <1>1, AtTask DEF IsNext
<1>5. K(Node) \in HandledKinds
  BY <1>1, <1>4 DEF HandlesHandled, IsNext
<1>6. PICK n, s, t : n = Node /\ s = env /\ t = env'
  OBVIOUS
<1>7. PICK ds, ret : ds = (IF K(n) = "decls" THEN Declared(Kids(n)) ELSE {}) /\ ret = (K(n) = "return")
  OBVIOUS
<1>8. IsEnv(t) /\ Becoming(FramesOf(s), FramesOf(t), Depth(s), Part(n), ds, ret)
  <2>1. n \in DOMAIN Code /\ K(n) \in HandledKinds /\ ~ CallsFunction(n) /\ IsEnv(s) /\ t = Handler(n, s)
    BY <1>3, <1>4, <1>5, <1>6
  <2> QED BY <1>4, <1>7, <2>1, HandledFrames
<1>9. PICK F, G, d : F = FramesOf(s) /\ G = FramesOf(t) /\ d = Depth(s)
  OBVIOUS
<1>10. /\ F[d].exprs \subseteq G[d].exprs /\ G[d].exprs \subseteq F[d].exprs \cup Part(n)
       /\ G = [F EXCEPT ![d] = [held |-> F[d].held \cup ds, exprs |-> G[d].exprs,
                                returned |-> F[d].returned \/ ret]]
  BY <1>8, <1>9 DEF Becoming
<1>11. /\ P!Depth = d /\ P!Top = F[d] /\ P!frames = F /\ P!frames' = G /\ P!Node = n
       /\ P!Part(P!Node) = Part(n) /\ P!K(P!Node) = K(n)
       /\ P!Declared(P!Kids(P!Node)) = Declared(Kids(n))
  BY <1>4, <1>6, <1>9, SameState
<1>12. P!Evaluate(P!Part(P!Node)) /\ P!Kept = G[d].exprs
  BY <1>10, <1>11 DEF P!Evaluate, P!Kept
<1>13. ~ P!CallsFunction(P!Node) /\ P!IsNext("handle")
  BY <1>1, SameState
<1>14. P!frames' = [P!frames EXCEPT ![P!Depth] =
         [held |-> @.held \cup (IF P!K(P!Node) = "decls" THEN P!Declared(P!Kids(P!Node)) ELSE {}),
          exprs |-> P!Kept,
          returned |-> @.returned \/ P!K(P!Node) = "return"]]
  BY <1>7, <1>10, <1>11, <1>12
<1> QED BY <1>3, <1>6, <1>8, <1>12, <1>13, <1>14 DEF P!Handle

(* The environment enters a function.                                       *)
LEMMA EnterImplements ==
  ASSUME Inv, Handle, CallsFunction(Node)
  PROVE  P!EnterFunction /\ IsEnv(env')
<1>1. IsNext("handle") /\ Perform(Entering(Node), Handler(Node, env))
  BY DEF Handle, At
<1>2. Entering(Node) = << <<"wrap", BodyOf(Code, X(Node))>>, <<"leave", Node>> >>
  BY DEF Entering
<1>3. /\ P!Perform(<< <<"wrap", BodyOf(Code, X(Node))>>, <<"leave", Node>> >>)
      /\ env' = Handler(Node, env)
  BY <1>1, <1>2, PerformIs
<1>4. /\ Node \in DOMAIN Code /\ IsProgram(Code) /\ IsEnv(env)
      /\ P!Depth = Depth(env) /\ P!Top = FramesOf(env)[Depth(env)]
  BY <1>1, AtTask DEF IsNext
<1>5. PICK n, s, t : n = Node /\ s = env /\ t = env'
  OBVIOUS
<1>6. PICK held : held = Range(ParamsOf(Code, X(n)))
  OBVIOUS
<1>7. n \in DOMAIN Code /\ CallsFunction(n) /\ IsEnv(s) /\ t = Handler(n, s)
  BY <1>3, <1>4, <1>5
<1>8. IsEnv(t)
  BY <1>4, <1>7, EnterFacts
<1>9. PICK u, g : /\ IsEnv(u) /\ Changes(s, u, Part(n), {})
                  /\ t.frames = Append(u.frames, g) /\ Depth(t) = Depth(u) + 1
                  /\ FrameOf(g) = [held |-> held, exprs |-> {}, returned |-> FALSE]
  <2>1. Entered(s, t, n)
    BY <1>4, <1>7, EnterFacts
  <2> QED BY <1>6, <2>1 DEF Entered
<1>10. PICK F, G, H, d : F = FramesOf(s) /\ G = FramesOf(u) /\ H = FramesOf(t) /\ d = Depth(s)
  OBVIOUS
<1>11. Keeping(F, G, d, Part(n))
  BY <1>7, <1>9, <1>10, ChangedFrames
<1>12. d \in Nat \ {0} /\ Depth(u) = d /\ Depth(t) = d + 1
  BY <1>7, <1>9, <1>10, FramesAre DEF Changes
<1>13. H = Append(G, FrameOf(g))
  <2>1. /\ G = [f \in 1..d |-> G[f]] /\ \A f \in 1..d : G[f] = FrameOf(u.frames[f])
        /\ Len(G) = d
    BY <1>9, <1>10, <1>12, FramesAre, FramesMap
  <2>2. /\ H = [f \in 1..(d + 1) |-> H[f]] /\ \A f \in 1..(d + 1) : H[f] = FrameOf(t.frames[f])
    BY <1>8, <1>10, <1>12, FramesAre, FramesMap
  <2>3. DOMAIN u.frames = 1..d /\ Len(u.frames) = d
    BY <1>9, <1>12 DEF IsEnv, Depth
  <2>4. \A f \in 1..d : t.frames[f] = u.frames[f]
    BY <1>9, <1>12, <2>3
  <2>5. t.frames[d + 1] = g
    BY <1>9, <1>12, <2>3
  <2>6. \A f \in 1..(d + 1) : H[f] = IF f = d + 1 THEN FrameOf(g) ELSE G[f]
    BY <1>12, <2>1, <2>2, <2>4, <2>5
  <2>7. PICK e : e = FrameOf(g)
    OBVIOUS
  <2>8. Append(G, e) = [f \in 1..(d + 1) |-> IF f = d + 1 THEN e ELSE G[f]]
    BY <1>12, <2>1
  <2> QED BY <2>2, <2>6, <2>7, <2>8
<1>14. H[d] = G[d]
  <2>1. Len(G) = d /\ DOMAIN G = 1..d
    BY <1>9, <1>10, <1>12, FramesAre
  <2>2. PICK e : e = FrameOf(g) /\ H = Append(G, e)
    BY <1>13
  <2> QED BY <1>12, <2>1, <2>2
<1>15. /\ P!Depth = d /\ P!Top = F[d] /\ P!frames = F /\ P!frames' = H /\ P!Node = n
       /\ P!Part(P!Node) = Part(n) /\ P!X(P!Node) = X(n) /\ P!Code = Code
       /\ P!BodyOf(P!Code, P!X(P!Node)) = BodyOf(Code, X(n))
       /\ P!ParamsOf(P!Code, P!X(P!Node)) = ParamsOf(Code, X(n))
  BY <1>4, <1>5, <1>10, SameState, SameFunctions
<1>16. P!Evaluate(P!Part(P!Node)) /\ P!Evaluated = G
  BY <1>11, <1>14, <1>15 DEF P!Evaluate, P!Kept, P!Evaluated, Keeping
<1>17. P!NewFrame(P!Range(P!ParamsOf(P!Code, P!X(P!Node)))) = FrameOf(g)
  BY <1>6, <1>9, <1>15 DEF P!NewFrame, P!Range, Range
<1>18. P!CallsFunction(P!Node) /\ P!IsNext("handle")
  BY <1>1, SameState
<1>19. P!Perform(<< <<"wrap", P!BodyOf(P!Code, P!X(P!Node))>>, <<"leave", P!Node>> >>)
  BY <1>3, <1>5, <1>15
<1>20. P!frames' = Append(P!Evaluated, P!NewFrame(P!Range(P!ParamsOf(P!Code, P!X(P!Node)))))
  BY <1>13, <1>15, <1>16, <1>17
<1> QED BY <1>5, <1>8, <1>16, <1>18, <1>19, <1>20 DEF P!EnterFunction

(* What is cut to an int is an integer.                                     *)
LEMMA IntFacts == \A v \in Int : ToInt(v) \in Int
BY DEF ToInt, IntLimit

(* A call ends: its frame goes and its value is kept in the frame of the    *)
(* caller.                                                                  *)
LEMMA LeaveCallImplements ==
  ASSUME Inv, LeaveCall
  PROVE  P!LeaveCall /\ IsEnv(env')
<1>1. PICK ret : /\ ret = IF Returned(env) THEN ToInt(Top(env).ret[1]) ELSE 0
                 /\ IsNext("leave")
                 /\ Perform(<<>>, PushExpr(Node, ret, [env EXCEPT !.frames = Front(@)]))
  BY DEF LeaveCall, At
<1>2. /\ P!Perform(<<>>)
      /\ env' = PushExpr(Node, ret, [env EXCEPT !.frames = Front(env.frames)])
  BY <1>1, PerformIs
<1>3. /\ Node \in DOMAIN Code /\ Head(agenda)[1] = agenda[1][1] /\ 1 \in 1..Len(agenda)
      /\ Len(agenda) \in Nat /\ IsProgram(Code) /\ IsEnv(env)
      /\ agenda[1][1] = "leave" => CallsFunction(Node)
      /\ P!Depth = Depth(env) /\ Depth(env) \in Nat \ {0}
  BY <1>1, AtTask DEF IsNext
<1>4. PICK n, s, t : n = Node /\ s = env /\ t = env'
  OBVIOUS
<1>5. n \in DOMAIN Code /\ CallsFunction(n) /\ IsEnv(s)
  BY <1>1, <1>3, <1>4 DEF IsNext
<1>6. ret \in Int
  <2>1. CASE Returned(s)
    <3>1. IsFrame(s.frames[Depth(s)])
      BY <1>3, <1>4, <1>5 DEF IsEnv, Depth
    <3>2. PICK r \in Seq(Int) : r = s.frames[Depth(s)].ret
      BY <3>1 DEF IsFrame
    <3>3. r[1] \in Int
      BY <2>1, <3>2 DEF Returned, Top
    <3>4. ret = ToInt(r[1])
      BY <1>1, <1>4, <2>1, <3>2 DEF Top
    <3> QED BY <3>3, <3>4, IntFacts
  <2>2. CASE ~ Returned(s)
    BY <1>1, <1>4, <2>2
  <2> QED BY <2>1, <2>2
<1>7. Depth(s) >= 2
  <2>1. P!Holding(P!Code, agenda, P!frames)
    BY DEF Inv, P!Inv, P!Invariant
  <2>2. Len(P!frames) = P!FrameAt(agenda, 1)
    BY <2>1 DEF P!Holding
  <2>3. P!IsLeave(agenda, 1)
    BY <1>1, <1>3 DEF P!IsLeave, IsNext
  <2>4. PICK a, i : a = agenda /\ i = 1
    OBVIOUS
  <2>5. Len(a) \in Nat /\ i \in 1..Len(a) /\ P!IsLeave(a, i)
    BY <1>3, <2>3, <2>4
  <2>6. P!FrameAt(a, i) = P!FrameAt(a, i + 1) + 1
    BY <2>5, Assumptions, P!FrameBelow
  <2>7. P!FrameAt(a, i + 1) \in Nat \ {0}
    <3>1. PICK j \in Nat : j = i + 1
      BY <2>4
    <3>2. P!FrameAt(a, j) \in Nat \ {0}
      BY <2>5, Assumptions, P!FrameNat
    <3> QED BY <3>1, <3>2
  <2>8. Len(P!frames) >= 2
    BY <2>2, <2>4, <2>6, <2>7
  <2> QED BY <1>3, <1>4, <2>8 DEF P!Depth
<1>8. t = PushExpr(n, ret, [s EXCEPT !.frames = Front(s.frames)])
  BY <1>2, <1>4
<1>9. IsEnv(t) /\ FramesOf(t) = [Front(FramesOf(s)) EXCEPT ![Depth(s) - 1].exprs = @ \cup {n}]
  BY <1>5, <1>6, <1>7, <1>8, LeaveFacts
<1>10. PICK F, G, d : F = FramesOf(s) /\ G = FramesOf(t) /\ d = Depth(s)
  OBVIOUS
<1>11. P!Depth = d /\ P!frames = F /\ P!frames' = G /\ P!Node = n
  BY <1>3, <1>4, <1>10, SameState
<1>12. G = [Front(F) EXCEPT ![d - 1].exprs = @ \cup {n}]
  BY <1>9, <1>10
<1>13. P!Front(F) = Front(F)
  BY DEF P!Front, Front
<1>14. P!frames' = [P!Front(P!frames) EXCEPT ![P!Depth - 1].exprs = @ \cup {P!Node}]
  BY <1>11, <1>12, <1>13
<1>15. P!IsNext("leave")
  BY <1>1, SameState
<1> QED BY <1>2, <1>4, <1>9, <1>14, <1>15 DEF P!LeaveCall

(* The evaluation of a condition, which the node at hand has.               *)
LEMMA ConditionIs ==
  ASSUME Inv, agenda # <<>>, NEW m, m \in DOMAIN Code, K(m) \in Expressions,
         NEW c, c = EvaluateExpr(m, env), env' = c.s
  PROVE  IsEnv(env') /\ P!Evaluate(P!Part(m)) /\ P!frames' = P!Evaluated
<1>1. IsEnv(env) /\ IsProgram(Code)
  BY AtTask
<1>2. PICK s : s = env
  OBVIOUS
<1>3. IsEnv(c.s) /\ Keeping(FramesOf(s), FramesOf(c.s), Depth(s), Part(m))
  <2>1. IsEnv(s) /\ c = EvaluateExpr(m, s)
    BY <1>1, <1>2
  <2> QED BY <1>1, <2>1, ConditionFacts
<1>4. Keeping(FramesOf(env), FramesOf(env'), Depth(env), Part(m))
  BY <1>2, <1>3
<1>5. PICK what : what = Part(m)
  OBVIOUS
<1>6. P!Evaluate(what) /\ P!frames' = P!Evaluated
  BY <1>4, <1>5, EvaluateIs
<1>7. P!Part(m) = Part(m)
  BY SameState
<1> QED BY <1>3, <1>5, <1>6, <1>7

(* VisitIfStmt evaluates the condition and takes a branch.                  *)
LEMMA VisitIfStmtImplements ==
  ASSUME Inv, VisitIfStmt
  PROVE  P!VisitIfStmt /\ IsEnv(env')
<1>1. PICK c, branch :
        /\ c = EvaluateExpr(Kid(Node, 1), env)
        /\ branch = IF c.v # 0 THEN <<Kid(Node, 2)>> ELSE SubSeq(Kids(Node), 3, Len(Kids(Node)))
        /\ IsNext("visit") /\ K(Node) = "if"
        /\ Perform(Visits(branch) \o << <<"popExpr", Node>> >>, c.s)
  BY DEF VisitIfStmt, Visiting, At
<1>2. P!Perform(Visits(branch) \o << <<"popExpr", Node>> >>) /\ env' = c.s
  BY <1>1, PerformIs
<1>3. Node \in DOMAIN Code /\ IsProgram(Code)
  BY <1>1, AtTask DEF IsNext
<1>4. Kid(Node, 1) \in DOMAIN Code /\ K(Kid(Node, 1)) \in Expressions
  <2>1. Code[Node].kids \in Seq(DOMAIN Code) /\ Len(Code[Node].kids) \in {2, 3}
    BY <1>1, <1>3 DEF IsProgram, IsTree, K
  <2>2. Code[Code[Node].kids[1]].k \in Expressions
    BY <1>1, <1>3 DEF IsProgram, HasShapes, K
  <2> QED BY <2>1, <2>2 DEF Kid, Kids, K
<1>5. PICK m : m = Kid(Node, 1)
  OBVIOUS
<1>6. IsEnv(env') /\ P!Evaluate(P!Part(m)) /\ P!frames' = P!Evaluated
  BY <1>1, <1>2, <1>4, <1>5, ConditionIs DEF IsNext
<1>7. P!Evaluate(P!Part(P!Kid(P!Node, 1)))
  BY <1>5, <1>6, SameState
<1>8. P!Visiting({"if"})
  BY <1>1, SameState DEF P!Visiting
<1>9. \E b \in {<<P!Kid(P!Node, 2)>>, SubSeq(P!Kids(P!Node), 3, Len(P!Kids(P!Node)))} :
        P!Perform(P!Visits(b) \o << <<"popExpr", P!Node>> >>)
  <2>1. branch \in {<<P!Kid(P!Node, 2)>>, SubSeq(P!Kids(P!Node), 3, Len(P!Kids(P!Node)))}
    BY <1>1, SameState
  <2>2. P!Perform(P!Visits(branch) \o << <<"popExpr", P!Node>> >>)
    BY <1>2, SameState
  <2> QED BY <2>1, <2>2
<1> QED BY <1>6, <1>7, <1>8, <1>9 DEF P!VisitIfStmt

(* VisitWhileStmt evaluates the condition and goes on or ends.              *)
LEMMA VisitWhileStmtImplements ==
  ASSUME Inv, VisitWhileStmt
  PROVE  P!VisitWhileStmt /\ IsEnv(env')
<1> DEFINE tasks(again) ==
      IF again THEN << <<"wrap", Kid(Node, 2)>>, <<"popExpr", Node>>, <<"visit", Node>> >> ELSE <<>>
<1>1. PICK c : /\ c = EvaluateExpr(Kid(Node, 1), env) /\ IsNext("visit") /\ K(Node) = "while"
               /\ Perform(tasks(c.v # 0), c.s)
  BY DEF VisitWhileStmt, Visiting, At
<1>2. P!Perform(tasks(c.v # 0)) /\ env' = c.s
  BY <1>1, PerformIs
<1>3. Node \in DOMAIN Code /\ IsProgram(Code)
  BY <1>1, AtTask DEF IsNext
<1>4. Kid(Node, 1) \in DOMAIN Code /\ K(Kid(Node, 1)) \in Expressions
  <2>1. Code[Node].kids \in Seq(DOMAIN Code) /\ Len(Code[Node].kids) = 2
    BY <1>1, <1>3 DEF IsProgram, IsTree, K
  <2>2. Code[Code[Node].kids[1]].k \in Expressions
    BY <1>1, <1>3 DEF IsProgram, HasShapes, K
  <2> QED BY <2>1, <2>2 DEF Kid, Kids, K
<1>5. PICK m : m = Kid(Node, 1)
  OBVIOUS
<1>6. IsEnv(env') /\ P!Evaluate(P!Part(m)) /\ P!frames' = P!Evaluated
  BY <1>1, <1>2, <1>4, <1>5, ConditionIs DEF IsNext
<1>7. P!Evaluate(P!Part(P!Kid(P!Node, 1)))
  BY <1>5, <1>6, SameState
<1>8. P!Visiting({"while"})
  BY <1>1, SameState DEF P!Visiting
<1>9. \E again \in BOOLEAN :
        P!Perform(IF again THEN << <<"wrap", P!Kid(P!Node, 2)>>, <<"popExpr", P!Node>>,
                                   <<"visit", P!Node>> >>
                           ELSE <<>>)
  BY <1>2, SameState
<1> QED BY <1>6, <1>7, <1>8, <1>9 DEF P!VisitWhileStmt

(* The test of a for loop does so too.                                      *)
LEMMA TestForImplements ==
  ASSUME Inv, TestFor
  PROVE  P!TestFor /\ IsEnv(env')
<1> DEFINE tasks(again) ==
      IF again THEN << <<"wrap", Kid(Node, 4)>>, <<"visit", Kid(Node, 3)>>, <<"popExpr", Node>>,
                       <<"test", Node>> >> ELSE <<>>
<1>1. PICK c : /\ c = EvaluateExpr(Kid(Node, 2), env) /\ IsNext("test")
               /\ Perform(tasks(c.v # 0), c.s)
  BY DEF TestFor, At
<1>2. P!Perform(tasks(c.v # 0)) /\ env' = c.s
  BY <1>1, PerformIs
<1>3. Node \in DOMAIN Code /\ IsProgram(Code) /\ K(Node) = "for"
  BY <1>1, AtTask DEF IsNext
<1>4. Kid(Node, 2) \in DOMAIN Code /\ K(Kid(Node, 2)) \in Expressions
  <2>1. Code[Node].kids \in Seq(DOMAIN Code) /\ Len(Code[Node].kids) = 4
    BY <1>3 DEF IsProgram, IsTree, K
  <2>2. Code[Code[Node].kids[2]].k \in Expressions
    BY <1>3 DEF IsProgram, HasShapes, K
  <2> QED BY <2>1, <2>2 DEF Kid, Kids, K
<1>5. PICK m : m = Kid(Node, 2)
  OBVIOUS
<1>6. IsEnv(env') /\ P!Evaluate(P!Part(m)) /\ P!frames' = P!Evaluated
  BY <1>1, <1>2, <1>4, <1>5, ConditionIs DEF IsNext
<1>7. P!Evaluate(P!Part(P!Kid(P!Node, 2)))
  BY <1>5, <1>6, SameState
<1>8. P!IsNext("test")
  BY <1>1, SameState
<1>9. \E again \in BOOLEAN :
        P!Perform(IF again THEN << <<"wrap", P!Kid(P!Node, 4)>>, <<"visit", P!Kid(P!Node, 3)>>,
                                   <<"popExpr", P!Node>>, <<"test", P!Node>> >>
                           ELSE <<>>)
  BY <1>2, SameState
<1> QED BY <1>6, <1>7, <1>8, <1>9 DEF P!TestFor

(* The kept expressions are forgotten before a loop's next round.           *)
LEMMA PopExprImplements ==
  ASSUME Inv, PopExpr
  PROVE  P!PopExpr /\ IsEnv(env')
<1>1. IsNext("popExpr") /\ Perform(<<>>, Forgotten(env))
  BY DEF PopExpr, At, Forgotten
<1>2. P!Perform(<<>>) /\ env' = Forgotten(env)
  BY <1>1, PerformIs
<1>3. IsEnv(env) /\ P!Depth = Depth(env)
  BY <1>1, AtTask DEF IsNext
<1>4. PICK s, t : s = env /\ t = env'
  OBVIOUS
<1>5. IsEnv(t) /\ FramesOf(t) = [FramesOf(s) EXCEPT ![Depth(s)].exprs = {}]
  <2>1. IsEnv(s) /\ t = Forgotten(s)
    BY <1>2, <1>3, <1>4
  <2> QED BY <2>1, PopFacts
<1>6. PICK F, G, d : F = FramesOf(s) /\ G = FramesOf(t) /\ d = Depth(s)
  OBVIOUS
<1>7. P!frames = F /\ P!frames' = G /\ P!Depth = d
  BY <1>3, <1>4, <1>6, SameState
<1>8. P!frames' = [P!frames EXCEPT ![P!Depth].exprs = {}]
  BY <1>5, <1>6, <1>7
<1>9. P!IsNext("popExpr")
  BY <1>1, SameState
<1> QED BY <1>2, <1>4, <1>5, <1>8, <1>9 DEF P!PopExpr

(* Every step of the interpreter is one of the visitor's.                   *)
LEMMA StepImplements ==
  ASSUME Inv, Next
  PROVE  P!Next /\ IsEnv(env')
<1>1. CASE VisitStmt        BY <1>1, VisitStmtImplements DEF P!Next
<1>2. CASE VisitStmtWrap    BY <1>2, VisitStmtWrapImplements DEF P!Next
<1>3. CASE VisitHandled     BY <1>3, VisitHandledImplements DEF P!Next
<1>4. CASE VisitReturnStmt  BY <1>4, VisitReturnStmtImplements DEF P!Next
<1>5. CASE Handle /\ ~ CallsFunction(Node)
  BY <1>5, HandleImplements DEF P!Next, Inv
<1>6. CASE Handle /\ CallsFunction(Node)
  BY <1>6, EnterImplements DEF P!Next
<1>7. CASE LeaveCall        BY <1>7, LeaveCallImplements DEF P!Next
<1>8. CASE VisitIfStmt      BY <1>8, VisitIfStmtImplements DEF P!Next
<1>9. CASE VisitWhileStmt   BY <1>9, VisitWhileStmtImplements DEF P!Next
<1>10. CASE VisitForStmt    BY <1>10, VisitForStmtImplements DEF P!Next
<1>11. CASE TestFor         BY <1>11, TestForImplements DEF P!Next
<1>12. CASE PopExpr         BY <1>12, PopExprImplements DEF P!Next
<1> QED
  BY <1>1, <1>2, <1>3, <1>4, <1>5, <1>6, <1>7, <1>8, <1>9, <1>10, <1>11, <1>12 DEF Next

-------------------------------------------------------------------------------
(* The invariant: it holds first, and each step keeps it.                   *)

\* tasks in a row, and what they handle has been visited
Harmless(tasks) ==
  /\ Len(tasks) \in Nat /\ tasks = [i \in 1..Len(tasks) |-> tasks[i]]
  /\ \A i \in 1..Len(tasks) : tasks[i][1] = "handle" => K(tasks[i][2]) \in HandledKinds

(* Visits put nothing on the agenda that has to be handled unvisited,       *)
LEMMA VisitsHarmless ==
  ASSUME NEW ns \in Seq(DOMAIN Code)
  PROVE  Harmless(Visits(ns))
<1>1. Len(ns) \in Nat /\ DOMAIN ns = 1..Len(ns)
  OBVIOUS
<1>2. PICK t : t = Visits(ns)
  OBVIOUS
<1>3. t = [i \in 1..Len(ns) |-> <<"visit", ns[i]>>]
  BY <1>1, <1>2 DEF Visits
<1>4. Len(t) = Len(ns)
  BY <1>1, <1>3
<1> QED BY <1>2, <1>3, <1>4 DEF Harmless

(* nor do they with a popExpr behind them.                                  *)
LEMMA OnceMoreHarmless ==
  ASSUME NEW ns \in Seq(DOMAIN Code), NEW n
  PROVE  Harmless(Visits(ns) \o << <<"popExpr", n>> >>)
<1>1. PICK l \in Nat : l = Len(ns) /\ DOMAIN ns = 1..l
  OBVIOUS
<1>2. PICK t : t = Visits(ns)
  OBVIOUS
<1>3. t = [i \in 1..l |-> <<"visit", ns[i]>>] /\ Len(t) = l
  BY <1>1, <1>2 DEF Visits
<1>4. PICK T : T = {"visit", "popExpr"} \X (DOMAIN Code \cup {n})
  OBVIOUS
<1>5. t \in Seq(T) /\ <<"popExpr", n>> \in T
  <2>1. \A i \in 1..l : <<"visit", ns[i]>> \in T
    BY <1>1, <1>4
  <2>2. <<"popExpr", n>> \in T
    BY <1>4
  <2> QED BY <1>3, <2>1, <2>2
<1>6. PICK w, u : w = << <<"popExpr", n>> >> /\ u = t \o w
  OBVIOUS
<1>7. w \in Seq(T)
  BY <1>5, <1>6
<1>8. u \in Seq(T)
  BY <1>5, <1>6, <1>7
<1>9. \A x \in T : x[1] # "handle"
  BY <1>4
<1>10. Len(u) \in Nat /\ u = [i \in 1..Len(u) |-> u[i]] /\ \A i \in 1..Len(u) : u[i] \in T
  BY <1>8
<1>11. Harmless(u)
  BY <1>9, <1>10 DEF Harmless
<1> QED BY <1>2, <1>6, <1>11

(* No step puts any other task to handle on the agenda.                     *)
LEMMA TasksHarmless ==
  ASSUME Inv, Next
  PROVE  \E tasks : Harmless(tasks) /\ agenda' = tasks \o Tail(agenda) /\ prog' = prog
<1>1. /\ Node \in DOMAIN Code /\ IsProgram(Code) /\ agenda # <<>>
  BY AtTask DEF Next, VisitStmt, VisitStmtWrap, VisitHandled, VisitReturnStmt, Handle, LeaveCall,
                VisitIfStmt, VisitWhileStmt, VisitForStmt, TestFor, PopExpr, Visiting, At, IsNext
<1>2. PICK ks \in Seq(DOMAIN Code) : ks = Kids(Node)
  BY <1>1 DEF IsProgram, IsTree, Kids
<1>3. Children(Node) \in Seq(DOMAIN Code)
  <2>1. Children(Node) = <<>> \/ Children(Node) = ks
    BY <1>2 DEF Children
  <2>2. <<>> \in Seq(DOMAIN Code)
    OBVIOUS
  <2> QED BY <2>1, <2>2
<1>4. Harmless(<<>>)
  BY DEF Harmless
<1>5. CASE VisitStmt
  BY <1>3, <1>5, VisitsHarmless DEF VisitStmt, Perform
<1>6. CASE VisitStmtWrap
  BY <1>3, <1>4, <1>6, VisitsHarmless DEF VisitStmtWrap, Perform
<1>7. CASE VisitHandled
  <2>1. K(Node) \in HandledKinds
    BY <1>7 DEF VisitHandled, Visiting, HandledKinds
  <2>2. Harmless(<< <<"wrap", Node>>, <<"handle", Node>> >>)
    BY <2>1 DEF Harmless
  <2> QED BY <1>7, <2>2 DEF VisitHandled, Perform
<1>8. CASE VisitReturnStmt
  <2>1. K(Node) \in HandledKinds
    BY <1>8 DEF VisitReturnStmt, Visiting, HandledKinds
  <2>2. Harmless(<< <<"wrap", Node>>, <<"handle", Node>> >>)
    BY <2>1 DEF Harmless
  <2> QED BY <1>4, <1>8, <2>2 DEF VisitReturnStmt, Perform
<1>9. CASE Handle
  <2>1. Harmless(<< <<"wrap", BodyOf(Code, X(Node))>>, <<"leave", Node>> >>)
    BY DEF Harmless
  <2>2. Harmless(Entering(Node))
    BY <1>4, <2>1 DEF Entering
  <2> QED BY <1>9, <2>2 DEF Handle, Perform
<1>10. CASE LeaveCall
  BY <1>4, <1>10 DEF LeaveCall, Perform
<1>11. CASE VisitIfStmt
  <2>1. Len(ks) \in {2, 3}
    BY <1>1, <1>2, <1>11 DEF VisitIfStmt, Visiting, IsProgram, K, Kids
  <2>2. <<Kid(Node, 2)>> \in Seq(DOMAIN Code) /\ SubSeq(ks, 3, Len(ks)) \in Seq(DOMAIN Code)
    BY <1>2, <2>1 DEF Kid
  <2>3. PICK branch : /\ branch \in {<<Kid(Node, 2)>>, SubSeq(ks, 3, Len(ks))}
                      /\ agenda' = (Visits(branch) \o << <<"popExpr", Node>> >>) \o Tail(agenda)
                      /\ prog' = prog
    BY <1>2, <1>11 DEF VisitIfStmt, Perform
  <2>4. branch \in Seq(DOMAIN Code)
    BY <2>2, <2>3
  <2> QED BY <2>3, <2>4, OnceMoreHarmless
<1>12. CASE VisitWhileStmt
  <2>1. Harmless(<< <<"wrap", Kid(Node, 2)>>, <<"popExpr", Node>>, <<"visit", Node>> >>)
    BY DEF Harmless
  <2> QED BY <1>4, <1>12, <2>1 DEF VisitWhileStmt, Perform
<1>13. CASE VisitForStmt
  <2>1. Harmless(<< <<"visit", Kid(Node, 1)>>, <<"test", Node>> >>)
    BY DEF Harmless
  <2> QED BY <1>13, <2>1 DEF VisitForStmt, Perform
<1>14. CASE TestFor
  <2>1. Harmless(<< <<"wrap", Kid(Node, 4)>>, <<"visit", Kid(Node, 3)>>, <<"popExpr", Node>>,
                    <<"test", Node>> >>)
    BY DEF Harmless
  <2> QED BY <1>4, <1>14, <2>1 DEF TestFor, Perform
<1>15. CASE PopExpr
  BY <1>4, <1>15 DEF PopExpr, Perform
<1> QED BY <1>5, <1>6, <1>7, <1>8, <1>9, <1>10, <1>11, <1>12, <1>13, <1>14, <1>15 DEF Next

(* So what is to be handled stays of a kind that the environment handles.   *)
LEMMA HandlesNext ==
  ASSUME Inv, Next
  PROVE  HandlesHandled'
<1>1. PICK tasks : Harmless(tasks) /\ agenda' = tasks \o Tail(agenda) /\ prog' = prog
  BY TasksHarmless
<1>2. agenda # <<>>
  BY DEF Next, VisitStmt, VisitStmtWrap, VisitHandled, VisitReturnStmt, Handle, LeaveCall,
         VisitIfStmt, VisitWhileStmt, VisitForStmt, TestFor, PopExpr, Visiting, At, IsNext
<1>3. agenda \in Seq(P!Tasks(P!Code))
  BY <1>2, Assumptions, P!AtTask DEF Inv
<1>4. PICK l, m \in Nat : l = Len(tasks) /\ m = Len(agenda) - 1
  BY <1>1, <1>2, <1>3 DEF Harmless
<1>5. Len(agenda') = l + m
  BY <1>1, <1>3, <1>4 DEF Harmless
<1>6. ASSUME NEW i \in 1..(l + m), agenda'[i][1] = "handle"
      PROVE  K(agenda'[i][2]) \in HandledKinds
  <2>1. CASE i <= l
    <3>1. agenda'[i] = tasks[i]
      BY <1>1, <1>2, <1>3, <1>4, <2>1 DEF Harmless
    <3> QED BY <1>1, <1>4, <1>6, <2>1, <3>1 DEF Harmless
  <2>2. CASE i > l
    <3>1. agenda'[i] = agenda[i - l + 1] /\ i - l + 1 \in 1..Len(agenda)
      BY <1>1, <1>2, <1>3, <1>4, <2>2 DEF Harmless
    <3> QED BY <1>6, <3>1 DEF Inv, HandlesHandled
  <2> QED BY <2>1, <2>2
<1>7. \A n : K(n)' = K(n)
  BY <1>1 DEF K, Code
<1> QED BY <1>5, <1>6, <1>7 DEF HandlesHandled, K, Code

\* the environment that main starts in, before the global variables are there
Before == [frames |-> <<NewFrame>>, heap |-> {}, mem |-> EmptyMap, blocks |-> EmptyMap,
           brk |-> HeapBase, input |-> prog.input, output |-> <<>>, fault |-> "none"]

(* The environment is typed before the global variables are declared.       *)
LEMMA BeforeIsEnv ==
  ASSUME prog \in Programs
  PROVE  /\ IsEnv(Before) /\ Depth(Before) = 1
         /\ DOMAIN Before.frames[1].varmap = {} /\ DOMAIN Before.frames[1].exprmap = {}
         /\ Before.frames[1].ret = <<>>
<1>1. PICK b : b = Before
  OBVIOUS
<1>2. PICK g : g = NewFrame
  OBVIOUS
<1>3. /\ DOMAIN b = {"frames", "heap", "mem", "blocks", "brk", "input", "output", "fault"}
      /\ b.frames = <<g>> /\ b.mem = EmptyMap /\ b.blocks = EmptyMap /\ b.brk = 1000
      /\ b.heap = {} /\ b.input = prog.input /\ b.fault = "none"
  BY <1>1, <1>2 DEF Before, HeapBase
<1>4. /\ DOMAIN g = {"varmap", "exprmap", "ret"} /\ DOMAIN g.varmap = {} /\ DOMAIN g.exprmap = {}
      /\ g.ret = <<>>
  BY <1>2 DEF NewFrame, EmptyMap
<1>5. IsFrame(g)
  BY <1>4 DEF IsFrame
<1>6. Len(b.frames) = 1 /\ DOMAIN b.frames = 1..1 /\ b.frames[1] = g
  BY <1>3
<1>7. IsMemory(b.mem, b.blocks, b.brk) /\ DOMAIN b.blocks \subseteq b.heap
  BY <1>3 DEF IsMemory, EmptyMap
<1>8. b.input \in Seq(Int)
  BY <1>3, InputAssumption
<1>9. \A f \in 1..Len(b.frames) : IsFrame(b.frames[f])
  BY <1>5, <1>6
<1>10. IsEnv(b)
  BY <1>3, <1>6, <1>7, <1>8, <1>9 DEF IsEnv
<1> QED BY <1>1, <1>4, <1>6, <1>10 DEF Depth

(* The interpreter starts where the visitor starts.                         *)
LEMMA InitImplements ==
  ASSUME Init
  PROVE  P!Init /\ IsEnv(env) /\ HandlesHandled
<1>1. prog \in Programs /\ IsProgram(Code)
  BY ProgramAssumption DEF Init, Code
<1>2. PICK ns : ns = Kids(1)
  OBVIOUS
<1>3. Askable(ns)
  <2>1. 1 \in DOMAIN Code /\ IsTree(Code)
    BY <1>1 DEF IsProgram
  <2>2. ns \in Seq(DOMAIN Code) /\ ns = Code[1].kids
    BY <1>2, <2>1 DEF IsTree, Kids
  <2>3. DOMAIN ns = 1..Len(ns)
    BY <2>2
  <2>4. \A i \in 1..Len(ns) : K(ns[i]) \in {"fun", "var", "array"}
    BY <1>1, <2>2, <2>3 DEF IsProgram, K
  <2>5. \A i, j \in 1..Len(ns) : i # j => Part(ns[i]) \cap Part(ns[j]) = {}
    BY <2>1, <2>2, <2>3 DEF IsTree, Part
  <2> QED BY <2>2, <2>4, <2>5 DEF Askable
<1>4. PICK r, s : r = Evaluate(ns, s) /\ s = Before
  OBVIOUS
<1>5. env = r.s
  BY <1>2, <1>4 DEF Init, Before
<1>6. IsEnv(s)
  BY <1>1, <1>4, BeforeIsEnv
<1>7. IsEnv(r.s) /\ Changes(s, r.s, Involved(ns), Declared(ns))
  BY <1>1, <1>3, <1>4, <1>6, EvaluateFacts
<1>8. PICK t : t = r.s
  OBVIOUS
<1>9. /\ Depth(t) = 1 /\ t.frames[1].ret = <<>>
      /\ DOMAIN t.frames[1].varmap = Declared(ns) /\ DOMAIN t.frames[1].exprmap \subseteq Involved(ns)
  <2>1. /\ Depth(s) = 1 /\ 1 \in 1..Depth(s) /\ s.frames[1].ret = <<>>
        /\ DOMAIN s.frames[1].varmap = {} /\ DOMAIN s.frames[1].exprmap = {}
    BY <1>1, <1>4, BeforeIsEnv
  <2> QED BY <1>7, <1>8, <2>1 DEF Changes
<1>10. PICK G : G = FramesOf(t)
  OBVIOUS
<1>11. G = [f \in 1..1 |-> G[f]] /\ Len(G) = 1 /\ G[1] = FrameOf(t.frames[1])
  BY <1>7, <1>8, <1>9, <1>10, FramesAre, FramesMap
<1>12. PICK e : e = G[1]
  OBVIOUS
<1>13. /\ e.held = Declared(ns) /\ e.exprs \subseteq Involved(ns) /\ e.returned = FALSE
       /\ e = [held |-> e.held, exprs |-> e.exprs, returned |-> e.returned]
  <2>1. /\ e.held = DOMAIN t.frames[1].varmap /\ e.exprs = DOMAIN t.frames[1].exprmap
        /\ e.returned = (t.frames[1].ret # <<>>)
        /\ e = [held |-> e.held, exprs |-> e.exprs, returned |-> e.returned]
    BY <1>11, <1>12, FrameFields
  <2> QED BY <1>9, <2>1
<1>14. \A x \in e.exprs : \E i \in 1..Len(ns) : K(ns[i]) = "var" /\ x \in Part(ns[i])
  <2>1. ASSUME NEW x \in e.exprs
        PROVE  \E i \in 1..Len(ns) : K(ns[i]) = "var" /\ x \in Part(ns[i])
    <3>1. IsFrame(t.frames[1])
      BY <1>7, <1>8, <1>9 DEF IsEnv, Depth
    <3>2. K(x) \in Keeps /\ x \in Involved(ns)
      <4>1. x \in DOMAIN t.frames[1].exprmap
        BY <1>11, <1>12, FrameFields
      <4> QED BY <1>13, <3>1, <4>1 DEF IsFrame
    <3>3. PICK i \in 1..Len(ns) : K(ns[i]) \notin {"fun", "array"} /\ x \in Part(ns[i])
      BY <1>1, <1>3, <3>2, InvolvedFacts
    <3>4. K(ns[i]) \in {"fun", "var", "array"}
      <4>1. Code[1].kids \in Seq(DOMAIN Code)
        BY <1>1 DEF IsProgram, IsTree
      <4>2. i \in DOMAIN Code[1].kids /\ ns = Code[1].kids
        BY <1>2, <4>1 DEF Kids
      <4> QED BY <1>1, <4>2 DEF IsProgram, K
    <3> QED BY <3>3, <3>4
  <2> QED BY <2>1
<1>15. P!frames = G /\ P!frames[1] = e /\ Len(P!frames) = 1
  BY <1>5, <1>8, <1>10, <1>11, <1>12, SameState
<1>16. P!frames[1].exprs \subseteq
         UNION {P!Part(P!Kid(1, i)) : i \in {j \in DOMAIN P!Kids(1) : P!K(P!Kid(1, j)) = "var"}}
  <2>1. DOMAIN ns = 1..Len(ns)
    BY <1>3 DEF Askable
  <2>2. ASSUME NEW x \in e.exprs
        PROVE  \E i \in {j \in DOMAIN Kids(1) : K(Kid(1, j)) = "var"} : x \in Part(Kid(1, i))
    BY <1>2, <1>14, <2>1 DEF Kid
  <2>3. e.exprs \subseteq UNION {Part(Kid(1, i)) : i \in {j \in DOMAIN Kids(1) : K(Kid(1, j)) = "var"}}
    BY <2>2
  <2> QED BY <1>15, <2>3, SameState
<1>17. P!frames = <<[P!NewFrame(P!Globals) EXCEPT !.exprs = P!frames[1].exprs]>>
  <2>1. P!Globals = Declared(ns)
    BY <1>2, SameState DEF P!Globals
  <2>2. PICK h, z, u : h = e.exprs /\ z = P!NewFrame(P!Globals) /\ u = [z EXCEPT !.exprs = h]
    OBVIOUS
  <2>3. PICK w : w = Declared(ns)
    OBVIOUS
  <2>4. z = [held |-> w, exprs |-> {}, returned |-> FALSE]
    BY <2>1, <2>2, <2>3 DEF P!NewFrame
  <2>5. u = [held |-> w, exprs |-> h, returned |-> FALSE]
    <3>1. z \in [held : {w}, exprs : {{}}, returned : {FALSE}] /\ z.held = w /\ z.returned = FALSE
      BY <2>4
    <3>2. u = [held |-> z.held, exprs |-> h, returned |-> z.returned]
      BY <2>2, <3>1
    <3> QED BY <3>1, <3>2
  <2>6. e = u
    BY <1>13, <2>2, <2>3, <2>5, Zenon
  <2>7. G = <<e>>
    BY <1>11, <1>12
  <2> QED BY <1>15, <2>2, <2>6, <2>7
<1>18. agenda = P!Visits(P!Kids(P!BodyOf(P!Code, "main")))
  BY SameState, SameFunctions DEF Init
<1>19. HandlesHandled
  <2>1. PICK f : f = "main"
    OBVIOUS
  <2>2. P!BodyOf(Code, f) \in DOMAIN Code
    BY <1>1, <2>1, Assumptions, SamePrograms, SameFunctions, P!FunctionFacts DEF IsProgram
  <2>3. Kids(BodyOf(Code, "main")) \in Seq(DOMAIN Code)
    BY <1>1, <2>1, <2>2, SameFunctions DEF IsProgram, IsTree, Kids
  <2>4. Harmless(agenda)
    BY <2>3, VisitsHarmless DEF Init
  <2> QED BY <2>4 DEF Harmless, HandlesHandled
<1> QED BY <1>1, <1>5, <1>7, <1>15, <1>16, <1>17, <1>18, <1>19 DEF P!Init

(* The invariant holds first.                                               *)
LEMMA InvInit == Init => Inv
BY Assumptions, InitImplements, P!InvInit DEF Inv

(* A step, or a stutter, of the interpreter is one of the visitor.          *)
LEMMA StepOf ==
  ASSUME Inv, [Next]_vars
  PROVE  [P!Next]_(P!vars)
<1>1. CASE Next
  BY <1>1, StepImplements
<1>2. CASE UNCHANGED vars
  BY <1>2, SameState DEF vars, P!vars
<1> QED BY <1>1, <1>2

(* Each step keeps the invariant.                                           *)
LEMMA InvStep == Inv /\ [Next]_vars => Inv'
<1> SUFFICES ASSUME Inv, [Next]_vars PROVE Inv'
  OBVIOUS
<1>1. P!Inv'
  BY StepOf, Assumptions, P!InvStep DEF Inv
<1>2. CASE Next
  <2>1. IsEnv(env') /\ prog' = prog
    BY <1>2, StepImplements, TasksHarmless
  <2> QED BY <1>1, <1>2, <2>1, EnvNext, HandlesNext DEF Inv
<1>3. CASE UNCHANGED vars
  <2>1. HandlesHandled'
    BY <1>3 DEF vars, Inv, HandlesHandled, K, Code
  <2>2. IsEnv(env)'
    BY <1>3, EnvNext DEF vars, Inv
  <2> QED BY <1>1, <2>1, <2>2 DEF Inv
<1> QED BY <1>2, <1>3

-------------------------------------------------------------------------------
(* The interpreter, whatever the program and what it reads.                 *)

\* Tasks are about nodes of the program, frames keep integers, and of expressions and
\* declarations only, every allocated cell belongs to a block, and every block that malloc gave
\* is registered with heap_ (util.h:11-20, 102-131, Environment.h:309-324).
THEOREM TypeTheorem == Spec => []TypeOK
<1>1. ASSUME Inv
      PROVE  TypeOK
  <2>1. IsEnv(env) /\ P!Typed(P!Code, agenda, P!frames)
    BY <1>1 DEF Inv, P!Inv, P!Invariant
  <2>2. \A i \in DOMAIN agenda :
          agenda[i] \in {"visit", "wrap", "handle", "leave", "popExpr", "test"} \X DOMAIN Code
    BY <2>1, SameState DEF P!Typed, P!Tasks, P!TaskKinds
  <2>3. PICK s : s = env
    OBVIOUS
  <2>4. /\ s.fault \in {"none", "assertion", "undefined"}
        /\ Len(s.frames) \in Nat \ {0} /\ DOMAIN s.frames = 1..Len(s.frames)
        /\ \A f \in 1..Len(s.frames) : IsFrame(s.frames[f])
        /\ IsMemory(s.mem, s.blocks, s.brk) /\ DOMAIN s.blocks \subseteq s.heap
    BY <2>1, <2>3 DEF IsEnv
  <2>5. s.frames # <<>>
    BY <2>4
  <2>6. ASSUME NEW i \in DOMAIN s.frames
        PROVE  /\ \A d \in DOMAIN s.frames[i].varmap :
                    s.frames[i].varmap[d] \in Seq(Int) /\ s.frames[i].varmap[d] # <<>>
               /\ \A e \in DOMAIN s.frames[i].exprmap :
                    K(e) \notin Statements \cup {"fun", "unit"} /\ s.frames[i].exprmap[e] \in Int
               /\ s.frames[i].ret \in Seq(Int)
    BY <2>4 DEF IsFrame, Keeps, Statements
  <2>7. /\ DOMAIN s.mem = UNION {s.blocks[b] : b \in DOMAIN s.blocks}
        /\ DOMAIN s.blocks \subseteq s.heap
    BY <2>4 DEF IsMemory
  <2> QED BY <2>2, <2>3, <2>4, <2>5, <2>6, <2>7 DEF TypeOK
<1> QED BY <1>1, InvInit, InvStep, PTL DEF Spec

(* The visitor of the proofs is that of the specification.                  *)
LEMMA SameVisitor ==
  /\ P!Init => V!Init
  /\ P!Next => V!Next
  /\ UNCHANGED P!vars => UNCHANGED V!vars
<1>1. P!Init => V!Init
  BY DEF P!Init, V!Init, P!Code, V!Code, P!Visits, V!Visits, P!Kids, V!Kids, P!Kid, V!Kid,
         P!BodyOf, V!BodyOf, P!FunctionOf, V!FunctionOf, P!Last, V!Last, P!frames, V!frames,
         P!Part, V!Part, P!Within, V!Within, P!K, V!K, P!X, V!X, P!Globals, V!Globals,
         P!Declared, V!Declared, P!NewFrame, V!NewFrame
<1>2. P!Next => V!Next
  BY DEF P!Next, V!Next, P!VisitStmt, V!VisitStmt, P!VisitStmtWrap, V!VisitStmtWrap,
         P!VisitHandled, V!VisitHandled, P!VisitReturnStmt, V!VisitReturnStmt,
         P!Handle, V!Handle, P!EnterFunction, V!EnterFunction, P!LeaveCall, V!LeaveCall,
         P!VisitIfStmt, V!VisitIfStmt, P!VisitWhileStmt, V!VisitWhileStmt,
         P!VisitForStmt, V!VisitForStmt, P!TestFor, V!TestFor, P!PopExpr, V!PopExpr,
         P!Code, V!Code, P!Visits, V!Visits, P!Kids, V!Kids, P!Kid, V!Kid,
         P!BodyOf, V!BodyOf, P!ParamsOf, V!ParamsOf, P!FunctionOf, V!FunctionOf, P!Last, V!Last,
         P!Front, V!Front, P!Range, V!Range, P!frames, V!frames, P!Part, V!Part, P!Within, V!Within,
         P!K, V!K, P!X, V!X, P!Declared, V!Declared, P!NewFrame, V!NewFrame, P!Node, V!Node,
         P!Children, V!Children, P!CallsFunction, V!CallsFunction, P!Builtins, V!Builtins,
         P!IsNext, V!IsNext, P!Visiting, V!Visiting, P!Perform, V!Perform, P!Depth, V!Depth,
         P!Top, V!Top, P!Kept, V!Kept, P!Evaluate, V!Evaluate, P!Evaluated, V!Evaluated
<1>3. UNCHANGED P!vars => UNCHANGED V!vars
  BY DEF P!vars, V!vars, P!frames, V!frames
<1> QED BY <1>1, <1>2, <1>3

\* Whatever the expressions evaluate to, the visitor and the environment do what CVisitor says:
\* the tasks, the frames, the variables and the kept values (ASTInterpreter.cpp:32-137,
\* Environment.h:94-460).
THEOREM ImplementsTheorem == Spec => ImplementsVisitor
<1>1. Init => V!Init
  BY InitImplements, SameVisitor
<1>2. Inv /\ [Next]_vars => [V!Next]_(V!vars)
  <2>1. Inv /\ [Next]_vars => P!Next \/ UNCHANGED P!vars
    BY StepOf
  <2> QED BY <2>1, SameVisitor
<1> QED BY <1>1, <1>2, InvInit, InvStep, PTL DEF Spec, ImplementsVisitor, V!Spec

(* What is proved of the visitor holds of the interpreter.                  *)
LEMMA VisitorSpec == Spec => P!Spec
<1>1. Init => P!Init
  BY InitImplements
<1>2. Inv /\ [Next]_vars => [P!Next]_(P!vars)
  BY StepOf
<1> QED BY <1>1, <1>2, InvInit, InvStep, PTL DEF Spec, P!Spec

(* The frames the theorems speak of are those that are proved about.        *)
LEMMA SameFrames == P!frames = frames
BY DEF P!frames, frames

\* The stack of the environment has a frame for main and one for each call under way, in that
\* order, with variables of the function only (ASTInterpreter.cpp:84-91, Environment.h:325-340).
THEOREM FramesTheorem == Spec => []FramesMatchCalls
<1>1. P!FramesMatchCalls => FramesMatchCalls
  <2>1. \A a, i : P!FrameAt(a, i) = FrameAt(a, i) /\ P!IsLeave(a, i) = IsLeave(a, i)
    <3>1. \A a, i : P!IsLeave(a, i) = IsLeave(a, i)
      BY DEF P!IsLeave, IsLeave
    <3>2. \A a, i : {j \in i..Len(a) : P!IsLeave(a, j)} = {j \in i..Len(a) : IsLeave(a, j)}
      BY <3>1
    <3>3. \A a, i : P!FrameAt(a, i) = FrameAt(a, i)
      <4>1. \A S : P!Cardinality(S) = Cardinality(S)
        BY DEF P!Cardinality, Cardinality
      <4> QED BY <3>2, <4>1 DEF P!FrameAt, FrameAt
    <3> QED BY <3>1, <3>3
  <2>2. P!Globals = Globals /\ \A f : P!DeclaredIn(f) = DeclaredIn(f)
    BY SameState, SameFunctions DEF P!Globals, Globals, P!DeclaredIn, DeclaredIn
  <2>3. \A f : P!Range(P!ParamsOf(P!Code, f)) = Range(ParamsOf(Code, f))
    BY SameState, SameFunctions DEF P!Range, Range
  <2> QED BY <2>1, <2>2, <2>3, SameState, SameFrames DEF P!FramesMatchCalls, FramesMatchCalls
<1> QED BY <1>1, VisitorSpec, Assumptions, P!FramesTheorem, PTL

\* No expression is evaluated from a value kept of an evaluation before
\* (util.h:64-72, Environment.h:389-393).
THEOREM StaleTheorem == Spec => []NothingStale
<1>1. P!NothingStale => NothingStale
  BY SameState, SameFrames DEF P!NothingStale, NothingStale
<1> QED BY <1>1, VisitorSpec, Assumptions, P!StaleTheorem, PTL
==================================================================================
