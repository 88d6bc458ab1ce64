------------------------ MODULE BreakConstantExpr_proofs ------------------------
(***************************************************************************)
(* The pass leaves no constant expression, keeps every value, keeps phis   *)
(* consistent and reports changes, for every module.                       *)
(***************************************************************************)
EXTENDS BreakConstantExpr, FiniteSetTheorems, TLAPS

-------------------------------------------------------------------------------
(* The inductive invariant. *)

N == Len(module.code)

\* where the scan of the functions is
ScanInv ==
  /\ phase = "scan" => scan <= module.ends[fn] + 1
  /\ phase = "work" => scan = module.ends[fn] + 1
  /\ phase = "done" => scan = N + 1 /\ worklist = <<>>
  /\ phase # "work" => inst = 0

\* instructions keep all but their operands; what was created is no phi
ShapeInv ==
  /\ \A i \in DOMAIN code :
       IF i <= N THEN code[i].computes = <<>>
       ELSE ~ code[i].phi /\ \E e \in Exprs : code[i].computes = <<e>>
  /\ \A i \in DOMAIN code : code[i].phi => DOMAIN code[i].from = DOMAIN code[i].ops

Queued(i) == \E p \in DOMAIN worklist : worklist[p] = i

\* a constant expression is at the operand at hand or behind it, or its instruction is
\* on the worklist or was not scanned yet
NoneLost ==
  \A i \in DOMAIN code : \A k \in ExprsOf(i) :
    \/ Queued(i)
    \/ i = inst /\ index <= k
    \/ scan <= i /\ i <= N

\* operands that were passed are no constant expressions
PassedClean == inst # 0 => \A k \in ExprsOf(inst) : index <= k

\* what tells whether something was changed
ChangeInv ==
  /\ Len(code) = N => code = module.code
  /\ ~ modified => Len(code) = N /\ inst = 0 /\ (phase # "scan" => worklist = <<>>)
  /\ (modified \/ worklist # <<>>) /\ Len(code) = N =>
       \E i \in 1..(scan - 1) : ExprsOf(i) # {}

Inv ==
  /\ TypeOK /\ ScanInv /\ ShapeInv /\ SameValues /\ PhisAgree
  /\ NoneLost /\ PassedClean /\ ChangeInv

-------------------------------------------------------------------------------
(* Lemmas. *)

(* What is a constant expression, and what is none.                         *)
LEMMA ValueFacts ==
  /\ \A v \in Values : IsExpr(v) => v[2] \in Exprs /\ v \in Constants
  /\ \A j \in Nat : Inst(j) \in Values /\ ~ IsExpr(Inst(j))
  /\ Constants \subseteq Values
  BY DEF Values, Constants, IsExpr, Inst

(* What is assumed of a module.                                             *)
LEMMA ModuleFacts ==
  ASSUME NEW m \in Modules
  PROVE  /\ m.code \in Seq(Instructions) /\ Len(m.code) \in Nat
         /\ m.layout \in [Blocks -> Seq(1..Len(m.code))]
         /\ m.ends \in Seq(0..Len(m.code)) /\ Len(m.ends) \in Nat
         /\ 1 \in DOMAIN m.ends /\ Len(m.ends) \in DOMAIN m.ends
         /\ m.ends[Len(m.ends)] = Len(m.code)
         /\ \A f, g \in DOMAIN m.ends : f < g => m.ends[f] <= m.ends[g]
         /\ \A f \in DOMAIN m.ends : m.ends[f] \in 0..Len(m.code)
         /\ \A i \in DOMAIN m.code :
              /\ PhiAgrees(m.code[i])
              /\ m.code[i].phi => DOMAIN m.code[i].from = DOMAIN m.code[i].ops
              /\ m.code[i].computes = <<>>
<1>1. m.code \in Seq(Instructions) /\ m.ends \in Seq(0..Len(m.code)) /\ m.ends # <<>>
  BY ModuleAssumption
<1>2. Len(m.ends) \in DOMAIN m.ends /\ 1 \in DOMAIN m.ends
  BY <1>1
<1> QED BY <1>1, <1>2, ModuleAssumption

(* The types of an instruction's fields.                                    *)
LEMMA InstructionFacts ==
  ASSUME NEW r \in Instructions
  PROVE  /\ r.phi \in BOOLEAN /\ r.ops \in Seq(Values) /\ r.from \in Seq(Blocks)
         /\ r.block \in Blocks /\ r.computes \in {<<e>> : e \in Exprs} \cup {<<>>}
         /\ DOMAIN r.ops = 1..Len(r.ops) /\ Len(r.ops) \in Nat
         /\ \A k \in DOMAIN r.ops : r.ops[k] \in Values
  BY DEF Instructions

(* The pass starts with nothing converted and everything to be scanned.     *)
LEMMA InvInit == Init => Inv
<1> SUFFICES ASSUME Init PROVE Inv
  OBVIOUS
<1>0. /\ module \in Modules /\ code = module.code /\ fn = 1 /\ phase = "scan" /\ scan = 1
      /\ worklist = <<>> /\ inst = 0 /\ index = 1 /\ modified = FALSE
  BY DEF Init
<1>1. TypeOK
  <2>1. code \in Seq(Instructions) /\ Len(module.code) \in Nat /\ 1 \in DOMAIN module.ends
    BY <1>0, ModuleFacts
  <2>2. worklist \in Seq(DOMAIN code)
    BY <1>0
  <2>3. modified \in BOOLEAN
    BY <1>0, Zenon
  <2> QED BY <1>0, <2>1, <2>2, <2>3 DEF TypeOK
<1>2. ScanInv
  BY <1>0, ModuleFacts DEF ScanInv
<1>3. ShapeInv
  BY <1>0, ModuleFacts DEF ShapeInv, N
<1>4. SameValues
  BY <1>0, ModuleFacts DEF SameValues, OpsBefore, Denotes
<1>5. PhisAgree
  BY <1>0, ModuleFacts DEF PhisAgree
<1>6. NoneLost
  BY <1>0, ModuleFacts DEF NoneLost, N
<1>7. PassedClean /\ ChangeInv
  BY <1>0 DEF PassedClean, ChangeInv, N
<1> QED BY <1>1, <1>2, <1>3, <1>4, <1>5, <1>6, <1>7 DEF Inv

(* What every step may use of the invariant.                                *)
LEMMA InvFacts ==
  ASSUME Inv
  PROVE  /\ module \in Modules /\ N \in Nat /\ code \in Seq(Instructions)
         /\ Len(code) \in Nat /\ N <= Len(code) /\ DOMAIN code = 1..Len(code)
         /\ scan \in 1..(N + 1) /\ index \in Nat \ {0} /\ inst \in DOMAIN code \cup {0}
         /\ worklist \in Seq(DOMAIN code) /\ fn \in DOMAIN module.ends
         /\ \A i \in DOMAIN code : code[i] \in Instructions
         /\ \A i \in DOMAIN code : ExprsOf(i) \subseteq 1..Len(code[i].ops)
         /\ \A i \in DOMAIN code : Len(code[i].ops) \in Nat
<1>1. module \in Modules /\ code \in Seq(Instructions)
  BY DEF Inv, TypeOK
<1>2. N \in Nat
  BY <1>1, ModuleFacts DEF N
<1>3. \A i \in DOMAIN code : code[i] \in Instructions
  BY <1>1
<1>4. \A i \in DOMAIN code : /\ ExprsOf(i) \subseteq 1..Len(code[i].ops)
                             /\ Len(code[i].ops) \in Nat
  BY <1>3, InstructionFacts DEF ExprsOf
<1> QED BY <1>1, <1>2, <1>3, <1>4 DEF Inv, TypeOK, N

(* As long as the code stays, so do the facts about it alone.               *)
LEMMA CodeStays ==
  ASSUME Inv, UNCHANGED <<module, code>>
  PROVE  /\ ShapeInv' /\ SameValues' /\ PhisAgree' /\ N' = N
         /\ \A i \in DOMAIN code : ExprsOf(i)' = ExprsOf(i)
<1>1. N' = N /\ \A i \in DOMAIN code : ExprsOf(i)' = ExprsOf(i)
  BY DEF N, ExprsOf
<1>2. ShapeInv' /\ PhisAgree'
  BY <1>1 DEF Inv, ShapeInv, PhisAgree
<1>3. SameValues'
  BY DEF Inv, SameValues, OpsBefore, Denotes
<1> QED BY <1>1, <1>2, <1>3

(* The scan puts an instruction with a constant expression on the worklist. *)
LEMMA ScanStep ==
  ASSUME Inv, ScanInstruction
  PROVE  Inv'
<1> DEFINE count == Cardinality(ExprsOf(scan))
           pushed == [k \in 1..count |-> scan]
<1>0. /\ phase = "scan" /\ scan <= module.ends[fn] /\ scan' = scan + 1
      /\ worklist' = worklist \o pushed
      /\ UNCHANGED <<module, code, fn, phase, inst, index, modified>>
  BY DEF ScanInstruction
<1>f. /\ module \in Modules /\ N \in Nat /\ code \in Seq(Instructions)
      /\ Len(code) \in Nat /\ N <= Len(code) /\ DOMAIN code = 1..Len(code)
      /\ scan \in 1..(N + 1) /\ worklist \in Seq(DOMAIN code) /\ fn \in DOMAIN module.ends
      /\ \A i \in DOMAIN code : ExprsOf(i) \subseteq 1..Len(code[i].ops)
      /\ \A i \in DOMAIN code : Len(code[i].ops) \in Nat
  BY InvFacts
<1>1. module.ends[fn] \in 0..N
  BY <1>f, ModuleFacts DEF N
<1>2. scan \in DOMAIN code /\ scan <= N
  BY <1>0, <1>1, <1>f
<1>3. count \in Nat /\ (ExprsOf(scan) # {} => count >= 1)
  <2>0. Len(code[scan].ops) \in Int /\ ExprsOf(scan) \subseteq 1..Len(code[scan].ops)
    BY <1>2, <1>f
  <2>1. IsFiniteSet(1..Len(code[scan].ops))
    BY <2>0, FS_Interval
  <2>2. IsFiniteSet(ExprsOf(scan))
    BY <2>1, <2>0, FS_Subset
  <2>3. count \in Nat
    BY <2>2, FS_CardinalityType
  <2>4. ExprsOf(scan) # {} => count # 0
    BY <2>2, FS_EmptySet
  <2> QED BY <2>3, <2>4
<1> HIDE DEF count
<1>4. pushed \in Seq(DOMAIN code) /\ Len(pushed) = count
  BY <1>2, <1>3
<1>5. /\ worklist' \in Seq(DOMAIN code)
      /\ Len(worklist') = Len(worklist) + count
      /\ \A p \in 1..Len(worklist) : worklist'[p] = worklist[p]
      /\ \A p \in 1..count : worklist'[Len(worklist) + p] = scan
  BY <1>0, <1>3, <1>4, <1>f
<1>d. DOMAIN worklist = 1..Len(worklist) /\ DOMAIN worklist' = 1..(Len(worklist) + count)
  BY <1>5, <1>f
<1>6. \A i : Queued(i) => Queued(i)'
  BY <1>3, <1>5, <1>d, <1>f DEF Queued
<1>7. \A i : i = scan /\ ExprsOf(i) # {} => Queued(i)'
  <2> SUFFICES ASSUME ExprsOf(scan) # {}
               PROVE  \E p \in DOMAIN worklist' : worklist'[p] = scan
    BY DEF Queued
  <2>1. 1 \in 1..count /\ Len(worklist) + 1 \in DOMAIN worklist'
    BY <1>3, <1>d, <1>f
  <2> QED BY <2>1, <1>5
<1>8. ShapeInv' /\ SameValues' /\ PhisAgree' /\ N' = N
      /\ \A i \in DOMAIN code : ExprsOf(i)' = ExprsOf(i)
  BY <1>0, CodeStays
<1>9. TypeOK'
  BY <1>0, <1>2, <1>5, <1>f DEF Inv, TypeOK, N
<1>10. ScanInv'
  BY <1>0, <1>1, <1>8, <1>f DEF Inv, ScanInv
<1>11. NoneLost'
  <2> SUFFICES ASSUME NEW i \in DOMAIN code, NEW k \in ExprsOf(i)
               PROVE  Queued(i)' \/ (i = inst /\ index <= k) \/ (scan + 1 <= i /\ i <= N)
    BY <1>0, <1>8 DEF NoneLost
  <2>1. CASE i = scan
    <3>1. ExprsOf(i) # {}
      OBVIOUS
    <3> QED BY <3>1, <2>1, <1>7
  <2>2. CASE i # scan
    <3>1. Queued(i) \/ (i = inst /\ index <= k) \/ (scan <= i /\ i <= N)
      BY DEF Inv, NoneLost
    <3> QED BY <3>1, <2>2, <1>6, <1>f
  <2> QED BY <2>1, <2>2
<1>12. PassedClean'
  BY <1>0, <1>8, InvFacts DEF Inv, PassedClean
<1>13. ChangeInv'
  <2>1. (Len(code) = N => code = module.code)'
    BY <1>0, <1>8 DEF Inv, ChangeInv
  <2>2. (~ modified => Len(code) = N /\ inst = 0 /\ (phase # "scan" => worklist = <<>>))'
    BY <1>0, <1>8 DEF Inv, ChangeInv
  <2>3. ASSUME modified \/ worklist # <<>>, Len(code) = N
        PROVE  \E i \in 1..scan : ExprsOf(i) # {}
    <3>1. PICK i \in 1..(scan - 1) : ExprsOf(i) # {}
      BY <2>3 DEF Inv, ChangeInv
    <3> QED BY <3>1, <1>f
  <2>4. ASSUME ~ modified, worklist = <<>>, worklist' # <<>>
        PROVE  ExprsOf(scan) # {}
    <3>1. count # 0
      BY <2>4, <1>0, <1>3, <1>4, <1>5
    <3> QED BY <3>1, FS_EmptySet DEF count
  <2>5. ASSUME modified \/ worklist' # <<>>, Len(code) = N
        PROVE  \E i \in 1..scan : ExprsOf(i) # {}
    <3>1. CASE modified \/ worklist # <<>>
      BY <3>1, <2>3, <2>5
    <3>2. CASE ~ modified /\ worklist = <<>>
      BY <3>2, <2>4, <2>5, <1>f
    <3> QED BY <3>1, <3>2
  <2>6. 1..scan \subseteq DOMAIN code /\ 1..(scan' - 1) = 1..scan
    BY <1>0, <1>2, <1>f
  <2>7. \A i \in 1..scan : ExprsOf(i)' = ExprsOf(i)
    BY <1>8, <2>6
  <2>8. (modified \/ worklist' # <<>>) /\ Len(code) = N =>
           \E i \in 1..(scan' - 1) : ExprsOf(i)' # {}
    BY <2>5, <2>6, <2>7
  <2> QED BY <2>1, <2>2, <2>8, <1>0, <1>8 DEF ChangeInv
<1> QED BY <1>8, <1>9, <1>10, <1>11, <1>12, <1>13 DEF Inv

(* The worklist is full: the loop over it begins.                           *)
LEMMA StartStep ==
  ASSUME Inv, StartWork
  PROVE  Inv'
<1>0. /\ phase = "scan" /\ scan > module.ends[fn] /\ phase' = "work"
      /\ modified' = (modified \/ worklist # <<>>)
      /\ UNCHANGED <<module, code, fn, scan, worklist, inst, index>>
  BY DEF StartWork
<1>1. /\ module.ends[fn] \in Int /\ scan \in Int
  BY InvFacts, ModuleFacts
<1>2. ShapeInv' /\ SameValues' /\ PhisAgree' /\ N' = N
      /\ \A i \in DOMAIN code : ExprsOf(i)' = ExprsOf(i)
  BY <1>0, CodeStays
<1>3. modified' \in BOOLEAN
  BY <1>0, Zenon
<1>4. TypeOK'
  BY <1>0, <1>3 DEF Inv, TypeOK
<1>5. ScanInv'
  BY <1>0, <1>1 DEF Inv, ScanInv
<1>6. NoneLost' /\ PassedClean'
  BY <1>0, <1>2, InvFacts DEF Inv, NoneLost, PassedClean, Queued
<1>7. ChangeInv'
  <2>1. (Len(code) = N => code = module.code)'
    BY <1>0, <1>2 DEF Inv, ChangeInv
  <2>2. ~ modified' => Len(code) = N /\ inst = 0 /\ worklist = <<>>
    BY <1>0 DEF Inv, ChangeInv
  <2>3. 1..(scan - 1) \subseteq DOMAIN code
    BY InvFacts
  <2>4. modified' \/ worklist # <<>> => modified \/ worklist # <<>>
    BY <1>0
  <2>5. (modified \/ worklist # <<>>) /\ Len(code) = N => \E i \in 1..(scan - 1) : ExprsOf(i) # {}
    BY DEF Inv, ChangeInv
  <2>6. (modified' \/ worklist # <<>>) /\ Len(code) = N => \E i \in 1..(scan - 1) : ExprsOf(i)' # {}
    BY <1>2, <2>3, <2>4, <2>5
  <2> QED BY <1>0, <1>2, <2>1, <2>2, <2>6 DEF ChangeInv
<1> QED BY <1>2, <1>4, <1>5, <1>6, <1>7 DEF Inv

(* The last instruction is taken off the worklist, to be looked at from its *)
(* first operand.                                                           *)
LEMMA TakeStep ==
  ASSUME Inv, TakeInstruction
  PROVE  Inv'
<1> DEFINE n == Len(worklist)
<1>0. /\ phase = "work" /\ AtRest /\ worklist # <<>>
      /\ inst' = worklist[n] /\ worklist' = SubSeq(worklist, 1, n - 1) /\ index' = 1
      /\ UNCHANGED <<module, code, fn, phase, scan, modified>>
  BY DEF TakeInstruction
<1>f. /\ N \in Nat /\ code \in Seq(Instructions) /\ DOMAIN code = 1..Len(code)
      /\ worklist \in Seq(DOMAIN code) /\ scan \in 1..(N + 1)
      /\ \A i \in DOMAIN code : ExprsOf(i) \subseteq 1..Len(code[i].ops)
      /\ \A i \in DOMAIN code : Len(code[i].ops) \in Nat
      /\ index \in Nat \ {0} /\ N <= Len(code) /\ Len(code) \in Nat
  BY InvFacts
<1>1. /\ n \in Nat \ {0} /\ inst' \in DOMAIN code
      /\ worklist' \in Seq(DOMAIN code) /\ DOMAIN worklist' = 1..(n - 1)
      /\ \A p \in 1..(n - 1) : worklist'[p] = worklist[p]
      /\ DOMAIN worklist = 1..n
  BY <1>0, <1>f
<1>2. ShapeInv' /\ SameValues' /\ PhisAgree' /\ N' = N
      /\ \A i \in DOMAIN code : ExprsOf(i)' = ExprsOf(i)
  BY <1>0, CodeStays
<1>3. TypeOK'
  BY <1>0, <1>1, <1>f DEF Inv, TypeOK
<1>4. ScanInv'
  BY <1>0 DEF Inv, ScanInv
<1>5. \A i : Queued(i) => Queued(i)' \/ i = inst'
  <2> SUFFICES ASSUME NEW p \in 1..n
               PROVE  (\E q \in 1..(n - 1) : worklist'[q] = worklist[p]) \/ worklist[p] = inst'
    BY <1>1 DEF Queued
  <2>0. n \in Nat \ {0}
    BY <1>1
  <2>1. CASE p = n
    BY <2>1, <1>0
  <2>2. CASE p # n
    <3>1. p \in 1..(n - 1)
      <4> HIDE DEF n
      <4> QED BY <2>0, <2>2
    <3>2. worklist'[p] = worklist[p]
      BY <3>1, <1>1
    <3> QED BY <3>1, <3>2
  <2> QED BY <2>1, <2>2
<1>6. \A i \in DOMAIN code : \A k \in ExprsOf(i) : 1 <= k
  BY <1>f
<1>7. NoneLost'
  <2> SUFFICES ASSUME NEW i \in DOMAIN code, NEW k \in ExprsOf(i)
               PROVE  Queued(i)' \/ (i = inst' /\ 1 <= k) \/ (scan <= i /\ i <= N)
    BY <1>0, <1>2 DEF NoneLost
  <2>1. Queued(i) \/ (i = inst /\ index <= k) \/ (scan <= i /\ i <= N)
    BY DEF Inv, NoneLost
  <2>2. CASE i = inst /\ index <= k
    <3>1. inst # 0 /\ index > Len(code[inst].ops)
      BY <2>2, <1>0, <1>f DEF AtRest
    <3> QED BY <3>1, <2>2, <1>f
  <2> QED BY <2>1, <2>2, <1>5, <1>6
<1>8. PassedClean'
  BY <1>0, <1>1, <1>2, <1>6 DEF PassedClean
<1>9. modified
  BY <1>0 DEF Inv, ChangeInv
<1>10. ChangeInv'
  <2>1. 1..(scan - 1) \subseteq DOMAIN code
    BY <1>f
  <2>2. (Len(code) = N => code = module.code)
        /\ (Len(code) = N => \E i \in 1..(scan - 1) : ExprsOf(i) # {})
    BY <1>9 DEF Inv, ChangeInv
  <2>3. Len(code) = N => \E i \in 1..(scan - 1) : ExprsOf(i)' # {}
    BY <2>1, <2>2, <1>2
  <2> QED BY <1>0, <1>2, <1>9, <2>2, <2>3 DEF ChangeInv
<1> QED BY <1>2, <1>3, <1>4, <1>7, <1>8, <1>10 DEF Inv

(* The worklist is empty: the next function is scanned, or the pass is done.*)
LEMMA NextFunctionStep ==
  ASSUME Inv, NextFunction
  PROVE  Inv'
<1>0. /\ phase = "work" /\ AtRest /\ worklist = <<>> /\ inst' = 0 /\ index' = 1
      /\ \/ fn = Len(module.ends) /\ phase' = "done" /\ fn' = fn
         \/ fn # Len(module.ends) /\ phase' = "scan" /\ fn' = fn + 1
      /\ UNCHANGED <<module, code, scan, worklist, modified>>
  BY DEF NextFunction
<1>f. /\ N \in Nat /\ DOMAIN code = 1..Len(code) /\ fn \in DOMAIN module.ends
      /\ scan \in 1..(N + 1) /\ module \in Modules
      /\ \A i \in DOMAIN code : ExprsOf(i) \subseteq 1..Len(code[i].ops)
      /\ \A i \in DOMAIN code : Len(code[i].ops) \in Nat
      /\ index \in Nat \ {0} /\ N <= Len(code) /\ Len(code) \in Nat
  BY InvFacts
<1>1. /\ DOMAIN module.ends = 1..Len(module.ends) /\ Len(module.ends) \in Nat
      /\ module.ends[Len(module.ends)] = N
      /\ \A f \in DOMAIN module.ends : module.ends[f] \in 0..N
      /\ \A f, g \in DOMAIN module.ends : f < g => module.ends[f] <= module.ends[g]
  BY <1>f, ModuleFacts DEF N
<1>2. ShapeInv' /\ SameValues' /\ PhisAgree' /\ N' = N
      /\ \A i \in DOMAIN code : ExprsOf(i)' = ExprsOf(i)
  BY <1>0, CodeStays
<1>3. fn' \in DOMAIN module.ends
  BY <1>0, <1>1, <1>f
<1>4. TypeOK'
  BY <1>0, <1>3, <1>f DEF Inv, TypeOK
<1>5. ScanInv'
  <2>1. scan = module.ends[fn] + 1
    BY <1>0 DEF Inv, ScanInv
  <2>2. CASE phase' = "done"
    BY <1>0, <1>1, <1>2, <2>1, <2>2 DEF ScanInv
  <2>3. CASE phase' = "scan"
    <3>1. fn < fn' /\ module.ends[fn] <= module.ends[fn'] /\ module.ends[fn'] \in Int
          /\ module.ends[fn] \in Int
      BY <1>0, <1>1, <1>3, <1>f, <2>3
    <3> QED BY <1>0, <2>1, <2>3, <3>1 DEF ScanInv
  <2> QED BY <1>0, <2>2, <2>3
<1>6. \A i : ~ Queued(i)
  BY <1>0 DEF Queued
<1>7. NoneLost'
  <2> SUFFICES ASSUME NEW i \in DOMAIN code, NEW k \in ExprsOf(i)
               PROVE  scan <= i /\ i <= N
    BY <1>0, <1>2 DEF NoneLost
  <2>1. (i = inst /\ index <= k) \/ (scan <= i /\ i <= N)
    BY <1>6 DEF Inv, NoneLost
  <2>2. CASE i = inst /\ index <= k
    <3>1. inst # 0 /\ index > Len(code[inst].ops)
      BY <2>2, <1>0, <1>f DEF AtRest
    <3> QED BY <3>1, <2>2, <1>f
  <2> QED BY <2>1, <2>2
<1>8. PassedClean'
  BY <1>0 DEF PassedClean
<1>9. ChangeInv'
  <2>1. 1..(scan - 1) \subseteq DOMAIN code
    BY <1>f
  <2>2. /\ Len(code) = N => code = module.code
        /\ ~ modified => Len(code) = N
        /\ modified /\ Len(code) = N => \E i \in 1..(scan - 1) : ExprsOf(i) # {}
    BY DEF Inv, ChangeInv
  <2>3. modified /\ Len(code) = N => \E i \in 1..(scan - 1) : ExprsOf(i)' # {}
    BY <2>1, <2>2, <1>2
  <2> QED BY <1>0, <1>2, <2>2, <2>3 DEF ChangeInv
<1> QED BY <1>2, <1>4, <1>5, <1>7, <1>8, <1>9 DEF Inv

(* An operand that is no constant expression is passed.                     *)
LEMMA KeepStep ==
  ASSUME Inv, KeepOperand
  PROVE  Inv'
<1>0. /\ phase = "work" /\ ~ AtRest /\ ~ IsExpr(code[inst].ops[index]) /\ index' = index + 1
      /\ UNCHANGED <<module, code, fn, phase, scan, worklist, inst, modified>>
  BY DEF KeepOperand, AtOperand
<1>f. /\ N \in Nat /\ DOMAIN code = 1..Len(code) /\ scan \in 1..(N + 1) /\ Len(code) \in Nat
      /\ \A i \in DOMAIN code : ExprsOf(i) \subseteq 1..Len(code[i].ops)
      /\ \A i \in DOMAIN code : Len(code[i].ops) \in Nat
      /\ index \in Nat \ {0} /\ N <= Len(code) /\ inst \in DOMAIN code \cup {0}
  BY InvFacts
<1>1. inst # 0 /\ inst \in DOMAIN code
  BY <1>0, <1>f DEF AtRest
<1>2. ShapeInv' /\ SameValues' /\ PhisAgree' /\ N' = N
      /\ \A i \in DOMAIN code : ExprsOf(i)' = ExprsOf(i)
  BY <1>0, CodeStays
<1>3. TypeOK'
  BY <1>0, <1>f DEF Inv, TypeOK
<1>4. ScanInv'
  BY <1>0 DEF Inv, ScanInv
<1>5. \A k \in ExprsOf(inst) : index + 1 <= k
  <2> SUFFICES ASSUME NEW k \in ExprsOf(inst)
               PROVE  index + 1 <= k
    OBVIOUS
  <2>1. index <= k /\ k \in Nat
    BY <1>1, <1>f DEF Inv, PassedClean
  <2>2. k # index
    BY <1>0 DEF ExprsOf
  <2> QED BY <2>1, <2>2, <1>f
<1>6. \A i : Queued(i)' <=> Queued(i)
  BY <1>0 DEF Queued
<1>7. NoneLost'
  BY <1>0, <1>2, <1>5, <1>6 DEF Inv, NoneLost
<1>8. PassedClean'
  BY <1>0, <1>1, <1>2, <1>5 DEF PassedClean
<1>9. ChangeInv'
  <2>1. 1..(scan - 1) \subseteq DOMAIN code
    BY <1>f
  <2>2. (modified \/ worklist # <<>>) /\ Len(code) = N => \E i \in 1..(scan - 1) : ExprsOf(i)' # {}
    BY <2>1, <1>2 DEF Inv, ChangeInv
  <2>3. (Len(code) = N => code = module.code)
        /\ (~ modified => Len(code) = N /\ inst = 0 /\ (phase # "scan" => worklist = <<>>))
    BY DEF Inv, ChangeInv
  <2> QED BY <1>0, <1>2, <2>2, <2>3 DEF ChangeInv
<1> QED BY <1>2, <1>3, <1>4, <1>7, <1>8, <1>9 DEF Inv

(* The operand at hand becomes an instruction.  Whatever else it replaces   *)
(* was the same constant expression, and the phis stay consistent.          *)
LEMMA BreakFacts ==
  ASSUME Inv, NEW b \in Blocks, NEW at, NEW ops, Break(b, at, ops), inst # 0,
         DOMAIN ops = DOMAIN code[inst].ops, ops \in Seq(Values),
         ops[index] = Inst(New),
         \A k \in DOMAIN ops :
           ops[k] = code[inst].ops[k] \/ (ops[k] = Inst(New) /\ code[inst].ops[k] = code[inst].ops[index]),
         PhiAgrees([code[inst] EXCEPT !.ops = ops])
  PROVE  Inv'
<1> DEFINE old == code[inst].ops
           e == old[index][2]
           added == GetAsInstruction(e, b)
           changed == [code[inst] EXCEPT !.ops = ops]
<1>f. /\ module \in Modules /\ N \in Nat /\ code \in Seq(Instructions)
      /\ Len(code) \in Nat /\ N <= Len(code) /\ DOMAIN code = 1..Len(code)
      /\ scan \in 1..(N + 1) /\ index \in Nat \ {0} /\ inst \in DOMAIN code
      /\ worklist \in Seq(DOMAIN code) /\ fn \in DOMAIN module.ends
      /\ \A i \in DOMAIN code : code[i] \in Instructions
      /\ \A i \in DOMAIN code : ExprsOf(i) \subseteq 1..Len(code[i].ops)
      /\ \A i \in DOMAIN code : Len(code[i].ops) \in Nat
  BY InvFacts
<1>0. /\ phase = "work" /\ ~ AtRest /\ index' = index + 1 /\ IsExpr(old[index])
      /\ code' = Append([code EXCEPT ![inst].ops = ops], added)
      /\ worklist' = Append(worklist, New)
      /\ UNCHANGED <<module, fn, phase, scan, inst, modified>>
  BY DEF Break, AtOperand, Queue
<1>1. index \in DOMAIN old /\ old \in Seq(Values) /\ DOMAIN old = 1..Len(old)
  BY <1>0, <1>f, InstructionFacts DEF AtRest
<1>2. e \in Exprs /\ old[index] \in Values
  BY <1>0, <1>1, ValueFacts
<1>3. /\ added \in Instructions /\ ~ added.phi /\ added.ops = Operands[e]
      /\ Operands[e] \in Seq(Constants) /\ added.computes = <<e>>
  <2>1. Operands[e] \in Seq(Constants)
    BY <1>2, OperandsAssumption
  <2>2. Operands[e] \in Seq(Values)
    BY <2>1, ValueFacts
  <2> QED BY <1>2, <2>1, <2>2 DEF added, GetAsInstruction, Instructions
<1>4. /\ changed \in Instructions /\ changed.ops = ops /\ changed.phi = code[inst].phi
      /\ changed.from = code[inst].from /\ changed.computes = code[inst].computes
  <2>1. code[inst] \in Instructions
    BY <1>f
  <2> QED BY <2>1 DEF changed, Instructions
<1> HIDE DEF added, changed
<1>5. /\ code' \in Seq(Instructions) /\ Len(code') = New /\ DOMAIN code' = 1..New
      /\ code'[New] = added /\ code'[inst] = changed
      /\ \A i \in DOMAIN code : i # inst => code'[i] = code[i]
      /\ New \notin DOMAIN code /\ New \in Nat /\ New > N
  <2> DEFINE mid == [code EXCEPT ![inst] = changed]
  <2>1. code' = Append(mid, added)
    BY <1>0 DEF changed
  <2>2. mid \in Seq(Instructions) /\ Len(mid) = Len(code) /\ mid[inst] = changed
        /\ \A i \in DOMAIN code : i # inst => mid[i] = code[i]
    BY <1>4, <1>f
  <2> HIDE DEF mid
  <2> QED BY <2>1, <2>2, <1>3, <1>f DEF New
<1>6. \A i \in DOMAIN code' : i \in DOMAIN code \/ i = New
  BY <1>5, <1>f DEF New
<1>n. N' = N
  BY <1>0 DEF N
<1>7. TypeOK'
  <2>1. worklist' \in Seq(DOMAIN code')
    <3>1. worklist \in Seq(DOMAIN code') /\ New \in DOMAIN code'
      BY <1>5, <1>f DEF New
    <3> QED BY <3>1, <1>0
  <2>2. Len(code') >= Len(module'.code) /\ index' \in Nat \ {0} /\ inst' \in DOMAIN code' \cup {0}
    BY <1>0, <1>5, <1>f DEF N
  <2> QED BY <1>0, <1>5, <2>1, <2>2 DEF Inv, TypeOK
<1>8. ScanInv'
  BY <1>0 DEF Inv, ScanInv
<1>9. ShapeInv'
  <2> DEFINE P(r, i) == /\ IF i <= N THEN r.computes = <<>>
                           ELSE ~ r.phi /\ \E x \in Exprs : r.computes = <<x>>
                        /\ r.phi => DOMAIN r.from = DOMAIN r.ops
  <2>1. \A i \in DOMAIN code : P(code[i], i)
    BY DEF Inv, ShapeInv
  <2>2. P(added, New)
    BY <1>2, <1>3, <1>5, <1>f
  <2>3. P(changed, inst)
    <3>1. P(code[inst], inst)
      BY <2>1, <1>f
    <3> QED BY <3>1, <1>4
  <2>4. \A i \in DOMAIN code' : P(code'[i], i)
    <3> HIDE DEF P
    <3> QED BY <2>1, <2>2, <2>3, <1>5, <1>6
  <2> QED BY <1>n, <2>4 DEF ShapeInv
<1>10. PhisAgree'
  <2>1. PhiAgrees(changed)
    BY DEF changed
  <2>2. PhiAgrees(added)
    BY <1>3 DEF PhiAgrees
  <2> QED BY <2>1, <2>2, <1>5, <1>6 DEF Inv, PhisAgree
<1>11. SameValues'
  <2>1. \A i \in DOMAIN code : code'[i].computes = code[i].computes
    BY <1>4, <1>5
  <2>2. \A i \in DOMAIN code : OpsBefore(i)' = OpsBefore(i)
    BY <1>0, <2>1 DEF OpsBefore
  <2>3. \A i : i = New => OpsBefore(i)' = Operands[e]
    <3>1. ~ (New <= N) /\ code'[New].computes = <<e>>
      BY <1>3, <1>5, <1>f
    <3>2. code'[New].computes[1] = e
      BY <3>1
    <3> SUFFICES ASSUME NEW i, i = New
                 PROVE  OpsBefore(i)' = Operands[e]
      OBVIOUS
    <3> QED BY <3>1, <3>2, <1>0 DEF OpsBefore, N
  <2>4. \A v, w : Denotes(v, w) => Denotes(v, w)'
    <3> SUFFICES ASSUME NEW w, NEW j \in (N + 1)..Len(code), code[j].computes = <<w[2]>>
                 PROVE  j \in (N + 1)..Len(code') /\ code'[j].computes = <<w[2]>>
      BY <1>0 DEF Denotes, N
    <3>1. j \in DOMAIN code /\ j \in (N + 1)..New
      BY <1>f DEF New
    <3> QED BY <3>1, <2>1, <1>5
  <2>5. \A v, w : v = Inst(New) /\ w = old[index] => Denotes(v, w)'
    <3> SUFFICES ASSUME NEW w, w = old[index]
                 PROVE  IsExpr(w) /\ New \in (N + 1)..Len(code') /\ code'[New].computes = <<w[2]>>
      BY <1>0 DEF Denotes, N
    <3>1. New \in (N + 1)..Len(code')
      BY <1>5, <1>f
    <3> QED BY <3>1, <1>0, <1>3, <1>5
  <2>6. \A i \in DOMAIN code : /\ DOMAIN code[i].ops = DOMAIN OpsBefore(i)
                             /\ \A k \in DOMAIN code[i].ops : Denotes(code[i].ops[k], OpsBefore(i)[k])
    BY DEF Inv, SameValues
  <2>7. ASSUME NEW i \in DOMAIN code'
        PROVE  /\ DOMAIN code'[i].ops = DOMAIN OpsBefore(i)'
               /\ \A k \in DOMAIN code'[i].ops : Denotes(code[i].ops[k], OpsBefore(i)[k])'
    <3>1. CASE i = New
      <4>1. code'[i].ops = OpsBefore(i)'
        BY <3>1, <2>3, <1>3, <1>5
      <4> QED BY <4>1 DEF Denotes
    <3>2. CASE i \in DOMAIN code /\ i # inst
      BY <3>2, <2>2, <2>4, <2>6, <1>5
    <3>3. CASE i = inst
      <4>1. /\ code'[i].ops = ops /\ OpsBefore(i)' = OpsBefore(i) /\ code[i].ops = old
            /\ DOMAIN ops = DOMAIN OpsBefore(i)
            /\ \A k \in DOMAIN ops : Denotes(old[k], OpsBefore(i)[k])
        BY <3>3, <2>2, <2>6, <1>4, <1>5, <1>f
      <4>2. ASSUME NEW k \in DOMAIN ops
            PROVE  Denotes(ops[k], OpsBefore(i)[k])'
        <5>1. CASE ops[k] = old[k]
          BY <5>1, <4>1, <2>4
        <5>2. CASE ops[k] = Inst(New) /\ old[k] = old[index]
          <6>1. IsExpr(old[k])
            BY <5>2, <1>0
          <6>2. old[k] = OpsBefore(i)[k]
            BY <6>1, <4>1 DEF Denotes, IsExpr, Inst
          <6> QED BY <5>2, <6>2, <4>1, <2>5
        <5> QED BY <5>1, <5>2
      <4> QED BY <4>1, <4>2
    <3> QED BY <3>1, <3>2, <3>3, <1>6
  <2> QED BY <2>7 DEF SameValues
<1>12. /\ \A i \in DOMAIN code : i # inst => ExprsOf(i)' = ExprsOf(i)
       /\ \A i : i = inst => \A k \in ExprsOf(i)' : index + 1 <= k
  <2>1. \A i \in DOMAIN code : i # inst => ExprsOf(i)' = ExprsOf(i)
    BY <1>5 DEF ExprsOf
  <2>2. ASSUME NEW k \in DOMAIN ops, IsExpr(ops[k])
        PROVE  index + 1 <= k
    <3>1. ops[k] # Inst(New) /\ k # index
      BY <2>2 DEF IsExpr, Inst
    <3>2. k \in ExprsOf(inst)
      BY <2>2, <3>1 DEF ExprsOf
    <3>3. index <= k /\ k \in Int
      BY <3>2, <1>f DEF Inv, PassedClean
    <3> QED BY <3>1, <3>3, <1>f
  <2>3. code'[inst].ops = ops
    BY <1>4, <1>5
  <2> QED BY <2>1, <2>2, <2>3 DEF ExprsOf
<1>13. \A i : Queued(i) \/ i = New => Queued(i)'
  <2>1. /\ DOMAIN worklist = 1..Len(worklist) /\ Len(worklist) \in Nat
        /\ DOMAIN worklist' = 1..(Len(worklist) + 1) /\ worklist'[Len(worklist) + 1] = New
        /\ \A p \in 1..Len(worklist) : worklist'[p] = worklist[p]
    BY <1>0, <1>f
  <2>2. Len(worklist) + 1 \in DOMAIN worklist' /\ DOMAIN worklist \subseteq DOMAIN worklist'
    BY <2>1
  <2> QED BY <2>1, <2>2 DEF Queued
<1>14. NoneLost'
  <2> SUFFICES ASSUME NEW i \in DOMAIN code', NEW k \in ExprsOf(i)'
               PROVE  Queued(i)' \/ (i = inst /\ index + 1 <= k) \/ (scan <= i /\ i <= N)
    BY <1>0, <1>n DEF NoneLost
  <2>1. CASE i = New
    BY <2>1, <1>13
  <2>2. CASE i \in DOMAIN code /\ i # inst
    <3>1. k \in ExprsOf(i)
      BY <2>2, <1>12
    <3>2. Queued(i) \/ (scan <= i /\ i <= N)
      BY <3>1, <2>2 DEF Inv, NoneLost
    <3> QED BY <3>2, <1>13
  <2>3. CASE i = inst
    BY <2>3, <1>12
  <2> QED BY <2>1, <2>2, <2>3, <1>6
<1>15. PassedClean'
  BY <1>0, <1>12 DEF PassedClean
<1>16. ChangeInv'
  <2>1. modified /\ Len(code') # N
    BY <1>5, <1>f DEF Inv, ChangeInv
  <2> QED BY <2>1, <1>0, <1>n DEF ChangeInv
<1> QED BY <1>7, <1>8, <1>9, <1>10, <1>11, <1>14, <1>15, <1>16 DEF Inv

(* A constant expression of a plain instruction: all its uses in it are     *)
(* replaced.                                                                *)
LEMMA OperandStep ==
  ASSUME Inv, BreakOperand
  PROVE  Inv'
<1> DEFINE ops == ReplaceUses(code[inst].ops)
           b == code[inst].block
<1>1. inst # 0 /\ ~ code[inst].phi /\ Break(b, inst, ops)
  BY DEF BreakOperand
<1>2. inst \in DOMAIN code /\ code[inst] \in Instructions /\ New \in Nat
  BY <1>1, InvFacts DEF New
<1>3. code[inst].ops \in Seq(Values) /\ b \in Blocks /\ index \in DOMAIN code[inst].ops
  BY <1>1, <1>2, InvFacts, InstructionFacts DEF Break, AtOperand, AtRest
<1>4. ops \in Seq(Values) /\ DOMAIN ops = DOMAIN code[inst].ops /\ ops[index] = Inst(New)
  BY <1>2, <1>3, ValueFacts DEF ReplaceUses
<1>5. \A k \in DOMAIN ops :
        ops[k] = code[inst].ops[k] \/ (ops[k] = Inst(New) /\ code[inst].ops[k] = code[inst].ops[index])
  <2>1. \A k \in DOMAIN code[inst].ops :
          ops[k] = IF code[inst].ops[k] = code[inst].ops[index] THEN Inst(New) ELSE code[inst].ops[k]
    BY DEF ReplaceUses
  <2> HIDE DEF ops
  <2> QED BY <1>4, <2>1
<1>6. PhiAgrees([code[inst] EXCEPT !.ops = ops])
  BY <1>1, <1>2 DEF PhiAgrees, Instructions
<1> HIDE DEF ops, b
<1> QED BY <1>1, <1>3, <1>4, <1>5, <1>6, BreakFacts

(* A constant expression of a phi: it is replaced for this edge and for     *)
(* those behind it from the same block, which list the same value.  No edge *)
(* before it comes from that block: its value would be the same constant    *)
(* expression, and those were passed.                                       *)
LEMMA IncomingStep ==
  ASSUME Inv, BreakIncoming
  PROVE  Inv'
<1> DEFINE old == code[inst].ops
           from == code[inst].from
           ops == ReplaceIncoming(old, from)
           b == from[index]
           at == layout[b][Len(layout[b])]
<1>1. inst # 0 /\ code[inst].phi /\ ~ AtRest /\ Break(b, at, ops)
  BY DEF BreakIncoming
<1>2. inst \in DOMAIN code /\ code[inst] \in Instructions /\ New \in Nat
  BY <1>1, InvFacts DEF New
<1>3. old \in Seq(Values) /\ index \in DOMAIN old /\ from \in Seq(Blocks) /\ DOMAIN old \subseteq Nat
  BY <1>1, <1>2, InvFacts, InstructionFacts DEF AtRest
<1>4. DOMAIN from = DOMAIN old
  BY <1>1, <1>2 DEF Inv, ShapeInv
<1>5. b \in Blocks
  BY <1>3, <1>4
<1>6. ops \in Seq(Values) /\ DOMAIN ops = DOMAIN old /\ ops[index] = Inst(New)
  BY <1>2, <1>3, ValueFacts DEF ReplaceIncoming
<1>7. \A k, l \in DOMAIN old : from[k] = from[l] => old[k] = old[l]
  BY <1>1, <1>2 DEF Inv, PhisAgree, PhiAgrees
<1>8. \A k \in DOMAIN old : from[k] = from[index] => index <= k
  <2> SUFFICES ASSUME NEW k \in DOMAIN old, from[k] = from[index]
               PROVE  index <= k
    OBVIOUS
  <2>1. old[k] = old[index]
    BY <1>3, <1>7
  <2>2. IsExpr(old[index])
    BY <1>1 DEF Break
  <2>3. k \in ExprsOf(inst)
    BY <2>1, <2>2 DEF ExprsOf
  <2> QED BY <2>3, <1>1 DEF Inv, PassedClean
<1>9. \A k \in DOMAIN ops : ops[k] = IF from[k] = from[index] THEN Inst(New) ELSE old[k]
  BY <1>6, <1>8 DEF ReplaceIncoming
<1>10. \A k \in DOMAIN ops : ops[k] = old[k] \/ (ops[k] = Inst(New) /\ old[k] = old[index])
  BY <1>3, <1>6, <1>7, <1>9
<1>11. PhiAgrees([code[inst] EXCEPT !.ops = ops])
  <2> DEFINE r == [code[inst] EXCEPT !.ops = ops]
  <2>1. r.ops = ops /\ r.from = from
    BY <1>2 DEF Instructions
  <2>2. \A k, l \in DOMAIN ops : from[k] = from[l] => ops[k] = ops[l]
    BY <1>6, <1>7, <1>9
  <2> HIDE DEF r
  <2>3. PhiAgrees(r)
    BY <2>1, <2>2 DEF PhiAgrees
  <2> QED BY <2>3 DEF r
<1> HIDE DEF ops, b, at
<1> QED BY <1>1, <1>5, <1>6, <1>10, <1>11, BreakFacts

(* Every step keeps the invariant.                                          *)
LEMMA InvStep == Inv /\ [Next]_vars => Inv'
<1> SUFFICES ASSUME Inv, [Next]_vars PROVE Inv'
  OBVIOUS
<1>1. CASE UNCHANGED vars
  <2>1. UNCHANGED <<module, code, fn, phase, scan, worklist, inst, index, modified>>
    BY <1>1 DEF vars
  <2>2. ShapeInv' /\ SameValues' /\ PhisAgree' /\ N' = N
        /\ \A i \in DOMAIN code : ExprsOf(i)' = ExprsOf(i)
    BY <2>1, CodeStays
  <2>3. TypeOK' /\ ScanInv'
    BY <2>1 DEF Inv, TypeOK, ScanInv, N
  <2>4. NoneLost' /\ PassedClean'
    BY <2>1, <2>2, InvFacts DEF Inv, NoneLost, PassedClean, Queued
  <2>5. 1..(scan - 1) \subseteq DOMAIN code
    BY InvFacts
  <2>6. ChangeInv'
    BY <2>1, <2>2, <2>5 DEF Inv, ChangeInv
  <2> QED BY <2>2, <2>3, <2>4, <2>6 DEF Inv
<1> QED BY <1>1, ScanStep, StartStep, TakeStep, NextFunctionStep, KeepStep, OperandStep,
           IncomingStep DEF Next

(* The invariant holds throughout the pass (l.13-107).                      *)
THEOREM InvTheorem == Spec => []Inv
<1> QED BY InvInit, InvStep, PTL DEF Spec

(* The variables of the pass stay in range: what is on the worklist is an   *)
(* instruction, new ones included.                                          *)
THEOREM TypeTheorem == Spec => []TypeOK
<1>1. Inv => TypeOK
  BY DEF Inv
<1> QED BY <1>1, InvTheorem, PTL

(* Every operand is what it was or computes it (l.69-101).                  *)
THEOREM SameValuesTheorem == Spec => []SameValues
<1>1. Inv => SameValues
  BY DEF Inv
<1> QED BY <1>1, InvTheorem, PTL

(* A phi lists a block with one value at any time (l.64-66, 75-80).         *)
THEOREM PhisAgreeTheorem == Spec => []PhisAgree
<1>1. Inv => PhisAgree
  BY DEF Inv
<1> QED BY <1>1, InvTheorem, PTL

(* In the end nothing is queued, at hand, or still to be scanned.           *)
LEMMA DoneFacts ==
  ASSUME Inv, phase = "done"
  PROVE  \A i \in DOMAIN code : ExprsOf(i) = {}
<1>0. scan = N + 1 /\ inst = 0 /\ N \in Nat /\ DOMAIN code \subseteq Nat \ {0}
  BY InvFacts DEF Inv, ScanInv
<1>1. worklist = <<>>
  BY DEF Inv, ScanInv
<1> SUFFICES ASSUME NEW i \in DOMAIN code, NEW k \in ExprsOf(i)
             PROVE  FALSE
  OBVIOUS
<1>2. Queued(i) \/ (i = inst /\ index <= k) \/ (scan <= i /\ i <= N)
  BY DEF Inv, NoneLost
<1>3. ~ Queued(i)
  BY <1>1 DEF Queued
<1> QED BY <1>0, <1>2, <1>3

(* No operand is a constant expression when the pass returns (l.106).       *)
THEOREM NoExprTheorem == Spec => []NoExprLeft
<1>1. Inv => NoExprLeft
  BY DoneFacts DEF NoExprLeft
<1> QED BY <1>1, InvTheorem, PTL

(* It returns true just when it changed the module (l.15, 41-42, 106).      *)
THEOREM ModifiedTheorem == Spec => []ModifiedIsRight
<1>1. Inv => ModifiedIsRight
  <2> SUFFICES ASSUME Inv, phase = "done"
               PROVE  modified <=> code # module.code
    BY DEF ModifiedIsRight
  <2>1. Len(code) = N => code = module.code
    BY DEF Inv, ChangeInv
  <2>2. code = module.code => Len(code) = N
    BY DEF N
  <2>3. ~ modified => Len(code) = N
    BY DEF Inv, ChangeInv
  <2>4. modified => Len(code) # N
    <3> SUFFICES ASSUME modified, Len(code) = N
                 PROVE  FALSE
      OBVIOUS
    <3>1. PICK i \in 1..(scan - 1) : ExprsOf(i) # {}
      BY DEF Inv, ChangeInv
    <3>2. i \in DOMAIN code
      BY InvFacts
    <3> QED BY <3>1, <3>2, DoneFacts
  <2> QED BY <2>1, <2>2, <2>3, <2>4
<1> QED BY <1>1, InvTheorem, PTL
-------------------------------------------------------------------------------
(***************************************************************************)
(* Where the pass puts what it creates: before its use, in every module.   *)
(* Its invariant is PlaceInv, which rests on Inv.                          *)
(***************************************************************************)

\* j comes before i in the sequence of instructions s
Precedes(s, j, i) == \E p, q \in DOMAIN s : p < q /\ s[p] = j /\ s[q] = i

\* j is in s, and is not its last
InsideOf(s, j) == \E p \in DOMAIN s : p < Len(s) /\ s[p] = j

\* operand k of instruction i may be instruction j
InPlace(i, k, j) ==
  IF code[i].phi THEN InsideOf(layout[code[i].from[k]], j)
                 ELSE Precedes(layout[code[i].block], j, i)

\* an instruction lies in its block, once
LayoutInv ==
  /\ layout \in [Blocks -> Seq(DOMAIN code)]
  /\ \A i \in DOMAIN code : LiesIn(code[i].block, i)
  /\ \A b \in Blocks : \A p \in DOMAIN layout[b] : code[layout[b][p]].block = b
  /\ \A b \in Blocks : \A p, q \in DOMAIN layout[b] : layout[b][p] = layout[b][q] => p = q

\* a block that a phi's values come from has a terminator
EdgesInv ==
  \A i \in DOMAIN code : code[i].phi => \A k \in DOMAIN code[i].from : layout[code[i].from[k]] # <<>>

\* an operand is an instruction that exists, in its place if it was created
OperandsInv ==
  \A i \in DOMAIN code : \A k \in DOMAIN code[i].ops : \A j \in Nat :
    code[i].ops[k] = Inst(j) => j \in DOMAIN code /\ (j > N => InPlace(i, k, j))

PlaceInv == LayoutInv /\ EdgesInv /\ OperandsInv

-------------------------------------------------------------------------------
(* Lemmas. *)

\* t is s with n at q: what was at a place from q on is one place further
Inserted(t, s, q, n) ==
  /\ Len(t) = Len(s) + 1 /\ DOMAIN t = 1..(Len(s) + 1)
  /\ t[q] = n
  /\ \A p \in 1..(q - 1) : t[p] = s[p]
  /\ \A p \in q..Len(s) : t[p + 1] = s[p]

(* What an insertion does to a sequence.                                    *)
LEMMA InsertFacts ==
  ASSUME NEW S, NEW s \in Seq(S), NEW q \in DOMAIN s, NEW n \in S
  PROVE  InsertAt(s, q, n) \in Seq(S) /\ Inserted(InsertAt(s, q, n), s, q, n)
<1> DEFINE t == InsertAt(s, q, n)
           u == SubSeq(s, 1, q - 1)
           v == SubSeq(s, q, Len(s))
<1>0. s \in Seq(S) /\ Len(s) \in Nat /\ q \in 1..Len(s) /\ DOMAIN s = 1..Len(s)
  OBVIOUS
<1>1. /\ u \in Seq(S) /\ Len(u) = q - 1
      /\ \A p \in 1..(q - 1) : u[p] = s[p]
  BY <1>0
<1>2. /\ v \in Seq(S) /\ Len(v) = Len(s) - q + 1
      /\ \A p \in 1..(Len(s) - q + 1) : v[p] = s[q + p - 1]
  BY <1>0
<1>3. t = (u \o <<n>>) \o v
  BY DEF InsertAt, t, u, v
<1> HIDE DEF t, u, v
<1> DEFINE w == u \o <<n>>
<1>4. /\ w \in Seq(S) /\ Len(w) = q
      /\ \A p \in 1..(q - 1) : w[p] = s[p]
      /\ w[q] = n
  BY <1>0, <1>1
<1>5. t = w \o v
  BY <1>3
<1> HIDE DEF w
<1>6. /\ t \in Seq(S) /\ Len(t) = Len(s) + 1
      /\ \A p \in 1..q : t[p] = w[p]
      /\ \A p \in 1..Len(v) : t[q + p] = v[p]
  <2>1. w \in Seq(S) /\ v \in Seq(S) /\ Len(w) = q /\ Len(w) + Len(v) = Len(s) + 1
    BY <1>0, <1>2, <1>4
  <2>2. w \o v \in Seq(S) /\ Len(w \o v) = Len(w) + Len(v)
    BY <2>1
  <2>3. \A p \in 1..Len(w) : (w \o v)[p] = w[p]
    BY <2>1
  <2>4. \A p \in 1..Len(v) : (w \o v)[Len(w) + p] = v[p]
    BY <2>1
  <2> QED BY <1>5, <2>1, <2>2, <2>3, <2>4
<1>7. ASSUME NEW p \in q..Len(s)
      PROVE  t[p + 1] = s[p]
  <2>1. p - q + 1 \in 1..Len(v)
    BY <1>0, <1>2
  <2>2. t[q + (p - q + 1)] = v[p - q + 1] /\ v[p - q + 1] = s[q + (p - q + 1) - 1]
    BY <1>2, <1>6, <2>1
  <2>3. q + (p - q + 1) = p + 1 /\ q + (p - q + 1) - 1 = p
    BY <1>0
  <2> QED BY <2>2, <2>3
<1>8. \A p \in 1..(q - 1) : t[p] = s[p]
  BY <1>0, <1>4, <1>6
<1>9. t[q] = n
  BY <1>0, <1>4, <1>6
<1>10. DOMAIN t = 1..(Len(s) + 1)
  BY <1>0, <1>6
<1>11. Inserted(t, s, q, n)
  BY <1>6, <1>7, <1>8, <1>9, <1>10 DEF Inserted
<1> QED BY <1>6, <1>11 DEF t

(* The order of what was there stays; what is inserted is not the last, and *)
(* comes before what it is inserted before.                                 *)
LEMMA InsertOrder ==
  ASSUME NEW S, NEW s \in Seq(S), NEW q \in DOMAIN s, NEW n \in S,
         NEW t, Inserted(t, s, q, n)
  PROVE  /\ \A i, j : Precedes(s, j, i) => Precedes(t, j, i)
         /\ \A j : InsideOf(s, j) => InsideOf(t, j)
         /\ Precedes(t, n, s[q]) /\ InsideOf(t, n)
<1> DEFINE to == [p \in DOMAIN s |-> IF p < q THEN p ELSE p + 1]
<1>1. /\ Len(t) = Len(s) + 1 /\ DOMAIN t = 1..(Len(s) + 1) /\ DOMAIN s = 1..Len(s)
      /\ Len(s) \in Nat /\ t[q] = n
      /\ \A p \in DOMAIN s : p < q => t[p] = s[p]
      /\ \A p \in DOMAIN s : q <= p => t[p + 1] = s[p]
  BY DEF Inserted
<1>2. \A p \in DOMAIN s : to[p] \in DOMAIN t /\ t[to[p]] = s[p]
  <2> SUFFICES ASSUME NEW p \in DOMAIN s
               PROVE  to[p] \in DOMAIN t /\ t[to[p]] = s[p]
    OBVIOUS
  <2>1. CASE p < q
    BY <2>1, <1>1
  <2>2. CASE q <= p
    <3>1. to[p] = p + 1
      BY <2>2, <1>1
    <3> QED BY <3>1, <2>2, <1>1
  <2> QED BY <2>1, <2>2, <1>1
<1>3. \A p, r \in DOMAIN s : p < r => to[p] < to[r]
  BY <1>1
<1>4. \A p \in DOMAIN s : p < Len(s) => to[p] < Len(t)
  BY <1>1
<1>5. q < to[q] /\ q \in DOMAIN t /\ q < Len(t)
  BY <1>1
<1> HIDE DEF to
<1>6. \A i, j : Precedes(s, j, i) => Precedes(t, j, i)
  BY <1>2, <1>3 DEF Precedes
<1>7. \A j : InsideOf(s, j) => InsideOf(t, j)
  BY <1>2, <1>4 DEF InsideOf
<1>8. Precedes(t, n, s[q]) /\ InsideOf(t, n)
  BY <1>1, <1>2, <1>5 DEF Precedes, InsideOf
<1> QED BY <1>6, <1>7, <1>8

(* What every step may use of the invariants.                               *)
LEMMA PlaceFacts ==
  ASSUME Inv, PlaceInv
  PROVE  /\ N \in Nat /\ DOMAIN code = 1..Len(code) /\ Len(code) \in Nat /\ N <= Len(code)
         /\ \A i \in DOMAIN code : code[i].block \in Blocks
         /\ \A i \in DOMAIN code : code[i].phi =>
              /\ DOMAIN code[i].from = DOMAIN code[i].ops
              /\ \A k \in DOMAIN code[i].from : code[i].from[k] \in Blocks
         /\ \A b \in Blocks : layout[b] \in Seq(DOMAIN code) /\ DOMAIN layout[b] = 1..Len(layout[b])
         /\ \A b \in Blocks : \A p \in DOMAIN layout[b] : layout[b][p] \in DOMAIN code
<1>1. \A b \in Blocks : layout[b] \in Seq(DOMAIN code)
  BY DEF PlaceInv, LayoutInv
<1>2. \A i \in DOMAIN code : code[i] \in Instructions
  BY InvFacts
<1>3. \A i \in DOMAIN code : code[i].block \in Blocks /\ code[i].from \in Seq(Blocks)
  BY <1>2, InstructionFacts
<1>4. \A i \in DOMAIN code : code[i].phi => DOMAIN code[i].from = DOMAIN code[i].ops
  BY DEF Inv, ShapeInv
<1> QED BY <1>1, <1>3, <1>4, InvFacts

(* In the module that the pass is given everything lies where it should.    *)
LEMMA PlaceInit == Init => PlaceInv
<1> SUFFICES ASSUME Init PROVE PlaceInv
  OBVIOUS
<1>0. module \in Modules /\ code = module.code /\ layout = module.layout
  BY DEF Init
<1>1. /\ module.code \in Seq(Instructions) /\ Len(module.code) \in Nat
      /\ layout \in [Blocks -> Seq(1..Len(code))] /\ DOMAIN code = 1..Len(code)
  BY <1>0, ModuleFacts
<1>2. LayoutInv
  <2>1. layout \in [Blocks -> Seq(DOMAIN code)]
    BY <1>1
  <2>2. \A i \in DOMAIN code : LiesIn(code[i].block, i)
    BY <1>0, LayoutAssumption DEF LiesIn
  <2>3. \A b \in Blocks : \A p \in DOMAIN layout[b] : code[layout[b][p]].block = b
    BY <1>0, LayoutAssumption
  <2>4. \A b \in Blocks : \A p, q \in DOMAIN layout[b] : layout[b][p] = layout[b][q] => p = q
    BY <1>0, LayoutAssumption
  <2> QED BY <2>1, <2>2, <2>3, <2>4 DEF LayoutInv
<1>3. EdgesInv
  BY <1>0, LayoutAssumption DEF EdgesInv
<1>4. OperandsInv
  <2>1. \A i \in DOMAIN code : \A k \in DOMAIN code[i].ops : \A j \in Nat :
          code[i].ops[k] = Inst(j) => j \in DOMAIN code
    <3>1. \A i \in DOMAIN code : \A k \in DOMAIN code[i].ops :
            code[i].ops[k] \in Constants \cup ({"inst"} \X DOMAIN code)
      BY <1>0, ModuleAssumption
    <3> QED BY <3>1 DEF Constants, Inst
  <2>2. \A j \in DOMAIN code : ~ (j > N)
    BY <1>0, <1>1 DEF N
  <2> QED BY <2>1, <2>2 DEF OperandsInv
<1> QED BY <1>2, <1>3, <1>4 DEF PlaceInv

(* A step that changes neither the code nor its layout changes no place.    *)
LEMMA PlaceStays ==
  ASSUME PlaceInv, UNCHANGED <<module, code, layout>>
  PROVE  PlaceInv'
<1>1. LayoutInv' /\ EdgesInv'
  BY DEF PlaceInv, LayoutInv, EdgesInv, LiesIn
<1>2. OperandsInv'
  BY DEF PlaceInv, OperandsInv, InPlace, N
<1> QED BY <1>1, <1>2 DEF PlaceInv

(* What is created goes before the instruction at in block b, and operands  *)
(* become it whose place is after it.                                       *)
LEMMA BreakPlaces ==
  ASSUME Inv, PlaceInv, NEW b \in Blocks, NEW at, NEW ops, Break(b, at, ops), inst # 0,
         \E p \in DOMAIN layout[b] : layout[b][p] = at,
         DOMAIN ops = DOMAIN code[inst].ops, ops \in Seq(Values),
         \A k \in DOMAIN ops :
           \/ ops[k] = code[inst].ops[k]
           \/ /\ ops[k] = Inst(New)
              /\ IF code[inst].phi THEN code[inst].from[k] = b
                                   ELSE code[inst].block = b /\ at = inst
  PROVE  PlaceInv'
<1> DEFINE e == code[inst].ops[index][2]
           added == GetAsInstruction(e, b)
           changed == [code[inst] EXCEPT !.ops = ops]
           s == layout[b]
           q == CHOOSE p \in DOMAIN layout[b] : layout[b][p] = at
           t == InsertAt(s, q, New)
<1>f. /\ code \in Seq(Instructions) /\ Len(code) \in Nat /\ DOMAIN code = 1..Len(code)
      /\ N \in Nat /\ N <= Len(code) /\ inst \in DOMAIN code /\ code[inst] \in Instructions
  BY InvFacts
<1>p. /\ \A i \in DOMAIN code : code[i].block \in Blocks
      /\ \A i \in DOMAIN code : code[i].phi =>
           /\ DOMAIN code[i].from = DOMAIN code[i].ops
           /\ \A k \in DOMAIN code[i].from : code[i].from[k] \in Blocks
      /\ \A c \in Blocks : layout[c] \in Seq(DOMAIN code) /\ DOMAIN layout[c] = 1..Len(layout[c])
      /\ \A c \in Blocks : \A p \in DOMAIN layout[c] : layout[c][p] \in DOMAIN code
  BY PlaceFacts
<1>0. /\ ~ AtRest /\ IsExpr(code[inst].ops[index]) /\ module' = module
      /\ code' = Append([code EXCEPT ![inst].ops = ops], added)
      /\ layout' = [layout EXCEPT ![b] = InsertBefore(at, @)]
  BY DEF Break, AtOperand
<1>1. q \in DOMAIN s /\ s[q] = at
  OBVIOUS
<1>2. /\ code[inst].ops[index] \in Values /\ e \in Exprs
  <2>1. code[inst].ops \in Seq(Values) /\ index \in DOMAIN code[inst].ops
    BY <1>0, <1>f, InvFacts, InstructionFacts DEF AtRest
  <2>2. code[inst].ops[index] \in Values
    BY <2>1
  <2> QED BY <2>2, <1>0, ValueFacts
<1>3. /\ added \in Instructions /\ added.block = b /\ added.phi = FALSE /\ added.ops = Operands[e]
      /\ \A k \in DOMAIN added.ops : \A j \in Nat : added.ops[k] # Inst(j)
  <2>1. Operands[e] \in Seq(Constants)
    BY <1>2, OperandsAssumption
  <2>2. \A v \in Constants : \A j \in Nat : v # Inst(j)
    BY DEF Constants, Inst
  <2>3. added.block = b /\ added.phi = FALSE /\ added.ops = Operands[e]
    BY DEF GetAsInstruction
  <2>4. Operands[e] \in Seq(Values)
    BY <2>1, ValueFacts
  <2>5. added \in Instructions
    BY <1>2, <2>4 DEF GetAsInstruction, Instructions
  <2> QED BY <2>1, <2>2, <2>3, <2>5
<1>4. /\ changed \in Instructions /\ changed.ops = ops /\ changed.phi = code[inst].phi /\ changed.from = code[inst].from
      /\ changed.block = code[inst].block
  BY <1>f DEF Instructions
<1>n. New \in Nat /\ New = Len(code) + 1 /\ New \notin DOMAIN code /\ New > N /\ N' = N
  BY <1>0, <1>f DEF New, N
<1>5. /\ DOMAIN code' = DOMAIN code \cup {New}
      /\ code'[New] = added /\ code'[inst] = changed
      /\ \A i \in DOMAIN code : i # inst => code'[i] = code[i]
  <2> DEFINE mid == [code EXCEPT ![inst] = changed]
  <2>1. code' = Append(mid, added)
    BY <1>0
  <2>2. mid \in Seq(Instructions) /\ Len(mid) = Len(code) /\ mid[inst] = changed
        /\ \A i \in DOMAIN code : i # inst => mid[i] = code[i]
    BY <1>4, <1>f
  <2> HIDE DEF mid, added, changed
  <2>3. /\ Len(code') = New /\ DOMAIN code' = 1..New /\ code'[New] = added
        /\ \A i \in 1..Len(code) : code'[i] = mid[i]
    BY <2>1, <2>2, <1>3, <1>f, <1>n
  <2>4. DOMAIN code' = DOMAIN code \cup {New}
    BY <2>3, <1>f, <1>n
  <2> QED BY <2>2, <2>3, <2>4, <1>f
<1> HIDE DEF added, changed
<1>6. /\ \A i \in DOMAIN code : /\ code'[i].block = code[i].block /\ code'[i].phi = code[i].phi
                               /\ code'[i].from = code[i].from
  BY <1>4, <1>5
<1>7. layout' = [layout EXCEPT ![b] = t]
  BY <1>0 DEF InsertBefore
<1>8. layout \in [Blocks -> Seq(DOMAIN code)]
  BY DEF PlaceInv, LayoutInv
<1>9. layout'[b] = t /\ \A c \in Blocks : c # b => layout'[c] = layout[c]
  BY <1>7, <1>8
<1>10. s \in Seq(DOMAIN code') /\ New \in DOMAIN code'
  BY <1>5, <1>p
<1> HIDE DEF q, t
<1>11. /\ t \in Seq(DOMAIN code') /\ Len(t) = Len(s) + 1
       /\ DOMAIN t = 1..(Len(s) + 1) /\ DOMAIN s = 1..Len(s) /\ Len(s) \in Nat
       /\ t[q] = New
       /\ \A p \in DOMAIN s : p < q => t[p] = s[p]
       /\ \A p \in DOMAIN s : q <= p => t[p + 1] = s[p]
  <2>1. t \in Seq(DOMAIN code') /\ Inserted(t, s, q, New)
    BY <1>1, <1>10, InsertFacts DEF t
  <2>2. DOMAIN s = 1..Len(s) /\ Len(s) \in Nat
    BY <1>10
  <2> HIDE DEF s
  <2>3. /\ Len(t) = Len(s) + 1 /\ DOMAIN t = 1..(Len(s) + 1) /\ t[q] = New
        /\ \A p \in 1..(q - 1) : t[p] = s[p]
        /\ \A p \in q..Len(s) : t[p + 1] = s[p]
    BY <2>1 DEF Inserted
  <2>4. q \in 1..Len(s)
    BY <1>1, <2>2
  <2>5. ASSUME NEW p \in DOMAIN s, p < q
        PROVE  t[p] = s[p]
    <3>1. p \in 1..(q - 1)
      BY <2>2, <2>4, <2>5
    <3> QED BY <3>1, <2>3
  <2>6. ASSUME NEW p \in DOMAIN s, q <= p
        PROVE  t[p + 1] = s[p]
    <3>1. p \in q..Len(s)
      BY <2>2, <2>4, <2>6
    <3> QED BY <3>1, <2>3
  <2> QED BY <2>1, <2>2, <2>3, <2>5, <2>6
<1>12. /\ \A i, j : Precedes(s, j, i) => Precedes(t, j, i)
       /\ \A j : InsideOf(s, j) => InsideOf(t, j)
       /\ Precedes(t, New, at) /\ InsideOf(t, New)
  <2>1. Inserted(t, s, q, New)
    BY <1>1, <1>10, InsertFacts DEF t
  <2> QED BY <1>1, <1>10, <2>1, InsertOrder
<1>13. \A p \in DOMAIN t : p = q \/ \E r \in DOMAIN s : t[p] = s[r] /\ p = (IF r < q THEN r ELSE r + 1)
  <2> SUFFICES ASSUME NEW p \in DOMAIN t, p # q
               PROVE  \E r \in DOMAIN s : t[p] = s[r] /\ p = (IF r < q THEN r ELSE r + 1)
    OBVIOUS
  <2>1. CASE p < q
    <3>1. p \in DOMAIN s /\ t[p] = s[p]
      BY <2>1, <1>1, <1>11
    <3> QED BY <3>1, <2>1
  <2>2. CASE p > q
    <3>1. p - 1 \in DOMAIN s /\ q <= p - 1 /\ ~ (p - 1 < q) /\ (p - 1) + 1 = p
      BY <2>2, <1>1, <1>11
    <3>2. t[(p - 1) + 1] = s[p - 1]
      BY <3>1, <1>11
    <3> QED BY <3>1, <3>2
  <2> QED BY <2>1, <2>2, <1>1, <1>11
<1>14. \A c \in Blocks : /\ \A i, j : Precedes(layout[c], j, i) => Precedes(layout'[c], j, i)
                         /\ \A j : InsideOf(layout[c], j) => InsideOf(layout'[c], j)
  BY <1>9, <1>12
<1>15. LayoutInv'
  <2>1. layout' \in [Blocks -> Seq(DOMAIN code')]
    <3>1. t \in Seq(DOMAIN code')
      BY <1>5, <1>11
    <3>2. \A c \in Blocks : layout[c] \in Seq(DOMAIN code')
      BY <1>5, <1>p
    <3> QED BY <3>1, <3>2, <1>7, <1>8
  <2>2. \A i \in DOMAIN code' : LiesIn(code[i].block, i)'
    <3>1. \A c \in Blocks : \A i : LiesIn(c, i) => \E p \in DOMAIN layout'[c] : layout'[c][p] = i
      <4> SUFFICES ASSUME NEW i, NEW p \in DOMAIN s
                   PROVE  \E r \in DOMAIN t : t[r] = s[p]
        BY <1>9 DEF LiesIn
      <4>1. CASE p < q
        BY <4>1, <1>11
      <4>2. CASE q <= p
        <5>1. p + 1 \in DOMAIN t /\ t[p + 1] = s[p]
          BY <4>2, <1>11
        <5> QED BY <5>1
      <4> QED BY <4>1, <4>2, <1>1, <1>11
    <3>2. CASE TRUE
      <4> SUFFICES ASSUME NEW i \in DOMAIN code'
                   PROVE  \E p \in DOMAIN layout'[code'[i].block] : layout'[code'[i].block][p] = i
        BY DEF LiesIn
      <4>1. CASE i \in DOMAIN code
        <5>1. LiesIn(code[i].block, i) /\ code[i].block \in Blocks
          BY <4>1, <1>p DEF PlaceInv, LayoutInv
        <5>2. code'[i].block = code[i].block
          BY <4>1, <1>6
        <5> QED BY <5>1, <5>2, <3>1
      <4>2. CASE i = New
        <5>1. q \in DOMAIN t /\ code'[i].block = b
          BY <4>2, <1>1, <1>3, <1>5, <1>11
        <5> QED BY <5>1, <4>2, <1>9, <1>11
      <4> QED BY <4>1, <4>2, <1>5
    <3> QED BY <3>2
  <2>3. \A c \in Blocks : \A p \in DOMAIN layout'[c] : code'[layout'[c][p]].block = c
    <3>1. \A c \in Blocks : \A p \in DOMAIN layout[c] : code'[layout[c][p]].block = c
      BY <1>6, <1>p DEF PlaceInv, LayoutInv
    <3>2. \A p \in DOMAIN t : code'[t[p]].block = b
      BY <3>1, <1>3, <1>5, <1>11, <1>13
    <3> QED BY <3>1, <3>2, <1>9
  <2>4. \A c \in Blocks : \A p, r \in DOMAIN layout'[c] : layout'[c][p] = layout'[c][r] => p = r
    <3>1. \A c \in Blocks : \A p, r \in DOMAIN layout[c] : layout[c][p] = layout[c][r] => p = r
      BY DEF PlaceInv, LayoutInv
    <3>2. \A p \in DOMAIN s : s[p] # New
      BY <1>n, <1>p
    <3>3. \A p, r \in DOMAIN t : t[p] = t[r] => p = r
      <4> SUFFICES ASSUME NEW p \in DOMAIN t, NEW r \in DOMAIN t, t[p] = t[r]
                   PROVE  p = r
        OBVIOUS
      <4>1. CASE p = q \/ r = q
        BY <4>1, <3>2, <1>11, <1>13
      <4>2. CASE p # q /\ r # q
        <5>1. PICK u \in DOMAIN s : t[p] = s[u] /\ p = (IF u < q THEN u ELSE u + 1)
          BY <4>2, <1>13
        <5>2. PICK v \in DOMAIN s : t[r] = s[v] /\ r = (IF v < q THEN v ELSE v + 1)
          BY <4>2, <1>13
        <5>3. u = v
          BY <5>1, <5>2, <3>1
        <5> QED BY <5>1, <5>2, <5>3
      <4> QED BY <4>1, <4>2
    <3> QED BY <3>1, <3>3, <1>9
  <2> QED BY <2>1, <2>2, <2>3, <2>4 DEF LayoutInv
<1>16. EdgesInv'
  <2>1. \A c \in Blocks : layout[c] # <<>> => layout'[c] # <<>>
    BY <1>9, <1>11
  <2>2. ASSUME NEW i \in DOMAIN code', code'[i].phi, NEW k \in DOMAIN code'[i].from
        PROVE  layout'[code'[i].from[k]] # <<>>
    <3>1. i \in DOMAIN code
      BY <2>2, <1>3, <1>5
    <3>2. code[i].phi /\ k \in DOMAIN code[i].from /\ code'[i].from[k] = code[i].from[k]
      BY <2>2, <3>1, <1>6
    <3>3. layout[code[i].from[k]] # <<>> /\ code[i].from[k] \in Blocks
      BY <3>1, <3>2, <1>p DEF PlaceInv, EdgesInv
    <3> QED BY <3>2, <3>3, <2>1
  <2> QED BY <2>2 DEF EdgesInv
<1>17. OperandsInv'
  <2>1. ASSUME NEW i \in DOMAIN code, NEW k \in DOMAIN code[i].ops, NEW j \in Nat,
               code[i].ops[k] = Inst(j)
        PROVE  j \in DOMAIN code' /\ (j > N => InPlace(i, k, j)')
    <3>1. j \in DOMAIN code /\ (j > N => InPlace(i, k, j))
      BY <2>1 DEF PlaceInv, OperandsInv
    <3>2. CASE code[i].phi
      <4>1. code[i].from[k] \in Blocks
        BY <3>2, <1>p
      <4> QED BY <3>1, <3>2, <4>1, <1>5, <1>6, <1>14 DEF InPlace
    <3>3. CASE ~ code[i].phi
      BY <3>1, <3>3, <1>5, <1>6, <1>14, <1>p DEF InPlace
    <3> QED BY <3>2, <3>3
  <2>2. ASSUME NEW k \in DOMAIN ops, NEW j \in Nat, ops[k] = Inst(j), ops[k] # code[inst].ops[k]
        PROVE  j = New /\ \A i : i = inst => InPlace(i, k, j)'
    <3>1. ops[k] = Inst(New)
      BY <2>2
    <3>2. j = New
      BY <2>2, <3>1 DEF Inst
    <3>3. CASE code[inst].phi
      <4>1. code[inst].from[k] = b
        BY <2>2, <3>3
      <4>2. InsideOf(layout'[b], New)
        BY <1>9, <1>12
      <4>3. /\ code'[inst].phi /\ code'[inst].from[k] = b
        BY <3>3, <4>1, <1>6, <1>f
      <4> QED BY <3>2, <4>2, <4>3 DEF InPlace
    <3>4. CASE ~ code[inst].phi
      <4>1. code[inst].block = b /\ at = inst
        BY <2>2, <3>4
      <4>2. Precedes(layout'[b], New, inst)
        BY <4>1, <1>9, <1>12
      <4>3. /\ ~ code'[inst].phi /\ code'[inst].block = b
        BY <3>4, <4>1, <1>6, <1>f
      <4> QED BY <3>2, <4>2, <4>3 DEF InPlace
    <3> QED BY <3>2, <3>3, <3>4
  <2>3. ASSUME NEW i \in DOMAIN code', NEW k \in DOMAIN code'[i].ops, NEW j \in Nat,
               code'[i].ops[k] = Inst(j)
        PROVE  j \in DOMAIN code' /\ (j > N => InPlace(i, k, j)')
    <3>1. i # New
      BY <2>3, <1>3, <1>5
    <3>2. CASE i # inst
      <4>1. i \in DOMAIN code /\ code'[i] = code[i]
        BY <3>1, <3>2, <1>5
      <4> QED BY <4>1, <2>1, <2>3
    <3>3. CASE i = inst
      <4>1. code'[i].ops = ops
        BY <3>3, <1>4, <1>5
      <4>2. CASE ops[k] = code[inst].ops[k]
        BY <4>1, <4>2, <3>3, <2>1, <2>3, <1>f
      <4>3. CASE ops[k] # code[inst].ops[k]
        BY <4>1, <4>3, <3>3, <2>2, <2>3, <1>5
      <4> QED BY <4>2, <4>3
    <3> QED BY <3>2, <3>3
  <2> QED BY <2>3, <1>n DEF OperandsInv
<1> QED BY <1>15, <1>16, <1>17 DEF PlaceInv

(* For a plain instruction the place is before it, in its block.            *)
LEMMA OperandPlaces ==
  ASSUME Inv, PlaceInv, BreakOperand
  PROVE  PlaceInv'
<1> DEFINE old == code[inst].ops
           ops == ReplaceUses(old)
           b == code[inst].block
<1>1. inst # 0 /\ ~ code[inst].phi /\ Break(b, inst, ops)
  BY DEF BreakOperand
<1>2. inst \in DOMAIN code
  BY <1>1, InvFacts
<1>3. b \in Blocks /\ \E p \in DOMAIN layout[b] : layout[b][p] = inst
  BY <1>2, PlaceFacts DEF PlaceInv, LayoutInv, LiesIn
<1>4. /\ DOMAIN ops = DOMAIN old /\ ops \in Seq(Values)
      /\ \A k \in DOMAIN ops : ops[k] = old[k] \/ ops[k] = Inst(New)
  <2>1. old \in Seq(Values) /\ New \in Nat
    BY <1>2, InvFacts, InstructionFacts DEF New
  <2> QED BY <2>1, ValueFacts DEF ReplaceUses
<1> HIDE DEF ops
<1> QED BY <1>1, <1>3, <1>4, BreakPlaces

(* For a phi it is before the terminator of the block its value comes from. *)
LEMMA IncomingPlaces ==
  ASSUME Inv, PlaceInv, BreakIncoming
  PROVE  PlaceInv'
<1> DEFINE old == code[inst].ops
           from == code[inst].from
           ops == ReplaceIncoming(old, from)
           b == from[index]
           at == layout[b][Len(layout[b])]
<1>1. inst # 0 /\ code[inst].phi /\ ~ AtRest /\ Break(b, at, ops)
  BY DEF BreakIncoming
<1>2. inst \in DOMAIN code /\ code[inst] \in Instructions
  BY <1>1, InvFacts
<1>3. index \in DOMAIN old
  BY <1>1, <1>2, InvFacts, InstructionFacts DEF AtRest
<1>4. index \in DOMAIN from /\ b \in Blocks /\ layout[b] # <<>>
  BY <1>1, <1>2, <1>3, PlaceFacts DEF PlaceInv, EdgesInv
<1>5. \E p \in DOMAIN layout[b] : layout[b][p] = at
  <2>1. layout[b] \in Seq(DOMAIN code)
    BY <1>4, PlaceFacts
  <2>2. Len(layout[b]) \in DOMAIN layout[b]
    BY <2>1, <1>4
  <2> QED BY <2>2
<1>6. /\ DOMAIN ops = DOMAIN old /\ ops \in Seq(Values)
      /\ \A k \in DOMAIN ops : ops[k] = old[k] \/ (ops[k] = Inst(New) /\ from[k] = b)
  <2>1. old \in Seq(Values) /\ New \in Nat
    BY <1>2, InvFacts, InstructionFacts DEF New
  <2> QED BY <2>1, ValueFacts DEF ReplaceIncoming
<1> HIDE DEF ops, at
<1> QED BY <1>1, <1>4, <1>5, <1>6, BreakPlaces

(* Every step keeps the invariant.                                          *)
LEMMA PlaceStep == Inv /\ PlaceInv /\ [Next]_vars => PlaceInv'
<1> SUFFICES ASSUME Inv, PlaceInv, [Next]_vars PROVE PlaceInv'
  OBVIOUS
<1>1. CASE BreakOperand
  BY <1>1, OperandPlaces
<1>2. CASE BreakIncoming
  BY <1>2, IncomingPlaces
<1>3. CASE ScanInstruction \/ StartWork \/ TakeInstruction \/ NextFunction \/ KeepOperand
           \/ UNCHANGED vars
  <2>1. UNCHANGED <<module, code, layout>>
    BY <1>3 DEF ScanInstruction, StartWork, TakeInstruction, NextFunction, KeepOperand,
                AtOperand, vars
  <2> QED BY <2>1, PlaceStays
<1> QED BY <1>1, <1>2, <1>3 DEF Next

(* What was created comes before its use (l.60-62, 67, 89-91, 98), however  *)
(* deep the expressions are nested and in whatever order they are broken.   *)
THEOREM DefinedBeforeUseTheorem == Spec => []DefinedBeforeUse
<1>1. Inv /\ PlaceInv => DefinedBeforeUse
  <2> SUFFICES ASSUME Inv, PlaceInv
               PROVE  DefinedBeforeUse
    OBVIOUS
  <2>1. \A b \in Blocks : \A p \in DOMAIN layout[b] : PlaceOf(b, layout[b][p]) = p
    BY DEF PlaceInv, LayoutInv, PlaceOf
  <2>2. ASSUME NEW i \in DOMAIN code, NEW j \in (N + 1)..Len(code),
               NEW k \in DOMAIN code[i].ops, code[i].ops[k] = Inst(j)
        PROVE  IF code[i].phi
               THEN LiesIn(code[i].from[k], j)
                    /\ PlaceOf(code[i].from[k], j) < Len(layout[code[i].from[k]])
               ELSE LiesIn(code[i].block, j) /\ LiesIn(code[i].block, i)
                    /\ PlaceOf(code[i].block, j) < PlaceOf(code[i].block, i)
    <3>1. j \in Nat /\ j > N
      BY PlaceFacts
    <3>2. InPlace(i, k, j)
      BY <2>2, <3>1 DEF PlaceInv, OperandsInv
    <3>3. CASE code[i].phi
      <4>1. code[i].from[k] \in Blocks /\ InsideOf(layout[code[i].from[k]], j)
        BY <3>2, <3>3, PlaceFacts DEF InPlace
      <4> QED BY <4>1, <3>3, <2>1 DEF InsideOf, LiesIn
    <3>4. CASE ~ code[i].phi
      <4>1. code[i].block \in Blocks /\ Precedes(layout[code[i].block], j, i)
        BY <3>2, <3>4, PlaceFacts DEF InPlace
      <4> QED BY <4>1, <3>4, <2>1 DEF Precedes, LiesIn
    <3> QED BY <3>3, <3>4
  <2> QED BY <2>2 DEF DefinedBeforeUse, N
<1> QED BY <1>1, InvInit, InvStep, PlaceInit, PlaceStep, PTL DEF Spec
===============================================================================
