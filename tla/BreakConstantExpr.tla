--------------------------- MODULE BreakConstantExpr ---------------------------
(***************************************************************************)
(* BreakConstantExpr::runOnModule: every constant expression that is an    *)
(* operand of an instruction becomes an instruction of its own.            *)
(*                                                                         *)
(* The functions of the module are taken one after another.  The           *)
(* instructions with such operands are collected on a worklist; the last   *)
(* one is taken off it, its operands are looked at from left to right, and *)
(* what a constant expression is turned into goes on the worklist in turn. *)
(*                                                                         *)
(* Instructions are numbered in the order of the module, new ones after    *)
(* them as they are created.  A value is a constant expression, an         *)
(* instruction, or a leaf: any other operand.                              *)
(***************************************************************************)
EXTENDS Integers, Sequences, SequencesExt

CONSTANTS
  Exprs,      \* the constant expressions
  Leaves,     \* the operands that are neither constant expressions nor instructions
  Blocks,
  Operands,   \* Exprs -> their operands, constants themselves
  Modules     \* records [code, layout, ends]: the instructions, the blocks, and the
              \* number of the last instruction of each function

Expr(e) == <<"expr", e>>
Leaf(x) == <<"leaf", x>>
Inst(i) == <<"inst", i>>

Constants == ({"expr"} \X Exprs) \cup ({"leaf"} \X Leaves)
Values    == Constants \cup ({"inst"} \X Nat)

\* from: where the operands of a phi come from; computes: its operation, if it was
\* created for a constant expression
Instructions ==
  [phi : BOOLEAN, ops : Seq(Values), from : Seq(Blocks), block : Blocks,
   computes : {<<e>> : e \in Exprs} \cup {<<>>}]

\* an incoming block that is listed twice is listed with the same value (l.64-66)
PhiAgrees(inst) ==
  \A k, l \in DOMAIN inst.ops :
    inst.phi /\ inst.from[k] = inst.from[l] => inst.ops[k] = inst.ops[l]

ASSUME OperandsAssumption == Operands \in [Exprs -> Seq(Constants)]

ASSUME ModuleAssumption ==
  \A m \in Modules :
    /\ m.code \in Seq(Instructions)
    /\ m.layout \in [Blocks -> Seq(1..Len(m.code))]
    /\ m.ends \in Seq(0..Len(m.code))
    /\ m.ends # <<>> /\ m.ends[Len(m.ends)] = Len(m.code)
    /\ \A f, g \in DOMAIN m.ends : f < g => m.ends[f] <= m.ends[g]
    /\ \A i \in DOMAIN m.code :
         /\ PhiAgrees(m.code[i])
         /\ m.code[i].phi => DOMAIN m.code[i].from = DOMAIN m.code[i].ops
         /\ m.code[i].computes = <<>>
         /\ \A k \in DOMAIN m.code[i].ops :
              m.code[i].ops[k] \in Constants \cup ({"inst"} \X DOMAIN m.code)

\* an instruction lies in its block, once; a block that values come from has a terminator
ASSUME LayoutAssumption ==
  \A m \in Modules :
    /\ \A i \in DOMAIN m.code :
         /\ \E p \in DOMAIN m.layout[m.code[i].block] : m.layout[m.code[i].block][p] = i
         /\ m.code[i].phi =>
              \A k \in DOMAIN m.code[i].from : m.layout[m.code[i].from[k]] # <<>>
    /\ \A b \in Blocks : \A p, q \in DOMAIN m.layout[b] :
         /\ m.code[m.layout[b][p]].block = b
         /\ m.layout[b][p] = m.layout[b][q] => p = q

VARIABLES
  module,     \* the module as it was
  code,       \* its instructions now
  layout,     \* block -> the instructions in it, in order
  fn,         \* F: the function that is being changed
  phase,      \* "scan": the worklist is initialised; "work"; "done"
  scan,       \* i: the next instruction to look at
  worklist,   \* Worklist
  inst,       \* I, 0 before one is taken off the worklist
  index,      \* its operand to look at
  modified

vars == <<module, code, layout, fn, phase, scan, worklist, inst, index, modified>>

Init ==
  /\ module \in Modules
  /\ code = module.code
  /\ layout = module.layout
  /\ fn = 1
  /\ phase = "scan"
  /\ scan = 1
  /\ worklist = <<>>
  /\ inst = 0
  /\ index = 1
  /\ modified = FALSE

IsExpr(v) == v[1] = "expr"
ExprsOf(i) == {k \in DOMAIN code[i].ops : IsExpr(code[i].ops[k])}

-------------------------------------------------------------------------------

\* pushed once for each of its operands that is a constant expression
ScanInstruction ==
  /\ phase = "scan"
  /\ scan <= module.ends[fn]
  /\ worklist' = worklist \o [k \in 1..Cardinality(ExprsOf(scan)) |-> scan]
  /\ scan' = scan + 1
  /\ UNCHANGED <<module, code, layout, fn, phase, inst, index, modified>>

\* a slip, for the mutants: only the last function counts
StartWorkForgetting ==
  /\ phase = "scan"
  /\ scan > module.ends[fn]
  /\ modified' = (worklist # <<>>)
  /\ phase' = "work"
  /\ UNCHANGED <<module, code, layout, fn, scan, worklist, inst, index>>

StartWork ==
  /\ phase = "scan"
  /\ scan > module.ends[fn]
  /\ modified' = (modified \/ worklist # <<>>)
  /\ phase' = "work"
  /\ UNCHANGED <<module, code, layout, fn, scan, worklist, inst, index>>

\* all operands of inst were looked at
AtRest == IF inst = 0 THEN TRUE ELSE index > Len(code[inst].ops)

\* a slip, for the mutants: the instruction stays on the worklist
TakeWithoutPop ==
  /\ phase = "work"
  /\ AtRest
  /\ worklist # <<>>
  /\ inst' = worklist[Len(worklist)]
  /\ index' = 1
  /\ UNCHANGED <<module, code, layout, fn, phase, scan, worklist, modified>>

TakeInstruction ==
  /\ phase = "work"
  /\ AtRest
  /\ worklist # <<>>
  /\ inst' = worklist[Len(worklist)]
  /\ worklist' = SubSeq(worklist, 1, Len(worklist) - 1)
  /\ index' = 1
  /\ UNCHANGED <<module, code, layout, fn, phase, scan, modified>>

NextFunction ==
  /\ phase = "work"
  /\ AtRest
  /\ worklist = <<>>
  /\ inst' = 0
  /\ index' = 1
  /\ IF fn = Len(module.ends) THEN phase' = "done" /\ UNCHANGED fn
                              ELSE phase' = "scan" /\ fn' = fn + 1
  /\ UNCHANGED <<module, code, layout, scan, worklist, modified>>

-------------------------------------------------------------------------------

AtOperand ==
  /\ phase = "work"
  /\ ~ AtRest
  /\ index' = index + 1
  /\ UNCHANGED <<module, fn, phase, scan, inst, modified>>

KeepOperand ==
  /\ AtOperand
  /\ ~ IsExpr(code[inst].ops[index])
  /\ UNCHANGED <<code, layout, worklist>>

\* an instruction with the operands and the operation of a constant expression
GetAsInstruction(e, b) ==
  [phi |-> FALSE, ops |-> Operands[e], from |-> <<>>, block |-> b, computes |-> <<e>>]

New == Len(code) + 1

\* slips, for the mutants: a new instruction is not queued, as README.md:5 has it, or its
\* neighbour is; it goes behind the place it should go before; all constant expressions
\* become the same instruction; only the incoming value at hand is replaced
QueueNothing(i)   == worklist
QueueNeighbour(i) == Append(worklist, i + 1)
InsertAfter(i, s) == InsertAt(s, 1 + (CHOOSE p \in DOMAIN s : s[p] = i), New)
ReplaceExprs(ops) == [k \in DOMAIN ops |-> IF IsExpr(ops[k]) THEN Inst(New) ELSE ops[k]]
ReplaceThis(ops, from) == [ops EXCEPT ![index] = Inst(New)]

Queue(i) == Append(worklist, i)
InsertBefore(i, s) == InsertAt(s, CHOOSE p \in DOMAIN s : s[p] = i, New)

\* replaceUsesOfWith
ReplaceUses(ops) == [k \in DOMAIN ops |-> IF ops[k] = ops[index] THEN Inst(New) ELSE ops[k]]

\* from this incoming value on, those from the same block
ReplaceIncoming(ops, from) ==
  [k \in DOMAIN ops |-> IF k >= index /\ from[k] = from[index] THEN Inst(New) ELSE ops[k]]

\* the new instruction goes into block b, before the instruction at, and inst gets ops
Break(b, at, ops) ==
  /\ AtOperand
  /\ IsExpr(code[inst].ops[index])
  /\ code' = Append([code EXCEPT ![inst].ops = ops],
                    GetAsInstruction(code[inst].ops[index][2], b))
  /\ layout' = [layout EXCEPT ![b] = InsertBefore(at, @)]
  /\ worklist' = Queue(New)

BreakOperand ==
  /\ inst # 0 /\ ~ code[inst].phi
  /\ Break(code[inst].block, inst, ReplaceUses(code[inst].ops))

\* before the terminator of the block the value comes from
BreakIncoming ==
  /\ inst # 0 /\ code[inst].phi /\ ~ AtRest
  /\ LET b == code[inst].from[index]
     IN  Break(b, layout[b][Len(layout[b])], ReplaceIncoming(code[inst].ops, code[inst].from))

Next ==
  \/ ScanInstruction \/ StartWork \/ TakeInstruction \/ NextFunction
  \/ KeepOperand \/ BreakOperand \/ BreakIncoming

Spec == Init /\ [][Next]_vars

\* the pass is one sequential loop: it goes on as long as it can
FairSpec == Spec /\ WF_vars(Next)

-------------------------------------------------------------------------------
(* Properties. *)

TypeOK ==
  /\ module \in Modules
  /\ code \in Seq(Instructions)
  /\ Len(code) >= Len(module.code)
  /\ fn \in DOMAIN module.ends
  /\ phase \in {"scan", "work", "done"}
  /\ scan \in 1..(Len(module.code) + 1)
  /\ worklist \in Seq(DOMAIN code)
  /\ inst \in DOMAIN code \cup {0}
  /\ index \in Nat \ {0}
  /\ modified \in BOOLEAN

(***************************************************************************)
(* The program computes what it did: every operand is what it was, or an   *)
(* instruction that computes the constant expression it was; and the same  *)
(* holds of the operands of what was created.                              *)
(***************************************************************************)
OpsBefore(i) ==
  IF i <= Len(module.code) THEN module.code[i].ops ELSE Operands[code[i].computes[1]]

Denotes(v, w) ==
  \/ v = w
  \/ /\ IsExpr(w)
     /\ \E j \in (Len(module.code) + 1)..Len(code) :
          v = Inst(j) /\ code[j].computes = <<w[2]>>

SameValues ==
  \A i \in DOMAIN code :
    /\ DOMAIN code[i].ops = DOMAIN OpsBefore(i)
    /\ \A k \in DOMAIN code[i].ops : Denotes(code[i].ops[k], OpsBefore(i)[k])

(***************************************************************************)
(* What was created comes before what uses it, in the same block, or for   *)
(* a phi in the block the value comes from (l.60-62, 89-91).               *)
(***************************************************************************)
PlaceOf(b, i) == CHOOSE p \in DOMAIN layout[b] : layout[b][p] = i
LiesIn(b, i) == \E p \in DOMAIN layout[b] : layout[b][p] = i

DefinedBeforeUse ==
  \A i \in DOMAIN code, j \in (Len(module.code) + 1)..Len(code) :
    \A k \in DOMAIN code[i].ops :
      code[i].ops[k] = Inst(j) =>
        IF code[i].phi
        THEN LET b == code[i].from[k]
             IN  LiesIn(b, j) /\ PlaceOf(b, j) < Len(layout[b])
        ELSE LET b == code[i].block
             IN  LiesIn(b, j) /\ LiesIn(b, i) /\ PlaceOf(b, j) < PlaceOf(b, i)

(***************************************************************************)
(* A phi that lists a block twice goes on to list it with the same value   *)
(* (l.64-66), although each operand is turned into an instruction alone.   *)
(***************************************************************************)
PhisAgree == \A i \in DOMAIN code : PhiAgrees(code[i])

(***************************************************************************)
(* When the pass is done, no operand is a constant expression, those of    *)
(* the new instructions included.                                          *)
(***************************************************************************)
NoExprLeft == phase = "done" => \A i \in DOMAIN code : ExprsOf(i) = {}

(***************************************************************************)
(* The result tells the pass manager whether the module was changed.       *)
(***************************************************************************)
ModifiedIsRight == phase = "done" => (modified <=> code # module.code)

(***************************************************************************)
(* The worklist runs empty.                                                *)
(***************************************************************************)
Termination == <>(phase = "done")
===============================================================================
