---------------------------------- MODULE IR ----------------------------------
(***************************************************************************)
(* LLVM IR programs, as far as the analyses of the repository look at      *)
(* them.  A program P is a record:                                         *)
(*                                                                         *)
(*   fns     its functions, main and libraries alike                       *)
(*   decls   those of them that have no body                               *)
(*   params  function -> its formal parameters, in order                   *)
(*   blocks  function -> its basic blocks                                  *)
(*   entry   defined function -> its first block                           *)
(*   code    block -> its instructions, in order, the terminator last      *)
(*   succs   block -> the blocks its terminator may go to                  *)
(*   preds   block -> the blocks that may go to it                         *)
(*   insts   all the instructions                                          *)
(*   inst    instruction -> [op |-> kind, ...operands]                     *)
(*   fnOf    instruction -> the function it is in                          *)
(*                                                                         *)
(* Values are named: functions, parameters, instructions, globals and      *)
(* constants.  NonPtr stands for every operand that is not of pointer      *)
(* type, NoValue for an operand that is absent.                            *)
(***************************************************************************)
EXTENDS Sequences, SequencesExt

CONSTANTS NonPtr, NoValue

DefinedFns(P) == P.fns \ P.decls

FirstOf(P, b) == Head(P.code[b])
LastOf(P, b)  == Last(P.code[b])
FirstInst(P, F) == FirstOf(P, P.entry[F])       \* &*inst_begin(F)

IsOp(P, v, op) == v \in P.insts /\ P.inst[v].op = op
InstsOf(P, op) == {I \in P.insts : P.inst[I].op = op}

(***************************************************************************)
(* What the LLVM verifier guarantees of a module: blocks and instructions  *)
(* belong to one function, a block has a terminator and so an instruction, *)
(* an instruction is in one place, edges stay inside a function, and the   *)
(* arguments of a call are a sequence.                                     *)
(***************************************************************************)
Verified(P) ==
  /\ P.decls \subseteq P.fns
  /\ \A F \in P.decls : P.blocks[F] = {}
  /\ \A F \in DefinedFns(P) : P.entry[F] \in P.blocks[F]
  /\ \A F \in P.fns : \A b \in P.blocks[F] :
       /\ P.code[b] \in Seq(P.insts) /\ P.code[b] # <<>>
       /\ \A k \in DOMAIN P.code[b] : P.fnOf[P.code[b][k]] = F
       /\ P.succs[b] \subseteq P.blocks[F]
       /\ P.preds[b] = {p \in P.blocks[F] : b \in P.succs[p]}
  /\ \A F, G \in P.fns : \A b \in P.blocks[F], c \in P.blocks[G] :
       \A j \in DOMAIN P.code[b], k \in DOMAIN P.code[c] :
         P.code[b][j] = P.code[c][k] => b = c /\ j = k
  /\ \A I \in P.insts : \E b \in P.blocks[P.fnOf[I]] : I \in ToSet(P.code[b])
  /\ \A I \in P.insts : P.fnOf[I] \in P.fns
  /\ \A I \in InstsOf(P, "call") : P.inst[I].args \in Seq(ToSet(P.inst[I].args))
===============================================================================
