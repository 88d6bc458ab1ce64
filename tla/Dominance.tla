------------------------------- MODULE Dominance -------------------------------
(***************************************************************************)
(* Which instructions of a function can reach which others, as             *)
(* taint-propagation decides it: not by a search but by dominators and     *)
(* iterated dominance frontiers, which LLVM computes.  Programs are those  *)
(* of IR, with the further fields                                          *)
(*                                                                         *)
(*   blockOf    instruction -> the block it is in                          *)
(*   dominated  block -> the blocks it dominates     (FnToDTMap caches     *)
(*   frontier   block -> its iterated frontier        the trees, too)      *)
(***************************************************************************)
EXTENDS IR, FiniteSets, Integers

\* what up to n steps of next get to from seed
Widening(next, seed) ==
  LET within[n \in Nat] ==
        IF n = 0 THEN seed ELSE UNION {{b} \cup next[b] : b \in within[n - 1]}
  IN  within

\* what any number of steps get to, as no path needs more than there are blocks
Closure(next, seed) == Widening(next, seed)[Cardinality(DOMAIN next)]

\* the blocks that paths from the blocks in seed get to without entering avoid
Spread(P, seed, avoid) ==
  Closure([b \in DOMAIN P.succs |-> P.succs[b] \ avoid], seed \ avoid)

-------------------------------------------------------------------------------
(***************************************************************************)
(* LLVM's DominatorTree and ForwardIDFCalculator.  Blocks that the entry   *)
(* of their function does not lead to are in no tree.                      *)
(***************************************************************************)
FnOfBlock(P, b) == CHOOSE F \in P.fns : b \in P.blocks[F]

\* b itself, and the blocks that the entry does not lead to but through b
DominatorTree(P) ==
  [b \in DOMAIN P.succs |->
     LET entry == P.entry[FnOfBlock(P, b)]
     IN  Spread(P, {entry}, {}) \ Spread(P, {entry}, {b})]

\* where the dominance of b ends
Frontier(P, b) == (UNION {P.succs[c] : c \in P.dominated[b]}) \ (P.dominated[b] \ {b})

\* and where that of the blocks there ends, and so on
IteratedFrontier(P) ==
  LET frontiers == [b \in DOMAIN P.succs |-> Frontier(P, b)]
  IN  [b \in DOMAIN P.succs |-> Closure(frontiers, frontiers[b])]

InTree(P, b) == b \in P.dominated[b]

Before(P, I, J) ==
  LET code == P.code[P.blockOf[I]]
  IN  \E i, j \in DOMAIN code : i < j /\ code[i] = I /\ code[j] = J

\* DominatorTree::dominates: what a phi uses, it uses on an edge into its block
Dominates(P, I, J) ==
  LET a == P.blockOf[I]
      b == P.blockOf[J]
  IN  \/ ~InTree(P, b)
      \/ a # b /\ b \in P.dominated[a]
      \/ a = b /\ ~IsOp(P, J, "phi") /\ Before(P, I, J)

-------------------------------------------------------------------------------
(***************************************************************************)
(* reachable: no definition at all stands for one that reaches everything. *)
(***************************************************************************)
\* a slip, for the mutants: only the blocks of the frontier itself
ReachableAtFrontier(P, DefInsts, UseInst) ==
  \/ DefInsts = {}
  \/ \E I \in DefInsts : Dominates(P, I, UseInst)
  \/ \E I \in DefInsts \ {UseInst} : P.blockOf[UseInst] \in P.frontier[P.blockOf[I]]

Reachable(P, DefInsts, UseInst) ==
  \/ DefInsts = {}
  \/ \E I \in DefInsts : Dominates(P, I, UseInst)
  \/ \E I \in DefInsts \ {UseInst} : \E b \in P.frontier[P.blockOf[I]] :
       P.blockOf[UseInst] \in P.dominated[b]

\* what it is meant to compute: the control flow leads from I to J
HasPath(P, I, J) ==
  \/ P.blockOf[J] \in Spread(P, P.succs[P.blockOf[I]], {})
  \/ Before(P, I, J) /\ ~IsOp(P, J, "phi")
===============================================================================
