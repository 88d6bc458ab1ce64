--------------------------- MODULE DataflowSolution ---------------------------
(***************************************************************************)
(* What compForwardDataflow (Dataflow.h) promises its caller: started on   *)
(* a control flow graph and on the result map it is handed, it returns     *)
(* once, and what it returns is the least solution of the dataflow         *)
(* equations above the facts it was handed.  Nothing is said of the order  *)
(* in which blocks are visited.                                            *)
(***************************************************************************)

CONSTANTS Block,     \* the basic blocks of one function
          Edge,      \* its control flow edges, pairs of blocks
          Fact,      \* a dataflow value is a set of facts
          Transfer,  \* the visitor: block -> (facts in -> facts out)
          Given      \* the result map handed over: block -> [in, out]

VARIABLE answer      \* <<>> while it runs, then the maps <<in, out>> returned

IsSolution(I) ==
  /\ \A b \in Block : Given[b].in \subseteq I[b]
  /\ \A e \in Edge : Transfer[e[1]][I[e[1]]] \subseteq I[e[2]]

IsLeast(I) ==
  /\ IsSolution(I)
  /\ \A J \in [Block -> SUBSET Fact] :
        IsSolution(J) => \A b \in Block : I[b] \subseteq J[b]

OutOf(I) == [b \in Block |-> Transfer[b][I[b]]]

Init == answer = <<>>

Return ==
  /\ answer = <<>>
  /\ \E I \in [Block -> SUBSET Fact] :
        /\ answer' = <<I, OutOf(I)>>
        /\ IsLeast(I)

Spec == Init /\ [][Return]_answer
===============================================================================
