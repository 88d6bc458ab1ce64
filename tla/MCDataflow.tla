------------------------------ MODULE MCDataflow ------------------------------
(***************************************************************************)
(* A function of six blocks: a loop with two entries (b2 <-> b3, both      *)
(* reached from b1) inside a loop closed by b4, an exit b5, and b6, which  *)
(* nothing but itself jumps to.  b3 turns x into y and kills x, b4 turns y *)
(* back into x: facts travel the loops several times.                      *)
(***************************************************************************)
EXTENDS Dataflow, TLC

CONSTANTS b1, b2, b3, b4, b5, b6, x, y

MCBlock == {b1, b2, b3, b4, b5, b6}

MCEdge == {<<b1, b2>>, <<b1, b3>>, <<b2, b3>>, <<b3, b2>>, <<b3, b4>>,
           <<b4, b2>>, <<b4, b5>>, <<b6, b5>>, <<b6, b6>>}

MCFact == {x, y}

When(S, f, g) == IF f \in S THEN {g} ELSE {}

MCTransfer ==
  [b \in MCBlock |-> [S \in SUBSET MCFact |->
     CASE b = b1 -> S \cup {x}
       [] b = b3 -> (S \ {x}) \cup When(S, x, y)
       [] b = b4 -> (S \ {y}) \cup When(S, y, x)
       [] b = b6 -> S \cup When(S, y, x)
       [] OTHER  -> S]]

(***************************************************************************)
(* The map an earlier visit left, whose b6 has since received y from a     *)
(* caller: b6 starts with an incoming value larger than its visit knew.    *)
(***************************************************************************)
MCGiven ==
  [b \in MCBlock |->
     CASE b = b6 -> [in |-> {y}, out |-> {}]
       [] b = b1 -> [in |-> {y}, out |-> {x}]
       [] OTHER  -> [in |-> {}, out |-> {}]]

(***************************************************************************)
(* The instance meets the two conditions that leastness needs.             *)
(***************************************************************************)
ASSUME Monotone /\ GivenIsAccounted
===============================================================================
