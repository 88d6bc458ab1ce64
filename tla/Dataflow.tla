------------------------------- MODULE Dataflow -------------------------------
(***************************************************************************)
(* compForwardDataflow of Dataflow.h: the forward worklist iteration that  *)
(* the points-to analysis runs on one function at a time.                  *)
(*                                                                         *)
(* A dataflow value is a set of facts and merge is union, as in the one    *)
(* visitor of the repository.  The visitor is the constant Transfer: what  *)
(* compDFVal(block, ...) makes of a block's incoming value.  worklist is a *)
(* std::set of pointers, so which block *worklist.begin() is depends on    *)
(* the allocator; the model lets any block of the worklist be taken.       *)
(***************************************************************************)
EXTENDS FiniteSets

CONSTANTS Block, Edge, Fact, Transfer, Given

ASSUME GraphAssumption ==
  /\ IsFiniteSet(Block)
  /\ Block # {}
  /\ Edge \subseteq Block \X Block

ASSUME VisitorAssumption ==
  Transfer \in [Block -> [SUBSET Fact -> SUBSET Fact]]

ASSUME GivenAssumption ==
  Given \in [Block -> [in : SUBSET Fact, out : SUBSET Fact]]

(***************************************************************************)
(* "Note that the caller must ensure that the function is in fact a        *)
(* monotone function" (Dataflow.h:84-87).  Only what is said about the     *)
(* least solution needs it; the second half says that the map handed over  *)
(* holds no outgoing fact its incoming facts do not account for.           *)
(***************************************************************************)
Monotone ==
  \A b \in Block : \A S, T \in SUBSET Fact :
     S \subseteq T => Transfer[b][S] \subseteq Transfer[b][T]

GivenIsAccounted ==
  \A b \in Block : Given[b].out \subseteq Transfer[b][Given[b].in]

VARIABLES
  worklist,  \* the blocks still to be visited
  in,        \* (*result)[first instruction].first of every block
  out        \* (*result)[last instruction].second of every block

vars == <<worklist, in, out>>

-------------------------------------------------------------------------------

Pred(b) == {c \in Block : <<c, b>> \in Edge}
SuccEdges(b) == {e \in Edge : e[1] = b}  \* slip, for a mutant: edges for blocks
Succ(b) == {c \in Block : <<b, c>> \in Edge}

(***************************************************************************)
(* Every block is queued; result->insert leaves an existing entry alone,   *)
(* so the values of an earlier visit of the function are kept.             *)
(***************************************************************************)
Init ==
  /\ worklist = Block
  /\ in  = [b \in Block |-> Given[b].in]
  /\ out = [b \in Block |-> Given[b].out]

\* Slips in the code, for the mutants: merge into a fresh value; follow edges both ways.
IncomingFresh(b) == UNION {out[p] : p \in Pred(b)}
IncomingBothWays(b) == in[b] \cup UNION {out[c] : c \in Pred(b) \cup Succ(b)}

Incoming(b) == in[b] \cup UNION {out[p] : p \in Pred(b)}

\* Slips: successors requeued whether or not the value changed.
ProcessAndRequeue(b) ==
  /\ b \in worklist
  /\ in'  = [in EXCEPT ![b] = Incoming(b)]
  /\ out' = [out EXCEPT ![b] = Transfer[b][Incoming(b)]]
  /\ worklist' = (worklist \ {b}) \cup Succ(b)

ProcessBlock(b) ==
  LET I == Incoming(b)
      O == Transfer[b][I]
  IN  /\ b \in worklist
      /\ in'  = [in EXCEPT ![b] = I]
      /\ out' = [out EXCEPT ![b] = O]
      /\ worklist' = (worklist \ {b}) \cup (IF O = out[b] THEN {} ELSE Succ(b))

Next == \E b \in Block : ProcessBlock(b)

Spec == Init /\ [][Next]_vars /\ WF_vars(Next)

-------------------------------------------------------------------------------

TypeOK ==
  /\ worklist \subseteq Block
  /\ in  \in [Block -> SUBSET Fact]
  /\ out \in [Block -> SUBSET Fact]

(***************************************************************************)
(* A block that is not queued is up to date: nothing a predecessor         *)
(* produced since its last visit is missing from it, and its outgoing      *)
(* value is the transfer of its incoming one.  Revisiting it would change  *)
(* nothing, which is what lets the loop leave it off the worklist although *)
(* its predecessors go on changing.                                        *)
(***************************************************************************)
Settled ==
  \A b \in Block \ worklist :
     /\ out[b] = Transfer[b][in[b]]
     /\ \A p \in Pred(b) : out[p] \subseteq in[b]

(***************************************************************************)
(* The abstract specification, of which this one is an implementation: the *)
(* answer exists when the worklist is empty.                               *)
(***************************************************************************)
Solution == INSTANCE DataflowSolution
              WITH answer <- IF worklist = {} THEN <<in, out>> ELSE <<>>

(***************************************************************************)
(* Every solution of the equations contains what has been computed: the    *)
(* iteration never overshoots, in whatever order blocks are taken, also    *)
(* when it starts from the values of an earlier visit.                     *)
(***************************************************************************)
BelowEverySolution ==
  \A J \in [Block -> SUBSET Fact] :
     Solution!IsSolution(J) =>
        \A b \in Block : in[b] \subseteq J[b] /\ out[b] \subseteq Transfer[b][J[b]]

(***************************************************************************)
(* Why the loop ends, for visitors that are not monotone as well           *)
(* (Dataflow.h:84-87 warns that it may not): every visit enlarges some     *)
(* block's incoming value and loses none of it, or leaves them all as they *)
(* are and repairs an outgoing value, or changes nothing but the           *)
(* worklist, which gets shorter.                                           *)
(***************************************************************************)
Stale == {b \in Block : out[b] # Transfer[b][in[b]]}

Advances ==
  \/ /\ in' # in
     /\ \A b \in Block : in[b] \subseteq in'[b]
  \/ /\ in' = in
     /\ Stale' \subseteq Stale
     /\ Stale' # Stale
  \/ /\ UNCHANGED <<in, out>>
     /\ worklist' \subseteq worklist
     /\ worklist' # worklist

EveryVisitAdvances == [][Advances]_vars

(***************************************************************************)
(* The iteration reaches its fixpoint, and the fixpoint is the answer the  *)
(* abstract specification allows.                                          *)
(***************************************************************************)
Termination == <>(worklist = {})

ImplementsSolution == Solution!Spec
===============================================================================
