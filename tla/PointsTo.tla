------------------------------- MODULE PointsTo -------------------------------
(***************************************************************************)
(* The points-to pass of PointTo.h: runOnModule iterates                   *)
(* compForwardDataflow over the functions of a module until no function is *)
(* queued, PointToVisitor passes facts between callers and callees and     *)
(* queues the functions whose values it enlarged, and the call graph is    *)
(* printed at the end.                                                     *)
(*                                                                         *)
(* The program is chosen when the pass starts, and with it the order in    *)
(* which each call's arg_map (an unordered_map) is iterated.  The          *)
(* worklists are sets of pointers: any member may be taken next.           *)
(***************************************************************************)
EXTENDS PointToInfo

CONSTANTS Programs,  \* name -> a module the pass may be run on
          None       \* no function is being iterated; no call owns a line

\* None is not the name of anything
ASSUME ProgramAssumption ==
  \A name \in DOMAIN Programs :
    LET Q == Programs[name]
    IN  /\ Verified(Q)
        /\ None \notin Q.fns \cup Q.insts \cup UNION {Q.blocks[F] : F \in Q.fns}

VARIABLES
  prog,        \* the name of the module
  argOrder,    \* call -> its actuals of pointer type, in arg_map order
  result,      \* result_: instruction -> [in, out]
  worklist_,   \* PointToPass::worklist_
  fn,          \* the function compForwardDataflow runs on, or None
  bbWorklist,  \* its worklist
  block,       \* the block it visits, or None
  pc,          \* the next instruction of block
  oldOut,      \* old_bboutval
  requeued,    \* PointToVisitor::worklist_
  callGraph,   \* call_graph_: line -> [call, callees]
  status       \* "running", "printed", or "hung" in getValuePointToFunctions

vars == <<prog, argOrder, result, worklist_, fn, bbWorklist, block, pc,
          oldOut, requeued, callGraph, status>>

-------------------------------------------------------------------------------

P == Programs[prog]

AllBlocks == UNION {P.blocks[F] : F \in P.fns}
Calls == InstsOf(P, "call")
Lines == {P.inst[I].line : I \in Calls}

PtrArgs(I) == ToSet(P.inst[I].args) \ {NonPtr}

Init ==
  /\ prog \in DOMAIN Programs
  /\ argOrder \in {o \in [Calls -> UNION {SetToSeqs(PtrArgs(I)) : I \in Calls}] :
                     \A I \in Calls : o[I] \in SetToSeqs(PtrArgs(I))}
  /\ result = [I \in P.insts |-> [in |-> {}, out |-> {}]]
  /\ worklist_ = P.fns
  /\ fn = None
  /\ bbWorklist = {}
  /\ block = None
  /\ pc = 1
  /\ oldOut = {}
  /\ requeued = {}
  /\ callGraph = [l \in Lines |-> [call |-> None, callees |-> {}]]
  /\ status = "running"

-------------------------------------------------------------------------------
(***************************************************************************)
(* runOnModule takes a function, and compForwardDataflow queues its        *)
(* blocks; the values of earlier iterations of the function are kept.      *)
(***************************************************************************)
StartFunction(F) ==
  /\ status = "running"
  /\ fn = None
  /\ F \in worklist_
  /\ worklist_' = worklist_ \ {F}
  /\ fn' = F
  /\ bbWorklist' = P.blocks[F]
  /\ UNCHANGED <<prog, argOrder, result, block, pc, oldOut, requeued, callGraph, status>>

(***************************************************************************)
(* compForwardDataflow takes a block and merges its predecessors into its  *)
(* first instruction.                                                      *)
(***************************************************************************)
StartBlock(b) ==
  /\ block = None
  /\ b \in bbWorklist
  /\ bbWorklist' = bbWorklist \ {b}
  /\ block' = b
  /\ pc' = 1
  /\ oldOut' = result[LastOf(P, b)].out
  /\ result' = [result EXCEPT ![FirstOf(P, b)].in =
                  @ \cup UNION {result[LastOf(P, p)].out : p \in P.preds[b]}]
  /\ UNCHANGED <<prog, argOrder, worklist_, fn, requeued, callGraph, status>>

-------------------------------------------------------------------------------
(***************************************************************************)
(* compDFVal, one instruction at a time.                                   *)
(***************************************************************************)

\* the visitor is at an instruction whose kind is in ops
At(ops) ==
  /\ status = "running"
  /\ block # None
  /\ pc \in DOMAIN P.code[block]
  /\ P.inst[P.code[block][pc]].op \in ops

\* res is what the visitor makes of result: the outgoing value goes to the next instruction
Leave(res) ==
  /\ result' = IF pc = Len(P.code[block]) THEN res
               ELSE [res EXCEPT ![P.code[block][pc + 1]].in = res[P.code[block][pc]].out]
  /\ pc' = pc + 1
  /\ UNCHANGED <<prog, argOrder, worklist_, fn, bbWorklist, block, oldOut>>

TransferOnInst ==
  LET I == P.code[block][pc]
  IN  /\ At({"phi", "store", "load", "gep", "bitcast", "memcpy", "alloca", "br"})
      /\ Leave([result EXCEPT ![I].out = Out(P, I, result[I].in)])
      /\ UNCHANGED <<requeued, callGraph, status>>

\* a slip, for the mutants: insert() instead of [], which keeps the callees of an earlier visit
RegisterOnce(I, callees) ==
  [callGraph EXCEPT ![P.inst[I].line] = IF @.call = None THEN [call |-> I, callees |-> callees] ELSE @]

\* call_graph_ compares calls by line: the first call of a line stays the key
Register(I, callees) ==
  [callGraph EXCEPT ![P.inst[I].line] =
     [call |-> IF @.call = None THEN I ELSE @.call, callees |-> callees]]

(***************************************************************************)
(* getValuePointToFunctions never comes back.                              *)
(***************************************************************************)
HangOnCallInst ==
  LET I == P.code[block][pc]
  IN  /\ At({"call"})
      /\ ~ WalkReturns(P, result[I].in, P.inst[I].callee)
      /\ status' = "hung"
      /\ UNCHANGED <<prog, argOrder, result, worklist_, fn, bbWorklist, block, pc,
                     oldOut, requeued, callGraph>>

Callees(I) == PointToFunctions(P, result[I].in, P.inst[I].callee)

\* the callees that have a body
Bodies(I) == Callees(I) \ P.decls

(***************************************************************************)
(* A direct call of a declaration passes its facts through.  Otherwise     *)
(* every callee with a body gets the facts in its entry, and is queued if  *)
(* they are new, unless no pointer is passed: then they only flow past the *)
(* call.                                                                   *)
(***************************************************************************)
TransferOnCallInst ==
  LET I         == P.code[block][pc]
      D         == result[I].in
      Passed(F) == PassedTo(P, I, F, argOrder[I], D)
      Entry(F)  == FirstInst(P, F)
      entered   == {F \in Bodies(I) : ~ Passed(F) \subseteq result[Entry(F)].in}
  IN  /\ At({"call"})
      /\ WalkReturns(P, D, P.inst[I].callee)
      /\ callGraph' = Register(I, Callees(I))
      /\ \/ /\ P.inst[I].callee \in P.decls
            /\ Leave([result EXCEPT ![I].out = D])
            /\ UNCHANGED requeued
         \/ /\ P.inst[I].callee \notin P.decls
            /\ argOrder[I] = <<>>
            /\ Leave([result EXCEPT ![I].out = IF Bodies(I) = {} THEN @ ELSE Merge(@, D)])
            /\ UNCHANGED requeued
         \/ /\ P.inst[I].callee \notin P.decls
            /\ argOrder[I] # <<>>
            /\ Leave([J \in P.insts |-> [result[J] EXCEPT !.in =
                        IF J = Entry(P.fnOf[J]) /\ P.fnOf[J] \in Bodies(I)
                        THEN Merge(@, Passed(P.fnOf[J])) ELSE @]])
            /\ requeued' = requeued \cup entered
      /\ UNCHANGED status

(***************************************************************************)
(* The facts before a return reach the calls that call_graph_ knows at     *)
(* this moment, whose functions are queued if they are new.                *)
(***************************************************************************)
CallSites == {callGraph[l].call : l \in {m \in Lines : fn \in callGraph[m].callees}}

\* calls of the function that is being iterated whose outgoing value D, before its
\* return R, enlarges; the functions to queue; and two slips, for the mutants
Reached(R, D) == {I \in CallSites : ~ ReturnedTo(P, I, fn, argOrder[I], R, D) \subseteq result[I].out}
NoCaller(R, D) == {}
CallsThemselves(R, D) == Reached(R, D)
Callers(R, D) == {P.fnOf[I] : I \in Reached(R, D)}

TransferOnReturnInst ==
  LET R == P.code[block][pc]
      D == result[R].in
  IN  /\ At({"ret"})
      /\ Leave([J \in P.insts |-> [result[J] EXCEPT !.out =
                  IF J = R THEN D
                  ELSE IF J \in CallSites
                  THEN Merge(@, ReturnedTo(P, J, fn, argOrder[J], R, D)) ELSE @]])
      /\ requeued' = requeued \cup Callers(R, D)
      /\ UNCHANGED <<callGraph, status>>

-------------------------------------------------------------------------------

(***************************************************************************)
(* The rest of compForwardDataflow's round: successors are queued if the   *)
(* outgoing value of the block changed.                                    *)
(***************************************************************************)
FinishBlock ==
  /\ block # None
  /\ pc = Len(P.code[block]) + 1
  /\ block' = None
  /\ pc' = 1
  /\ oldOut' = {}
  /\ bbWorklist' = bbWorklist \cup
       (IF result[LastOf(P, block)].out = oldOut THEN {} ELSE P.succs[block])
  /\ UNCHANGED <<prog, argOrder, result, worklist_, fn, requeued, callGraph, status>>

\* a slip, for the mutants: what was queued is never forgotten
FinishAndKeep ==
  /\ fn # None
  /\ block = None
  /\ bbWorklist = {}
  /\ fn' = None
  /\ worklist_' = worklist_ \cup requeued
  /\ UNCHANGED <<prog, argOrder, result, bbWorklist, block, pc, oldOut, callGraph, requeued, status>>

(***************************************************************************)
(* compForwardDataflow returned: what the visitor queued joins worklist_.  *)
(***************************************************************************)
FinishFunction ==
  /\ fn # None
  /\ block = None
  /\ bbWorklist = {}
  /\ fn' = None
  /\ worklist_' = worklist_ \cup requeued
  /\ requeued' = {}
  /\ UNCHANGED <<prog, argOrder, result, bbWorklist, block, pc, oldOut, callGraph, status>>

(***************************************************************************)
(* dumpCallGraph prints call_graph_, which nothing changes any more.       *)
(***************************************************************************)
DumpCallGraph ==
  /\ status = "running"
  /\ fn = None
  /\ worklist_ = {}
  /\ status' = "printed"
  /\ UNCHANGED <<prog, argOrder, result, worklist_, fn, bbWorklist, block, pc, oldOut,
                 requeued, callGraph>>

Next ==
  \/ \E F \in P.fns : StartFunction(F)
  \/ \E b \in AllBlocks : StartBlock(b)
  \/ TransferOnInst
  \/ HangOnCallInst
  \/ TransferOnCallInst
  \/ TransferOnReturnInst
  \/ FinishBlock
  \/ FinishFunction
  \/ DumpCallGraph

Spec == Init /\ [][Next]_vars /\ WF_vars(Next)

-------------------------------------------------------------------------------
(* Properties. *)

Values == P.fns \cup P.insts
            \cup (UNION {ToSet(P.params[F]) : F \in P.fns})
            \cup (UNION {ToSet(P.inst[I].args) : I \in Calls})
            \cup (UNION {{P.inst[I].val, P.inst[I].ptr} : I \in InstsOf(P, "store")})
            \cup (UNION {P.inst[I].vals : I \in InstsOf(P, "phi")})
            \cup {P.inst[I].ptr : I \in UNION {InstsOf(P, op) : op \in {"load", "gep", "bitcast"}}}

Facts == {Pt, Field} \X Values \X (Values \cup {NoValue})

TypeOK ==
  /\ result \in [P.insts -> [in : SUBSET Facts, out : SUBSET Facts]]
  /\ worklist_ \subseteq P.fns /\ requeued \subseteq DefinedFns(P)
  /\ fn \in P.fns \cup {None}
  /\ bbWorklist \subseteq IF fn = None THEN {} ELSE P.blocks[fn]
  /\ block # None => fn # None /\ block \in P.blocks[fn] /\ pc \in 1..(Len(P.code[block]) + 1)
  /\ oldOut \subseteq Facts
  /\ callGraph \in [Lines -> [call : Calls \cup {None}, callees : SUBSET P.fns]]
  /\ status \in {"running", "printed", "hung"}

(***************************************************************************)
(* callee->arg_begin() + i is one of the callee's formals (PointTo.h:232): *)
(* nothing bounds i, so this rests on the walk not finding, for a call     *)
(* that passes pointers, a function of fewer formals.                      *)
(***************************************************************************)
FormalsExist ==
  \A I \in Calls : \A F \in Bodies(I) : \A i \in DOMAIN P.inst[I].args :
    P.inst[I].args[i] # NonPtr => i \in DOMAIN P.params[F]

\* functions that are queued nowhere: the pass may end without visiting them again
AtRest == DefinedFns(P) \ (worklist_ \cup requeued \cup {fn})

(***************************************************************************)
(* A function at rest is solved: the values between its instructions and   *)
(* along its edges agree with the transfer functions, although other       *)
(* functions may have changed its entry (as callers) or its calls (as      *)
(* callees) since it was visited.                                          *)
(***************************************************************************)
FunctionsAtRestAreSolved ==
  \A F \in AtRest : \A b \in P.blocks[F] :
    LET code == P.code[b]
    IN  /\ \A p \in P.preds[b] :
             result[LastOf(P, p)].out \subseteq result[FirstOf(P, b)].in
        /\ \A k \in DOMAIN code :
             /\ k < Len(code) => result[code[k+1]].in = result[code[k]].out
             /\ code[k] \notin Calls =>
                  result[code[k]].out = Out(P, code[k], result[code[k]].in)

\* calls on one line share an entry of call_graph_; I has its own
OwnLine(I) == \A J \in Calls : P.inst[J].line = P.inst[I].line => J = I

(***************************************************************************)
(* What a call of a function at rest passes is in its callees' entries,    *)
(* and if no other call is on its line, it is registered there with just   *)
(* the callees that the facts before it give, though these grew while      *)
(* other functions were visited: a return of a callee finds it, and finds  *)
(* it by that callee.                                                      *)
(***************************************************************************)
ArgumentsArrive ==
  \A I \in {J \in Calls : P.fnOf[J] \in AtRest} :
    /\ argOrder[I] # <<>> =>
         \A F \in Callees(I) \ P.decls :
           PassedTo(P, I, F, argOrder[I], result[I].in) \subseteq result[FirstInst(P, F)].in
    /\ OwnLine(I) => callGraph[P.inst[I].line] = [call |-> I, callees |-> Callees(I)]

(***************************************************************************)
(* Whatever the order of functions, blocks and arguments, what is printed  *)
(* is the call graph that the test case states for the program.            *)
(***************************************************************************)
PrintsExpectedCallGraph ==
  status = "printed" => \A l \in Lines : callGraph[l].callees = P.expected[l]

(***************************************************************************)
(* A callee once found for a line is not lost again when later facts       *)
(* arrive, although stores are strong updates and call_graph_[CI] is       *)
(* cleared at each visit.                                                  *)
(***************************************************************************)
CalleesAreKept ==
  [][\A l \in Lines : callGraph[l].callees \subseteq callGraph'[l].callees]_vars

(***************************************************************************)
(* Callers and callees stop queueing each other, recursion and strong      *)
(* updates notwithstanding: the pass ends, or hangs inside one walk.       *)
(***************************************************************************)
WorklistsDrain == <>(status # "running")

(***************************************************************************)
(* "Print the callee functions at every call instructions." (README.md:22) *)
(***************************************************************************)
EventuallyPrinted == <>(status = "printed")

(***************************************************************************)
(* "if callee function has definition, the dfval-out of this callinst will *)
(* be set in transferOnReturnInst when callee function is iterated. else   *)
(* the dfval-out is set equal to dfval-in" (PointTo.h:211-213), in two     *)
(* halves, once everything has been iterated.                              *)
(***************************************************************************)
ReturnsReachCalls ==
  status = "printed" =>
    \A I \in Calls : \A F \in Callees(I) \ P.decls :
      \A R \in {J \in InstsOf(P, "ret") : P.fnOf[J] = F} :
        ReturnedTo(P, I, F, argOrder[I], R, result[R].in) \subseteq result[I].out

DeclaredCalleesPassFactsThrough ==
  status = "printed" =>
    \A I \in Calls :
      Callees(I) # {} /\ Callees(I) \subseteq P.decls =>
        result[I].out = result[I].in
===============================================================================
