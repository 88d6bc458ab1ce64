---------------------------- MODULE TaintPropagation ----------------------------
(***************************************************************************)
(* The taint propagation pass of TaintPropagation.cpp: a sparse solver     *)
(* keeps a lattice value for each LLVM value, which says at which          *)
(* instructions it becomes tainted; instructions are visited again when a  *)
(* value they use has changed, and at the end each instruction is          *)
(* annotated with its tainted operands.                                    *)
(***************************************************************************)
EXTENDS TaintProgram

CONSTANT Programs  \* the modules the pass may be run on, numbered

ASSUME ProgramAssumption == \A p \in DOMAIN Programs : WellFormed(Programs[p])

VARIABLES
  prog,               \* the number of the module
  limit,              \* MaxInstructionsPerValue
  users,              \* value or function -> its use list
  state,              \* ValueState; that of a function is its Return key's
  bbExecutable,       \* BBExecutable
  knownFeasibleEdges, \* KnownFeasibleEdges
  valueWorkList,      \* ValueWorkList
  bbWorkList,         \* BBWorkList
  draining,           \* the inner loop of Solve: "values" or "blocks"
  agenda,             \* what is left of the current round of that loop
  metadata,           \* instruction -> the operands of its !taint
  done                \* runTP has returned

vars == <<prog, limit, users, state, bbExecutable, knownFeasibleEdges, valueWorkList,
          bbWorkList, draining, agenda, metadata, done>>

P == Programs[prog]

Callers(F) == ToSet(users[F])

-------------------------------------------------------------------------------
(***************************************************************************)
(* TaintLatticeVal and MergeValues.  A value that is tainted at no         *)
(* instruction is one of a formal or of a function: tainted everywhere.    *)
(***************************************************************************)
Undefined     == [is |-> "Undefined", at |-> {}]
Overdefined   == [is |-> "Overdefined", at |-> {}]
TaintedAt(S)  == [is |-> "Tainted", at |-> S]
Everywhere    == TaintedAt({})

\* a slip, for the mutants: one instruction more than the bound
MergeBeyond(X, Y) ==
  IF Overdefined \in {X, Y} THEN Overdefined
  ELSE IF {X, Y} = {Undefined} THEN Undefined
  ELSE IF Cardinality(X.at \cup Y.at) > limit + 1 THEN Overdefined
  ELSE TaintedAt(X.at \cup Y.at)

MergeValues(X, Y) ==
  IF Overdefined \in {X, Y} THEN Overdefined
  ELSE IF {X, Y} = {Undefined} THEN Undefined
  ELSE IF Cardinality(X.at \cup Y.at) > limit THEN Overdefined
  ELSE TaintedAt(X.at \cup Y.at)

IsTainted(v) == state[v].is = "Tainted"

\* getValueState(v) is tainted and one of its instructions can reach I
TaintReaches(v, I) == IsTainted(v) /\ Reachable(P, state[v].at, I)

-------------------------------------------------------------------------------
(***************************************************************************)
(* The transfer functions: the values that a visit of I taints at I, which *)
(* most often is I itself.                                                 *)
(***************************************************************************)
ByPHINode(I) == {v \in {I} : \E u \in ToSet(Args(P, I)) : TaintReaches(u, I)}

ByGetElementPtr(I) == {v \in {I} : TaintReaches(Args(P, I)[1], I)}

ByLoad(I) == {v \in {I} : TaintReaches(Args(P, I)[1], I)}

BySelect(I) == {v \in {I} : TaintReaches(Args(P, I)[2], I) \/ TaintReaches(Args(P, I)[3], I)}

ByCast(I) == {v \in {I} : TaintReaches(Args(P, I)[1], I)}

\* the other instructions do not ask whether the taint can reach them
ByInst(I) == {v \in {I} : \E u \in ToSet(Args(P, I)) : IsTainted(u)}

ByStore(I) == {v \in Targets(P, Args(P, I)[2]) : TaintReaches(Args(P, I)[1], I)}

ByMemTransfer(I) == {v \in Targets(P, Args(P, I)[1]) : TaintReaches(Args(P, I)[2], I)}

LibCall(I) == IF IsCopy(P, I) THEN ByMemTransfer(I) ELSE {}

\* a function that returns nothing has no tainted Return key
Returned(I) == {v \in {I} : CallsDefined(P, I) /\ IsTainted(P.inst[I].callee)}

ByCallSite(I) == IF IsSource(P, I) THEN SourceTargets(P, I) ELSE LibCall(I) \cup Returned(I)

\* ComputeInstructionState
TaintedBy(I) ==
  CASE Op(P, I) = "phi"         -> ByPHINode(I)
    [] Op(P, I) = "gep"         -> ByGetElementPtr(I)
    [] Op(P, I) = "load"        -> ByLoad(I)
    [] Op(P, I) = "store"       -> ByStore(I)
    [] Op(P, I) = "memtransfer" -> ByMemTransfer(I)
    [] Op(P, I) = "call"        -> ByCallSite(I)
    [] Op(P, I) = "ret"         -> {}
    [] Op(P, I) = "select"      -> BySelect(I)
    [] Op(P, I) = "cast"        -> ByCast(I)
    [] OTHER                    -> ByInst(I)

-------------------------------------------------------------------------------
(***************************************************************************)
(* What crosses functions.                                                 *)
(***************************************************************************)
TaintFormals(I) ==
  LET params == P.params[P.inst[I].callee]
  IN  {params[k] : k \in {k \in DOMAIN params : TaintReaches(Args(P, I)[k], I)}}

ByReturn(I) == {F \in {P.fnOf[I]} : \E v \in ToSet(Args(P, I)) : TaintReaches(v, I)}

\* the formals and functions that a visit of I marks by setTainted()
SetTainted(I) ==
  IF CallsDefined(P, I) /\ ~IsSource(P, I) THEN TaintFormals(I)
  ELSE IF Op(P, I) = "ret" THEN ByReturn(I)
  ELSE {}

\* what callers pass for the formals that the store I writes through
Passed(I) ==
  IF Op(P, I) # "store" THEN {}
  ELSE {Actual(P, P.fnOf[I], U, a) : U \in Callers(P.fnOf[I]), a \in AffectedFormals(P, I)}

\* those passed for tainted formals are tainted, each at the last of the calls it is in
Actuals(I) ==
  LET F == P.fnOf[I]
      calls(v) == {k \in DOMAIN users[F] : \E a \in AffectedFormals(P, I) :
                     IsTainted(a) /\ v = Actual(P, F, users[F][k], a)}
      last(v) == CHOOSE k \in calls(v) : \A j \in calls(v) : j <= k
  IN  [v \in {v \in Passed(I) : calls(v) # {}} |-> MergeValues(state[v], TaintedAt({users[F][last(v)]}))]

\* the blocks that a visit of I marks executable: the callee's first one, and those in
\* which the function of a store is called, if the store writes through a formal
Marked(I) ==
  IF CallsDefined(P, I) /\ ~IsSource(P, I) THEN {P.entry[P.inst[I].callee]}
  ELSE IF Op(P, I) = "store" /\ AffectedFormals(P, I) # {}
  THEN {P.blockOf[U] : U \in Callers(P.fnOf[I])}
  ELSE {}

\* a slip, for the mutants: where the values were tainted before is forgotten
TaintAfresh(V, I) == [v \in V |-> TaintedAt({I})]

\* the values in V become tainted at I as well
Taint(V, I) == [v \in V |-> MergeValues(state[v], TaintedAt({I}))]

\* ChangedValues after a visit of I
Changed(I) ==
  LET actuals == Actuals(I)
      values == Taint(TaintedBy(I), I)
  IN  [v \in DOMAIN actuals \cup DOMAIN values \cup SetTainted(I) |->
         IF v \in DOMAIN actuals THEN actuals[v]
         ELSE IF v \in DOMAIN values THEN values[v]
         ELSE Everywhere]

-------------------------------------------------------------------------------
(***************************************************************************)
(* TaintSolver.  agenda is what the current round of Solve has still to    *)
(* do: <<"user", I>> visits I if its block is executable, <<"inst", I>>    *)
(* visits it in any case, and <<"edge", b, c>> is what visitTerminator     *)
(* does for a successor.  What the code takes from sets of pointers, and   *)
(* the blocks and edges it finds together, are taken in any order.         *)
(***************************************************************************)
\* runTP starts from the blocks with calls of taint sources
Init ==
  /\ prog \in DOMAIN Programs
  /\ limit \in P.limits
  /\ users \in P.useLists
  /\ state = [v \in Keys(P) |-> Undefined]
  /\ bbExecutable = {P.blockOf[I] : I \in {I \in P.insts : IsSource(P, I)}}
  /\ bbWorkList \in SetToSeqs(bbExecutable)
  /\ knownFeasibleEdges = {}
  /\ valueWorkList = <<>>
  /\ draining = "values"
  /\ agenda = <<>>
  /\ metadata = [I \in P.insts |-> {}]
  /\ done = FALSE

Each(do, s) == [k \in DOMAIN s |-> <<do, s[k]>>]

\* visitTerminator: an edge for each feasible successor, in some order
Edges(I) ==
  {[k \in DOMAIN succs |-> <<"edge", P.blockOf[I], succs[k]>>] : succs \in SetToSeqs(FeasibleSuccs(P, I))}

\* a value is popped: its users, in the order of its use list
TakeValue ==
  /\ ~done
  /\ agenda = <<>>
  /\ valueWorkList # <<>>
  /\ draining = "values" \/ bbWorkList = <<>>
  /\ draining' = "values"
  /\ agenda' = Each("user", users[Last(valueWorkList)])
  /\ valueWorkList' = Front(valueWorkList)
  /\ UNCHANGED <<prog, limit, users, state, bbExecutable, knownFeasibleEdges, bbWorkList, metadata, done>>

\* a block is popped: all its instructions
TakeBlock ==
  /\ ~done
  /\ agenda = <<>>
  /\ bbWorkList # <<>>
  /\ draining = "blocks" \/ valueWorkList = <<>>
  /\ draining' = "blocks"
  /\ agenda' = Each("inst", P.code[Last(bbWorkList)])
  /\ bbWorkList' = Front(bbWorkList)
  /\ UNCHANGED <<prog, limit, users, state, bbExecutable, knownFeasibleEdges, valueWorkList, metadata, done>>

\* a slip, for the mutants: blocks that are executable already are put on the work list again
MarkAgain(B) ==
  /\ bbExecutable' = bbExecutable \cup B
  /\ \E new \in SetToSeqs(B) : bbWorkList' = bbWorkList \o new

\* MarkBlockExecutable, for the blocks of B
MarkExecutable(B) ==
  /\ bbExecutable' = bbExecutable \cup B
  /\ \E new \in SetToSeqs(B \ bbExecutable) : bbWorkList' = bbWorkList \o new

\* a slip, for the mutants: a Return key has no value to put on the work list
UpdateStateOfValues(c) ==
  /\ state' = [v \in Keys(P) |-> IF v \in DOMAIN c THEN c[v] ELSE state[v]]
  /\ \E new \in SetToSeqs({v \in DOMAIN c \ P.fns : c[v] # state[v]}) :
       valueWorkList' = valueWorkList \o new

\* UpdateState, for everything in ChangedValues
UpdateState(c) ==
  /\ state' = [v \in Keys(P) |-> IF v \in DOMAIN c THEN c[v] ELSE state[v]]
  /\ \E new \in SetToSeqs({v \in DOMAIN c : c[v] # state[v]}) :
       valueWorkList' = valueWorkList \o new

Live(item) ==
  \/ item[1] = "inst"
  \/ item[1] = "user" /\ P.blockOf[item[2]] \in bbExecutable

\* visitInst, with visitTerminator behind it
VisitInst ==
  /\ agenda # <<>>
  /\ Live(Head(agenda))
  /\ LET I == Head(agenda)[2]
     IN  /\ MarkExecutable(Marked(I))
         /\ \E ChangedValues \in {Changed(I)} : UpdateState(ChangedValues)
         /\ \E edges \in Edges(I) : agenda' = edges \o Tail(agenda)
  /\ UNCHANGED <<prog, limit, users, knownFeasibleEdges, draining, metadata, done>>

\* the block of the user is not executable, or not yet
SkipUser ==
  /\ agenda # <<>>
  /\ Head(agenda)[1] = "user"
  /\ ~Live(Head(agenda))
  /\ agenda' = Tail(agenda)
  /\ UNCHANGED <<prog, limit, users, state, bbExecutable, knownFeasibleEdges, valueWorkList, bbWorkList,
                 draining, metadata, done>>

\* markEdgeExecutable: phis of a block that was executable before get a new operand
MarkEdgeExecutable ==
  /\ agenda # <<>>
  /\ Head(agenda)[1] = "edge"
  /\ LET edge == <<Head(agenda)[2], Head(agenda)[3]>>
         dest == edge[2]
     IN  /\ knownFeasibleEdges' = knownFeasibleEdges \cup {edge}
         /\ \/ /\ edge \in knownFeasibleEdges
               /\ agenda' = Tail(agenda)
               /\ UNCHANGED <<bbExecutable, bbWorkList>>
            \/ /\ edge \notin knownFeasibleEdges
               /\ dest \in bbExecutable
               /\ agenda' = Each("inst", PHIsOf(P, dest)) \o Tail(agenda)
               /\ UNCHANGED <<bbExecutable, bbWorkList>>
            \/ /\ edge \notin knownFeasibleEdges
               /\ dest \notin bbExecutable
               /\ MarkExecutable({dest})
               /\ agenda' = Tail(agenda)
  /\ UNCHANGED <<prog, limit, users, state, valueWorkList, draining, metadata, done>>

\* the solver has stopped: each instruction gets its tainted operands, and itself
Annotate ==
  /\ ~done
  /\ <<agenda, valueWorkList, bbWorkList>> = <<<<>>, <<>>, <<>>>>
  /\ metadata' = [I \in P.insts |->
                    {v \in ({I} \cup ToSet(Args(P, I))) \ P.consts : TaintReaches(v, I)}]
  /\ done' = TRUE
  /\ UNCHANGED <<prog, limit, users, state, bbExecutable, knownFeasibleEdges, valueWorkList, bbWorkList,
                 draining, agenda>>

Next == TakeValue \/ TakeBlock \/ VisitInst \/ SkipUser \/ MarkEdgeExecutable \/ Annotate

Spec == Init /\ [][Next]_vars /\ WF_vars(Next)

-------------------------------------------------------------------------------
(***************************************************************************)
(* What the solver promises.                                               *)
(***************************************************************************)
Items == ({"user", "inst"} \X P.insts) \cup ({"edge"} \X Blocks(P) \X Blocks(P))

\* The type invariant: no value is tainted at more instructions than the bound of
\* MaxInstructionsPerValue allows, and one that is not tainted keeps none of them.
TypeOK ==
  /\ prog \in DOMAIN Programs
  /\ limit \in P.limits
  /\ users \in P.useLists
  /\ DOMAIN state = Keys(P)
  /\ \A v \in Keys(P) :
       /\ state[v] \in [is : {"Undefined", "Tainted", "Overdefined"}, at : SUBSET P.insts]
       /\ state[v].is # "Tainted" => state[v].at = {}
       /\ Cardinality(state[v].at) <= limit
  /\ bbExecutable \subseteq Blocks(P)
  /\ knownFeasibleEdges \subseteq Blocks(P) \X Blocks(P)
  /\ valueWorkList \in Seq(Keys(P))
  /\ bbWorkList \in Seq(Blocks(P))
  /\ draining \in {"values", "blocks"}
  /\ agenda \in Seq(Items)
  /\ \A I \in P.insts : metadata[I] \subseteq {I} \cup ToSet(Args(P, I))
  /\ done \in BOOLEAN

\* reachable, with its dominators and iterated frontiers, finds a definition to reach
\* another instruction of the function exactly when there is a path from one to the other,
\* if the entry leads to both: a definition in dead code reaches nothing by this test.
ReachableIsPath ==
  done =>
    \A D, I \in P.insts :
      D # I /\ P.fnOf[D] = P.fnOf[I] /\ InTree(P, P.blockOf[D]) /\ InTree(P, P.blockOf[I]) =>
        (Reachable(P, {D}, I) <=> HasPath(P, D, I))

\* While no value has reached the bound, the annotations are the tainted operands that the
\* README shows or the test case asks for, whatever order the work lists took.
AnnotatesAsDocumented ==
  done /\ limit > Cardinality(P.insts) => \A I \in DOMAIN P.expected : metadata[I] = P.expected[I]

\* To visit I once more would change no value and make no block executable.  There are two
\* exceptions: a formal that a write or a call taints is tainted, though not always where
\* that visit would say, and a store learns nothing of a formal that is tainted after it for
\* another reason, so that there may be an argument that it still has to taint.
Settled(I) ==
  /\ Marked(I) \subseteq bbExecutable
  /\ \A v \in DOMAIN Changed(I) :
       \/ Changed(I)[v] = state[v]
       \/ v \in Formals(P) /\ state[v] # Undefined
       \/ v \in Passed(I)

\* When the work lists are empty the solution is one: no executable instruction has
\* anything left to do.
SolvedAtRest == done => \A I \in P.insts : P.blockOf[I] \in bbExecutable => Settled(I)

\* Taint is never taken back: what is tainted stays so, at all the instructions it was,
\* unless the bound makes it overdefined, and what is overdefined stays that.  Of this, a formal
\* only stays tainted or overdefined: a call sets it anew to tainted everywhere (l.752), which
\* a merge then narrows (l.447).
TaintIsKept ==
  [][/\ \A v \in Keys(P) : state[v] # Undefined => state'[v] # Undefined
     /\ \A v \in Keys(P) \ Formals(P) :
          /\ IsTainted(v) => state'[v] = Overdefined \/ state[v].at \subseteq state'[v].at
          /\ state[v] = Overdefined => state'[v] = Overdefined]_state

\* "Process the work lists until they are empty!": Solve comes to that point.
Termination == <>done

===============================================================================
