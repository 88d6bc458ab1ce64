-------------------------------- MODULE CVisitor --------------------------------
(***************************************************************************)
(* The order in which the C interpreter does things: InterpreterVisitor    *)
(* and, of the environment, the frames as CFrames sees them; nothing is    *)
(* said of the rest.  What an expression evaluates to, and which values    *)
(* the evaluation keeps, is left open.                                     *)
(*                                                                         *)
(* The visitor's recursion is the agenda: what is still to be done, next   *)
(* first.  A visit puts what it calls on the agenda, in order: visits of   *)
(* other nodes, "wrap" (VisitStmtWrap, the children), "handle" (the call   *)
(* of the environment), "leave" (what follows the body of a callee),       *)
(* "popExpr" and "test" (the loop of a for).                               *)
(***************************************************************************)
EXTENDS CFrames

vars == <<prog, agenda, frames>>

-------------------------------------------------------------------------------
(* The steps of the visitor *)

NewFrame(held) == [held |-> held, exprs |-> {}, returned |-> FALSE]

Depth == Len(frames)
Top == frames[Depth]

Init ==
  /\ prog \in Programs
  /\ agenda = Visits(Kids(BodyOf(Code, "main")))
  /\ Len(frames) = 1
  /\ frames[1].exprs \subseteq UNION {Part(Kid(1, i)) : i \in {j \in DOMAIN Kids(1) : K(Kid(1, j)) = "var"}}
  /\ frames = <<[NewFrame(Globals) EXCEPT !.exprs = frames[1].exprs]>>

Visiting(kinds) == IsNext("visit") /\ K(Node) \in kinds

\* the task at hand is replaced by what it calls
Perform(tasks) ==
  /\ agenda' = tasks \o Tail(agenda)
  /\ UNCHANGED prog

\* the expressions whose value the frame at hand keeps after the step: those of before, and
\* any of what is evaluated
Kept == frames'[Depth].exprs
Evaluate(what) == Top.exprs \subseteq Kept /\ Kept \subseteq Top.exprs \cup what
Evaluated == [frames EXCEPT ![Depth].exprs = Kept]

VisitStmt ==
  /\ Visiting({"block", "paren", "cast", "lit", "ref", "sizeof", "var", "array"})
  /\ Perform(Visits(Children(Node)))
  /\ UNCHANGED frames

VisitStmtWrap ==
  /\ IsNext("wrap")
  /\ Perform(IF Top.returned THEN <<>> ELSE Visits(Children(Node)))
  /\ UNCHANGED frames

VisitHandled ==
  /\ Visiting({"index", "decls", "neg", "deref", "bin", "asg", "call"})
  /\ Perform(<< <<"wrap", Node>>, <<"handle", Node>> >>)
  /\ UNCHANGED frames

VisitReturnStmt ==
  /\ Visiting({"return"})
  /\ Perform(IF Top.returned THEN <<>> ELSE << <<"wrap", Node>>, <<"handle", Node>> >>)
  /\ UNCHANGED frames

Handle ==
  /\ IsNext("handle")
  /\ ~ CallsFunction(Node)
  /\ Perform(<<>>)
  /\ Evaluate(Part(Node))
  /\ frames' = [frames EXCEPT ![Depth] =
       [held |-> @.held \cup (IF K(Node) = "decls" THEN Declared(Kids(Node)) ELSE {}),
        exprs |-> Kept,
        returned |-> @.returned \/ K(Node) = "return"]]

\* the arguments, a frame with the parameters, the body
EnterFunction ==
  /\ IsNext("handle")
  /\ CallsFunction(Node)
  /\ Perform(<< <<"wrap", BodyOf(Code, X(Node))>>, <<"leave", Node>> >>)
  /\ Evaluate(Part(Node))
  /\ frames' = Append(Evaluated, NewFrame(Range(ParamsOf(Code, X(Node)))))

LeaveCall ==
  /\ IsNext("leave")
  /\ Perform(<<>>)
  /\ frames' = [Front(frames) EXCEPT ![Depth - 1].exprs = @ \cup {Node}]

VisitIfStmt ==
  /\ Visiting({"if"})
  /\ \E branch \in {<<Kid(Node, 2)>>, SubSeq(Kids(Node), 3, Len(Kids(Node)))} :
       Perform(Visits(branch) \o << <<"popExpr", Node>> >>)
  /\ Evaluate(Part(Kid(Node, 1)))
  /\ frames' = Evaluated

VisitWhileStmt ==
  /\ Visiting({"while"})
  /\ \E again \in BOOLEAN :
       Perform(IF again THEN << <<"wrap", Kid(Node, 2)>>, <<"popExpr", Node>>, <<"visit", Node>> >>
                        ELSE <<>>)
  /\ Evaluate(Part(Kid(Node, 1)))
  /\ frames' = Evaluated

VisitForStmt ==
  /\ Visiting({"for"})
  /\ Perform(<< <<"visit", Kid(Node, 1)>>, <<"test", Node>> >>)
  /\ UNCHANGED frames

TestFor ==
  /\ IsNext("test")
  /\ \E again \in BOOLEAN :
       Perform(IF again THEN << <<"wrap", Kid(Node, 4)>>, <<"visit", Kid(Node, 3)>>,
                                <<"popExpr", Node>>, <<"test", Node>> >>
                        ELSE <<>>)
  /\ Evaluate(Part(Kid(Node, 2)))
  /\ frames' = Evaluated

PopExpr ==
  /\ IsNext("popExpr")
  /\ Perform(<<>>)
  /\ frames' = [frames EXCEPT ![Depth].exprs = {}]

Next ==
  \/ VisitStmt
  \/ VisitStmtWrap
  \/ VisitHandled
  \/ VisitReturnStmt
  \/ Handle
  \/ EnterFunction
  \/ LeaveCall
  \/ VisitIfStmt
  \/ VisitWhileStmt
  \/ VisitForStmt
  \/ TestFor
  \/ PopExpr

Spec == Init /\ [][Next]_vars

-------------------------------------------------------------------------------
(* Properties *)

\* The agenda names nodes, a call is left that entered a function of the program, and frames
\* have variables of the program and values of its nodes.
TypeOK ==
  /\ prog \in Programs
  /\ agenda \in Seq({"visit", "wrap", "handle", "leave", "popExpr", "test"} \X DOMAIN Code)
  /\ \A i \in DOMAIN agenda :
       /\ agenda[i][1] = "leave" => CallsFunction(agenda[i][2])
       /\ agenda[i][1] = "test"  => K(agenda[i][2]) = "for"
  /\ frames \in Seq([held : SUBSET {X(n) : n \in DOMAIN Code}, exprs : SUBSET DOMAIN Code,
                     returned : BOOLEAN])
  /\ frames # <<>>

===============================================================================
