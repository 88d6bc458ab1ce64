-------------------------------- MODULE CFrames --------------------------------
(***************************************************************************)
(* The stack frames of the C interpreter and what its visitor has still to *)
(* do: what the environment as a whole (CInterpreter) and the order in     *)
(* which it is called (CVisitor) have in common, and the properties that   *)
(* relate the two.                                                         *)
(***************************************************************************)
EXTENDS CAst, FiniteSets

VARIABLES
  prog,
  agenda,   \* the visitor's recursion: what is still to be done, next first
  env       \* Environment

Code == prog.code
K(n) == Code[n].k
X(n) == Code[n].x
Kids(n) == Code[n].kids
Kid(n, i) == Kids(n)[i]
Part(n) == Within(Code, n)

\* the variables among the declarations ds
Declared(ds) == {X(ds[i]) : i \in {j \in DOMAIN ds : K(ds[j]) \in {"var", "array"}}}
Globals == Declared(Kids(1))

CallsFunction(n) == K(n) = "call" /\ X(n) \notin Builtins

\* a variable of a declaration statement stands for its initializer
Children(n) == IF K(n) = "array" THEN <<>> ELSE Kids(n)

Visits(ns) == [i \in DOMAIN ns |-> <<"visit", ns[i]>>]
IsNext(what) == agenda # <<>> /\ Head(agenda)[1] = what
Node == Head(agenda)[2]

\* stack_frames_: of each frame the variables it has, the expressions whose value it keeps and
\* whether its function has returned
frames ==
  [f \in DOMAIN env.frames |->
     [held |-> DOMAIN env.frames[f].varmap, exprs |-> DOMAIN env.frames[f].exprmap,
      returned |-> env.frames[f].ret # <<>>]]

-------------------------------------------------------------------------------
(* Properties *)

\* the place of the frame in which the tasks a are when the i-th of them is next
IsLeave(a, i) == a[i][1] = "leave"
FrameAt(a, i) == 1 + Cardinality({j \in i..Len(a) : IsLeave(a, j)})

\* the variables that a function declares
DeclaredIn(f) == {X(d) : d \in {e \in Part(FunctionOf(Code, f)) : K(e) \in {"var", "array"}}}

\* There is a frame for main and one for each call between its frame's being pushed and popped,
\* in that order, and it holds variables of that function only, its parameters from the
\* beginning: a lookup through the frames can then find a variable of another function only
\* where there is a global one (Environment.h:326-339, 449-460, ASTInterpreter.cpp:84-87).
FramesMatchCalls ==
  /\ Len(frames) = FrameAt(agenda, 1)
  /\ Globals \subseteq frames[1].held /\ frames[1].held \subseteq Globals \cup DeclaredIn("main")
  /\ \A i \in DOMAIN agenda : IsLeave(agenda, i) =>
       LET held == frames[FrameAt(agenda, i)].held
           f == X(agenda[i][2])
       IN  Range(ParamsOf(Code, f)) \subseteq held /\ held \subseteq DeclaredIn(f)

\* No value kept of an expression is there when the expression is to be evaluated anew: not when
\* a visit of it or of the statement around it begins, not when a for tests its condition again.
\* push never overwrites, so the old value would be taken (util.h:64-72, Environment.h:389-393).
NothingStale ==
  LET anew == IF IsNext("visit") THEN Part(Node)
              ELSE IF IsNext("test") THEN Part(Kid(Node, 2))
              ELSE {}
  IN  anew \cap frames[Len(frames)].exprs = {}

===============================================================================
