------------------------------ MODULE CInterpreter ------------------------------
(***************************************************************************)
(* The C interpreter: InterpreterVisitor walks the syntax tree of main and *)
(* of what it calls, Environment keeps stack frames and heap.              *)
(*                                                                         *)
(* The visitor's recursion is the agenda of module CVisitor, which this    *)
(* module implements.  The recursion of EvaluateExpr through the handlers  *)
(* is a list too, of what is under evaluation.                             *)
(*                                                                         *)
(* A failed assertion stops the program, and so does undefined behaviour:  *)
(* nothing is said of what comes after it.                                 *)
(***************************************************************************)
EXTENDS CFrames

\* env is a record [frames: stack_frames_, each [varmap, exprmap, ret]; heap: the addresses in
\* heap_; mem: the allocated cells; blocks: what malloc gave, with its cells; brk: where it
\* goes on; input; output; fault: "none", "assertion" or "undefined"]
vars == <<prog, agenda, env>>

-------------------------------------------------------------------------------
(* StackFrame and Heap (util.h) *)

\* the map f with a value for x, unless it has one
Added(f, x, v) == [y \in DOMAIN f \cup {x} |-> IF y \in DOMAIN f THEN f[y] ELSE v]

NewFrame == [varmap |-> EmptyMap, exprmap |-> EmptyMap, ret |-> <<>>]

Depth(s) == Len(s.frames)
Top(s) == s.frames[Depth(s)]
HasExpr(e, s) == e \in DOMAIN Top(s).exprmap

\* exprmap_.emplace: what is there stays
PushExpr(e, v, s) == [s EXCEPT !.frames[Depth(s)].exprmap = Added(@, e, v)]

\* varmap_.insert: entries for the declaration, found before those it has
PushEntries(d, vs, s) ==
  [s EXCEPT !.frames[Depth(s)].varmap =
     [c \in DOMAIN @ \cup {d} |->
        (IF c = d THEN vs ELSE <<>>) \o (IF c \in DOMAIN @ THEN @[c] ELSE <<>>)]]

PushVar(d, v, s)   == PushEntries(d, <<v>>, s)
PushArray(d, n, s) == PushEntries(d, [i \in 1..n |-> 0], s)

Fault(why, s) == IF s.fault = "none" THEN [s EXCEPT !.fault = why] ELSE s
Check(holds, s) == IF holds THEN s ELSE Fault("assertion", s)

\* a value and the environment its evaluation leaves
With(v, s) == [v |-> v, s |-> s]

\* varDeclared: the topmost frame that has the declaration, or 0
FramesWith(d, s) == {f \in 1..Depth(s) : d \in DOMAIN s.frames[f].varmap}
VarDeclared(d, s) == IF FramesWith(d, s) = {} THEN 0 ELSE Max(FramesWith(d, s))

\* get(D): just one entry; get(D, i): an entry i
GetVar(d, s) ==
  LET f == VarDeclared(d, s)
      entries == s.frames[f].varmap[d]
  IN  IF f = 0 THEN With(0, s) ELSE With(entries[1], Check(Len(entries) = 1, s))

GetElement(d, i, s) ==
  LET entries == s.frames[VarDeclared(d, s)].varmap[d]
      inside == i >= 0 /\ i < Len(entries)
  IN  With(IF inside THEN entries[i + 1] ELSE 0, Check(inside, s))

SetVar(d, v, s) ==
  LET t == GetVar(d, s).s
  IN  IF VarDeclared(d, s) = 0 THEN s ELSE [t EXCEPT !.frames[VarDeclared(d, s)].varmap[d][1] = v]

SetElement(d, i, v, s) ==
  LET t == GetElement(d, i, s).s
  IN  IF t.fault # "none" THEN t ELSE [t EXCEPT !.frames[VarDeclared(d, s)].varmap[d][i + 1] = v]

\* heap_.get, and an access through the pointer
GetCell(a, s) ==
  LET t == Check(a \in s.heap, s)
  IN  IF a \in DOMAIN t.mem THEN With(t.mem[a], t) ELSE With(0, Fault("undefined", t))

SetCell(a, v, s) ==
  LET t == GetCell(a, s).s
  IN  IF t.fault # "none" THEN t ELSE [t EXCEPT !.mem[a] = v]

\* malloc gives cells of its own each time; heap_ learns where they begin.  There is no memory
\* for a size below zero, which is a very large one to malloc, and memset writes all the same.
Fresh(size, s) ==
  LET cells == {s.brk + CellSize * i : i \in 0..((size \div CellSize) - 1)}
  IN  [s EXCEPT !.mem = [a \in DOMAIN @ \cup cells |-> IF a \in cells THEN 0 ELSE @[a]],
                !.blocks = Added(@, s.brk, cells), !.brk = @ + size + CellSize]

\* heap_.push is forgotten: used by a mutant
MallocUnregistered(size, s) ==
  IF size < 0 THEN With(0, Fault("undefined", s)) ELSE With(s.brk, Fresh(size, s))

Malloc(size, s) ==
  IF size < 0 THEN With(0, Fault("undefined", s))
              ELSE With(s.brk, [Fresh(size, s) EXCEPT !.heap = @ \cup {s.brk}])

\* free; heap_ keeps the address
Free(a, s) ==
  LET t == Check(a \in s.heap, s)
  IN  IF a \notin DOMAIN t.blocks THEN Fault("undefined", t)
      ELSE [t EXCEPT !.mem = [c \in DOMAIN @ \ t.blocks[a] |-> @[c]],
                     !.blocks = [b \in DOMAIN @ \ {a} |-> @[b]]]

-------------------------------------------------------------------------------
(***************************************************************************)
(* The handlers (Environment.h).  Each evaluates some parts of its node,   *)
(* its operands, and then operates on their values, which are v.           *)
(***************************************************************************)

\* in the order of the calls of EvaluateExpr
Operands(n, s) ==
  LET l == Kid(n, 1)
  IN  CASE K(n) \in {"bin", "neg", "deref", "paren", "cast", "var", "decls", "return", "call"} -> Kids(n)
        [] K(n) = "index" -> <<Kid(n, 2)>>
        [] K(n) = "asg" /\ K(l) = "ref" /\ VarDeclared(X(l), s) # 0 -> <<Kid(n, 2)>>
        [] K(n) = "asg" /\ K(l) = "deref" -> <<Kid(l, 1), Kid(n, 2)>>
        [] K(n) = "asg" /\ K(l) = "index" -> <<Kid(l, 2), Kid(n, 2)>>
        [] OTHER -> <<>>

HandleAssign(n, v, s) ==
  LET l == Kid(n, 1)
      r == v[Kid(n, 2)]
      d == X(Kid(l, 1))
  IN  CASE K(l) = "ref" /\ VarDeclared(X(l), s) # 0 -> PushExpr(n, r, SetVar(X(l), r, s))
        [] K(l) = "deref" -> PushExpr(n, r, SetCell(v[Kid(l, 1)], r, s))
        [] K(l) = "index" ->
             PushExpr(n, r, IF VarDeclared(d, s) = 0 THEN s ELSE SetElement(d, v[Kid(l, 2)], r, s))
        [] OTHER -> s

\* the address is not registered: used by a mutant
HandleOffsetOnly(n, v, s) ==
  PushExpr(n, Binary(X(n), v[Kid(n, 1)], v[Kid(n, 2)]), Check(v[Kid(n, 1)] \in s.heap, s))

\* a pointer that arithmetic yields is registered like one that malloc yields
HandleOffset(n, v, s) ==
  LET p == Binary(X(n), v[Kid(n, 1)], v[Kid(n, 2)])
      t == Check(v[Kid(n, 1)] \in s.heap, s)
  IN  PushExpr(n, p, [t EXCEPT !.heap = @ \cup {p}])

HandleBinOp(n, v, s) ==
  CASE K(n) = "asg" -> HandleAssign(n, v, s)
    [] K(n) = "bin" /\ X(n) \in {"p+", "p-"} -> HandleOffset(n, v, s)
    [] K(n) = "bin" /\ X(n) = "/" /\ v[Kid(n, 2)] = 0 -> Fault("undefined", s)
    [] OTHER -> PushExpr(n, Binary(X(n), v[Kid(n, 1)], v[Kid(n, 2)]), s)

HandleUnaryOp(n, v, s) ==
  LET a == v[Kid(n, 1)]
      c == GetCell(a, s)
  IN  IF K(n) = "neg" THEN PushExpr(n, -a, s) ELSE PushExpr(n, c.v, c.s)

HandleArraySubscriptExpr(n, v, s) ==
  LET d == X(Kid(n, 1))
      e == GetElement(d, v[Kid(n, 2)], s)
  IN  IF VarDeclared(d, s) = 0 THEN s ELSE PushExpr(n, e.v, e.s)

HandleVarDecl(n, v, s) ==
  IF K(n) = "array" THEN PushArray(X(n), Code[Kid(n, 1)].v, s)
                    ELSE PushVar(X(n), IF Kids(n) = <<>> THEN 0 ELSE v[Kid(n, 1)], s)

HandleReturnStmt(n, v, s) == [s EXCEPT !.frames[Depth(s)].ret = <<v[Kid(n, 1)]>>]

\* a failed read yields 0
Get(s) == With(IF s.input = <<>> THEN 0 ELSE Head(s.input),
               [s EXCEPT !.input = IF @ = <<>> THEN @ ELSE Tail(@)])

\* a new frame with the parameters
PushFrame(n, v, s) ==
  LET ps == ParamsOf(Code, X(n))
      argument(d) == Kid(n, CHOOSE i \in DOMAIN ps : ps[i] = d)
  IN  [s EXCEPT !.frames =
         Append(@, [NewFrame EXCEPT !.varmap = [d \in Range(ps) |-> <<v[argument(d)]>>]])]

HandleCallExpr(n, v, s) ==
  LET arg == v[Kid(n, 1)]
      got == Get(s)
      new == Malloc(arg, s)
  IN  CASE X(n) = "GET"    -> PushExpr(n, got.v, got.s)
        [] X(n) = "PRINT"  -> [s EXCEPT !.output = Append(@, arg)]
        [] X(n) = "MALLOC" -> PushExpr(n, new.v, new.s)
        [] X(n) = "FREE"   -> Free(arg, s)
        [] OTHER -> PushFrame(n, v, s)

\* HandleDeclStmt does no more than call HandleVarDecl
Operate(n, v, s) ==
  CASE K(n) \in {"bin", "asg"}   -> HandleBinOp(n, v, s)
    [] K(n) \in {"neg", "deref"} -> HandleUnaryOp(n, v, s)
    [] K(n) = "index"  -> HandleArraySubscriptExpr(n, v, s)
    [] K(n) = "sizeof" -> PushExpr(n, CellSize, s)
    [] K(n) = "ref"    -> GetVar(X(n), s).s
    [] K(n) \in {"var", "array"} -> HandleVarDecl(n, v, s)
    [] K(n) = "return" -> HandleReturnStmt(n, v, s)
    [] K(n) = "call"   -> HandleCallExpr(n, v, s)
    [] OTHER -> s

-------------------------------------------------------------------------------
(***************************************************************************)
(* EvaluateExpr.  Its recursion through the handlers is a list, as that of *)
(* the visitor is: todo is what is under evaluation, innermost first.      *)
(***************************************************************************)

\* The top frame has the value already; or it should: a call or an element of an array that was
\* not visited before is 0.
NotHandled(n, s) == HasExpr(n, s) \/ K(n) \in {"call", "index"}

ValueOf(n, v, s) ==
  CASE HasExpr(n, s) -> Top(s).exprmap[n]
    [] K(n) = "lit"  -> Code[n].v
    [] K(n) = "ref"  -> GetVar(X(n), s).v
    [] K(n) \in {"paren", "cast"} -> v[Kid(n, 1)]
    [] OTHER -> 0

\* n, which is under evaluation, asks for the first operand that has no value yet or is done
Turn(r) ==
  LET n == Head(r.todo)
      asked == Operands(n, r.s)
      open == IF NotHandled(n, r.s) THEN {} ELSE {i \in DOMAIN asked : asked[i] \notin DOMAIN r.v}
      s == IF NotHandled(n, r.s) THEN r.s ELSE Operate(n, r.v, r.s)
  IN  IF r.todo = <<>> THEN r
      ELSE IF open # {} THEN [r EXCEPT !.todo = <<asked[Min(open)]>> \o @]
      ELSE [todo |-> Tail(r.todo), v |-> Added(r.v, n, ValueOf(n, r.v, s)), s |-> s]

\* Turn(x); the set is there for TLC, which evaluates x once
TurnAfter(x) == CHOOSE t \in {Turn(r) : r \in {x}} : TRUE

Turns(ns, s) ==
  LET after[k \in Nat] == IF k = 0 THEN [todo |-> ns, v |-> EmptyMap, s |-> s]
                                   ELSE TurnAfter(after[k - 1])
  IN  after

\* what the evaluation of ns may come to
Involved(ns) == UNION {IF K(ns[i]) \in {"fun", "array"} THEN {ns[i]} ELSE Part(ns[i]) : i \in DOMAIN ns}

\* the nodes ns, in order; a node is asked for once and done once
Evaluate(ns, s) == Turns(ns, s)[2 * Cardinality(Involved(ns))]

EvaluateExpr(n, s) ==
  LET r == Evaluate(<<n>>, s)
  IN  With(r.v[n], r.s)

Handler(n, s) ==
  LET r == Evaluate(Operands(n, s), s)
  IN  Operate(n, r.v, r.s)

-------------------------------------------------------------------------------
(* InterpreterVisitor (ASTInterpreter.cpp) *)

Init ==
  /\ prog \in Programs
  /\ agenda = Visits(Kids(BodyOf(Code, "main")))
  /\ env = Evaluate(Kids(1),
              [frames |-> <<NewFrame>>, heap |-> {}, mem |-> EmptyMap, blocks |-> EmptyMap,
               brk |-> HeapBase, input |-> prog.input, output |-> <<>>, fault |-> "none"]).s

At(what) == IsNext(what) /\ env.fault = "none"
Visiting(kinds) == At("visit") /\ K(Node) \in kinds

\* the task at hand is replaced by what it calls
Perform(tasks, s) ==
  /\ agenda' = tasks \o Tail(agenda)
  /\ env' = s
  /\ UNCHANGED prog

Returned(s) == Top(s).ret # <<>>

VisitStmt ==
  /\ Visiting({"block", "paren", "cast", "lit", "ref", "sizeof", "var", "array"})
  /\ Perform(Visits(Children(Node)), env)

\* the children, unless the function has returned
VisitStmtWrap ==
  /\ At("wrap")
  /\ Perform(IF Returned(env) THEN <<>> ELSE Visits(Children(Node)), env)

\* the visits of array elements, declarations, unary and binary operators and calls
VisitHandled ==
  /\ Visiting({"index", "decls", "neg", "deref", "bin", "asg", "call"})
  /\ Perform(<< <<"wrap", Node>>, <<"handle", Node>> >>, env)

\* a return after the return: used by a mutant
VisitReturnAgain ==
  /\ Visiting({"return"})
  /\ Perform(<< <<"wrap", Node>>, <<"handle", Node>> >>, env)

VisitReturnStmt ==
  /\ Visiting({"return"})
  /\ Perform(IF Returned(env) THEN <<>> ELSE << <<"wrap", Node>>, <<"handle", Node>> >>, env)

\* a function's frame is pushed by the environment, its body walked by the visitor
Entering(n) ==
  IF CallsFunction(n) THEN << <<"wrap", BodyOf(Code, X(n))>>, <<"leave", n>> >> ELSE <<>>

Handle ==
  /\ At("handle")
  /\ Perform(Entering(Node), Handler(Node, env))

\* the frame stays: used by a mutant
LeaveFrame ==
  /\ At("leave")
  /\ LET ret == IF Returned(env) THEN ToInt(Top(env).ret[1]) ELSE 0
     IN  Perform(<<>>, PushExpr(Node, ret, env))

\* int ret = func_ret(); pop_back(); back().push(CE, ret)
LeaveCall ==
  /\ At("leave")
  /\ LET ret == IF Returned(env) THEN ToInt(Top(env).ret[1]) ELSE 0
     IN  Perform(<<>>, PushExpr(Node, ret, [env EXCEPT !.frames = Front(@)]))

VisitIfStmt ==
  /\ Visiting({"if"})
  /\ LET c == EvaluateExpr(Kid(Node, 1), env)
         branch == IF c.v # 0 THEN <<Kid(Node, 2)>>
                               ELSE SubSeq(Kids(Node), 3, Len(Kids(Node)))
     IN  Perform(Visits(branch) \o << <<"popExpr", Node>> >>, c.s)

VisitWhileStmt ==
  /\ Visiting({"while"})
  /\ LET c == EvaluateExpr(Kid(Node, 1), env)
         again == << <<"wrap", Kid(Node, 2)>>, <<"popExpr", Node>>, <<"visit", Node>> >>
     IN  Perform(IF c.v # 0 THEN again ELSE <<>>, c.s)

VisitForStmt ==
  /\ Visiting({"for"})
  /\ Perform(<< <<"visit", Kid(Node, 1)>>, <<"test", Node>> >>, env)

TestFor ==
  /\ At("test")
  /\ LET c == EvaluateExpr(Kid(Node, 2), env)
         again == << <<"wrap", Kid(Node, 4)>>, <<"visit", Kid(Node, 3)>>, <<"popExpr", Node>>,
                     <<"test", Node>> >>
     IN  Perform(IF c.v # 0 THEN again ELSE <<>>, c.s)

\* nothing is forgotten: used by mutants
KeepExpr ==
  /\ At("popExpr")
  /\ Perform(<<>>, env)

PopExpr ==
  /\ At("popExpr")
  /\ Perform(<<>>, [env EXCEPT !.frames[Depth(env)].exprmap = EmptyMap])

Next ==
  \/ VisitStmt
  \/ VisitStmtWrap
  \/ VisitHandled
  \/ VisitReturnStmt
  \/ Handle
  \/ LeaveCall
  \/ VisitIfStmt
  \/ VisitWhileStmt
  \/ VisitForStmt
  \/ TestFor
  \/ PopExpr

Spec == Init /\ [][Next]_vars

\* one thread, which runs as long as there is something to do
FairSpec == Spec /\ WF_vars(Next)

-------------------------------------------------------------------------------
(* Properties *)

Statements == {"block", "if", "while", "for", "return", "decls"}

\* The agenda names nodes; frames give declarations entries, one or more, and expressions
\* values, which are integers (an address is one), a return value included; every allocated
\* cell belongs to a block, and every block is registered with heap_, which forgets nothing
\* (util.h:11-20, 102-131, Environment.h:309-324).
TypeOK ==
  /\ \A i \in DOMAIN agenda :
       agenda[i] \in {"visit", "wrap", "handle", "leave", "popExpr", "test"} \X DOMAIN Code
  /\ env.fault \in {"none", "assertion", "undefined"}
  /\ env.frames # <<>>
  /\ \A i \in DOMAIN env.frames :
       LET f == env.frames[i]
       IN  /\ \A d \in DOMAIN f.varmap : f.varmap[d] \in Seq(Int) /\ f.varmap[d] # <<>>
           /\ \A e \in DOMAIN f.exprmap :
                K(e) \notin Statements \cup {"fun", "unit"} /\ f.exprmap[e] \in Int
           /\ f.ret \in Seq(Int)
  /\ DOMAIN env.mem = UNION {env.blocks[b] : b \in DOMAIN env.blocks}
  /\ DOMAIN env.blocks \subseteq env.heap

\* No assertion of util.h fails, no memory is used that is not allocated and nothing is divided
\* by zero, the program being one that C defines (util.h:38, 45, 80, 128).
NothingFails == env.fault = "none"

V == INSTANCE CVisitor

\* The visitor and the environment do what module CVisitor says they do: whatever an expression
\* evaluates to, each step takes the tasks, keeps the values and declares the variables that
\* the node at hand is responsible for, in the frame at hand (ASTInterpreter.cpp:32-137,
\* Environment.h:94-460).
ImplementsVisitor == V!Spec

\* The interpreter ends, as the program does.
EventuallyEnds == <>(agenda = <<>>)

===============================================================================
