----------------------------- MODULE MCCInterpreter -----------------------------
(***************************************************************************)
(* Programs for the C interpreter: those of c-ast-interpreter/test that do *)
(* more than one thing, and every sequence of up to MaxStatements          *)
(* statements of a small set, in main and in a function.                   *)
(***************************************************************************)
EXTENDS CInterpreter, CTree, TLC

CONSTANT MaxStatements

Plus(x, v) == Bin("+", Ref(x), Lit(v))
Less(x, v) == Bin("<", Ref(x), Lit(v))
Set(x, e)  == Asg(Ref(x), e)
Put(e)   == Call("PRINT", <<e>>)
Cells(n)   == Cast(Call("MALLOC", <<Bin("*", SizeOf, Lit(n))>>))
One        == Cast(Call("MALLOC", <<SizeOf>>))
At1(p)     == Deref(Paren(Bin("p+", Ref(p), Lit(1))))
Main(ss)   == Fun("main", <<>>, ss)
NoInit     == Block(<<>>)

\* c-ast-interpreter/test/testNN.c
Test05 == <<Main(<<Decls(<<Var("a")>>), Decls(<<VarIs("b", Lit(0))>>), Set("a", Lit(10)),
  While(Bin("<", Ref("b"), Ref("a")), Block(<<Set("b", Plus("b", 1))>>)), Put(Ref("b"))>>)>>

Test07 == <<Main(<<Decls(<<VarIs("a", Lit(0))>>),
  For(Set("a", Lit(0)), Less("a", 10), Set("a", Plus("a", 1)), Block(<<>>)), Put(Ref("a"))>>)>>

Test10 == <<Main(<<Decls(<<VarIs("a", Lit(0))>>), Decls(<<VarIs("b", Lit(0))>>),
  While(Less("a", 10), Block(<<Set("a", Plus("a", 1)),
    If(Bin(">", Ref("a"), Lit(5)), Set("b", Plus("b", 1)))>>)), Put(Ref("b"))>>)>>

Test11 == <<Main(<<Decls(<<Var("a"), Var("b"), Var("c")>>), Set("a", Lit(0)), Set("c", Lit(0)),
  While(Less("a", 3), Block(<<Set("a", Plus("a", 1)), Set("b", Lit(0)),
    While(Less("b", 3), Block(<<Set("b", Plus("b", 1)), Set("c", Plus("c", 1))>>))>>)),
  Put(Ref("c"))>>)>>

Test12 == <<Main(<<Decls(<<Array("a", 3)>>), Decls(<<Var("i")>>), Decls(<<VarIs("b", Lit(0))>>),
  For(Set("i", Lit(0)), Less("i", 3), Set("i", Plus("i", 1)),
      Block(<<Asg(Index("a", Ref("i")), Bin("*", Ref("i"), Ref("i")))>>)),
  Set("b", Index("a", Lit(2))), Put(Ref("b"))>>)>>

Test13 == <<Var("gb"), Fun("f", <<"x">>, <<Return(Plus("x", 10))>>),
  Main(<<Decls(<<Var("a")>>), Decls(<<Var("b")>>), Set("a", Neg(Lit(10))),
    IfElse(Bin(">", Ref("a"), Lit(0)), Set("b", Call("f", <<Ref("a")>>)),
           Set("b", Call("f", <<Neg(Ref("a"))>>))), Put(Ref("b"))>>)>>

Test14 == <<Fun("f", <<"x">>, <<Decls(<<VarIs("i", Lit(0))>>),
    While(Bin("<", Ref("i"), Ref("x")), Block(<<Set("i", Plus("i", 2))>>)), Return(Plus("i", 10))>>),
  Main(<<Decls(<<Var("a")>>), Decls(<<Var("b")>>), Set("a", Lit(1)),
    Set("b", Call("f", <<Ref("a")>>)), Put(Ref("b"))>>)>>

\* with the argument of the test and with one for which the first return is taken
Test15(arg) == <<Fun("f", <<"x">>, <<Decls(<<Array("a", 3)>>), Decls(<<VarIs("i", Lit(0))>>),
    For(NoInit, Less("i", 3), Set("i", Plus("i", 1)),
        Block(<<Asg(Index("a", Ref("i")), Bin("+", Ref("x"), Ref("i")))>>)),
    If(Bin(">", Ref("x"), Lit(0)), Return(Index("a", Lit(1)))), Return(Index("a", Lit(2)))>>),
  Main(<<Decls(<<Var("m")>>), Decls(<<Var("b")>>), Set("m", arg),
    Set("b", Call("f", <<Ref("m")>>)), Put(Ref("b"))>>)>>

Test16 == <<Fun("x", <<"y">>, <<Return(Plus("y", 10))>>),
  Fun("f", <<"b">>, <<Return(Bin("+", Call("x", <<Ref("b")>>), Lit(10)))>>),
  Main(<<Decls(<<Var("a")>>), Set("a", Lit(10)), Set("a", Call("f", <<Ref("a")>>)),
    Put(Ref("a")), Return(Lit(0))>>)>>

Test18 == <<Main(<<Decls(<<Var("a")>>), Decls(<<Var("b")>>), Decls(<<Var("c")>>),
  Set("a", Cells(2)), Set("b", One), Asg(Deref(Ref("b")), Ref("a")), Asg(Deref(Ref("a")), Lit(10)),
  Asg(At1("a"), Lit(20)), Set("c", Deref(Ref("b"))), Put(Deref(Ref("c"))), Put(At1("c")),
  Call("FREE", <<Ref("a")>>), Call("FREE", <<Cast(Ref("b"))>>)>>)>>

Test19 == <<Main(<<Decls(<<Var("a")>>), Decls(<<Var("b")>>), Decls(<<Array("c", 2)>>),
  Set("a", Cells(2)), Asg(Deref(Ref("a")), Lit(10)), Asg(At1("a"), Lit(20)),
  Asg(Index("c", Lit(0)), Ref("a")), Asg(Index("c", Lit(1)), Bin("p+", Ref("a"), Lit(1))),
  Put(Deref(Index("c", Lit(0)))), Put(Deref(Index("c", Lit(1))))>>)>>

Test20 == <<Fun("fib", <<"b">>, <<Decls(<<Var("c")>>), If(Less("b", 2), Return(Ref("b"))),
    Set("c", Bin("+", Call("fib", <<Bin("-", Ref("b"), Lit(1))>>),
                      Call("fib", <<Bin("-", Ref("b"), Lit(2))>>))), Return(Ref("c"))>>),
  Main(<<Decls(<<Var("a")>>), Set("a", Call("fib", <<Lit(4)>>)), Put(Ref("a")), Return(Lit(0))>>)>>

Test22 == <<Fun("get", <<"q">>, <<Return(Deref(Ref("q")))>>),
  Main(<<Decls(<<Var("a")>>), Decls(<<Var("b")>>), Set("a", One), Asg(Deref(Ref("a")), Lit(42)),
    Set("b", Call("get", <<Ref("a")>>)), Put(Ref("b")), Return(Lit(0))>>)>>

Test23 == <<Fun("swap", <<"a", "b">>, <<Decls(<<Var("temp")>>), Set("temp", Deref(Ref("a"))),
    Asg(Deref(Ref("a")), Deref(Ref("b"))), Asg(Deref(Ref("b")), Ref("temp"))>>),
  Main(<<Decls(<<Var("m"), Var("n")>>), Set("m", One), Set("n", One),
    Asg(Deref(Ref("n")), Lit(24)), Asg(Deref(Ref("m")), Lit(42)),
    Call("swap", <<Ref("m"), Ref("n")>>), Put(Deref(Ref("m"))), Put(Deref(Ref("n"))),
    Call("FREE", <<Ref("m")>>), Call("FREE", <<Ref("n")>>), Return(Lit(0))>>)>>

Test24 == <<Fun("mul", <<"x", "y">>, <<Return(Bin("*", Ref("x"), Ref("y")))>>),
  Fun("foo", <<"n">>, <<Decls(<<Var("r")>>), If(Less("n", 2), Return(Ref("n"))),
    Set("r", Bin("*", Ref("n"), Call("foo", <<Bin("-", Ref("n"), Lit(1))>>))), Return(Ref("r"))>>),
  Main(<<Decls(<<Var("c"), Var("d")>>), Set("c", Call("mul", <<Lit(2), Lit(2)>>)),
    Set("d", Call("foo", <<Ref("c")>>)), Put(Ref("d")), Return(Lit(0))>>)>>

Repository ==
  {Test05, Test07, Test10, Test11, Test12, Test13, Test14, Test15(Neg(Lit(10))), Test15(Lit(10)),
   Test16, Test18, Test19, Test20, Test22, Test23, Test24}

\* Statements over a global g, a local a, an array x of two and a pointer p to two cells.  The
\* function f changes g and returns from one of three places.
Statement ==
  {Set("g", Plus("g", 1)),
   Set("a", Call("f", <<Call("f", <<Ref("a")>>)>>)),
   Set("a", Call("GET", <<>>)),
   IfElse(Bin("==", Ref("a"), Lit(0)), Set("g", Call("f", <<Ref("g")>>)), Set("a", Neg(Ref("a")))),
   While(Less("a", 2), Block(<<Set("a", Plus("a", 1)), If(Less("g", 2), Set("g", Plus("g", 1))),
                               Put(Ref("a"))>>)),
   For(Set("a", Lit(0)), Less("a", 2), Set("a", Plus("a", 1)),
       Block(<<Asg(Index("x", Ref("a")), Bin("+", Index("x", Ref("a")), Call("f", <<Ref("a")>>)))>>)),
   Asg(Deref(Ref("p")), Bin("-", Deref(Ref("p")), Bin("/", Ref("g"), Lit(2)))),
   Asg(At1("p"), Asg(Index("x", Lit(1)), Bin("*", At1("p"), Ref("a")))),
   Set("p", Bin("p-", Paren(Bin("p+", Ref("p"), Lit(1))), Lit(1)))}

F == Fun("f", <<"y">>,
  <<Decls(<<VarIs("z", Plus("y", 1))>>), Set("g", Bin("+", Ref("g"), Ref("z"))),
    If(Bin(">", Ref("g"), Lit(4)), Block(<<Set("g", Lit(0)), Return(Ref("z"))>>)),
    If(Less("y", 1), Return(Bin("+", Ref("y"), Ref("g")))), Return(Lit(1))>>)

Around(ss) ==
  <<Decls(<<Var("a"), Var("p")>>), Decls(<<Array("x", 2)>>), Set("p", Cells(2))>> \o ss
    \o <<Put(Ref("a")), Put(Bin("+", Deref(Ref("p")), At1("p"))), Put(Index("x", Lit(1)))>>

InMain(ss) == <<VarIs("g", Lit(1)), F, Main(Around(ss) \o <<Put(Ref("g"))>>)>>

InFunction(ss) ==
  <<VarIs("g", Lit(1)), F, Fun("h", <<"n">>, Around(ss) \o <<Return(Ref("n"))>>),
    Main(<<Put(Bin("+", Call("h", <<Lit(2)>>), Call("f", <<Ref("g")>>)))>>)>>

Sequences(n) == UNION {[1..i -> Statement] : i \in 0..n}

Run(unit, input) == [code |-> Program(Unit(unit)), input |-> input]

RepositoryRuns == {Run(u, <<>>) : u \in Repository}
SequenceRuns ==
  UNION {{Run(InMain(ss), <<2>>), Run(InFunction(ss), <<2>>)} : ss \in Sequences(MaxStatements)}

MCPrograms == RepositoryRuns \cup SequenceRuns

\* a function that has a statement behind the return that it takes
EarlyReturn ==
  {Run(<<VarIs("g", Lit(0)),
         Fun("f", <<"x">>, <<If(Bin(">", Ref("x"), Lit(0)), Return(Lit(1))), Set("g", Lit(5)),
                             Return(Lit(2))>>),
         Main(<<Put(Call("f", <<Lit(1)>>)), Put(Ref("g"))>>)>>, <<>>)}
-------------------------------------------------------------------------------
(* Properties *)

C == INSTANCE CSemantics WITH code <- prog.code, input <- prog.input

\* The program prints what the language says it prints: at any time the beginning of it, and
\* all of it in the end.  Values are kept per expression, statements are skipped by a flag and
\* names are looked up through the frames, where C evaluates, jumps and has scopes
\* (Environment.h:387-460, ASTInterpreter.cpp:32-137).
PrintsWhatCPrints ==
  /\ IsPrefix(env.output, C!Output)
  /\ agenda = <<>> => env.output = C!Output

===============================================================================
