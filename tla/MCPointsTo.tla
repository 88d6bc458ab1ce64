------------------------------ MODULE MCPointsTo ------------------------------
(***************************************************************************)
(* Programs for the points-to pass: test cases of the repository in SSA    *)
(* form (clang -O0, then mem2reg, as its README says), with the call graph *)
(* stated at the end of each test case, and small programs of the shapes   *)
(* the test cases leave out.                                               *)
(***************************************************************************)
EXTENDS PointsTo, TLC

\* a program from its functions' formals, its blocks [fn, code, succs] with
\* code a sequence of <<name, instruction>>, and the entry blocks
Program(params, entry, body, expected) ==
  LET all == UNION {ToSet(body[b].code) : b \in DOMAIN body}
  IN  [fns      |-> DOMAIN params,
       decls    |-> DOMAIN params \ DOMAIN entry,
       params   |-> params,
       blocks   |-> [F \in DOMAIN params |-> {b \in DOMAIN body : body[b].fn = F}],
       entry    |-> entry,
       code     |-> [b \in DOMAIN body |-> [k \in DOMAIN body[b].code |-> body[b].code[k][1]]],
       succs    |-> [b \in DOMAIN body |-> body[b].succs],
       preds    |-> [b \in DOMAIN body |-> {p \in DOMAIN body : b \in body[p].succs}],
       insts    |-> {p[1] : p \in all},
       fnOf     |-> [i \in {p[1] : p \in all} |->
                      body[CHOOSE b \in DOMAIN body : i \in {p[1] : p \in ToSet(body[b].code)}].fn],
       inst     |-> [i \in {p[1] : p \in all} |-> (CHOOSE p \in all : p[1] = i)[2]],
       expected |-> expected]

I == NonPtr

Br               == [op |-> "br"]
Alloca           == [op |-> "alloca"]
Ret(v)           == [op |-> "ret", val |-> v]
Gep(p)           == [op |-> "gep", ptr |-> p]
Load(p)          == [op |-> "load", ptr |-> p]
Store(v, p)      == [op |-> "store", val |-> v, ptr |-> p]
Phi(V)           == [op |-> "phi", vals |-> V]
BitCast(p)       == [op |-> "bitcast", ptr |-> p]
MemCpy(d, s)     == [op |-> "memcpy", dst |-> d, src |-> s]
CallAt(l, f, as) == [op |-> "call", callee |-> f, args |-> as, line |-> l]

\* plus and minus of every test case: two integers in, an integer out
ArithFns    == "plus" :> <<I, I>> @@ "minus" :> <<I, I>>
ArithEntry  == "plus" :> "p" @@ "minus" :> "m"
ArithBlocks == "p" :> [fn |-> "plus",  code |-> <<<<"pr", Ret(I)>>>>, succs |-> {}] @@
               "m" :> [fn |-> "minus", code |-> <<<<"mr", Ret(I)>>>>, succs |-> {}]

-------------------------------------------------------------------------------

\* testcase/test00.c: a function pointer through a callee's formal
Test00 == Program(
  ArithFns @@ "foo" :> <<I, I, "a_fptr">> @@ "moo" :> <<I>>,
  ArithEntry @@ "foo" :> "f" @@ "moo" :> "m0",
  ArithBlocks @@
  "f"  :> [fn |-> "foo", succs |-> {}, code |->
            <<<<"c14", CallAt(14, "a_fptr", <<I, I>>)>>, <<"fr", Ret(I)>>>>] @@
  "m0" :> [fn |-> "moo", succs |-> {"m1", "m2"}, code |-> <<<<"mb", Br>>>>] @@
  "m1" :> [fn |-> "moo", succs |-> {"m2"}, code |->
            <<<<"c24", CallAt(24, "foo", <<I, I, "plus">>)>>, <<"mb1", Br>>>>] @@
  "m2" :> [fn |-> "moo", succs |-> {}, code |->
            <<<<"pf", Phi({"minus", Null})>>, <<"c27", CallAt(27, "foo", <<I, I, "pf">>)>>,
              <<"mor", Ret(I)>>>>],
  14 :> {"plus", "minus"} @@ 24 :> {"foo"} @@ 27 :> {"foo"})

\* testcase/test09.c: a heap copy of a struct that points to another, and strong updates
Test09 == Program(
  ArithFns @@ "foo" :> <<I>> @@ "malloc" :> <<I>>,
  ArithEntry @@ "foo" :> "f0",
  ArithBlocks @@
  "f0" :> [fn |-> "foo", succs |-> {"f1", "f2"}, code |->
            <<<<"a", Alloca>>, <<"s", Alloca>>, <<"c21", CallAt(21, "malloc", <<I>>)>>,
              <<"w", BitCast("c21")>>, <<"g1", Gep("s")>>, <<"s1", Store("a", "g1")>>,
              <<"wb", BitCast("w")>>, <<"sb", BitCast("s")>>, <<"mc", MemCpy("wb", "sb")>>,
              <<"fb", Br>>>>] @@
  "f1" :> [fn |-> "foo", succs |-> {"f3"}, code |->
            <<<<"g2", Gep("a")>>, <<"s2", Store("plus", "g2")>>,
              <<"g3", Gep("s")>>, <<"l3", Load("g3")>>, <<"g4", Gep("l3")>>, <<"l4", Load("g4")>>,
              <<"c27", CallAt(27, "l4", <<I, I>>)>>,
              <<"g5", Gep("a")>>, <<"s5", Store("minus", "g5")>>, <<"fb1", Br>>>>] @@
  "f2" :> [fn |-> "foo", succs |-> {"f3"}, code |->
            <<<<"g6", Gep("w")>>, <<"l6", Load("g6")>>, <<"g7", Gep("l6")>>,
              <<"s7", Store("minus", "g7")>>, <<"fb2", Br>>>>] @@
  "f3" :> [fn |-> "foo", succs |-> {}, code |->
            <<<<"g8", Gep("a")>>, <<"l8", Load("g8")>>, <<"c33", CallAt(33, "l8", <<I, I>>)>>,
              <<"fr", Ret(NoValue)>>>>],
  21 :> {"malloc"} @@ 27 :> {"plus"} @@ 33 :> {"minus"})

\* testcase/test18.c: which function is called, and which pointer comes back
Test18 == Program(
  ArithFns @@ "foo" :> <<I, I, "fa", "fb">> @@ "clever" :> <<I, I, "ca", "cb">> @@ "moo" :> <<I, I, I>>,
  ArithEntry @@ "foo" :> "f" @@ "clever" :> "c" @@ "moo" :> "m0",
  ArithBlocks @@
  "f" :> [fn |-> "foo", succs |-> {}, code |-> <<<<"fr", Ret("fa")>>>>] @@
  "c" :> [fn |-> "clever", succs |-> {}, code |-> <<<<"cr", Ret("cb")>>>>] @@
  "m0" :> [fn |-> "moo", succs |-> {"m1", "m2"}, code |-> <<<<"b0", Br>>>>] @@
  "m1" :> [fn |-> "moo", succs |-> {"m2"}, code |-> <<<<"b1", Br>>>>] @@
  "m2" :> [fn |-> "moo", succs |-> {}, code |->
            <<<<"goo", Phi({"foo", "clever", "undef"})>>,
              <<"c30", CallAt(30, "goo", <<I, I, "plus", "minus">>)>>,
              <<"c31", CallAt(31, "c30", <<I, I>>)>>, <<"mr0", Ret(I)>>>>],
  30 :> {"foo", "clever"} @@ 31 :> {"plus", "minus"})

\* testcase/test25.c: a callee that rewrites what the caller's struct points to
Test25 == Program(
  ArithFns @@ "foo" :> <<I, I, "coerce">> @@ "make_alias" :> <<"ma", "mb">> @@ "clever" :> <<>>,
  ArithEntry @@ "foo" :> "f" @@ "make_alias" :> "k" @@ "clever" :> "c",
  ArithBlocks @@
  "f" :> [fn |-> "foo", succs |-> {}, code |->
           <<<<"af", Alloca>>, <<"fg1", Gep("af")>>, <<"fs1", Store("coerce", "fg1")>>,
             <<"fg2", Gep("af")>>, <<"fl2", Load("fg2")>>,
             <<"c21", CallAt(21, "fl2", <<I, I>>)>>, <<"fr", Ret(I)>>>>] @@
  "k" :> [fn |-> "make_alias", succs |-> {}, code |->
           <<<<"kg", Gep("ma")>>, <<"ks", Store("mb", "kg")>>, <<"kr", Ret(NoValue)>>>>] @@
  "c" :> [fn |-> "clever", succs |-> {}, code |->
           <<<<"tf", Alloca>>, <<"mf", Alloca>>, <<"sf", Alloca>>,
             <<"g1", Gep("sf")>>, <<"s1", Store("mf", "g1")>>,
             <<"g2", Gep("tf")>>, <<"s2", Store("plus", "g2")>>,
             <<"g3", Gep("mf")>>, <<"s3", Store("minus", "g3")>>,
             <<"c37", CallAt(37, "make_alias", <<"sf", "tf">>)>>,
             <<"g4", Gep("sf")>>, <<"l4", Load("g4")>>, <<"g5", Gep("l4")>>, <<"l5", Load("g5")>>,
             <<"c38", CallAt(38, "foo", <<I, I, "l5">>)>>, <<"cr", Ret(I)>>>>],
  21 :> {"plus"} @@ 37 :> {"make_alias"} @@ 38 :> {"foo"})

-------------------------------------------------------------------------------
(* Shapes the test cases leave out. *)

\* apply(n, s) { if (n) { s->p = minus; apply(n-1, s); } s->p(1, 2); }, called with
\* s->p = plus: a function that is caller and callee of itself
Recursion == Program(
  ArithFns @@ "apply" :> <<I, "s">> @@ "main" :> <<>>,
  ArithEntry @@ "apply" :> "a0" @@ "main" :> "n",
  ArithBlocks @@
  "a0" :> [fn |-> "apply", succs |-> {"a1", "a2"}, code |-> <<<<"ab", Br>>>>] @@
  "a1" :> [fn |-> "apply", succs |-> {"a2"}, code |->
            <<<<"ag", Gep("s")>>, <<"as", Store("minus", "ag")>>,
              <<"c2", CallAt(2, "apply", <<I, "s">>)>>, <<"ab1", Br>>>>] @@
  "a2" :> [fn |-> "apply", succs |-> {}, code |->
            <<<<"ag2", Gep("s")>>, <<"al", Load("ag2")>>,
              <<"c3", CallAt(3, "al", <<I, I>>)>>, <<"ar", Ret(NoValue)>>>>] @@
  "n" :> [fn |-> "main", succs |-> {}, code |->
            <<<<"box", Alloca>>, <<"ng", Gep("box")>>, <<"ns", Store("plus", "ng")>>,
              <<"c6", CallAt(6, "apply", <<I, "box">>)>>, <<"nr", Ret(I)>>>>],
  2 :> {"apply"} @@ 3 :> {"plus", "minus"} @@ 6 :> {"apply"})

\* while (n--) { f(1, 2); t = f; f = g; g = t; } with f = plus, g = minus: a loop
\* whose phis feed each other
Loop == Program(
  ArithFns @@ "main" :> <<>>,
  ArithEntry @@ "main" :> "n0",
  ArithBlocks @@
  "n0" :> [fn |-> "main", succs |-> {"n1"}, code |-> <<<<"nb", Br>>>>] @@
  "n1" :> [fn |-> "main", succs |-> {"n2", "n3"}, code |->
            <<<<"f", Phi({"plus", "g"})>>, <<"g", Phi({"minus", "f"})>>, <<"nb1", Br>>>>] @@
  "n2" :> [fn |-> "main", succs |-> {"n1"}, code |->
            <<<<"c4", CallAt(4, "f", <<I, I>>)>>, <<"nb2", Br>>>>] @@
  "n3" :> [fn |-> "main", succs |-> {}, code |-> <<<<"nr", Ret(I)>>>>],
  4 :> {"plus", "minus"})

\* struct { void (*stop)(void); void (*run)(int *); } s; s.stop = halt; s.run = go;
\* s.run(&cell): fields are not told apart, so the later store must replace the earlier one
Handlers == Program(
  "halt" :> <<>> @@ "go" :> <<"c">> @@ "main" :> <<>>,
  "halt" :> "h" @@ "go" :> "o" @@ "main" :> "n",
  "h" :> [fn |-> "halt", succs |-> {}, code |-> <<<<"hr", Ret(NoValue)>>>>] @@
  "o" :> [fn |-> "go", succs |-> {}, code |-> <<<<"or", Ret(NoValue)>>>>] @@
  "n" :> [fn |-> "main", succs |-> {}, code |->
           <<<<"s", Alloca>>, <<"cell", Alloca>>,
             <<"g1", Gep("s")>>, <<"s1", Store("halt", "g1")>>,
             <<"g2", Gep("s")>>, <<"s2", Store("go", "g2")>>,
             <<"g3", Gep("s")>>, <<"l", Load("g3")>>, <<"c5", CallAt(5, "l", <<"cell">>)>>,
             <<"nr", Ret(I)>>>>],
  5 :> {"go"})

-------------------------------------------------------------------------------
(* Programs on which the pass departs from what the repository says of it. *)

\* fp get(void) { fp *cell = malloc(8); *cell = plus; return *cell; }
\* main: f = get(); f(1, 2);
\* No pointer is passed to get, so main's visit never queues it again.
Getter == Program(
  ArithFns @@ "get" :> <<>> @@ "malloc" :> <<I>> @@ "main" :> <<>>,
  ArithEntry @@ "get" :> "g" @@ "main" :> "n",
  ArithBlocks @@
  "g" :> [fn |-> "get", succs |-> {}, code |->
           <<<<"c1", CallAt(1, "malloc", <<I>>)>>, <<"cell", BitCast("c1")>>,
             <<"gs", Store("plus", "cell")>>, <<"gl", Load("cell")>>, <<"gr", Ret("gl")>>>>] @@
  "n" :> [fn |-> "main", succs |-> {}, code |->
           <<<<"c5", CallAt(5, "get", <<>>)>>, <<"c6", CallAt(6, "c5", <<I, I>>)>>,
             <<"nr", Ret(I)>>>>],
  1 :> {"malloc"} @@ 5 :> {"get"} @@ 6 :> {"plus"})

\* main(x): alloc = x ? malloc : alloca_zero; s.p = plus; alloc(8); s.p(1, 2);
\* both callees are declarations, and the call is indirect
IndirectLibraryCall == Program(
  ArithFns @@ "malloc" :> <<I>> @@ "zalloc" :> <<I>> @@ "main" :> <<I>>,
  ArithEntry @@ "main" :> "n",
  ArithBlocks @@
  "n" :> [fn |-> "main", succs |-> {}, code |->
           <<<<"s", Alloca>>, <<"alloc", Phi({"malloc", "zalloc"})>>,
             <<"g", Gep("s")>>, <<"st", Store("plus", "g")>>,
             <<"c3", CallAt(3, "alloc", <<I>>)>>,
             <<"g2", Gep("s")>>, <<"l", Load("g2")>>, <<"c4", CallAt(4, "l", <<I, I>>)>>,
             <<"nr", Ret(I)>>>>],
  3 :> {"malloc", "zalloc"} @@ 4 :> {"plus"})

\* turn(n, f, g) { f(1, 2); if (n) turn(n-1, g, f); }, called as turn(1, plus, minus)
SwappedRecursion == Program(
  ArithFns @@ "turn" :> <<I, "f", "g">> @@ "main" :> <<>>,
  ArithEntry @@ "turn" :> "t0" @@ "main" :> "n",
  ArithBlocks @@
  "t0" :> [fn |-> "turn", succs |-> {"t1", "t2"}, code |->
            <<<<"cmp", Alloca>>, <<"c2", CallAt(2, "f", <<I, I>>)>>, <<"tb0", Br>>>>] @@
  "t1" :> [fn |-> "turn", succs |-> {"t2"}, code |->
            <<<<"c3", CallAt(3, "turn", <<I, "g", "f">>)>>, <<"tb1", Br>>>>] @@
  "t2" :> [fn |-> "turn", succs |-> {}, code |-> <<<<"tr", Ret(NoValue)>>>>] @@
  "n" :> [fn |-> "main", succs |-> {}, code |->
            <<<<"c7", CallAt(7, "turn", <<I, "plus", "minus">>)>>, <<"nr", Ret(I)>>>>],
  2 :> {"plus", "minus"} @@ 3 :> {"turn"} @@ 7 :> {"turn"})

\* walk(a) { if (a->next) walk(a->next); a->fn(1, 2); }, called on the node of a circular
\* list; next is the field that main stores last
CircularList == Program(
  ArithFns @@ "walk" :> <<"a">> @@ "main" :> <<>>,
  ArithEntry @@ "walk" :> "w0" @@ "main" :> "n",
  ArithBlocks @@
  "w0" :> [fn |-> "walk", succs |-> {"w1", "w2"}, code |->
            <<<<"g1", Gep("a")>>, <<"l1", Load("g1")>>, <<"wb", Br>>>>] @@
  "w1" :> [fn |-> "walk", succs |-> {"w2"}, code |->
            <<<<"g2", Gep("a")>>, <<"l2", Load("g2")>>,
              <<"c3", CallAt(3, "walk", <<"l2">>)>>, <<"wb1", Br>>>>] @@
  "w2" :> [fn |-> "walk", succs |-> {}, code |->
            <<<<"g4", Gep("a")>>, <<"l4", Load("g4")>>, <<"c4", CallAt(4, "l4", <<I, I>>)>>,
              <<"wr", Ret(NoValue)>>>>] @@
  "n" :> [fn |-> "main", succs |-> {}, code |->
            <<<<"node", Alloca>>, <<"g3", Gep("node")>>, <<"s3", Store("node", "g3")>>,
              <<"c7", CallAt(7, "walk", <<"node">>)>>, <<"nr", Ret(I)>>>>],
  3 :> {"walk"} @@ 4 :> {"plus"} @@ 7 :> {"walk"})

TestCases == [test00 |-> Test00, test09 |-> Test09, test18 |-> Test18, test25 |-> Test25,
              recursion |-> Recursion, loop |-> Loop, circular |-> CircularList,
              handlers |-> Handlers]

GetterProgram              == [getter |-> Getter]
IndirectLibraryCallProgram == [indirect |-> IndirectLibraryCall]
SwappedRecursionProgram    == [swapped |-> SwappedRecursion]
CircularListProgram        == [circular |-> CircularList]
===============================================================================
