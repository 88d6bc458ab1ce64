-------------------------- MODULE MCTaintPropagation --------------------------
(***************************************************************************)
(* Programs for the taint propagation pass: the test cases of the          *)
(* repository in SSA form (clang -O0, then mem2reg, as its main.cpp does), *)
(* with the annotations that the README shows or the program's meaning     *)
(* asks for, and small programs for what the test cases leave out.         *)
(***************************************************************************)
EXTENDS TaintPropagation, TLC

\* a function written out, which TLC evaluates once
Table(f) == f @@ <<>>

\* a program whose annotations are not to be looked at
NotStated == <<>>

\* a program from its functions' formals and its blocks <<name, fn, code, succs>> in
\* order, with code a sequence of <<name, instruction>>; the first block of a function is
\* its entry.  A use list is in the order of the program or the other way round.
Program(params, consts, ptrs, body, expected) ==
  LET all == FlattenSeq([k \in DOMAIN body |-> body[k][3]])
      names == [k \in DOMAIN all |-> all[k][1]]
      block(b) == CHOOSE k \in DOMAIN body : body[k][1] = b
      bs == {body[k][1] : k \in DOMAIN body}
      of(i) == CHOOSE k \in DOMAIN body : i \in {p[1] : p \in ToSet(body[k][3])}
      fns == DOMAIN params
      defined == {body[k][2] : k \in DOMAIN body}
      keys == ToSet(names) \cup consts \cup fns \cup UNION {ToSet(params[F]) : F \in fns}
      inst == Table([i \in ToSet(names) |-> (CHOOSE p \in ToSet(all) : p[1] = i)[2]])
      uses(v, i) == v \in ToSet(inst[i].args) \/ IF inst[i].op = "call" THEN inst[i].callee = v ELSE FALSE
      forward == Table([v \in keys |-> SelectSeq(names, LAMBDA i : uses(v, i))])
      backward == Table([v \in keys |-> Reverse(forward[v])])
      G == [fns |-> fns,
       decls    |-> fns \ defined,
       params   |-> params,
       blocks   |-> Table([F \in fns |-> {b \in bs : body[block(b)][2] = F}]),
       entry    |-> Table([F \in defined |->
                      LET k == CHOOSE k \in DOMAIN body :
                                 body[k][2] = F /\ \A j \in DOMAIN body : body[j][2] = F => k <= j
                      IN  body[k][1]]),
       code     |-> Table([b \in bs |->
                      LET code == body[block(b)][3] IN Table([k \in DOMAIN code |-> code[k][1]])]),
       succs    |-> Table([b \in bs |-> body[block(b)][4]]),
       preds    |-> Table([b \in bs |-> {p \in bs : b \in body[block(p)][4]}]),
       insts    |-> ToSet(names),
       inst     |-> inst,
       fnOf     |-> Table([i \in ToSet(names) |-> body[of(i)][2]]),
       blockOf  |-> Table([i \in ToSet(names) |-> body[of(i)][1]]),
       consts   |-> consts,
       ptrs     |-> ptrs,
       useLists |-> {forward, backward},
       limits   |-> {128},
       expected |-> IF expected = NotStated THEN <<>>
                    ELSE Table([i \in ToSet(names) |-> IF i \in DOMAIN expected THEN expected[i] ELSE {}])]
      T == "dominated" :> Table(DominatorTree(G)) @@ G
  IN  "frontier" :> Table(IteratedFrontier(T)) @@ T

Do(op, args)     == [op |-> op, args |-> args]
Phi(vs)          == Do("phi", vs)
Gep(p)           == Do("gep", <<p>>)
Load(p)          == Do("load", <<p>>)
StoreTo(v, p)    == Do("store", <<v, p>>)
CastOf(v)        == Do("cast", <<v>>)
Alloca           == Do("alloca", <<>>)
Br               == Do("br", <<>>)
Ret(v)           == Do("ret", <<v>>)
RetVoid          == Do("ret", <<>>)
Call(f, args)    == [op |-> "call", callee |-> f, args |-> args]

-------------------------------------------------------------------------------

Consts == {"0", "1", "null", "str"}

\* what precedes the reading of the file is abbreviated to the call of fopen
Lib == "fopen" :> <<>> @@ "malloc" :> <<>> @@ "fread" :> <<>> @@ "free" :> <<>>

ReadFile == <<<<"inf", Call("fopen", <<"str">>)>>, <<"buffer", Call("malloc", <<"1">>)>>,
              <<"fr", Call("fread", <<"buffer", "1", "inf">>)>>>>

\* testcase/test_global.c, with the annotations that README.md shows
TestGlobal == Program(
  Lib @@ "main" :> <<>>, Consts \cup {"x"},
  {"inf", "buffer", "arrayidx5", "arrayidx7", "x"},
  <<<<"m", "main", ReadFile \o <<
      <<"arrayidx5", Gep("buffer")>>,
      <<"s1",        StoreTo("0", "arrayidx5")>>,
      <<"arrayidx7", Gep("buffer")>>,
      <<"t1",        Load("arrayidx7")>>,
      <<"conv",      CastOf("t1")>>,
      <<"s2",        StoreTo("conv", "x")>>,
      <<"f",         Call("free", <<"buffer">>)>>,
      <<"t2",        Load("x")>>,
      <<"r",         Ret("t2")>>>>, {}>>>>,
  "arrayidx5" :> {"buffer"} @@ "s1" :> {"arrayidx5"} @@ "arrayidx7" :> {"buffer"} @@
  "t1" :> {"arrayidx7"} @@ "conv" :> {"t1"} @@ "s2" :> {"conv"} @@ "f" :> {"buffer"} @@ "r" :> {"t2"})

\* testcase/test_inter.c: out through a pointer, in and out through a result
TestInter == Program(
  Lib @@ "someFunction" :> <<"i", "j">> @@ "someFunction2" :> <<"j2">> @@ "main" :> <<>>,
  Consts, {"i", "y", "inf", "buffer", "g5", "g7"},
  <<<<"f1", "someFunction", <<<<"fs", StoreTo("j", "i")>>, <<"fr1", RetVoid>>>>, {}>>,
    <<"f2", "someFunction2", <<<<"add", Do("add", <<"j2", "1">>)>>, <<"fr2", Ret("add")>>>>, {}>>,
    <<"m", "main", <<<<"y", Alloca>>>> \o ReadFile \o <<
      <<"g5",   Gep("buffer")>>,
      <<"s1",   StoreTo("0", "g5")>>,
      <<"g7",   Gep("buffer")>>,
      <<"t1",   Load("g7")>>,
      <<"conv", CastOf("t1")>>,
      <<"c1",   Call("someFunction", <<"y", "conv">>)>>,
      <<"t2",   Load("y")>>,
      <<"ret",  Call("someFunction2", <<"t2">>)>>,
      <<"f",    Call("free", <<"buffer">>)>>,
      <<"r",    Ret("ret")>>>>, {}>>>>,
  "fs" :> {"j"} @@ "add" :> {"j2"} @@ "fr2" :> {"add"} @@
  "g5" :> {"buffer"} @@ "s1" :> {"g5"} @@ "g7" :> {"buffer"} @@ "t1" :> {"g7"} @@ "conv" :> {"t1"} @@
  "c1" :> {"conv"} @@ "t2" :> {"y"} @@ "ret" :> {"t2"} @@ "f" :> {"buffer"} @@ "r" :> {"ret"})

\* testcase/test_inter2.c: a callee that reads the buffer
TestInter2 == Program(
  Lib @@ "someFunction" :> <<"i", "b">> @@ "someFunction2" :> <<"j2">> @@ "main" :> <<>>,
  Consts, {"i", "b", "fg", "array", "y", "inf", "buffer", "g7", "g9", "g10"},
  <<<<"f1", "someFunction", <<
      <<"fg",  Gep("b")>>,
      <<"fl",  Load("fg")>>,
      <<"fc",  CastOf("fl")>>,
      <<"fs",  StoreTo("fc", "i")>>,
      <<"fr1", RetVoid>>>>, {}>>,
    <<"f2", "someFunction2", <<<<"add", Do("add", <<"j2", "1">>)>>, <<"fr2", Ret("add")>>>>, {}>>,
    <<"m", "main", <<<<"array", Alloca>>, <<"y", Alloca>>>> \o ReadFile \o <<
      <<"g7",   Gep("buffer")>>,
      <<"t1",   Load("g7")>>,
      <<"conv", CastOf("t1")>>,
      <<"g9",   Gep("buffer")>>,
      <<"t2",   Load("g9")>>,
      <<"c2",   CastOf("t2")>>,
      <<"g10",  Gep("array")>>,
      <<"s1",   StoreTo("c2", "g10")>>,
      <<"c1",   Call("someFunction", <<"y", "buffer">>)>>,
      <<"ret",  Call("someFunction2", <<"conv">>)>>,
      <<"f",    Call("free", <<"buffer">>)>>,
      <<"r",    Ret("ret")>>>>, {}>>>>,
  "fg" :> {"b"} @@ "fl" :> {"fg"} @@ "fc" :> {"fl"} @@ "fs" :> {"fc"} @@
  "add" :> {"j2"} @@ "fr2" :> {"add"} @@
  "g7" :> {"buffer"} @@ "t1" :> {"g7"} @@ "conv" :> {"t1"} @@ "g9" :> {"buffer"} @@ "t2" :> {"g9"} @@
  "c2" :> {"t2"} @@ "s1" :> {"c2"} @@ "c1" :> {"buffer"} @@ "ret" :> {"conv"} @@
  "f" :> {"buffer"} @@ "r" :> {"ret"})

\* testcase/test_inter3.c: a callee that reads what it has written through one formal
\* and writes it through another
TestInter3 == Program(
  Lib @@ "someFunction" :> <<"i", "b", "j">> @@ "main" :> <<>>,
  Consts, {"i", "b", "j", "fg", "y", "rv", "inf", "buffer", "g7"},
  <<<<"f1", "someFunction", <<
      <<"fg",  Gep("b")>>,
      <<"fl",  Load("fg")>>,
      <<"fs",  StoreTo("fl", "i")>>,
      <<"fl2", Load("i")>>,
      <<"fc",  CastOf("fl2")>>,
      <<"fs2", StoreTo("fc", "j")>>,
      <<"fr1", RetVoid>>>>, {}>>,
    <<"m", "main", <<<<"y", Alloca>>, <<"rv", Alloca>>>> \o ReadFile \o <<
      <<"g7",   Gep("buffer")>>,
      <<"t1",   Load("g7")>>,
      <<"conv", CastOf("t1")>>,
      <<"s1",   StoreTo("0", "rv")>>,
      <<"c1",   Call("someFunction", <<"y", "buffer", "rv">>)>>,
      <<"f",    Call("free", <<"buffer">>)>>,
      <<"t2",   Load("rv")>>,
      <<"r",    Ret("t2")>>>>, {}>>>>,
  "fg" :> {"b"} @@ "fl" :> {"fg"} @@ "fs" :> {"fl"} @@ "fl2" :> {"i"} @@ "fc" :> {"fl2"} @@
  "fs2" :> {"fc"} @@
  "g7" :> {"buffer"} @@ "t1" :> {"g7"} @@ "conv" :> {"t1"} @@ "c1" :> {"buffer"} @@
  "f" :> {"buffer"} @@ "t2" :> {"rv"} @@ "r" :> {"t2"})

\* testcase/test_nest.c: an array of structs, read back after it was written
TestNest == Program(
  Lib @@ "main" :> <<"argc", "argv">>, Consts,
  {"argv", "arr", "buf", "inf", "g1", "x1", "g2", "x2", "g3", "y3", "g4", "y4"},
  <<<<"m", "main", <<
      <<"arr",  Alloca>>,
      <<"buf",  Alloca>>,
      <<"inf",  Call("fopen", <<"argv">>)>>,
      <<"fr",   Call("fread", <<"buf", "1", "inf">>)>>,
      <<"t1",   Load("buf")>>,
      <<"conv", CastOf("t1")>>,
      <<"i1",   CastOf("argc")>>,
      <<"g1",   Do("gep", <<"arr", "i1">>)>>,
      <<"x1",   Gep("g1")>>,
      <<"s1",   StoreTo("conv", "x1")>>,
      <<"g2",   Do("gep", <<"arr", "i1">>)>>,
      <<"x2",   Gep("g2")>>,
      <<"t2",   Load("x2")>>,
      <<"mul",  Do("mul", <<"t2", "argc">>)>>,
      <<"g3",   Do("gep", <<"arr", "i1">>)>>,
      <<"y3",   Gep("g3")>>,
      <<"s2",   StoreTo("mul", "y3")>>,
      <<"g4",   Do("gep", <<"arr", "i1">>)>>,
      <<"y4",   Gep("g4")>>,
      <<"t3",   Load("y4")>>,
      <<"r",    Ret("t3")>>>>, {}>>>>,
  "t1" :> {"buf"} @@ "conv" :> {"t1"} @@ "s1" :> {"conv"} @@ "g2" :> {"arr"} @@ "x2" :> {"g2"} @@
  "t2" :> {"x2"} @@ "mul" :> {"t2"} @@ "g3" :> {"arr"} @@ "y3" :> {"g3"} @@ "s2" :> {"mul", "y3"} @@
  "g4" :> {"arr"} @@ "y4" :> {"g4"} @@ "t3" :> {"y4"} @@ "r" :> {"t3"})

\* testcase/test_nest2.c: pointers to the tainted variable, stored in a struct
TestNest2 == Program(
  Lib @@ "main" :> <<"argc", "argv">>, Consts,
  {"argv", "arr", "buf", "bufi", "inf", "g1", "x1", "g2", "y2", "g3", "y3", "q"},
  <<<<"m", "main", <<
      <<"arr",  Alloca>>,
      <<"buf",  Alloca>>,
      <<"bufi", Alloca>>,
      <<"inf",  Call("fopen", <<"argv">>)>>,
      <<"fr",   Call("fread", <<"buf", "1", "inf">>)>>,
      <<"t1",   Load("buf")>>,
      <<"conv", CastOf("t1")>>,
      <<"s0",   StoreTo("conv", "bufi")>>,
      <<"g1",   Gep("arr")>>,
      <<"x1",   Gep("g1")>>,
      <<"s1",   StoreTo("bufi", "x1")>>,
      <<"g2",   Gep("arr")>>,
      <<"y2",   Gep("g2")>>,
      <<"s2",   StoreTo("bufi", "y2")>>,
      <<"g3",   Gep("arr")>>,
      <<"y3",   Gep("g3")>>,
      <<"q",    Load("y3")>>,
      <<"t2",   Load("q")>>,
      <<"r",    Ret("t2")>>>>, {}>>>>,
  "t1" :> {"buf"} @@ "conv" :> {"t1"} @@ "s0" :> {"conv"} @@ "s1" :> {"bufi"} @@ "g2" :> {"arr"} @@
  "y2" :> {"g2"} @@ "s2" :> {"bufi", "y2"} @@ "g3" :> {"arr"} @@ "y3" :> {"g3"} @@ "q" :> {"y3"} @@
  "t2" :> {"q"} @@ "r" :> {"t2"})

\* testcase/test_complex.c: from the file to the size of an allocation, through a copy, a
\* struct and five calls; with the use lists that LLVM makes, the latest use first
Get32 == <<
  <<"ka", Gep("kp")>>, <<"kb", Load("ka")>>, <<"kc", CastOf("kb")>>, <<"kd", Do("shl", <<"kc">>)>>,
  <<"ke", Gep("kp")>>, <<"kf", Load("ke")>>, <<"kg", CastOf("kf")>>, <<"kh", Do("or", <<"kd", "kg">>)>>,
  <<"ki", Gep("kp")>>, <<"kj", Gep("ki")>>, <<"kk", Load("kj")>>, <<"kl", CastOf("kk")>>,
  <<"km", Do("or", <<"kh", "kl">>)>>, <<"kr", Ret("km")>>>>

ImageNew == <<
  <<"i1", Do("sub", <<"iw", "1">>)>>, <<"i2", Do("add", <<"i1", "1">>)>>, <<"i3", CastOf("i2")>>,
  <<"i4", CastOf("ih")>>, <<"i5", Do("mul", <<"i3", "i4">>)>>, <<"i6", CastOf("i5")>>,
  <<"i7", Call("malloc", <<"i6">>)>>, <<"ir", RetVoid>>>>

DecodeHalftone == <<
  <<"p1", Gep("pp")>>, <<"p2", Load("p1")>>, <<"p3", Gep("pp")>>, <<"p4", Load("p3")>>,
  <<"p5", Call("decode_gray", <<"pc", "p2", "p4">>)>>, <<"pr", RetVoid>>>>

HalftoneRegion == <<
  <<"h0", Alloca>>, <<"h1", Gep("hs")>>, <<"h2", Call("get_uint32", <<"h1">>)>>,
  <<"h3", Gep("h0")>>, <<"h4", StoreTo("h2", "h3")>>,
  <<"h5", Gep("hs")>>, <<"h6", Gep("h5")>>, <<"h7", Call("get_uint32", <<"h6">>)>>,
  <<"h8", Gep("h0")>>, <<"h9", StoreTo("h7", "h8")>>,
  <<"hc", Call("decode_halftone", <<"hx", "h0">>)>>, <<"hr", RetVoid>>>>

DataIn == <<
  <<"d1", Call("malloc", <<"1">>)>>, <<"d2", Gep("dc")>>, <<"d3", StoreTo("d1", "d2")>>,
  <<"d4", Gep("dc")>>, <<"d5", StoreTo("0", "d4")>>,
  <<"d8", Gep("dc")>>, <<"d9", Load("d8")>>, <<"da", Gep("dc")>>, <<"db", Load("da")>>,
  <<"dd", Do("gep", <<"d9", "db">>)>>, <<"de", Do("memtransfer", <<"dd", "dt", "ds">>)>>,
  <<"df", Gep("dc")>>, <<"dg", Load("df")>>, <<"dh", Gep("dc")>>, <<"di", Load("dh")>>,
  <<"dj", Do("gep", <<"dg", "di">>)>>, <<"dk", Call("parse_segment", <<"dc", "dj">>)>>, <<"dr", RetVoid>>>>

TestComplex == [Program(
  "fopen" :> <<>> @@ "malloc" :> <<>> @@ "fread" :> <<>> @@
    "get_uint32" :> <<"kp">> @@ "image_new" :> <<"ic", "iw", "ih">> @@ "decode_gray" :> <<"yc", "yw", "yh">> @@
    "decode_halftone" :> <<"pc", "pp">> @@ "halftone_region" :> <<"hx", "hs">> @@
    "parse_segment" :> <<"sc", "ss">> @@ "data_in" :> <<"dc", "dt", "ds">> @@ "main" :> <<>>,
  Consts,
  {"kp", "ka", "ke", "ki", "kj", "ic", "i7", "yc", "pc", "pp", "p1", "p3", "hx", "hs", "h0", "h1", "h3",
   "h5", "h6", "h8", "sc", "ss", "dc", "dt", "d1", "d2", "d4", "d8", "d9", "da", "dd", "df", "dg", "dh",
   "dj", "ctx", "buf", "f", "gb", "gc"},
  <<<<"k", "get_uint32", Get32, {}>>,
    <<"i", "image_new", ImageNew, {}>>,
    <<"y", "decode_gray", <<<<"y1", Call("image_new", <<"yc", "yw", "yh">>)>>, <<"yr", RetVoid>>>>, {}>>,
    <<"p", "decode_halftone", DecodeHalftone, {}>>,
    <<"h", "halftone_region", HalftoneRegion, {}>>,
    <<"s", "parse_segment", <<<<"s1", Call("halftone_region", <<"sc", "ss">>)>>, <<"sr", RetVoid>>>>, {}>>,
    <<"d", "data_in", DataIn, {}>>,
    <<"m", "main", <<
      <<"ctx", Alloca>>, <<"buf", Alloca>>, <<"f", Call("fopen", <<"str">>)>>, <<"gb", Gep("buf")>>,
      <<"fr", Call("fread", <<"gb", "1", "f">>)>>, <<"n", CastOf("fr")>>, <<"gc", Gep("buf")>>,
      <<"c", Call("data_in", <<"ctx", "gc", "n">>)>>, <<"r", Ret("0")>>>>, {}>>>>,
  "gc" :> {"buf"} @@ "c" :> {"gc"} @@
  "de" :> {"dt"} @@ "df" :> {"dc"} @@ "dg" :> {"df"} @@ "dh" :> {"dc"} @@ "di" :> {"dh"} @@
  "dj" :> {"dg", "di"} @@ "dk" :> {"dc", "dj"} @@ "s1" :> {"sc", "ss"} @@
  "h1" :> {"hs"} @@ "h2" :> {"h1"} @@ "h4" :> {"h2"} @@ "h5" :> {"hs"} @@ "h6" :> {"h5"} @@ "h7" :> {"h6"} @@
  "h8" :> {"h0"} @@ "h9" :> {"h7", "h8"} @@ "hc" :> {"hx", "h0"} @@
  "p1" :> {"pp"} @@ "p2" :> {"p1"} @@ "p3" :> {"pp"} @@ "p4" :> {"p3"} @@ "p5" :> {"pc", "p2", "p4"} @@
  "y1" :> {"yc", "yw", "yh"} @@
  "i1" :> {"iw"} @@ "i2" :> {"i1"} @@ "i3" :> {"i2"} @@ "i4" :> {"ih"} @@ "i5" :> {"i3", "i4"} @@
  "i6" :> {"i5"} @@ "i7" :> {"i6"} @@
  "ka" :> {"kp"} @@ "kb" :> {"ka"} @@ "kc" :> {"kb"} @@ "kd" :> {"kc"} @@ "ke" :> {"kp"} @@ "kf" :> {"ke"} @@
  "kg" :> {"kf"} @@ "kh" :> {"kd", "kg"} @@ "ki" :> {"kp"} @@ "kj" :> {"ki"} @@ "kk" :> {"kj"} @@
  "kl" :> {"kk"} @@ "km" :> {"kh", "kl"} @@ "kr" :> {"km"})
  EXCEPT !.useLists = {u \in @ : u["buf"] = <<"gc", "gb">>}]

-------------------------------------------------------------------------------
(***************************************************************************)
(* What the test cases leave out.                                          *)
(***************************************************************************)
\* a buffer filled in a loop, with phis, a switch on what was read, and a select
Loop == Program(
  "main" :> <<>> @@ "fgets" :> <<>>, Consts \cup {"out"}, {"buf", "p", "q", "rr", "out"},
  <<<<"e", "main", <<<<"buf", Alloca>>, <<"b1", Br>>>>, {"h"}>>,
    <<"h", "main", <<
      <<"p",  Phi(<<"buf", "q">>)>>,
      <<"rr", Call("fgets", <<"p", "1", "null">>)>>,
      <<"cd", Do("icmp", <<"rr", "null">>)>>,
      <<"b2", Do("br", <<"cd">>)>>>>, {"g", "x"}>>,
    <<"g", "main", <<
      <<"q",  Gep("p")>>,
      <<"c",  Load("p")>>,
      <<"z",  CastOf("c")>>,
      <<"sw", Do("switch", <<"z">>)>>>>, {"g2", "g3"}>>,
    <<"g2", "main", <<
      <<"sel", Do("select", <<"cd", "z", "0">>)>>,
      <<"st",  StoreTo("sel", "out")>>,
      <<"b3",  Br>>>>, {"g3"}>>,
    <<"g3", "main", <<<<"m", Phi(<<"z", "sel">>)>>, <<"b4", Br>>>>, {"h"}>>,
    <<"x", "main", <<<<"l", Load("out")>>, <<"r", Ret("l")>>>>, {}>>>>,
  "p" :> {"buf", "p", "q"} @@ "rr" :> {"p"} @@ "cd" :> {"rr"} @@ "b2" :> {"cd"} @@
  "q" :> {"p", "q"} @@ "c" :> {"p"} @@ "z" :> {"c"} @@ "sw" :> {"z"} @@
  "sel" :> {"cd", "z"} @@ "st" :> {"sel"} @@ "m" :> {"z", "sel"} @@ "r" :> {"l"})

\* a switch on a constant: what is read on the way that is not taken taints nothing
ConstantSwitch == Program(
  "main" :> <<>> @@ "read" :> <<>>, Consts, {"p"},
  <<<<"e", "main", <<<<"p", Alloca>>, <<"rd", Call("read", <<"0", "p">>)>>,
                     <<"sw", [op |-> "switch", args |-> <<"1">>, target |-> "t1"]>>>>, {"t1", "t2"}>>,
    <<"t1", "main", <<<<"l1", Load("p")>>, <<"s1", CastOf("l1")>>, <<"r1", Ret("s1")>>>>, {}>>,
    <<"t2", "main", <<<<"l2", Load("p")>>, <<"s2", CastOf("l2")>>, <<"r2", Ret("s2")>>>>, {}>>>>,
  "l1" :> {"p"} @@ "s1" :> {"l1"} @@ "r1" :> {"s1"} @@ "l2" :> {"p"})

\* both kinds of copying, and more places of taint than the bounds allow
Copies == [Program(
  "main" :> <<>> @@ "read" :> <<>> @@ "memcpy" :> <<>>, Consts, {"a", "b", "c", "g", "g2"},
  <<<<"e", "main", <<
      <<"a", Alloca>>, <<"b", Alloca>>, <<"c", Alloca>>,
      <<"rd", Call("read", <<"0", "a">>)>>,
      <<"mt", Do("memtransfer", <<"b", "a">>)>>,
      <<"g",  Gep("c")>>,
      <<"mc", Call("memcpy", <<"g", "b", "1">>)>>,
      <<"g2", Gep("c")>>,
      <<"ct", CastOf("g2")>>,
      <<"m2", Do("memtransfer", <<"ct", "a">>)>>,
      <<"in", Call("null", <<"c">>)>>,
      <<"l",  Load("c")>>,
      <<"r",  Ret("l")>>>>, {}>>>>,
  "mt" :> {"a"} @@ "mc" :> {"b"} @@ "g2" :> {"c"} @@ "ct" :> {"g2"} @@ "m2" :> {"a", "ct"} @@
  "in" :> {"c"} @@ "l" :> {"c"} @@ "r" :> {"l"})
  EXCEPT !.limits = {1, 2, 128}]

\* a recursive function that returns what it reads, or what its own call returns
Recursion == Program(
  "main" :> <<>> @@ "f" :> <<"n">> @@ "getchar" :> <<>> @@ "putchar" :> <<>>, Consts, {},
  <<<<"e1", "f", <<<<"cd", Do("icmp", <<"n", "0">>)>>, <<"b1", Do("br", <<"cd">>)>>>>, {"e2", "e3"}>>,
    <<"e2", "f", <<<<"k", Call("getchar", <<>>)>>, <<"b2", Br>>>>, {"e4"}>>,
    <<"e3", "f", <<<<"n1", Do("sub", <<"n", "1">>)>>, <<"rc", Call("f", <<"n1">>)>>,
                   <<"ad", Do("add", <<"rc", "1">>)>>, <<"b3", Br>>>>, {"e4"}>>,
    <<"e4", "f", <<<<"ph", Phi(<<"k", "ad">>)>>, <<"rf", Ret("ph")>>>>, {}>>,
    <<"m", "main", <<<<"c", Call("getchar", <<>>)>>, <<"v", Call("f", <<"c">>)>>,
                     <<"pc", Call("putchar", <<"v">>)>>, <<"r", Ret("v")>>>>, {}>>>>,
  "cd" :> {"n"} @@ "b1" :> {"cd"} @@ "n1" :> {"n"} @@ "rc" :> {"n1"} @@ "ad" :> {"rc"} @@
  "ph" :> {"k", "ad"} @@ "rf" :> {"ph"} @@ "v" :> {"c"} @@ "pc" :> {"v"} @@ "r" :> {"v"})

\* a callee that reads and stores through its formal: nothing else makes its callers executable
WriteBack == Program(
  "main" :> <<>> @@ "g" :> <<"p">> @@ "h" :> <<"q">> @@ "getchar" :> <<>>, Consts, {"p", "q", "qg", "b", "b2"},
  <<<<"g1", "g", <<<<"k", Call("getchar", <<>>)>>, <<"st", StoreTo("k", "p")>>, <<"rg", RetVoid>>>>, {}>>,
    <<"h1", "h", <<<<"qg", Gep("q")>>, <<"cg", Call("g", <<"qg">>)>>, <<"t", Load("qg")>>,
                   <<"sh", StoreTo("t", "q")>>, <<"rh", RetVoid>>>>, {}>>,
    <<"m", "main", <<<<"b", Alloca>>, <<"b2", Alloca>>, <<"c1", Call("g", <<"b">>)>>, <<"l", Load("b")>>,
                     <<"c2", Call("h", <<"b2">>)>>, <<"l2", Load("b2")>>,
                     <<"s", Do("add", <<"l", "l2">>)>>, <<"r", Ret("s")>>>>, {}>>>>,
  "st" :> {"k"} @@ "t" :> {"qg"} @@ "sh" :> {"t"} @@ "l" :> {"b"} @@ "l2" :> {"b2"} @@
  "s" :> {"l", "l2"} @@ "r" :> {"s"})

\* a function that reads through its pointer, overwrites what it points to and calls itself
Narrowed == Program(
  "main" :> <<>> @@ "f" :> <<"p">> @@ "read" :> <<>>, Consts, {"p", "b"},
  <<<<"f1", "f", <<<<"t", Load("p")>>, <<"st", StoreTo("t", "p")>>, <<"bf", Br>>>>, {"f2", "f3"}>>,
    <<"f2", "f", <<<<"cf", Call("f", <<"p">>)>>, <<"b2", Br>>>>, {"f3"}>>,
    <<"f3", "f", <<<<"rf", RetVoid>>>>, {}>>,
    <<"m", "main", <<<<"b", Alloca>>, <<"rd", Call("read", <<"0", "b">>)>>, <<"c1", Call("f", <<"b">>)>>,
                     <<"l", Load("b")>>, <<"r", Ret("l")>>>>, {}>>>>,
  NotStated)

\* a function that calls itself with a pointer it has written through, and then reads into it
HandedOn == Program(
  "main" :> <<>> @@ "f" :> <<"p", "n">> @@ "read" :> <<>>, Consts, {"p", "q", "b"},
  <<<<"f1", "f", <<<<"q", Gep("p")>>, <<"st", StoreTo("n", "q")>>, <<"bf", Do("br", <<"n">>)>>>>, {"f2", "f3"}>>,
    <<"f2", "f", <<<<"n1", Do("sub", <<"n", "1">>)>>, <<"cf", Call("f", <<"q", "n1">>)>>,
                   <<"rd", Call("read", <<"0", "p">>)>>, <<"b2", Br>>>>, {"f3"}>>,
    <<"f3", "f", <<<<"rf", RetVoid>>>>, {}>>,
    <<"m", "main", <<<<"b", Alloca>>, <<"c1", Call("f", <<"b", "1">>)>>, <<"l", Load("b")>>, <<"r", Ret("l")>>>>, {}>>>>,
  NotStated)

\* a function that copies between its buffers and calls itself with each of them:
\*   do { mix(a, x); mix(y, b); memcpy(a + 1, b, 8); memcpy(b + 1, a, 8); } while (more);
Mix == Program(
  "main" :> <<>> @@ "mix" :> <<"a", "b">> @@ "read" :> <<>>, Consts \cup {"more"},
  {"a", "b", "x", "y", "ga", "gb", "s", "t", "more"},
  <<<<"f1", "mix", <<<<"x", Alloca>>, <<"y", Alloca>>, <<"b1", Br>>>>, {"f2"}>>,
    <<"f2", "mix", <<
      <<"c1", Call("mix", <<"a", "x">>)>>, <<"c2", Call("mix", <<"y", "b">>)>>,
      <<"ga", Gep("a")>>, <<"ma", Do("memtransfer", <<"ga", "b">>)>>,
      <<"gb", Gep("b")>>, <<"mb", Do("memtransfer", <<"gb", "a">>)>>,
      <<"m", Load("more")>>, <<"b2", Do("br", <<"m">>)>>>>, {"f2", "f3"}>>,
    <<"f3", "mix", <<<<"rf", RetVoid>>>>, {}>>,
    <<"m1", "main", <<<<"s", Alloca>>, <<"t", Alloca>>, <<"rd", Call("read", <<"0", "s">>)>>,
                      <<"c", Call("mix", <<"s", "t">>)>>, <<"r", Ret("0")>>>>, {}>>>>,
  NotStated)

-------------------------------------------------------------------------------
(***************************************************************************)
(* One function on every graph of an entry and three blocks: each block    *)
(* loads from a buffer, and one of them reads into it behind its load.     *)
(* The loads behind the reading, and no others, see a tainted buffer.      *)
(***************************************************************************)
B3 == {"b1", "b2", "b3"}

\* the successors of the entry and of b1 to b3 by the number of the graph
Graph(n) ==
  LET succs == <<{}, {"b1"}, {"b2"}, {"b3"}, {"b1", "b2"}, {"b1", "b3"}, {"b2", "b3"}>>
      digit(m) == succs[1 + (m % 7)]
  IN  "e" :> (IF n >= 343 THEN {"b1", "b2"} ELSE {"b1"}) @@
      "b1" :> digit(n) @@ "b2" :> digit(n \div 7) @@ "b3" :> digit(n \div 49)

\* the entry leads to every block
Connected(g) ==
  LET next(S) == S \cup UNION {g[b] : b \in S}
  IN  next(next(next({"e"}))) = B3 \cup {"e"}

GraphProgram(g, where) ==
  LET read(b) == IF b = where THEN <<<<"rd", Call("read", <<"0", "p">>)>>>> ELSE <<>>
      load == "b1" :> "l1" @@ "b2" :> "l2" @@ "b3" :> "l3"
      br == "b1" :> "br1" @@ "b2" :> "br2" @@ "b3" :> "br3"
      block(b) == <<b, "main", <<<<load[b], Load("p")>>>> \o read(b) \o <<<<br[b], Br>>>>, g[b]>>
      G == Program("main" :> <<>> @@ "read" :> <<>>, {"0"}, {"p"},
                   <<<<"e", "main", <<<<"p", Alloca>>, <<"be", Br>>>>, g["e"]>>,
                     block("b1"), block("b2"), block("b3")>>, NotStated)
  IN  [G EXCEPT !.useLists = {CHOOSE u \in G.useLists : TRUE}, !.expected =
         Table([I \in G.insts |-> IF G.inst[I].op = "load" /\ HasPath(G, "rd", I) THEN {"p"} ELSE {}])]

\* reading in the entry reaches all, and otherwise the names of two blocks can be swapped
OnGraphs ==
  LET graphs == SelectSeq([k \in 1..686 |-> Graph(k - 1)], Connected)
      other(g) == IF g["e"] = {"b1"} THEN "b2" ELSE "b3"
  IN  [k \in DOMAIN graphs |-> GraphProgram(graphs[k], "b1")] \o
      [k \in DOMAIN graphs |-> GraphProgram(graphs[k], other(graphs[k]))]

-------------------------------------------------------------------------------

TestPrograms ==
  LET tests == <<TestGlobal, TestInter, TestInter2, TestInter3, TestNest, TestNest2, TestComplex>>
      others == <<Loop, ConstantSwitch, Copies, Recursion, WriteBack, Narrowed, HandedOn>>
  IN  tests \o others \o OnGraphs

MixOnly == LET programs == <<Mix>> IN programs

===============================================================================
