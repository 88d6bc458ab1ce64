------------------------------- MODULE CSemantics -------------------------------
(***************************************************************************)
(* What the C programs of module CAst mean, evaluated as the language has  *)
(* it and independently of the interpreter: nothing is kept of an          *)
(* expression once it has been evaluated, names are those in scope, and a  *)
(* return leaves the function.  Defined on programs whose behaviour C      *)
(* defines and that end.  Memory is laid out as the interpreter has it.    *)
(***************************************************************************)
EXTENDS CAst, TLC

CONSTANTS code, input

Val(v, s) == [v |-> v, s |-> s]
At(n, i) == code[n].kids[i]
Is(n, kind) == code[n].k = kind
Name(n) == code[n].x

\* objects: sequences of values, by name; a local one hides nothing, names being distinct
Value(d, s) == IF d \in DOMAIN s.locals THEN s.locals[d] ELSE s.globals[d]

Store(d, i, v, s) ==
  IF d \in DOMAIN s.locals THEN [s EXCEPT !.locals[d][i] = v] ELSE [s EXCEPT !.globals[d][i] = v]

RECURSIVE Expr(_, _), Exec(_, _)

\* the values of several expressions, in order
Exprs(ns, s) ==
  FoldLeft(LAMBDA r, n : LET e == Expr(n, r.s) IN Val(Append(r.v, e.v), e.s), Val(<<>>, s), ns)

\* an object as the place that is assigned: <<name, offset>> or the address of a cell
Place(n, s) ==
  LET i == Expr(At(n, IF Is(n, "index") THEN 2 ELSE 1), s)
  IN  CASE Is(n, "ref")   -> Val(<<Name(n), 1>>, s)
        [] Is(n, "index") -> Val(<<Name(At(n, 1)), i.v + 1>>, i.s)
        [] Is(n, "deref") -> Val(<<i.v>>, i.s)

Read(place, s) == IF Len(place) = 2 THEN Value(place[1], s)[place[2]] ELSE s.mem[place[1]]

Write(place, v, s) ==
  IF Len(place) = 2 THEN Store(place[1], place[2], v, s)
  ELSE [s EXCEPT !.mem[place[1]] = v]

Assignment(n, s) ==
  LET e == Expr(At(n, 2), s)
      p == Place(At(n, 1), e.s)
  IN  Val(e.v, Write(p.v, e.v, p.s))

Function(n, args, s) ==
  LET ps == ParamsOf(code, Name(n))
      in == [s EXCEPT !.locals = [d \in Range(ps) |-> <<args[CHOOSE i \in DOMAIN ps : ps[i] = d]>>]]
      out == Exec(BodyOf(code, Name(n)), in)
  IN  Val(out.v, [out.s EXCEPT !.locals = s.locals])

CallOf(n, s) ==
  LET args == Exprs(code[n].kids, s)
      t == args.s
      a == args.v[1]
      cells == {t.brk + CellSize * i : i \in 0..((a \div CellSize) - 1)}
  IN  CASE Name(n) = "GET" ->
             IF t.input = <<>> THEN Val(0, t) ELSE Val(Head(t.input), [t EXCEPT !.input = Tail(@)])
        [] Name(n) = "PRINT"  -> Val(0, [t EXCEPT !.output = Append(@, a)])
        [] Name(n) = "MALLOC" ->
             Val(t.brk, [t EXCEPT !.mem = [c \in cells |-> 0] @@ @, !.brk = @ + a + CellSize])
        [] Name(n) = "FREE"   -> Val(0, t)
        [] OTHER -> Function(n, args.v, t)

Expr(n, s) ==
  LET both == Exprs(code[n].kids, s)
      place == Place(n, s)
  IN  CASE Is(n, "lit") -> Val(code[n].v, s)
        [] Is(n, "sizeof") -> Val(CellSize, s)
        [] Is(n, "bin") -> Val(Binary(Name(n), both.v[1], both.v[2]), both.s)
        [] Is(n, "neg") -> Val(-both.v[1], both.s)
        [] Is(n, "asg") -> Assignment(n, s)
        [] Is(n, "call") -> CallOf(n, s)
        [] code[n].k \in {"paren", "cast"} -> Expr(At(n, 1), s)
        [] code[n].k \in {"ref", "deref", "index"} -> Val(Read(place.v, place.s), place.s)

-------------------------------------------------------------------------------
(* Statements: the environment after it, and whether it has returned *)

Goes(s)       == [returned |-> FALSE, v |-> 0, s |-> s]
Returns(e)    == [returned |-> TRUE, v |-> e.v, s |-> e.s]
Then(r, Next(_)) == IF r.returned THEN r ELSE Next(r.s)

Declare(n, s) ==
  LET e == Expr(At(n, 1), s)
      with(t, vs) == [t EXCEPT !.locals = (Name(n) :> vs) @@ @]
  IN  IF Is(n, "array") THEN with(s, [i \in 1..code[At(n, 1)].v |-> 0])
      ELSE IF code[n].kids = <<>> THEN with(s, <<0>>) ELSE with(e.s, <<e.v>>)

RECURSIVE Loop(_, _, _, _)
Loop(cond, body, inc, s) ==
  LET c == Expr(cond, s)
      again(t) == Loop(cond, body, inc, FoldLeft(LAMBDA u, n : Exec(n, u).s, t, inc))
  IN  IF c.v = 0 THEN Goes(c.s) ELSE Then(Exec(body, c.s), again)

Exec(n, s) ==
  LET kids == code[n].kids
      c == Expr(At(n, 1), s)
      e == Expr(n, s)
  IN  CASE Is(n, "block")  -> FoldLeft(LAMBDA r, m : Then(r, LAMBDA t : Exec(m, t)), Goes(s), kids)
        [] Is(n, "decls")  -> Goes(FoldLeft(LAMBDA t, d : Declare(d, t), s, kids))
        [] Is(n, "return") -> Returns(c)
        [] Is(n, "if")     -> IF c.v # 0 THEN Exec(kids[2], c.s)
                              ELSE IF Len(kids) = 3 THEN Exec(kids[3], c.s) ELSE Goes(c.s)
        [] Is(n, "while")  -> Loop(kids[1], kids[2], <<>>, s)
        [] Is(n, "for")    -> Loop(kids[2], kids[4], <<kids[3]>>, Exec(kids[1], s).s)
        [] OTHER -> Goes(e.s)

\* what the program prints
Output ==
  LET start == [globals |-> EmptyMap, locals |-> EmptyMap, mem |-> EmptyMap, brk |-> HeapBase,
                input |-> input, output |-> <<>>]
      isVar(d) == code[d].k \in {"var", "array"}
      unit == FoldLeft(LAMBDA s, d : IF isVar(d) THEN Declare(d, s) ELSE s, start, code[1].kids)
  IN  Exec(BodyOf(code, "main"), [unit EXCEPT !.globals = unit.locals, !.locals = EmptyMap]).s.output
===============================================================================
