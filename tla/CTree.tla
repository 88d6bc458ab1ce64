---------------------------------- MODULE CTree ----------------------------------
(***************************************************************************)
(* Syntax trees as they are written down, and the programs of CAst that    *)
(* they stand for.                                                         *)
(***************************************************************************)
EXTENDS Integers, Sequences, SequencesExt

\* k: kind of the node; x: its name or operator; v: its value, for a literal; kids: its parts
Tree(k, x, kids) == [k |-> k, x |-> x, v |-> 0, kids |-> kids]

\* the statements and expressions the interpreter supports (README.md:9-16)
Lit(v)       == [Tree("lit", "", <<>>) EXCEPT !.v = v]
Ref(d)       == Tree("ref", d, <<>>)
SizeOf       == Tree("sizeof", "", <<>>)
Bin(o, l, r) == Tree("bin", o, <<l, r>>)      \* o: + - * / < > ==, p+ p- on a pointer
Asg(l, r)    == Tree("asg", "=", <<l, r>>)
Neg(e)       == Tree("neg", "", <<e>>)
Deref(e)     == Tree("deref", "", <<e>>)
Index(a, e)  == Tree("index", "", <<Ref(a), e>>)
Paren(e)     == Tree("paren", "", <<e>>)
Cast(e)      == Tree("cast", "", <<e>>)
Call(f, es)  == Tree("call", f, es)

Var(d)      == Tree("var", d, <<>>)
VarIs(d, e) == Tree("var", d, <<e>>)
Array(d, n) == Tree("array", d, <<Lit(n)>>)
Decls(ds)   == Tree("decls", "", ds)
Block(ss)   == Tree("block", "", ss)
If(c, s)    == Tree("if", "", <<c, s>>)
IfElse(c, s, t) == Tree("if", "", <<c, s, t>>)
While(c, s) == Tree("while", "", <<c, s>>)
For(i, c, n, s) == Tree("for", "", <<i, c, n, s>>)
Return(e)   == Tree("return", "", <<e>>)

Fun(f, ps, ss) == Tree("fun", f, [i \in DOMAIN ps |-> Var(ps[i])] \o <<Block(ss)>>)
Unit(ds)       == Tree("unit", "", ds)

-------------------------------------------------------------------------------
(* From trees to programs *)

RECURSIVE Size(_)
Size(t) == 1 + FoldLeft(LAMBDA n, kid : n + Size(kid), 0, t.kids)

\* the nodes of t, numbered from n on
RECURSIVE Numbered(_, _)
Numbered(t, n) ==
  LET start[i \in 1..(Len(t.kids) + 1)] ==
        IF i = 1 THEN n + 1 ELSE start[i - 1] + Size(t.kids[i - 1])
  IN  <<[t EXCEPT !.kids = [i \in DOMAIN t.kids |-> start[i]]]>>
        \o FlattenSeq([i \in DOMAIN t.kids |-> Numbered(t.kids[i], start[i])])

Program(t) == Numbered(t, 1)
===============================================================================
