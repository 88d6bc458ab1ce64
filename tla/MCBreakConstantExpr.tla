-------------------------- MODULE MCBreakConstantExpr --------------------------
(***************************************************************************)
(* Modules of two functions.  The first has a block that branches twice to *)
(* a loop of one block, where a phi takes a value from each of the three   *)
(* edges; its operands, and those of a plain instruction, are all          *)
(* combinations of constant expressions up to three deep, an expression    *)
(* that occurs twice in another one among them.  In the second function    *)
(* one operand may be a constant expression.                               *)
(***************************************************************************)
EXTENDS BreakConstantExpr

CONSTANTS cast, gep, sum, global, b1, b2, b3

MCOperands ==
  [e \in {cast, gep, sum} |->
     CASE e = cast -> <<Leaf(global)>>
       [] e = gep  -> <<Expr(cast), Leaf(global)>>
       [] e = sum  -> <<Expr(gep), Expr(cast), Expr(gep)>>]

Plain(ops, b) == [phi |-> FALSE, ops |-> ops, from |-> <<>>, block |-> b, computes |-> <<>>]
Phi(ops, from, b) == [phi |-> TRUE, ops |-> ops, from |-> from, block |-> b, computes |-> <<>>]

Module(u, v, w, x, y) ==
  [code |-> <<Plain(<<u, v>>, b1), Plain(<<Leaf(global)>>, b1),
              Phi(<<w, x, w>>, <<b1, b2, b1>>, b2), Plain(<<Inst(3)>>, b2), Plain(<<Inst(4)>>, b2),
              Plain(<<y>>, b3)>>,
   layout |-> [b \in {b1, b2, b3} |->
                 CASE b = b1 -> <<1, 2>> [] b = b2 -> <<3, 4, 5>> [] b = b3 -> <<6>>],
   ends |-> <<5, 6>>]

MCModules ==
  LET V == {Expr(cast), Expr(gep), Expr(sum), Leaf(global)}
  IN  {Module(u, v, w, x, y) : u, v, w, x \in V, y \in {Expr(cast), Leaf(global)}}
===============================================================================
