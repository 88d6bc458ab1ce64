---------------------------------- MODULE CAst ----------------------------------
(***************************************************************************)
(* The C programs that the interpreter walks, as Clang builds their trees. *)
(*                                                                         *)
(* A program is the sequence of its nodes, a node being known by its place *)
(* in it as it is known by its address in the code: two equal expressions  *)
(* are two nodes.  Node 1 is the translation unit.  A node is a record:    *)
(*                                                                         *)
(*   k     its kind, one of those of CTree                                 *)
(*   x     its name or operator                                            *)
(*   v     its value, for a literal                                        *)
(*   kids  its parts, in order                                             *)
(*                                                                         *)
(* Implicit casts, which every handler looks through, are left out.        *)
(* Declarations have names of their own, so a name stands for its          *)
(* declaration.                                                            *)
(***************************************************************************)
EXTENDS Integers, Sequences, SequencesExt

CONSTANT Programs    \* records [code, input]: a program and what std::cin holds

-------------------------------------------------------------------------------
(* Parts of the program p *)

FunctionOf(p, f) == CHOOSE n \in DOMAIN p : p[n].k = "fun" /\ p[n].x = f
ParamsOf(p, f) == [i \in 1..(Len(p[FunctionOf(p, f)].kids) - 1) |-> p[p[FunctionOf(p, f)].kids[i]].x]
BodyOf(p, f)   == Last(p[FunctionOf(p, f)].kids)

\* the nodes of the part of the program that starts at n
Within(p, n) ==
  LET last[i \in DOMAIN p] == IF p[i].kids = <<>> THEN i ELSE last[Last(p[i].kids)]
  IN  n..last[n]

IsFunction(p, f) == \E n \in DOMAIN p : p[n].k = "fun" /\ p[n].x = f

Builtins == {"GET", "PRINT", "MALLOC", "FREE"}

\* every node has its parts to itself
IsTree(p) ==
  /\ DOMAIN p = 1..Len(p) /\ Len(p) \in Nat
  /\ \A n \in DOMAIN p :
       /\ p[n].kids \in Seq(DOMAIN p)
       /\ Within(p, n) \subseteq DOMAIN p
       /\ Within(p, n) = {n} \cup UNION {Within(p, p[n].kids[i]) : i \in DOMAIN p[n].kids}
       /\ \A m \in Within(p, n) : Within(p, m) \subseteq Within(p, n)
       /\ \A i, j \in DOMAIN p[n].kids :
            /\ n \notin Within(p, p[n].kids[i])
            /\ i # j => Within(p, p[n].kids[i]) \cap Within(p, p[n].kids[j]) = {}

Operators == {"+", "-", "*", "/", "<", ">", "==", "p+", "p-"}

Expressions ==
  {"lit", "ref", "sizeof", "bin", "asg", "neg", "deref", "index", "paren", "cast", "call"}

\* how many arguments a function takes
Arity(p, f) == CASE f = "GET" -> 0
                 [] f \in Builtins \ {"GET"} -> 1
                 [] OTHER -> Len(ParamsOf(p, f))

\* the parts of expressions, declarations and returns
HasShapes(p) ==
  \A n \in DOMAIN p :
    LET k == p[n].k
        size == Len(p[n].kids)
        kind(i) == p[p[n].kids[i]].k
    IN  /\ k \in Expressions \cup {"var", "return", "array"} => \A i \in 1..size : kind(i) \in Expressions
        /\ k \in {"bin", "asg", "index"} => size = 2
        /\ k \in {"neg", "deref", "paren", "cast", "return", "array"} => size = 1
        /\ k = "call"  => size = Arity(p, p[n].x)
        /\ k = "var"   => size \in {0, 1}
        /\ k = "bin"   => p[n].x \in Operators
        /\ k = "lit"   => p[n].v \in Int
        /\ k = "array" => p[p[n].kids[1]].v \in Nat \ {0}
        /\ k = "decls" => \A i \in 1..size : kind(i) \in {"var", "array"}
        /\ k \in {"if", "while"} => kind(1) \in Expressions
        /\ k = "for"   => kind(2) \in Expressions

\* what Clang's parser and semantic analysis guarantee of a program in the supported subset
IsProgram(p) ==
  /\ IsTree(p)
  /\ 1 \in DOMAIN p /\ \A i \in DOMAIN p[1].kids : p[p[1].kids[i]].k \in {"fun", "var", "array"}
  /\ IsFunction(p, "main")
  /\ \A n \in DOMAIN p :
       /\ p[n].k = "fun" => /\ \E i \in DOMAIN p[1].kids : p[1].kids[i] = n
                            /\ p[n].kids # <<>>
                            /\ \A i \in 1..(Len(p[n].kids) - 1) : p[p[n].kids[i]].k = "var"
       /\ p[n].k = "call"  => p[n].x \in Builtins \/ IsFunction(p, p[n].x)
       /\ p[n].k = "if"    => Len(p[n].kids) \in {2, 3}
       /\ p[n].k = "while" => Len(p[n].kids) = 2
       /\ p[n].k = "for"   => Len(p[n].kids) = 4
  /\ HasShapes(p)

ASSUME ProgramAssumption == \A q \in Programs : IsProgram(q.code)
ASSUME InputAssumption == \A q \in Programs : q.input \in Seq(Int)

-------------------------------------------------------------------------------
(* Values *)

\* nothing by no name
EmptyMap == [d \in {} |-> 0]

\* where each thing is on the heap: int and pointers take one cell
CellSize == 8
HeapBase == 1000

\* an int is narrower than the interpreter's values and than an address
IntLimit == 500
ToInt(v) == ((v + IntLimit) % (2 * IntLimit)) - IntLimit

\* division rounds towards zero
Quotient(a, b) ==
  IF (a >= 0) = (b > 0) THEN (IF a >= 0 THEN a ELSE -a) \div (IF b > 0 THEN b ELSE -b)
                        ELSE -((IF a >= 0 THEN a ELSE -a) \div (IF b > 0 THEN b ELSE -b))

Binary(o, a, b) ==
  CASE o = "+"  -> a + b
    [] o = "-"  -> a - b
    [] o = "*"  -> a * b
    [] o = "/"  -> Quotient(a, b)
    [] o = "<"  -> IF a < b THEN 1 ELSE 0
    [] o = ">"  -> IF a > b THEN 1 ELSE 0
    [] o = "==" -> IF a = b THEN 1 ELSE 0
    [] o = "p+" -> a + CellSize * b
    [] o = "p-" -> a - CellSize * b
===============================================================================
