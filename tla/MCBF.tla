--------------------------------- MODULE MCBF ---------------------------------
(***************************************************************************)
(* Every well-nested program of up to MaxLength instructions that moves    *)
(* right, increments and loops, and some longer ones that read and write.  *)
(* No program writes for ever.                                             *)
(***************************************************************************)
EXTENDS BFEngines, TLC

CONSTANT MaxLength

Count(code, i, j, c) == Cardinality({n \in i..j : code[n] = c})
Depth(code, i, j) == Count(code, i, j, "[") - Count(code, i, j, "]")

Balanced(code) ==
  /\ Depth(code, 1, Len(code)) = 0
  /\ \A n \in DOMAIN code : Depth(code, 1, n) >= 0

Partner(code, i) ==
  CHOOSE j \in DOMAIN code :
    \/ /\ code[i] = "[" /\ i < j /\ Depth(code, i, j) = 0
       /\ \A n \in i..(j-1) : Depth(code, i, n) > 0
    \/ /\ code[i] = "]" /\ j < i /\ Depth(code, j, i) = 0
       /\ \A n \in (j+1)..i : Depth(code, n, i) < 0

WithInput(code, input) ==
  [code  |-> code,
   match |-> [i \in {n \in DOMAIN code : code[n] \in Brackets} |-> Partner(code, i)],
   input |-> input]

Generated ==
  {WithInput(c, <<>>) : c \in {d \in UNION {[1..n -> {">", "+", "[", "]"}] : n \in 0..MaxLength}
                                : Balanced(d)}}

\* cat, up to the end of the input; a countdown; a nest left from within; the data
\* pointer to the left of the memory and back; a write there; two loops in a row
Written ==
  {WithInput(<<",", "+", "[", "-", ".", ",", "+", "]">>, <<1, 0>>),
   WithInput(<<"-", "[", ">", "+", ".", "<", "-", "]", ">", ".">>, <<>>),
   WithInput(<<"+", "[", "[", "-", "]", ">", "]", ".">>, <<>>),
   WithInput(<<"<", ">", "-", ".">>, <<>>),
   WithInput(<<"<", ",", ".">>, <<1>>),
   WithInput(<<"-", "[", "-", "]", "[", ".", "]", "+", "[", "-", "]", ".">>, <<>>)}

\* none is so long that the widths of the data pointers could be told apart
ASSUME ShortAssumption == ShortPrograms

MCPrograms == Generated \cup Written
===============================================================================
