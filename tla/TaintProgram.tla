------------------------------ MODULE TaintProgram ------------------------------
(***************************************************************************)
(* What the taint propagation pass reads off a module and never changes.   *)
(* Programs are those of IR and Dominance, with the further fields         *)
(*                                                                         *)
(*   consts    the constants and globals among the operands                *)
(*   ptrs      the values of pointer type                                  *)
(*   useLists  what users() of each value and function may be              *)
(*   limits    the values of max-instructions-per-value                    *)
(*   expected  instruction -> the operands to be annotated, where stated   *)
(*                                                                         *)
(* An instruction is [op, args]: the operands that matter, in order; a     *)
(* call also has its callee, a switch on a constant the block it goes to.  *)
(* No instruction uses a value twice, functions are only called, and the   *)
(* functions of Taint.def are declarations.                                *)
(***************************************************************************)
EXTENDS Dominance

Op(P, I)   == P.inst[I].op
Args(P, I) == P.inst[I].args

Formals(P) == UNION {ToSet(P.params[F]) : F \in DefinedFns(P)}
Values(P)  == Formals(P) \cup P.insts \cup P.consts
Keys(P)    == Values(P) \cup P.fns
Blocks(P)  == DOMAIN P.code

\* whose users() I is among
Uses(P, I) == ToSet(Args(P, I)) \cup (IF Op(P, I) = "call" THEN {P.inst[I].callee} ELSE {})

-------------------------------------------------------------------------------
(***************************************************************************)
(* ValueDependencyMap, filled before the solver starts, and its closure.   *)
(***************************************************************************)
\* a slip, for the mutants: a pointer that was loaded depends on nothing
DependsOnNoLoad(P, v) ==
  IF v \notin P.insts THEN {}
  ELSE CASE Op(P, v) \in {"phi", "cast"} -> ToSet(Args(P, v))
         [] Op(P, v) = "gep"    -> {Args(P, v)[1]}
         [] Op(P, v) = "select" -> {Args(P, v)[2], Args(P, v)[3]}
         [] OTHER               -> {}

DependsOn(P, v) ==
  IF v \notin P.insts THEN {}
  ELSE CASE Op(P, v) \in {"phi", "cast"} -> ToSet(Args(P, v))
         [] Op(P, v) = "gep"    -> {Args(P, v)[1]}
         [] Op(P, v) = "select" -> {Args(P, v)[2], Args(P, v)[3]}
         [] Op(P, v) = "load"   -> {u \in ToSet(Args(P, v)) : v \in P.ptrs}
         [] OTHER               -> {}

GetDependency(P, v) ==
  LET closed[V \in SUBSET Values(P)] ==
        LET more == V \cup UNION {DependsOn(P, u) : u \in V}
        IN  IF more = V THEN V ELSE closed[more]
  IN  Values(P) \cap closed[DependsOn(P, v)]

\* where a write through the pointer v may go
Targets(P, v) == {v} \cup GetDependency(P, v)

\* the formals that the pointer of the store I is, or depends on
AffectedFormals(P, I) ==
  LET params == ToSet(P.params[P.fnOf[I]])
      ptr == Args(P, I)[2]
  IN  ({ptr} \cap params) \cup (GetDependency(P, ptr) \cap params \cap P.ptrs)

\* what the call U passes for the formal a of its callee F
Actual(P, F, U, a) == Args(P, U)[CHOOSE k \in DOMAIN P.params[F] : P.params[F][k] = a]

-------------------------------------------------------------------------------
(***************************************************************************)
(* The functions of Taint.def: the argument 0 is the first, -1 the result. *)
(***************************************************************************)
TaintSource == [fgetc |-> {-1}, fgets |-> {-1, 0}, fread |-> {0}, getc |-> {-1},
                getchar |-> {-1}, read |-> {1}, ungetc |-> {-1}]

IsSource(P, I) == Op(P, I) = "call" /\ P.inst[I].callee \in DOMAIN TaintSource

SourceTargets(P, I) ==
  UNION {IF k = -1 THEN {I} ELSE Targets(P, Args(P, I)[k + 1]) : k \in TaintSource[P.inst[I].callee]}

IsCopy(P, I) == Op(P, I) = "call" /\ P.inst[I].callee = "memcpy"

\* F->hasExactDefinition()
CallsDefined(P, I) == Op(P, I) = "call" /\ P.inst[I].callee \in DefinedFns(P)

-------------------------------------------------------------------------------
(***************************************************************************)
(* Control flow.                                                           *)
(***************************************************************************)
\* getFeasibleSuccessors: only a switch on a constant has any that are not
FeasibleSuccs(P, I) ==
  LET b == P.blockOf[I]
  IN  IF I # LastOf(P, b) THEN {}
      ELSE IF Op(P, I) = "switch" /\ Args(P, I)[1] \in P.consts THEN {P.inst[I].target}
      ELSE P.succs[b]

\* the phis of a block are its first instructions
PHIsOf(P, b) ==
  LET code == P.code[b]
  IN  SubSeq(code, 1, Cardinality({k \in DOMAIN code : \A j \in 1..k : Op(P, code[j]) = "phi"}))

-------------------------------------------------------------------------------
(***************************************************************************)
(* A module that LLVM's verifier accepts, as far as the pass relies on it. *)
(***************************************************************************)
\* there are the operands that the pass asks for
HasOperands(P, I) ==
  LET atLeast(n) == 1..n \subseteq DOMAIN Args(P, I)
  IN  /\ ToSet(Args(P, I)) \subseteq Values(P)
      /\ Op(P, I) \in {"gep", "load", "cast"} => atLeast(1)
      /\ Op(P, I) \in {"store", "memtransfer"} \/ IsCopy(P, I) => atLeast(2)
      /\ Op(P, I) = "select" => atLeast(3)
      /\ IsSource(P, I) => \A k \in TaintSource[P.inst[I].callee] : atLeast(k + 1)
      /\ CallsDefined(P, I) => DOMAIN Args(P, I) = DOMAIN P.params[P.inst[I].callee]

\* who uses what, in any order
IsUseList(P, users) ==
  /\ users \in [Keys(P) -> Seq(P.insts)]
  /\ \A I \in P.insts : \A v \in Uses(P, I) : v \in Keys(P) /\ I \in ToSet(users[v])
  /\ \A F \in P.fns : \A I \in ToSet(users[F]) : Op(P, I) = "call" /\ P.inst[I].callee = F

WellFormed(P) ==
  /\ Verified(P)
  /\ Blocks(P) = UNION {P.blocks[F] : F \in P.fns}
  /\ P.dominated = DominatorTree(P) /\ P.frontier = IteratedFrontier(P)
  /\ IsFiniteSet(Keys(P)) /\ IsFiniteSet(Blocks(P))
  /\ P.fns \cap Values(P) = {}
  /\ P.code \in [Blocks(P) -> Seq(P.insts)]
  /\ P.succs \in [Blocks(P) -> SUBSET Blocks(P)]
  /\ \A F \in DefinedFns(P) : P.entry[F] \in Blocks(P)
  /\ \A I \in P.insts :
       /\ HasOperands(P, I)
       /\ P.fnOf[I] \in DefinedFns(P)
       /\ P.blockOf[I] \in Blocks(P) /\ I \in ToSet(P.code[P.blockOf[I]])
       /\ FeasibleSuccs(P, I) \subseteq Blocks(P)
  /\ \A users \in P.useLists : IsUseList(P, users)
  /\ P.limits \subseteq Nat
===============================================================================
