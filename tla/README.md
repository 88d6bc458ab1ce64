# A verification project for LLVM-Clang-Examples

The repository is a collection of small tools built on LLVM and Clang. This directory
models the ones that have logic of their own, checks the models with TLC on small instances
and proves the most important properties with TLAPS for all instances. Paths are relative to
the repository (`src/` here); line numbers are those of the modelled commit.

## 1. Inventory

| Part | State | Operations | What is hard | What makes it correct |
|---|---|---|---|---|
| **forward dataflow framework** `dataflow-points-to-analysis/src/Dataflow.h` | a worklist of blocks (`std::set` of pointers), the result map instruction -> (in, out) | `compForwardDataflow`: merge predecessors, let the visitor transfer, requeue successors on change | visiting order depends on the allocator; is entered again with the values of an earlier visit; no bound on the loop | stops, at the least solution above what it was given, in any order |
| **points-to analysis** `PointTo.h` | facts per program point, call graph, worklist of functions, the visitor's list of functions to queue | one transfer function per instruction kind; a call passes facts to callees' entries, a return to callers' calls; `printCallGraph` | functions change each other's values behind their backs; orders of three hash containers; strong updates; recursion | functions left off the worklist are solved; the printed call graph is that of the test case in every order |
| **BF interpreter** `building-a-JIT-for-BF/bf-interpreter` | program, jump table, stack of open brackets, `pc_`, data pointer, memory | load one character, run one instruction | jump arithmetic on unsigned `pc_`; input end; unchecked memory | does what brainfuck says |
| **BF JIT compiler** `building-a-JIT-for-BF/bf-jit` | blocks under construction, insertion point, stack of loops; at run time data pointer and memory | emit code for one instruction; run the emitted blocks | code must land in the right block; two tests per loop with opposite senses; other pointer width | well-formed function; agrees with the interpreter |
| **constant expression breaking** `break-constantexpr` | worklist of instructions, the instruction and operand at hand, `modified` | scan, take an instruction, turn one operand into an instruction (plain or phi) | worklist grows while it is emptied; expressions nested and shared; phis with repeated edges | same values, definitions before uses, nothing left over |
| **C AST interpreter** `c-ast-interpreter/src` | stack frames (variables, values of expressions, return flag), heap of known addresses | one visit per kind of statement and expression, evaluation with a cache | stale cached values; a return that does not unwind; lookup through all frames | prints what C prints, no assertion fails, ends |
| **taint propagation** `taint-propagation/src` | lattice value per LLVM value and per function result, worklists of values and of blocks, executable blocks and edges | one transfer function per instruction kind, `Solve`, `visitInst`, `markEdgeExecutable`, annotation with `!taint` | two worklists that feed each other in an order that depends on addresses and use lists; users skipped while their block is not executable; formals that are narrowed; recursion; `reachable` decided by dominance frontiers | stops; leaves nothing undone; never takes taint back; annotates the documented operands; `reachable` is the existence of a path |
| function exit unification, comments extractor, RTTI example, called value propagation client, Clang pass plugin, install script | none | print something | - | not modelled: I/O, formatting, or LLVM's own logic |

How they interact: `PointToPass` calls `compForwardDataflow` with `PointToVisitor` for one
function at a time; the visitor calls back into the pass's worklist and into the result map
of other functions. `TaintLatticeFunc` and `TaintSolver` call each other: the solver asks for
what a visit changes, and the transfer functions of calls and stores mark blocks executable
in the solver meanwhile. The two BF engines share nothing but the language, which is why they are
compared. `InterpreterVisitor` drives `Environment`; `Environment` never calls back. The
other parts do not interact with one another: each is a tool of its own. Nothing in the
repository runs threads and nothing is persisted, so the nondeterminism that matters is that
of container orders (pointers as keys), of inputs and programs, and of the two BF engines'
relative pace; there are no crashes, messages or timeouts to model.

## 2. How the project was built

In this order: the dataflow framework with its abstract specification and proofs; the
points-to analysis; the BF engines with the abstract machine; constant expression breaking;
the C interpreter; the taint propagation pass (`Dominance` for its `reachable`,
`TaintProgram` for what it reads off a module, `TaintPropagation` for the solver) and the
proofs about its solver; the proofs about the JIT compiler, and those about both engines
side by side; the proof that `BreakConstantExpr` defines what it creates before its use; the
proofs about the points-to analysis; that `reachable` is right on every graph; that the two
engines agree; `CVisitor`, the C interpreter without its arithmetic, with the proofs
about its frames and kept values; the proofs about the interpreter itself, that it is
typed and implements `CVisitor`; and the types of the points-to pass.

Modules that theorems are about (`Dataflow`, `PointsTo`, `BFInterpreter`, `BFJit`, `BFEngines`,
`BreakConstantExpr`, `TaintPropagation`, `CVisitor`, `CInterpreter`) use recursive functions
where they recurse at all, and no RECURSIVE operators.

What is left: the annotations of the taint pass for every module.

## 3. Modules

| Module | Models | How state and actions correspond |
|---|---|---|
| `DataflowSolution` | the promise of `compForwardDataflow` | one step that returns the least solution |
| `Dataflow` | `Dataflow.h` | `worklist`, `in`, `out`; `ProcessBlock` is one round of the `while`. `worklist.begin()` is any member, since the keys are pointers |
| `Dataflow_proofs` | | theorems, section 6 |
| `IR` | the LLVM instructions the pass looks at | records with operands; the rest of LLVM is external |
| `PointToInfo` | the facts and transfer functions of `PointTo.h` | sets of tagged pairs for the two maps, an empty set as a key marker (`operator[]` creates keys) |
| `PointsTo` | `PointToVisitor`, `PointToPass` | one action per visited instruction and per loop head of the two worklists; the argument map's order is chosen once |
| `PointsTo_proofs` | | theorems, section 6 |
| `BFProgram` | programs, sizes, their assumptions | |
| `BFMachine` | brainfuck, abstract | one action per instruction kind |
| `BFInterpreter` | `BFInterpreter.cpp` | `Load`, then one action per instruction kind; positions count from 1 |
| `BFJit` | `bf-jit/main.cpp` | one emitting action per instruction kind, then running the emitted blocks |
| `BFEngines` | both at once | an interleaving of the two |
| `BFJit_proofs`, `BFEngines_proofs` | | theorems, section 6; the second is about the interpreter as well |
| `BreakConstantExpr` | `BreakConstantExpr.cpp` | scan, work and operand loops one iteration at a time |
| `BreakConstantExpr_proofs` | | theorems, section 6 |
| `CAst` | Clang's syntax tree, as far as the interpreter looks at it, and what may be relied on of it | a program is the sequence of its nodes; a node is its place, as in the code it is its address |
| `CTree` | trees as they are written down, and the programs they stand for | |
| `CFrames` | what the next two have in common: the frames, the agenda, and the properties that relate them | of a frame, the variables it has, the expressions whose value it keeps and whether its function has returned |
| `CVisitor` | `InterpreterVisitor` and the frames of `Environment`: the order in which things are done | the actions of `CInterpreter`, with the call that pushes a frame as an action of its own, but what an expression evaluates to, which branch is taken and which of the values are kept is left open |
| `CVisitor_proofs` | | theorems, section 6 |
| `CInterpreter` | `ASTInterpreter.cpp`, `Environment.h`, `util.h`; implements `CVisitor` | the visitor's call stack is `agenda`, each visit replacing itself by what it calls; `env` is the environment. `EvaluateExpr` and the handlers call each other: a handler is split into what it evaluates (`Operands`) and what it does with the values (`Operate`), and what is under evaluation is a list, of which `Turn` takes the first: it asks for an operand that has no value yet, or is done. The list ends in twice as many turns as there are nodes (section 6) |
| `CInterpreter_proofs` | | theorems, section 6 |
| `CSemantics` | the C language, not the repository | an evaluator written from the language, as the reference the interpreter is compared with |
| `Dominance` | `reachable` (`TaintPropagation.cpp:45-83`) | the dominators and iterated frontiers that LLVM computes, as sets of blocks found by searching the graph, and the same test on them; `HasPath` is what it is meant to decide |
| `TaintProgram` | what the pass reads off a module | dependence of pointers and its closure, `Taint.def`, feasible successors, and what a well-formed module is |
| `TaintPropagation` | the rest of `TaintPropagation.cpp` | `state` is `ValueState`, with the key of a function for its Return key. `Changed(I)` is `ChangedValues` after the transfer function of `I`; `VisitInst` applies it. `agenda` is the rest of the current round of `Solve`, so that each visit, each edge and each skipped user is a step |
| `TaintPropagation_proofs` | | theorems, section 6 |
| `MC*` | instances for TLC | |

Abstractions worth knowing:

- `PointsTo`: union merges (with key markers) stand for the map merges. A
  function's first instruction is taken not to be a call that may reach that function among
  others (the code reads the facts before a call anew for each callee, `PointTo.h:238`).
  `call_graph_` compares calls by line only, and so does `Register`; what `ArgumentsArrive`
  says of registration is said of calls with a line of their own. A walk that cannot end (`getValuePointToFunctions` on a cycle) is the status
  "hung".
- `BFInterpreter`, `BFJit`: characters that are not instructions are dropped one at a time by
  both readers and have no step here. Brackets are taken to pair up: both engines pop a stack
  that they do not test. A cell outside memory is undefined behaviour and ends the run. LLVM's optimiser and
  code generator are taken to be right.
- `BreakConstantExpr`: an instruction is its operands, its block and what it computes.
  Landing pads are left out.
- `CInterpreter`: implicit casts, which every handler looks through, are no nodes. An int is
  narrower than a pointer (`IntLimit`), as in the code. `malloc` gives a new block each time.
  Failed assertions and undefined behaviour end the run (`env.fault`). Characters are
  integers and wording is left out of the output. Array initializers, which the code ignores,
  are left out. No program of the passing run returns a pointer (section 5) or uses memory that
  was freed or lies behind a block, which C does not define: that the check before an access
  holds of such memory (`Environment.h:323`) is a hazard no property covers. Of the heap
  `TypeOK` says the other direction, that every block `malloc` gave is registered.

- `TaintPropagation`: the operands of an instruction are those the pass looks at. What the
  code takes from sets of pointers - changed values, new blocks, feasible successors - is
  taken in every order, and so are the two directions of a use list where `users` is one of
  several. Within a visit the last call in the use list wins when two calls pass the same
  value for a formal (`l.632`). It is assumed that no instruction uses one value twice, that
  functions are only called and never passed, and that the functions of `Taint.def` are
  declarations. Printing is left out.

## 4. Runs

| Run | Question | Instance and why it is enough |
|---|---|---|
| `dataflow` | Does the iteration stop at the least solution, in any order? | Six blocks, nested loops, one with two entries, an unreachable self-loop, a kill and two facts that feed each other, started from non-empty values. Every order of visits is explored |
| `pointsto` | Does the pass end with the right call graph? | Test cases of the repository in SSA form, recursive programs, and one whose handlers differ in their formals (`FormalsExist`); every order of functions, blocks and arguments |
| `pointsto_getter`, `pointsto_indirect`, `pointsto_swapped`, `pointsto_circular` | violations, section 5 | one program each |
| `bf` | Do both engines do what the machine does, and agree? | Every well-nested program of up to six of `> + [ ]` (loops twice nested, skipped, left, endless) and six written ones for input, output, wrap-around and access outside memory. Two cells of three values and pointer widths 32 and 16 stand for 30000, 256, 2^64 and 2^32: all wrap, and the widths differ as in the code. Programs are shorter than the narrower width (`ShortPrograms`, section 6) |
| `breakconst` | Is the rewritten module equivalent, complete and well ordered? | Every combination of four operands in four places, one of them behind a phi with a repeated edge; expressions three deep and shared |
| `cinterp` | Does the interpreter print what C prints, and do things in the order of `CVisitor`? | The test programs 05, 07, 10-16, 18-20 and 22-24 (smaller loop bounds in 11, arguments 4 in 20 and 2+2 in 24), and all sequences of up to two (`MaxStatements`) of nine statements - nested calls, input, if/else, both loops with calls and ifs in them, array and pointer accesses, chained assignment - in `main` and in a called function. The called `f` returns from three places and changes a global variable, so a call evaluated twice, lost or continued after its return shows in the output |
| `cinterp_early_return` | violation, section 5 | |
| `taint` | Does the solver stop, at a solution, with the documented annotations? Is `reachable` the existence of a path? | Seven test cases of the repository; seven small programs: a loop with phis, a switch on what was read and a select, a switch on a constant, copies with bounds of 1, 2 and 128, recursion, a callee that stores through its formal, a recursion that narrows a formal, and one that hands a written pointer on; all but one with the use lists in program order and reversed. And one function with a reading and a use on every connected graph of an entry and three blocks with up to two successors each, the reading in either of two places. A frontier of a frontier needs that many blocks; graphs with loops and irreducible ones are among them |
| `taint_mix` | violation, section 5 | one recursive function with two buffers |

Deadlock checking is off (`CHECK_DEADLOCK FALSE`) in every run because every tool here ends.

Each property of a passing run has a mutant in `PROJECT.json`: a slip in the modelled code
that makes TLC report that property. The operators the mutants use are marked in the modules.

### Fairness

All programs are single-threaded: weak fairness of the next-state relation says only that a
program that can take a step is not stopped from outside. Which member of a worklist is taken
is left entirely open. In `BFEngines` each engine has weak fairness of its own, as two
separate processes have. No strong fairness is used. `TaintPropagation` has weak fairness of
`Next`: its actions are the rounds of one `while` loop.

## 5. Disagreements found

Each is shown by a violation run and listed in `PROJECT.json` with the line it contradicts.

- `pointsto_getter`: a callee that is iterated before a call without pointer arguments is
  registered never passes its return facts to that call (`PointTo.h:239-243`, comment at 211).
- `pointsto_indirect`: an indirect call whose callees are all declarations loses the facts
  that came in (`PointTo.h:223`, comment at 211-213).
- `pointsto_swapped`: arguments are renamed one pair at a time in a set that is being renamed,
  so swapping two of them in a recursive call merges them (`PointTo.h:245-284`).
- `pointsto_circular`: the walk from a call operand to functions has no visited set and does
  not end on a node that points to itself (`PointTo.h:92-104`).
- `cinterp_early_return`: statements behind a return that was taken still have their effect
  (`ASTInterpreter.cpp:55-76`): the visitors skip the children and call the environment all
  the same.
- `taint_mix`: `Solve` need not come to the point of its comment "Process the work lists until
  they are empty!" (`TaintPropagation.cpp:1157`). `visitCallSite` replaces the state of a
  formal by "tainted everywhere" where the comment of `l.264-266` speaks of a merge (`l.752`);
  a copy to that formal narrows it to the copy, and a recursive call widens it again.

Met while modelling and kept out of the passing runs, without a run of their own:

- Points-to analysis: the fields of an object share one entry, and a store clears it as if it
  were the only field (`PointTo.h:412`), so that a callee stored in another field is lost:
  after `s.add = plus; s.sub = minus;` only `minus` is found for `s.add(1, 2)`.
- C interpreter: a return inside a loop leaves the loop's condition true for ever
  (`ASTInterpreter.cpp:109`); a loop body without braces has only its children visited
  (`111`, `130`); a declaration in a loop body is inserted twice and fails the assertion of
  `util.h:38`; a call or an array element in a condition is 0 (`Environment.h:387-443`);
  `return;` evaluates a null expression (`384`); a pointer returned by a function is cut to
  an int (`ASTInterpreter.cpp:85`).
- Taint propagation: a store does not learn of a formal that becomes tainted after it
  (`TaintPropagation.cpp:630` is read once per visit, and the formal's users are not the
  stores that write through what depends on it), so an argument may stay untainted - the
  exception in `Settled`. For the same reason, and because a formal's state is what came last,
  the annotations of formals depend on the order of the use lists. A tainted result is not
  told to callers that are not executable (`768-782`). A value at its bound counts as not
  tainted (`30-34`, `141-145`). A copy into a formal does not reach the callers, only a store
  does (`595-599`). An instruction in a loop never reaches itself (`70`). `CallSite(U)` does
  not ask whether the function is the callee (`624`), so a function that is passed as an
  argument would be read at the wrong operands. Globals carry no taint to other functions
  unless they are operands there, and constants such as null share one state.
- `break-constantexpr`: constant expressions inside aggregate constants stay
  (`BreakConstantExpr.cpp:4-11`, its `README.md:3`).
- `break-constantexpr/README.md:5` allows the resulting instructions to have constant
  expressions as operands; the code leaves none (`NoExprLeft`, proved).

## 6. Proofs

All theorems are checked by TLAPS to the last leaf, for every value of the constants that
meets the named assumptions.

**`Dataflow_proofs`** (assumes `GraphAssumption`, `VisitorAssumption`, `GivenAssumption`; where
leastness is concerned, `Monotone` and `GivenIsAccounted` are hypotheses of the theorem, the
former being the condition stated at `Dataflow.h:84-87`).
`TypeTheorem`; `SettledTheorem` (blocks off the worklist are up to date - inductive together
with the types, since a changed outgoing value requeues exactly the blocks that read it);
`BelowTheorem` (nothing exceeds any solution, by monotonicity); `AdvanceTheorem` (each visit
makes one of three kinds of progress); `AnswerTheorem` (an empty worklist with the two
invariants is the least solution) and from it `ImplementsTheorem`, the refinement of
`DataflowSolution`: all steps stutter but the one that empties the worklist.

**`BFJit_proofs`** (assumes `SizeAssumption`, `ProgramAssumption`). The inductive invariant says which part of the
program a block stands for: consecutive instructions that are no brackets, from the beginning (`Entry`), from behind an opening
bracket (`Body`) or from behind a closing one (`Exit`). A block that has branched ends before
the bracket that made it branch, to the blocks of that bracket's loop; the others are the
insertion point and the empty exits of the loops on the stack. So a place in the emitted
function is a place in the program (`Placed`), a branch leads where the program goes
(`ImplementsTheorem`), and no two blocks overlap, since a bracket precedes the later one
(`WellFormedTheorem`).

**`BFEngines_proofs`** (the same assumptions) begins with the interpreter alone. Its inductive
invariant adds to the types that the stack is exactly the open brackets in order and the jump
table exactly the closed pairs; without it nothing says where a jump leads. A pop then yields
the partner because pairs nest. `InterpreterTypeTheorem`, `InterpreterBracketsTheorem`,
`InterpreterAssertionTheorem`, and `InterpreterImplementsTheorem`: each step of the
interpreter is a step of `BFMachine` or a stutter while loading.

It then puts the two side by side: a step of one engine leaves the other's
invariant alone, so each property of the run `bf` that concerns one engine holds side by
side for all programs and sizes. `AgreeTheorem` - engines that have both stopped have printed
the same and read the same, and until then one output is the beginning of the other - has one
hypothesis more, `ShortPrograms`: a program and the memory together are shorter than a data
pointer is wide. The widths differ (`BFInterpreter.cpp:22` has 64 bits, `main.cpp:69` has
32), and on a longer row of moves one pointer is back in memory while the other is outside
it. What the hypothesis excludes is a program text of some four billion characters. The
invariant behind it (`OnOneRun`) says that both engines are on one run of the machine, the
slower one at a prefix of it.

**`BreakConstantExpr_proofs`** (assumes `OperandsAssumption` and `ModuleAssumption`: what a
module in SSA form is). The inductive invariant says where the remaining constant
expressions are: in an instruction that the scan has not reached, on the worklist, in a later
function, or at or behind the operand at hand. `NoExprTheorem` follows when all of these are
empty. `SameValuesTheorem` needs that each created instruction computes the expression whose
use it replaces; `PhisAgreeTheorem` that all edges of one block are replaced together;
`TypeTheorem` and `ModifiedTheorem` come with them.

`DefinedBeforeUseTheorem` assumes `LayoutAssumption` as well: an instruction lies in its
block, once, and a block that a phi's values come from has a terminator. `PlaceInv` says
that this stays so, and that an operand that was created is in its place - before its user in
the same block, or inside the block that a phi's value comes from. It is inductive because an
insertion keeps the order of what was there (`InsertOrder`), so nothing that was in its place
leaves it, and because the operands of what is created are constants. The theorem
follows, as the place of an instruction in its block is unique.

**`TaintPropagation_proofs`** (assumes `ProgramAssumption`: the modules are as LLVM's verifier
accepts them, and use lists are complete). The inductive invariant joins the types, `RestInv`
(the pass has returned only with empty lists), `ReturnKeys` (a Return key is tainted
everywhere or not at all) and `WorkInv`: an executable instruction is clean - another visit
would change nothing - or something on the agenda or on one of the lists will bring a visit.
It is inductive because a visit reads only the states of what the instruction uses
(`SameVisit`), whose changes put their users on the list, because merging is idempotent and
keeps what it has (`MergeFacts`), and because a block that becomes executable goes onto the
block list with all its instructions. `TypeTheorem` contains the bound of
MaxInstructionsPerValue; `SolvedTheorem` and `KeptTheorem` follow from the invariant. What is
overdefined stays so, except for formals, which a call sets anew; `SolvedTheorem` leaves out
what is passed for formals, where the code does leave work undone (section 5). None
says that the solver stops, which `taint_mix` refutes in general.

`ReachableTheorem` is about graphs only: the test by dominators and iterated dominance
frontiers is right for every control flow graph, loops and irreducible ones included.
Dominators and iterated frontiers are least closed sets of blocks, and so is what paths lead
to: each is shown to be inside the other because the other is closed. A path either stays
below the definition in the dominator tree or leaves through a frontier, whose own frontiers
are in the iterated one; back, a block of a frontier has a predecessor below, so that a path
leads there. Least closed sets are reached by counting steps, and induction over the count is
done for a set of numbers (`SetInduction`, by well-foundedness), since the library's induction
theorems take an operator. A definition in dead code is not in the tree and reaches nothing by
this test, which `ReachableIsPath` says.

**`PointsTo_proofs`** (assumes `ProgramAssumption`, which is `Verified`: what LLVM's verifier
guarantees of a module). `RestInv` says that a function that is queued nowhere is solved and
has passed its arguments on; `RunInv` says the same of the function under iteration, for the
blocks its worklist has forgotten and for the block at hand up to the instruction at hand. Only
together are they inductive: a call or a return writes into the values of another function
while that one is at rest, and what saves the invariant is that the writer queues the
function whose value changes, the function under iteration itself included, which may be
its own caller. "Has passed its arguments on" includes that the call is registered with the
callees that the facts before it give: only a visit of the call writes its entry of
`call_graph_`, provided that no other call is on its line, and the key of a line is a call of
that line (`LineInv`). `SolvedTheorem` and `ArgumentsTheorem` follow. For these the transfer functions
are never expanded; only which facts they read matters, so they hold in spite of the flaws of
section 5 that are inside them.
`TypeTheorem` opens them: each makes facts of facts, and so does the renaming, by induction on
its pairs (a least counterexample, since the library's induction theorems take an operator).
It adds to the types that a line with callees has a call, or a return would queue the function
of no call. It holds while `FormalsExist` does: a call never asks a callee for a formal that
it does not have (`PointTo.h:232`), which the run `pointsto` checks. That is a condition, since
the pass itself decides which callees those are: fields of one object are not told apart, and
storing `halt(void)` in one field after `go(int *)` in another makes the pass ask `halt` for a
formal where `go` is called (the program `Handlers` with its stores exchanged).

**`CVisitor_proofs`** (assumes `ProgramAssumption`, which is `IsProgram`: every node of a tree
has its parts to itself, functions are at the top, callees exist). The inductive invariant
has, besides the types, five parts over the whole agenda: there are as many frames as calls
that are still to be left; every task is about a node of the function whose frame it will
work in; no task leaves a value that a later task evaluates anew, unless a `popExpr` or a
return from the function lies between; no frame keeps a value that a task evaluates anew
before that; frames have the variables of their functions. The third and fourth are what the
loops need: the body of a `while` is evaluated again and again, and `push` never overwrites a
value (`util.h:64-72`).
`TypeTheorem`, `FramesTheorem` and `StaleTheorem` hold for every program.

**`CInterpreter_proofs`** (assumes `ProgramAssumption` and `InputAssumption`: what is read are
integers; `IsProgram` also says how many parts of which kind an expression, a declaration or a
statement has, which Clang's parser guarantees). The inductive invariant is the visitor's,
seen through `frames`, with the types of the environment (`IsEnv`) and with the fact that a
node is handled only if it is of a kind that the environment handles (`HandlesHandled`).
Most of the work is about the evaluation, in three steps. Its recursion is a function over
the numbers, and that this one exists is shown from its finite beginnings, by induction for a
set of numbers. Between two turns (`Going`) what is under evaluation has no value yet, nothing on
the list is part of what comes before it, so that nothing is asked for twice, and the
environment differs from the one it started with only by values of what is evaluated and by
entries of what has been declared; so the number of nodes without a value bounds the list and falls
with each node that is done, and the list is empty in time (`OnTime`). What holds of the last
turn is then what a visitor's step may do: the values of the node's own expressions are kept
in the frame at hand, its own variables are declared there, and nothing else changes in the
frames (`Changes`, `Keeping`, `Becoming`). The types include that a new block is disjoint from
the others, since `brk` lies behind them all, and that the heap's addresses only become more.
`TypeTheorem`, `ImplementsTheorem` - every step of
the interpreter is one of the visitor's, whatever its expressions evaluate to and whatever
fails - and, with it, `FramesTheorem` and `StaleTheorem` for the interpreter itself.

**Only model-checked.** Termination and every other liveness property (liveness under
fairness is outside what is proved here); of `PointsTo`, that formals exist, which depends on
the module, that no callee is lost again, and the call graph it prints, which is compared with
a test's; of `CInterpreter`, that it prints what C prints and that nothing
fails, which a declaration in a loop refutes in general (section 5); what the
taint pass annotates. `CTree` and `CSemantics` use RECURSIVE operators - trees are flattened
and the reference evaluates by recursion - which the proof system does not support; only
`MCCInterpreter` uses them.

## 7. Not modelled

Function exit unification calls LLVM's own pass for each function with a body. The comments
extractor prints comments with their places; the RTTI example shows `isa` and `dyn_cast`; the called value
propagation client prints what an LLVM pass left; the Clang plugin prints function names; the
install script downloads LLVM. None keeps state of its own. The backward half of
`Dataflow.h` returns at once. `main` functions, command lines and printing are left out, but
for what a property is about: the call graph, and the output of the programs that run.
