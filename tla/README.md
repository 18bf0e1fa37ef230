# A verification project for dLinear4

dLinear4 decides quantifier-free linear real arithmetic up to a precision delta,
and optimizes a linear objective. It is a lazy SMT solver: picosat proposes
partial models of the propositional structure, an exact LP solver (QSopt_ex or
SoPlex, chosen with the context) decides the linear constraints they select, and
a learned clause sends picosat elsewhere. All of it runs in one thread; what is
hard is state that outlives a call, the order of the regions, and the difference
between strict formulas and non-strict rows. Beside that path the repository keeps
the interval solver of dReal, with a pool of worker threads, which its build files
comment out.

Run everything in this directory, e.g. `tlc -config MCLazySmt.cfg MCLazySmt` and
`tlapm LazySmtProofs.tla`.

## 1. Inventory

| Part (under `src/dreal/`) | State | Operations | Works with | What makes it correct |
|---|---|---|---|---|
| Satisfiability check, `solver/{qsoptex,soplex}_context_impl.cc` | `stack_`, `boxes_`, per call: `have_unsolved`, a copy of the box | Assert, CheckSatCore | SAT wrapper, theory solver | unsat only without solution; a sat model delta-satisfies the assertions; the loop ends; later calls are not spoilt by earlier ones |
| Optimization, `qsoptex_context_impl.cc` | `obj_expr_`, `have_objective_`; per call: range, candidate, `*box` | MinimizeCore, CheckOptCore | the same two | infeasible/unbounded/optimal mean what they say; the range is that of the whole problem |
| SAT wrapper, `solver/{qsoptex,soplex}_sat_solver.cc` | picosat, `main_clauses_copy_`, `main_clause_lookup_`, `cnf_variables_`, variable maps | AddFormula, AddLearnedClause, CheckSat, GetMainActiveLiterals | CNF pipeline, LP | the literals returned satisfy the main clauses, none is superfluous |
| LP bookkeeping, same files | `to_qsx_row_`, `qsx_sense_`, `qsx_rhs_`, columns | AddLinearLiteral, EnableLinearLiteral, ResetLinearProblem, SetLinearObjective | LP library | the LP is exactly the conjunction of the enabled literals and the box, with strictness dropped |
| Theory solvers, `solver/{qsoptex,soplex}_theory_solver.cc` | `model_`, `explanation_`, `precision_` | CheckSat, CheckOpt | LP library | explanation of what was refuted; model of what was found |
| Context, `solver/context*.cc` | `box()`, `model_`, `model_variables_`, options | declare, SetInterval, CheckSat, CheckOpt, Minimize, Maximize, Push, Pop | an Impl | the model belongs to the last answer |
| SMT2 driver, `smt2/driver.cc` | `scope_`, unique local names | one method per command | Context | CheckOpt is used exactly when there is an objective |
| Box, `util/box.cc` | intervals, shared variable maps | Add, set_empty, operator[] | everyone | copies are independent; emptiness survives |
| CNF pipeline, `util/*cnfizer.cc`, `nnfizer.cc`, `if_then_else_eliminator.cc`, `predicate_abstractor.cc` | fresh-name counters, formula/variable maps | Convert, Process | SAT wrapper | equisatisfiable clauses |
| Scoped containers, `util/scoped_*.h` | elements, undo log, scopes | insert, push, pop | Context, SAT wrapper | pop restores |
| Options, `solver/config.*`, `util/option_value.h` | value and its origin | set_from_* | everyone | precedence of origins |
| ICP, `solver/icp*.cc`, `brancher.cc`, `theory_solver.cc` (not built) | stack of boxes, count of boxes, result flag, one status for each worker | CheckSat, Worker, ParallelBranch | contractors, evaluators | no solution lost, an explanation that refutes, workers that stop |
| Contractors and evaluators, `contractor/*`, `solver/*evaluator*.cc`, `filter_assertion.cc` (not built) | a contractor status: box, changed dimensions, used constraints, witnesses | Prune, EvaluateBox, FilterAssertion | ibex | only points that are no solutions are cut off |

`PROJECT.json` lists every component with its status, and the hazards, each at its
line; section 8 says what is left out.

How they interact: everything but the worker pool of ICP is a synchronous call. A
context owns one SAT wrapper and one theory solver for life. CheckSatCore passes its box
to the SAT wrapper, which resets the LP to it and enables the literals it selects; the
theory solver reads that LP; `GetExplanation` returns a reference to state of the theory
solver, and what it holds becomes a learned clause, for good. The driver's parser
actions call the context while they parse: a let declares variables and asserts their
definitions before its body is known. The box and the model of a context share their
vector of variables until one of them changes. ICP's workers share the stack, the
counter of boxes and the result flag, and nothing else.

## 2. Modules

| Module | What it is |
|---|---|
| `LinearLiterals` | a theory literal as a row: sense, strictness, what the LP solver's point is worth |
| `SatCore` | literals, clauses, picosat's answers, main active literals, learned clauses |
| `LazySmt` | Assert, SetInterval and CheckSat on one context, for both LP solvers |
| `SmtContract` | what a context promises a caller, without any solver |
| `Optimize` | extends `LazySmt` with Minimize, Maximize and CheckOpt |
| `ActiveLiterals` | the clause store and the scan behind `MainActiveLiterals`, one literal per step, with clauses that an exception breaks off |
| `LinearProblem` | how clauses become LP rows, and how each check re-uses that LP, with exceptions half way |
| `Snapshots` | a container that can go back: a value and a stack of earlier values |
| `Scoped` | the backtrackable vector, map and set with their undo logs, implementing `Snapshots` |
| `Context` | box, model variables, objective, stack and model of a context: declarations, asserts, both checks, Push, Pop |
| `Options` | one option and the ways to set it |
| `Session` | a run on an SMT2 file, or a program, over `Context` and `Options`: commands, names, scopes |
| `Formulas` | formulas with their simplifying constructors, shapes, strengthening, and their meaning |
| `CnfPipeline` | if-then-else elimination, NNF, Plaisted-Greenbaum conversion, predicate abstraction; Tseitin's conversion, which the library has and no solver uses |
| `ContractorStatus` | boxes, bisection, linear constraints, the status of a contraction, explanations |
| `Contractors` | the contractors and evaluators, and how TheorySolver builds them |
| `Icp` | TheorySolver::CheckSat with IcpSeq and IcpParallel |
| `LazySmtProofs` | theorems about `LazySmt` |
| `OptimizeProofs` | theorems about `Optimize`, from the lemmas of `LazySmtProofs` |
| `ActiveLiteralsProofs`, `LinearProblemProofs` | theorems about `ActiveLiterals` and `LinearProblem` |
| `ScopedProofs` | theorems about `Scoped` and its refinement of `Snapshots` |
| `SessionProofs` | lemmas about boxes and the steps of `Context`; theorems about `Session` |
| `ContractorsProofs` | what one contraction and one evaluation do, for all boxes and constraints |
| `IcpProofs` | theorems about `Icp` |
| `MC...` | one instance of each for TLC |

`LazySmt` EXTENDS `SatCore` EXTENDS `LinearLiterals`; `Optimize` EXTENDS `LazySmt`;
`LinearProblem` EXTENDS `SatCore`. `LazySmt` instantiates `SmtContract` and
`ActiveLiterals` instantiates `SatCore` to state that they implement them. `Session`
EXTENDS `Context` and `Options`; `CnfPipeline` EXTENDS `Formulas`. `Icp` EXTENDS
`Contractors` EXTENDS `ContractorStatus`. Loops and sums of these three are folds and
recursive functions, so that they can be proved about: `RepeatUntil` is a do-while loop
with a bound on its rounds that the widths of the box give (`Rounds`).

**Continuous variables.** All of them together take a value in a set `Point`. A
formula is an operator and the value of lhs - rhs at each point. Three readings of
a literal are kept apart: `Meaning` (strictness included), `Row` (what the code
enables) and `Near` (what the LP solver accepts, with a violation up to `Slack`).
`DeltaSat` relaxes a literal by `Delta` but keeps its strictness, so `Slack <
Delta` is what makes dropping strictness sound. The command line establishes it
(`dreal_main.cc:380`, `nextafter`).

**SAT variables** are theory variables, Boolean variables and temporary variables
of the CNF conversion. `Formulas` is a set of CNFs, each a set of clauses: what
arrives at `AddClauses`.

**CheckSat** is `StartCheckSat`, then the loop body split where a library is
called: `SatFindsModel`, `SatModelSuffices`, `SatFindsNone` after picosat and
`TheoryDeltaSat`, `TheoryUnsat`, `TheoryUnsolved` after the LP solver, plus
`SolverThrows`. The two early returns are actions of their own. `box` is the
context's box, `local` the Boolean part of CheckSatCore's copy. `haveUnsolved`
keeps its value after the call, and `leftover` is a history variable: it remembers
that an earlier call left an LP unsolved.

**CheckOpt** follows `CheckOptCore` in the same way. Its box is a parameter: the
driver's fresh `Box`, then the model of each new candidate. `lpBox` is what
ResetLinearProblem got, `optBox` what the box is now (the Boolean literals are
written into it after the reset). `OptDeltaOptimal` leaves `explanation` alone,
as `QsoptexTheorySolver::CheckOpt` does.

**ActiveLiterals** keeps `main_clauses_copy_` as a sequence (positions from 1) and
`main_clause_lookup_` as a function from literals to start positions. A scan is
one `StartScan` and one `Step` per literal, in increasing order. `BreakOffClause` is
DoAddClause when AddLinearLiteral throws (for which literals it does is a constant,
`Rejected`; `LinearProblem` says why it does): picosat, the array and the table have the
literals so far, and no 0 follows. The next clause of a caller who carries on runs on
from there, in picosat and in the array alike; a check before that is `CheckAborts`, as
picosat ends the process on an open clause. `given` is what picosat has,
`parts` and `open` which calls its clauses come from: history variables.

**LinearProblem** adds a clause literal by literal (`AddRowlessLiteral`, `AddRow`,
`AddRowThrows`, `EndClause`) and enables the literals of a check one by one, in the
order of their SAT numbers. `rows`, `senses` and `rhss` are the LP's rows and the two
arrays beside them, `toRow` the index; `open` holds what picosat has been given since
the last terminator. `solver` chooses the library: QSopt_ex gets the row before the
coefficients are looked at, SoPlex after. A caller may catch any exception and carry
on (a C++ or Python program; the command line ends). Assertions are off, as in a
release build. `CheckAborts` is picosat ending the process on an incomplete clause.

**Scoped** takes one step for each element or action that a pop undoes. A set is a
map to a single value, an INSERT remembers "absent". The refinement maps a pop that
runs to its result, so that undoing is stuttering.

**Context** keeps of an interval its kind (all, bounded, point, empty) and of a box the
two vectors the code keeps, the one of intervals never being empty. `shared` says that
model and box have the same vector of variables, as after `model_ = box`; a declaration
then gives the box its own (`ChangeBox`). The vector of variables of the model is read
through `ShownModel`. How a check finds an answer is not repeated here: `CheckSat` is
any answer the branches of CheckSatCore can give for this box and stack, `CheckOpt` the
same for CheckOptCore on the fresh box that the driver hands in, whose variables are
then the LP's (`Columns`). A declaration may have bounds; they are evaluated when the
box and the model variables have the variable already, so that `faulty` ones throw with
both changed. `SetInterval` of a variable that the box does not have is given the first
place by `operator[]` of the map, for good: `stray` remembers for which variables that
has happened. All variables that eliminate if-then-else terms are one, `ITEVar`. `found`
and `refuted` are history variables.

**Session** has one action per production of the grammar that changes state. A let is
`Enter` (the scope), one `ParseBinding` or `ParseConstant` per binding, `EndBindings`,
one `Bind` per binding in the order the list is walked, then the body and `ExitScope`.
`envs` is `scope_` as a stack of environments, which is what `Scoped` shows a
ScopedUnorderedMap to be. A command line run ends at the first exception, a program
goes on. `Check` asks `have_objective_` which check to make, as the driver does and
`context.h` asks of a program. A run on a file has the command line, then set-option. A program has
`Context::SetOption`, `mutable_config()` and its own reading of a command line, one after
the other in any order, so that all three sources of an option meet (`MaySet`).
Left out are declarations of a program that are no model variables, and the string that
SetOption keeps in `option_` before it refuses a value: nothing reads it back.

**CnfPipeline** is functional: `AddFormula` converts a formula as Assert and AddFormula
do and keeps the table of the predicate abstractor. The SAT solvers have a
PlaistedGreenbaumCnfizer. TseitinCnfizer is tried in its place. `TseitinThrows` is where
it stops with an exception (section 6). Variables the code numbers with counters are
named by what they stand for and by the call, so that two occurrences may share a
variable with one definition. `SameSolutions` compares the clauses with the meaning of
the formula at sample points.

**Contractors** works on integers that stand for floating-point numbers; `Unit` of them
make one integer of the program, so that integer variables, degenerate intervals and
intervals without an inner number all occur. ibex is external: `Contract` either narrows
a box to its projections, rounded outwards, or only detects that it is impossible
(`narrow`). The first pass of the worklist contractor leaves the bits as they are, only
its loop clears them. The inner contexts that look for counterexamples to a quantified
formula are a choice of the least one. A constraint is a linear relation, or a
disjunction of them under a quantifier. `IsProblem` says which calls there are; its
`IntegerBound` is an observation of section 6. `Box::Add` refuses integer variables at
this commit (`box.cc:93-98`); the integer cases of these modules are what the
contractors would do with them.

**Icp**: IcpSeq takes one step per box. A worker of IcpParallel takes a step at every
access to what is shared: the flag, the counter, the stack; pruning and judging are
local. The two reads of the loop condition are separate, announcing a box and pushing
it too. The contractor status of a worker accumulates over its boxes.

## 3. Runs

| Run | Expected | States | Shows |
|---|---|---|---|
| `lazy_smt` | pass | 46,488 | soundness of both answers, of learned clauses, progress, termination, the contract |
| `unsolved_outlives_call` | violation | | a clause from an unsolved LP makes a later unsat wrong |
| `optimize` | pass | 25,758 | what infeasible, unbounded and the upper end of the range are worth |
| `optimum_of_first_region` | violation | | the first region's optimum is returned |
| `optimum_ignores_bounds` | violation | | declared bounds do not reach the LP |
| `active_literals` | pass | 157,099 | the array, the table and the scan yield a minimal hitting subset; a clause broken off by an exception uncovers nothing |
| `linear_problem` | pass | 65,991 | the LP is what was asked for, nothing stale and nothing missing |
| `scoped` | pass | 80,057 | undo logs implement snapshots, and a pop ends |
| `session` | pass | 4,514,463 | the model is complete, isolated and of this check; lets are lexical and simultaneous; false is final; a command that throws leaves at most a variable without its bounds; options keep their precedence in any order of sources |
| `false_forgotten` | violation | | false asserted before any declaration is forgotten |
| `cnf` | pass | 20,286 | both conversions keep the solutions, and the solvers' one yields clauses; one variable per predicate; strengthening restricts |
| `icp` | pass | 68,588 | contractors keep the solutions, none is lost, the count is right, explanations refute, delta-sat boxes are, every call ends |

**Bounds.** `MCLazySmt` has one continuous variable with four values, a strict formula
`x < 1` and an equation `x = 2` whose points within `Slack` differ from those within
`Delta`, one Boolean and one temporary variable. Its four formulas have several regions,
some refuted by the LP, and are unsatisfiable together; in one clause either of two
literals makes the other superfluous; a learned clause of one check matters in the next.
Two boxes: the whole line and a single point. No counter needs a bound: clauses and
learned clauses are subsets of finite sets. `MCOptimize` has two feasible regions with
different optima, a Boolean variable (whose literal is written into the box) and a point
that stands for arbitrarily large values; minimization and maximization of x.
`SimpleBound` says which formulas are no LP rows. `MCActiveLiterals` has clauses over
three variables that share literals of either sign, and two with a rejected literal, in
the middle and at the end; the bound `MaxStore` admits several clauses before and after
a broken-off one, in every order. Deadlock is not checked: the process may end.
`MCLinearProblem` has two continuous variables, a row in both polarities, a simple bound
with the variable on either side, one beyond `Infinity`, a disequality, a formula that
is not linear behind two literals of its clause, and clauses that are unsatisfiable
together. `MaxRows` = 2 admits the pairs that matter: rejected before or after accepted,
rejected twice, both polarities. The objective names a variable that may not be a column
yet. Deadlock is not checked there, because the process may end.

`MCScoped` has two keys, two values and up to `MaxActions` modifications and scopes,
enough to overwrite a key twice in one scope and to nest scopes around it. `MCSession`
has a real, a Boolean and an integer name (the one Add refuses); `MaxVars` = 2 variables
in a file, two nested lets or foralls with two bindings together (`MaxNesting`,
`MaxBindings`), which is what shadowing and a swap of two names need; scopes open, and a
program declares, only while no option is set (`LetOrigins`), and a program sets options
only while its box is empty (`MaxSet`), as these do not touch each other; all of them
leave the option sources in every order. A check may follow anything. Deadlock is not
checked: a file ends. `MCCnfPipeline` asserts one or two formulas (`MaxFormulas`) of a
pool with nested and shared if-then-else, under negations, in conditions and under a
quantifier, with clauses under a quantifier that do not mention its variable, in both
conversions; an if-then-else variable ranges over every value its branches can have.
Deadlock is not checked: nothing is left to assert. `MCIcp` has thirteen lists of
assertions: bounds only, strict at zero, no room between two numbers or two integers,
equations without a common point, solutions at a corner, quantified disjunctions; with
and without polytope and worklist, one or two workers, and with an ibex that does not
narrow on a smaller box. Deadlock is not checked: a call ends.

**Fairness.** Only `WF(Solve)` and `WF(OptSolve)`: a call that runs takes its next step,
as a single thread does. Nothing is assumed of picosat's choice among models, of the LP
solver's success, nor of the caller. `ActiveLiterals` has `WF(Step)` and `Scoped`
`WF(PopStep)` for the same reason. `Icp` assumes weak fairness of the caller and of each
worker, which the operating system gives to threads that never block: an empty stack
sends a worker around its loop again. It is written out with what enables the step,
because TLC's ENABLED would evaluate every contraction again.

**What the properties leave out, and why.** `UnsatSound`, `LearnedSound` and
`InfeasibleSound` exempt a context on which an earlier call left an LP unsolved (or, for
the last one, found an optimality candidate): `unsolved_outlives_call` shows that the
code really answers wrongly there. `LPIsAsked` exempts SoPlex after a rejected formula
and says nothing of rejected literals that a later clause absorbed: the LP ignores them.
`UnboundedSound` and `UpperBoundValid` speak of LPs with rows. `KeptAreNeeded` and
`ScanYieldsResult` speak of what is left of a clause: when a clause has been broken off
and run on, the table knows its later parts only, and a literal may be kept that the
whole clause does not need. `LazySmt` takes the scan's result to be minimal and is about
contexts without such a clause. `SetInterval` of `LazySmt` only shrinks the box: clauses
learned in a box say nothing about a wider one, and the code does not ask
(`context_impl.cc:169`). `SatSound` is about `Slack < Delta`, the command line's case.
`ThrowsCleanly` exempts an Assert whose formula is refused half way, which leaves it on
the stack, and says that assertions, scopes and objective stay, and box and model
variables too, or gain the one variable that was being declared. `ModelComplete` is
about CheckSat (section 6 says why not CheckOpt) and exempts the interval of `stray`
variables. `ClausesInForm` is about the conversion that the solvers use: Tseitin's
leaves the negation of a clause in `x=1 or forall y.((p or x<1) and y>=x)`, where
`SameSolutions` holds all the same. `OneVariablePerPredicate` identifies formulas as the
table does: with their sides swapped, `5 <= x` and `x >= 5` are two predicates. `Scoped`
has the logged operations of its vector; `operator[]`, `last()` and `begin()`
(`scoped_vector.h:35,79,87`) hand out mutable elements past the log. `FalseIsFinal` is
about a false asserted after some declaration; `false_forgotten` shows the other case.
`DeltaSat` leaves quantified assertions out: they are looked at for one counterexample
only, and EvaluateForall never refutes. `StrengthenRestricts` speaks of formulas without
quantifiers (an exception) and without if-then-else, which is strengthened unsoundly but
eliminated before.

## 4. Assumptions about the libraries

- picosat answers satisfiable with any consistent partial assignment that
  satisfies all clauses, and unsatisfiable only when there is none.
- An LP solver reports infeasible only when the LP, strictness dropped, has no
  point in the box. A point it returns is within the bounds and violates rows by at
  most `Slack`. QSopt_ex may leave any LP unsolved. Either library may throw.
- CheckOpt's range is at most `Slack` wide and contains the LP's optimum.
- ibex never cuts a solution of a relation off, and empties a box when interval
  evaluation of the relation cannot meet its operator; strict relations are treated
  as the others.
- The libcds stack is linearizable, and the counter and the flag are atomic.

## 5. Proofs

Every theorem holds for all values of the constants that satisfy the named ASSUMEs of
the modules. Each follows from an inductive invariant, which is defined beside the
properties it is for and was checked by TLC on the instance of the run before it was
proved. Assumptions beyond that are part of the theorem's statement.

**`LazySmtProofs`**: `TypeCorrect`, `LearnedSoundness`, `UnsatSoundness`,
`ProgressHolds`, `UnsatStaysFinal`; `SatSoundness` and `Implements` (the refinement of
`SmtContract`, step by step) under `Slack < Delta`.

The inductive invariant is `IInv == TypeOK /\ LearnedSound /\ ActiveInv /\
UnsatSound`. Learned clauses are sound because a region that the LP refutes
contains no point that satisfies its literals (`SenseRelaxes`, `MeaningInRow`):
dropping strictness only enlarges it. An unsat answer is sound because a solution
would give picosat a model of main and learned clauses (`SolutionIsPicosatModel`).
`ActiveInv` remembers, across the two halves of an iteration, that the active
literals satisfy the main clauses and every learned clause; without it neither the
model of a sat answer nor progress can be concluded. `NearIsDeltaSat` is where
`Slack < Delta` is used. `UnsatStaysFinal` needs no soundness: it holds of clauses of
unsolved LPs too, because the box stays empty or the clauses without a model stay
(`Refuted`), and no check can reach its LP any more.

**`OptimizeProofs`**: `OptTypeCorrect`, `InfeasibleSoundness`, and for `Delta > 0`
`UnboundedSoundness` and `UpperBoundValidity` (the command line refuses a precision
that is not positive, `dreal_main.cc:319`). `OptIInv` says that until the first
candidate CheckOpt's LPs range over every point, whatever was declared: only so may the
clauses they teach be kept for later calls with other bounds. After a candidate the
box is its model and learned clauses may be wrong; the invariant then stops claiming
them and `leftover` exempts later calls. `RangeIInv` carries a delta-solution that is
below the upper end from region to region.

**`ActiveLiteralsProofs`**: `StoreIsOK`, `NothingUncovered`, `KeptStayNeeded`, and
`ScanYieldsActive`: when the scan is through, what is left is one of the sets
`MainActiveLiterals` of `SatCore` allows, the abstraction that `LazySmt` uses. The first
three hold after exceptions in the middle of a clause too, any number of them; the last
then says that the result still hits every clause. The invariant adds where the array
may still grow: what is open is at its end, and all else has its 0. A clause that runs
on may repeat a literal, and the scan counts positions; so each literal of a clause
needs an entry in the table from which on it occurs once (`Once`), its last one.

**`LinearProblemProofs`**: `LPTypeCorrect` and `LPIsWhatWasAsked`, for both libraries,
any rows and exceptions at any point. The invariant follows the enabling of a check
literal by literal: `RowsSoFar` (a row in force is that of an enabled literal, with the
sense and right-hand side kept for it) and `BoundsSoFar` (a column's bounds are the box
and the simple bounds enabled so far); between checks it keeps that every literal that
picosat knows has its row (`Settled`) and that the arrays stay aligned. The ASSUME
relates the two views of a formula, its values at points (`Diff`) and its coefficients
(`Form`), and puts all points within the library's infinity.

**`ScopedProofs`**: `ScopesAreOK` and `ScopedImplements`: `Scoped` implements
`Snapshots`. The heart is `LogOK`: the log goes back to absence exactly at a key's first
action. Undoing from the end then yields the contents at the push, for a map that was
overwritten several times in one scope as well.

**`SessionProofs`**, with lemmas about the steps of `Context` first: `ContextIsOK`,
`ModelIsComplete`, `FalseStaysFinal`, `PrecedenceHolds`, `LexicalScopes` and the action
properties `ModelStaysIsolated` and `ThrowsAreClean`, for files and programs of any
length, with any names and any depth of lets and quantifiers, either check, and the
sources of an option in any order (`PrecedenceHolds`: `MaxSet` and `LetOrigins` are
any). `ThrowsAreClean` covers declarations whose bounds cannot be evaluated.
`SessionIInv` adds to the properties that every variable of a file has a number of its
own (so that a quantifier's variable cannot be in the box) and what each open scope
means: `LetOK` describes a let in the middle of its bindings, with the later ones of the
list made already. The ASSUME keeps the variable that if-then-else elimination makes
apart from the names of the file.

**`ContractorsProofs`**: `PruneFollows`, `InitialFollows`, `FinalIsNear`, for any number
of variables, any linear constraints and all options. The notion they share is `Due(box,
new, fs)`: whatever a box loses on a set `D` of variables that the constraints `fs` do
not connect with others violates one of those on `D`; and when everything is lost, the
variables to blame are in `D`. `Follows` says the same of a status with its used
constraints and witnesses. Both compose, so that a contractor, a sequence, a fixpoint
and a worklist need one lemma each. The arithmetic is in the lemmas about `Narrowed` (a
relation solved for one variable, rounded outwards, for either sign of the coefficient),
`PruneInteger` (rounding inwards loses no multiple of `Unit`) and the interval value of
a relation (it contains the relation's value at each point, and is no wider than the
widths of the box give). What a loop or a fold computes is shown by a minimal
counterexample in the number of rounds or in the set folded over. `FinalIsNear` is the
other direction: a box not refuted has values on either side of each relation, and one
not split has only narrow relations, or sides without a number between their bounds.

**`IcpProofs`**: all five safety properties of the run, for any number of workers however
their steps interleave, any boxes and linear assertions: `BoxesAreCounted`,
`ContractorsStaySound`, `NothingIsLost`, `ExplanationIsSound`, `DeltaSatIsRight`, and
`UnsatIsRight`. Three invariants, each resting on the one before:

- `CountIInv` adds to the count who may hold a half in hand and why a worker may have
  stopped: the count was zero, and it stays zero, as nobody is left to announce a box.
- `BoxIInv`: every box of the search lies within what the bounds among the assertions
  have left of the call's box. Only so may these bounds be left out of the evaluation
  (FilterAssertion drops them), and only so are the points of a final box near them.
  What a worker has found stays as it was until the barrier, also when a second one
  finds a box.
- `SearchIInv`: a point, and a set `D` of variables, that no status of any worker speaks
  against (`Open`) are on `D` in a box on the stack or in a worker's hands.
  `NoSolutionLost` is the case that `D` is everything. The general case is what the
  explanation needs: a status does not know which box a used constraint was used on, so
  the constraints connected with the witnesses must refute the box without the rest.
  `UnsatOK` keeps that to the answer, and `ExcludedExplained` closes it over shared
  variables as GenerateExplanation does.

That a contraction is sound is proved of the boxes the search gets to, from `BoxIInv`
and `ContractorsProofs`; nothing is assumed of them but what `Contract` says of ibex
(section 4). The assumptions are those on the constants: the box of a call has an
interval for each variable and there is at least one variable, the assertions are linear
and mention a variable, and `IntegerBound`.

Where a least or greatest element is needed (the iterator's next literal, the n-th model
variable, the widest side of a box), its existence is shown by a minimal counterexample,
from well-foundedness of `<` (`WFMin`), since induction theorems cannot be instantiated.

Model-checked only: both `Terminates`, `FindsCandidate`, `PopEnds` and
`ScanYieldsResult`, which are liveness under fairness and out of the prover's reach (for
the last one `ScanYieldsActive` proves the part that is safety); and `SameSolutions`,
`ClausesInForm`, `OneVariablePerPredicate` and `StrengthenRestricts` of `cnf`: `Formulas`
and `CnfPipeline` recurse over formulas with RECURSIVE operators, and what such a
recursion computes for every formula is induction over data.

## 6. Findings

Four statements of comments that the code does not keep; see "findings" in
`PROJECT.json` for lines and quotations.

1. A learned clause of an unsolved LP outlives the call that knew about it.
2. A delta-optimal LP yields an empty learned clause: only one region is optimized.
3. The driver optimizes over a fresh box and ignores declared bounds.
4. `(assert false)` before any declaration is forgotten by the first declaration, and
   check-sat answers sat.

Other observations, which no run states:

- After a refuted region CheckOpt learns the old explanation again (`explanation_` is
  not assigned for a delta-optimal LP): nothing new is excluded, and the loop need not
  end. `LearnAndGoOn` models it.
- Without LP rows the objective range is not set, and the bound is chosen as for a
  minimization whatever the sign (`qsoptex_theory_solver.cc:121`).
- With SoPlex a formula rejected by an exception leaves its sense and right-hand side
  to the next row (`soplex_sat_solver.cc:446`).
- Only the command line reduces the precision below what the user wrote; the API and
  `:precision` do not, so that a strict literal may be missed by exactly delta.
- A let or a define-fun that is refused half way leaves its variable declared, and so
  does a declaration whose bounds cannot be evaluated (`context.cc:57-62`), without
  bounds.
- `Box::operator[]` gives a variable that the box does not have the first place
  (`box.cc:165`), and keeps it there when the variable is declared later.
- ExtractModel compares the number of model variables with the size of the box it is
  given (`context_impl.cc:216`). For CheckOpt's box that means nothing: with a Boolean
  `b`, `(assert (>= (ite b 1 0) 1)) (minimize 0) (check-sat)` shows the variable of the
  if-then-else, which `context.h:74-76` says does not appear. TLC refutes
  `OnlyModelVars` of `Context` on a `Session` with that one name.
- An asserted false is in the context's box only (`qsoptex_context_impl.cc:34-37`), and
  CheckOpt gets another one: `(assert false) (minimize 0) (check-sat)` answers
  delta-optimal. TLC refutes `FalseIsInfeasible` of `Session`.
- TseitinCnfizer, which no solver uses, ends in DREAL_UNREACHABLE when the transformed
  operands of a conjunction or disjunction collapse to one
  (`tseitin_cnfizer.cc:181-211`), and leaves negated clauses when a clause under a
  quantifier does not mention its variable, although its header promises CNF.
- In `filter_assertion.cc:67` and `:106` a strict bound of an integer variable moves by
  one whatever the constant: `x > 1.5` becomes `x >= 2.5`, and 2 is lost. `IntegerBound`
  keeps such constants out of the runs and the theorems; the proof of
  `SatisfyingIsAllowed` needs it. At this commit no box has an integer variable
  (`box.cc:93-98`).
- In `filter_assertion.cc:95` a strict upper bound moves towards the least positive
  number; at zero and below that is upwards. It loses no solution, and does not exclude
  the bound.
- In the inner loop of the worklist contractor (`contractor_worklist_fixpoint.cc:124`)
  the termination condition is never reached: the loop only ends with an empty box or
  an empty list.
- `(exit)` only logs (`context.cc:64`, where `context.h:86` says it closes the context):
  the commands after it are carried out. `Session` has no such action.
- Contractors are cached by formula with the box they were built for
  (`theory_solver.cc:118`); a cache shared by calls is not modelled.

## 7. Plan

Done: `LinearLiterals`, `SatCore`, `LazySmt`, `SmtContract`, `LazySmtProofs`
first, because an unsound answer is the worst thing this program can do; then
`Optimize`, `ActiveLiterals` and `LinearProblem`; then `Scoped`, `Context`, `Options`,
`Session`, `CnfPipeline`, `Contractors` and `Icp`.

Then the proofs of section 5: `Optimize`, `Scoped`, `ActiveLiterals`, `Context` and
`Session`, `LinearProblem`, `Icp`, `Contractors`.

Next:

1. `StrengthenRestricts`, with the recursion of `Formulas` written as recursive functions
   over formulas of bounded depth; then `ClausesInForm`, one conversion at a time.
2. `Icp` with nonlinear relations, given by an evaluation that contains their values; the
   proofs use no more of a relation in most places.

## 8. Not modelled

- `dreal_py.cc` (generated-style bindings), `prefix_printer.cc`, help texts, logging,
  statistics, timers: they keep no state that another part reads.
- The lexers and the grammar's arithmetic on terms; `get-value`, `get-option`, `set-info`
  and `set-logic`, which print or store a string.
- The vendored expression library, picosat, QSopt_ex, SoPlex, GMP, ibex, libcds and
  NLopt; `counterexample_refiner` and `nlopt_optimizer.cc` are numeric search.
- Nonlinear functions in `expression_evaluator.cc` and `ibex_converter.cc`: the bounds of
  sin or exp are not a question for a model checker.
- The `.dr` driver, which answers that it is not supported.
- The `_mt` contractors, which keep one contractor for each thread, and the thread pool
  itself; an exception in the main worker of IcpParallel while pool workers still hold
  pointers into its frame (`icp_parallel.cc:202`).
- The artificial columns of `--simplex-sat-phase 2`, `--continuous-output`, and the
  options other than the precision.
