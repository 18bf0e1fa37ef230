------------------------------- MODULE LazySmt -------------------------------
(***************************************************************************)
(* The satisfiability check of a Context: QsoptexImpl and SoplexImpl       *)
(* (Assert, CheckSat, CheckSatCore), the SAT solver wrapper they drive     *)
(* (CheckSat, AddFormula, AddLearnedClause) and the LP-based theory solver *)
(* (CheckSat).  The two implementations differ in the LP library only, and *)
(* this module is about both.                                              *)
(*                                                                         *)
(* A caller declares variables with bounds, asserts formulas and calls     *)
(* CheckSat, in any order and any number of times, on one Context: the SAT *)
(* solver's clauses, main and learned, outlive a call.  Inside a call      *)
(* picosat proposes a partial model, its main active theory literals are   *)
(* enabled in the linear program, and either the LP solver finds a point   *)
(* or a learned clause sends picosat elsewhere.                            *)
(***************************************************************************)
EXTENDS SatCore

CONSTANTS
  Formulas,  \* CNF of the formulas a caller may assert: sets of clauses
  Boxes      \* regions of Point that variable bounds may describe

ASSUME FormulaAssumption ==
  /\ \A f \in Formulas : f \subseteq Clause /\ f # {}
  /\ Boxes \subseteq SUBSET Point
  /\ Point \in Boxes

VARIABLES
  pc,            \* "idle", or where in CheckSatCore's loop: "sat", "theory"
  main,          \* clauses added by AddFormula (main_clauses_copy_)
  learned,       \* clauses added by AddLearnedClause
  box,           \* region the Context's box leaves to the continuous variables
  local,         \* Boolean part of CheckSatCore's own copy of the box
  active,        \* literals returned by GetMainActiveLiterals
  explanation,   \* explanation_ of the theory solver
  haveUnsolved,  \* have_unsolved of the current or last CheckSatCore
  leftover,      \* history: an earlier call has left an LP unsolved
  answer,        \* outcome of the last CheckSat, "none" once it is outdated
  model          \* model_ of the Context, what get_model returns

vars == <<pc, main, learned, box, local, active, explanation, haveUnsolved,
          leftover, answer, model>>

(* What outlives a check, and what only a check changes.                   *)
solverVars == <<main, learned, box, explanation>>
callVars   == <<pc, local, active, haveUnsolved>>

(* A Boolean variable's interval: [0,1] is BOOLEAN, a point a singleton.   *)
Interval01 == (SUBSET BOOLEAN) \ {{}}
FreeBools  == [b \in BoolVar |-> BOOLEAN]

(* A box: the region of the continuous variables and the intervals of the  *)
(* Boolean ones.  An empty box has an empty region.                        *)
Box      == [num : SUBSET Point, bool : [BoolVar -> Interval01]]
EmptyBox == [num |-> {}, bool |-> FreeBools]

Theory(S) == S \cap TheoryLit

(* ResetLinearProblem(box) then EnableLinearLiteral for each literal of T: *)
(* the feasible region of the LP, and the points the LP solver may return. *)
Feasible(T)     == {p \in box : \A l \in T : p \in Row(l)}
NearFeasible(T) == {p \in box : \A l \in T : p \in Near(l)}

(* Fault: the interval is intersected with the new value instead of set.   *)
WithBoolsMeet(bools, S) ==
  [b \in BoolVar |-> bools[b] \cap {t \in BOOLEAN : <<b, ~t>> \notin S}]

(* CheckSatCore writes the Boolean literals of the model into its box; a   *)
(* variable without a literal keeps the value of an earlier iteration.     *)
WithBools(bools, S) ==
  [b \in BoolVar |->
     IF \E l \in S : l[1] = b THEN {l[2] : l \in {k \in S : k[1] = b}}
                              ELSE bools[b]]

-----------------------------------------------------------------------------
Init ==
  /\ pc = "idle"
  /\ main = {} /\ learned = {}
  /\ box \in Boxes
  /\ local = FreeBools
  /\ active = {} /\ explanation = {}
  /\ haveUnsolved = FALSE /\ leftover = FALSE
  /\ answer = "none"
  /\ model = [num |-> Point, bool |-> FreeBools]

(***************************************************************************)
(* Calls between two checks.                                               *)
(***************************************************************************)

(* Assert: ignored once the box is empty; false empties the box and is not *)
(* pushed; any other formula reaches the SAT solver.                       *)
Assert(f) ==
  /\ pc = "idle"
  /\ main' = IF box = {} THEN main ELSE main \cup f
  /\ answer' = "none"
  /\ UNCHANGED <<learned, box, explanation, leftover, model, callVars>>

AssertFalse ==
  /\ pc = "idle"
  /\ box' = {}
  /\ answer' = "none"
  /\ UNCHANGED <<main, learned, explanation, leftover, model, callVars>>

(* SetInterval, and DeclareVariable with bounds.                           *)
SetInterval(b) ==
  /\ pc = "idle"
  /\ box' = b
  /\ answer' = "none"
  /\ UNCHANGED <<main, learned, explanation, leftover, model, callVars>>

(***************************************************************************)
(* CheckSat.                                                               *)
(***************************************************************************)

(* The end of a call: CheckSat stores the model or empties it, and what    *)
(* was local to the call is gone.                                          *)
Return(a, m) ==
  /\ pc' = "idle"
  /\ answer' = a
  /\ model' = m
  /\ local' = FreeBools
  /\ active' = {}

CheckSatEmptyBox ==
  /\ pc = "idle" /\ box = {}
  /\ Return("unsat", EmptyBox)
  /\ UNCHANGED <<solverVars, haveUnsolved, leftover>>

CheckSatEmptyStack ==
  /\ pc = "idle" /\ box # {} /\ main = {}
  /\ Return("sat", [num |-> box, bool |-> FreeBools])
  /\ UNCHANGED <<solverVars, haveUnsolved, leftover>>

StartCheckSat ==
  /\ pc = "idle" /\ box # {} /\ main # {}
  /\ pc' = "sat"
  /\ answer' = "none"
  /\ haveUnsolved' = FALSE
  /\ leftover' = (leftover \/ haveUnsolved)
  /\ UNCHANGED <<solverVars, local, active, model>>

(* The sets of literals the SAT solver wrapper may return.                 *)
SatSolverModels ==
  UNION {MainActiveLiterals(P, main) : P \in PicosatModels(main \cup learned)}

(* The model has theory literals: they are enabled and the LP is solved.   *)
SatFindsModel ==
  /\ pc = "sat"
  /\ \E S \in SatSolverModels :
       /\ Theory(S) # {}
       /\ active' = S
       /\ local' = WithBools(local, S)
  /\ pc' = "theory"
  /\ UNCHANGED <<solverVars, haveUnsolved, leftover, answer, model>>

(* The model has none: the box, with the Booleans set, is the answer.      *)
SatModelSuffices ==
  /\ pc = "sat"
  /\ \E S \in SatSolverModels :
       /\ Theory(S) = {}
       /\ Return("sat", [num |-> box, bool |-> WithBools(local, S)])
  /\ UNCHANGED <<solverVars, haveUnsolved, leftover>>

(* Fault: an LP left unsolved is forgotten.                                *)
SatFindsNoneAlwaysUnsat ==
  /\ pc = "sat"
  /\ PicosatModels(main \cup learned) = {}
  /\ Return("unsat", EmptyBox)
  /\ UNCHANGED <<solverVars, haveUnsolved, leftover>>

(* picosat has none: unsat, unless this call left an LP unsolved; then an  *)
(* exception leaves model_ as it was.                                      *)
SatFindsNone ==
  /\ pc = "sat"
  /\ PicosatModels(main \cup learned) = {}
  /\ IF haveUnsolved THEN Return("error", model) ELSE Return("unsat", EmptyBox)
  /\ UNCHANGED <<solverVars, haveUnsolved, leftover>>

(* Fault: the model is written into the Context's own box.                 *)
TheoryDeltaSatInPlace ==
  /\ pc = "theory"
  /\ \E p \in NearFeasible(Theory(active)) :
       /\ Return("sat", [num |-> {p}, bool |-> local])
       /\ box' = {p}
  /\ UNCHANGED <<main, learned, explanation, haveUnsolved, leftover>>

TheoryDeltaSat ==
  /\ pc = "theory"
  /\ \E p \in NearFeasible(Theory(active)) :
       Return("sat", [num |-> {p}, bool |-> local])
  /\ UNCHANGED <<solverVars, haveUnsolved, leftover>>

(* Fault: the explanation never reaches the SAT solver.                    *)
BlockNothing ==
  /\ explanation' = Theory(active)
  /\ pc' = "sat"
  /\ active' = {}
  /\ UNCHANGED <<learned, main, box, local, leftover, answer, model>>

(* The theory solver's explanation is all of its assertions; negated, it   *)
(* becomes a learned clause.                                               *)
Block ==
  /\ explanation' = Theory(active)
  /\ learned' = learned \cup {LearnedClause(explanation')}
  /\ pc' = "sat"
  /\ active' = {}
  /\ UNCHANGED <<main, box, local, leftover, answer, model>>

TheoryUnsat ==
  /\ pc = "theory"
  /\ Feasible(Theory(active)) = {}
  /\ Block
  /\ UNCHANGED haveUnsolved

(* Fault: one unsolved LP is taken for an answer to the whole check.       *)
TheoryUnsolvedIsUnsat ==
  /\ pc = "theory"
  /\ Return("unsat", EmptyBox)
  /\ UNCHANGED <<solverVars, haveUnsolved, leftover>>

(* QSopt_ex may fail on any LP; the region is blocked all the same.        *)
TheoryUnsolved ==
  /\ pc = "theory"
  /\ Block
  /\ haveUnsolved' = TRUE

(* An exception out of picosat, the LP solver or an interrupt.             *)
SolverThrows ==
  /\ pc \in {"sat", "theory"}
  /\ Return("error", model)
  /\ UNCHANGED <<solverVars, haveUnsolved, leftover>>

-----------------------------------------------------------------------------
(* The steps of a running check, which no other call interleaves with.     *)
Solve ==
  \/ SatFindsModel
  \/ SatModelSuffices
  \/ SatFindsNone
  \/ TheoryDeltaSat
  \/ TheoryUnsat
  \/ TheoryUnsolved
  \/ SolverThrows

(* The bounds of a variable are given when it is declared, before any      *)
(* formula mentions it: bounds only shrink the region.                     *)
Next ==
  \/ \E f \in Formulas : Assert(f)
  \/ AssertFalse
  \/ \E b \in Boxes : b \subseteq box /\ SetInterval(b)
  \/ CheckSatEmptyBox
  \/ CheckSatEmptyStack
  \/ StartCheckSat
  \/ Solve

(* A check runs until it returns or throws.                                *)
Spec == Init /\ [][Next]_vars /\ WF_vars(Solve)

-----------------------------------------------------------------------------
(***************************************************************************)
(* What an answer should mean, said without the solver.                    *)
(***************************************************************************)

(* Some point of b and some values of the Boolean and temporary variables  *)
(* satisfy every clause of cs.                                             *)
Satisfiable(cs, b) ==
  \E p \in b : \E S \in PartialAssignments :
    /\ Hits(S, cs)
    /\ \A l \in Theory(S) : p \in Meaning(l)

(* Model m makes literal l true, up to Delta; a temporary variable has the *)
(* value A gives it.  An interval that is not a point settles nothing.     *)
ModelHolds(m, A, l) ==
  \/ l \in A
  \/ l \in BoolLit /\ m.bool[l[1]] = {l[2]}
  \/ l \in TheoryLit /\ m.num \subseteq DeltaSat(l)

IsModel(m, cs, b) ==
  /\ m.num # {} /\ m.num \subseteq b
  /\ \E A \in SUBSET CnfLit :
       Consistent(A) /\ \A c \in cs : \E l \in c : ModelHolds(m, A, l)

(***************************************************************************)
(* Properties.                                                             *)
(***************************************************************************)

(* Every variable keeps its type, throughout incremental use.              *)
TypeOK ==
  /\ pc \in {"idle", "sat", "theory"}
  /\ main \in SUBSET Clause
  /\ learned \in SUBSET SUBSET TheoryLit
  /\ box \in SUBSET Point
  /\ local \in [BoolVar -> Interval01]
  /\ active \in PartialAssignments
  /\ explanation \in SUBSET TheoryLit
  /\ haveUnsolved \in BOOLEAN
  /\ leftover \in BOOLEAN
  /\ answer \in {"none", "sat", "unsat", "error"}
  /\ model \in Box

(* CheckSat answers unsat only when no point of the box satisfies the      *)
(* assertions in the exact semantics, whatever was blocked on the way and  *)
(* in earlier calls - unless an earlier call left an LP unsolved.          *)
UnsatSound == answer = "unsat" /\ ~leftover => ~Satisfiable(main, box)

(* The same without the exception, which is what have_unsolved is there    *)
(* for according to its comment in CheckSatCore.                           *)
UnsatAlwaysSound == answer = "unsat" => ~Satisfiable(main, box)

(* The model of a sat answer delta-satisfies every asserted clause, though *)
(* the LP saw only the main active literals and a Boolean variable may     *)
(* carry a value from an iteration that was blocked.                       *)
SatSound == answer = "sat" => IsModel(model, main, box)

(* A learned clause excludes no point of the box, now and for every later  *)
(* check on this context, as long as each LP was solved.                   *)
LearnedSound ==
  ~leftover /\ ~haveUnsolved =>
    \A c \in learned : \A p \in box : \E l \in c : p \notin Meaning(Neg(l))

(* While the LP is being solved: the active literals still hit every main  *)
(* clause, the Booleans among them are recorded, and they include no set   *)
(* of literals that was blocked before.                                    *)
ActiveInv ==
  /\ pc # "idle" => box # {}
  /\ pc = "theory" =>
       /\ Hits(active, main)
       /\ \A l \in active \cap BoolLit : local[l[1]] = {l[2]}
       /\ \A c \in learned : \E l \in c : Neg(l) \notin active

(* The inductive invariant behind the theorems of LazySmtProofs.           *)
IInv == TypeOK /\ LearnedSound /\ ActiveInv /\ UnsatSound

(* A refuted or unsolved LP teaches the SAT solver a clause it did not     *)
(* have: blocking all of the LP's literals is enough to make progress.     *)
Progress == [][pc = "theory" /\ pc' = "sat" => learned' # learned]_vars

(* A context that has answered unsat never answers sat later on, when      *)
(* formulas are only added and bounds only shrink.                         *)
UnsatIsFinal == [](answer = "unsat" => [](answer # "sat"))

(* Every CheckSat comes to an end.                                         *)
Terminates == pc # "idle" ~> pc = "idle"

(* The solver implements the contract of SmtContract.                      *)
Contract == INSTANCE SmtContract
              WITH busy <- pc # "idle", tainted <- leftover, Answers <- Box

ImplementsContract == Contract!Spec
=============================================================================
