------------------------------- MODULE Optimize -------------------------------
(***************************************************************************)
(* Optimization on a Context: Minimize, Maximize and CheckOpt as the SMT2  *)
(* driver calls them (Context::Impl, QsoptexImpl::CheckOptCore and         *)
(* QsoptexTheorySolver::CheckOpt; the SoPlex build has no optimization).   *)
(*                                                                         *)
(* CheckOpt is one more operation on the context of LazySmt: it shares the *)
(* SAT solver with its learned clauses, the theory solver with its         *)
(* explanation_, and model_.  Once there is an objective, CheckOpt must be *)
(* used and CheckSat must not (context.h).                                 *)
(*                                                                         *)
(* CheckOptCore is a copy of CheckSatCore's loop that goes on after a      *)
(* region is solved.  It is modelled as written.  In particular CheckOpt's *)
(* box is not the context's: the driver hands in a fresh Box, without      *)
(* variables and therefore without bounds, which is overwritten by the     *)
(* model of each new candidate and bounds the LPs that follow; and the     *)
(* theory solver leaves explanation_ alone when an LP is delta-optimal.    *)
(***************************************************************************)
EXTENDS LazySmt

CONSTANTS
  Objectives,   \* objective functions: value of each point
  Infinity,     \* a value this large, up or down, stands for no bound
  SimpleBound,  \* theory variables whose formula is a simple bound: no LP row
  WithFirst     \* WithFirst[p][v]: p, but v in the first variable of the LP

ASSUME OptimizeAssumption ==
  /\ Point # {}
  /\ Objectives \subseteq [Point -> Int]
  /\ Infinity \in Nat
  /\ SimpleBound \subseteq TheoryVar
  /\ WithFirst \in [Point -> [0 .. 1 -> Point]]

VARIABLES
  optPc,          \* "idle", or where in CheckOptCore's loop: "sat", "theory"
  haveObjective,  \* have_objective_
  objective,      \* obj_expr_, negated for a maximization
  optBox,         \* the box CheckOptCore works on (*box)
  lpBox,          \* bounds the LP got from it (ResetLinearProblem)
  haveCand,       \* have_opt_cand
  objLo, objUp,   \* *obj_lo and *obj_up
  result          \* outcome of the last CheckOpt, "none" once it is outdated

optVars == <<optPc, haveObjective, objective, optBox, lpBox, haveCand,
             objLo, objUp, result>>
allVars == <<vars, optVars>>

(* No literal of a main clause has become a row of the LP (rowcount == 0). *)
Rowless ==
  \A l \in UNION main \cap TheoryLit :
    l[1] \in SimpleBound \/ Sense(Op[l[1]], l[2]) = "none"

(* SetLinearObjective throws for a variable that no asserted formula       *)
(* has brought into the LP.                                                *)
ObjectiveKnown ==
  UNION main \cap TheoryLit # {} \/ \A p \in Point : objective[p] = 0

(* The feasible region of the LP of the active literals.                   *)
Region == {p \in lpBox : \A l \in Theory(active) : p \in Row(l)}

(* The LP minimizes.  Without rows it is not solved: each variable is set  *)
(* to a bound, with a positive coefficient to its upper one.               *)
Minima(R) == {p \in R : \A q \in R : objective[p] <= objective[q]}
Maxima(R) == {p \in R : \A q \in R : objective[p] >= objective[q]}

-----------------------------------------------------------------------------
OptInit ==
  /\ Init
  /\ optPc = "idle"
  /\ haveObjective = FALSE /\ objective = [p \in Point |-> 0]
  /\ optBox = Point /\ lpBox = Point
  /\ haveCand = FALSE
  /\ objLo = 0 /\ objUp = 0
  /\ result = "none"

(* The driver's variables for the range last from one call to its answer.  *)
Outdate ==
  /\ result' = "none"
  /\ objLo' = 0 /\ objUp' = 0

Minimize(o) ==
  /\ pc = "idle" /\ optPc = "idle"
  /\ haveObjective' = TRUE
  /\ objective' = o
  /\ Outdate
  /\ UNCHANGED <<vars, optPc, optBox, lpBox, haveCand>>

Maximize(o) == Minimize([p \in Point |-> -o[p]])

(* What LazySmt lets a caller do; a check only while there is no objective.*)
CallOrCheckSat ==
  /\ optPc = "idle"
  /\ haveObjective => pc' = "idle" /\ answer' = "none"
  /\ Next
  /\ Outdate
  /\ UNCHANGED <<optPc, haveObjective, objective, optBox, lpBox, haveCand>>

(* Fault: an optimization without an objective is let through.             *)
StartCheckOptAnyway ==
  /\ pc = "idle" /\ optPc = "idle"
  /\ optPc' = "sat"
  /\ optBox' = Point
  /\ haveCand' = FALSE /\ haveUnsolved' = FALSE
  /\ Outdate
  /\ leftover' = (leftover \/ haveUnsolved \/ haveCand)
  /\ UNCHANGED <<solverVars, pc, local, active, answer, model, haveObjective,
                 objective, lpBox>>

(* The driver's fresh box is never empty, and no formula on the stack is   *)
(* false: the two early returns of CheckOptCore are not taken.             *)
StartCheckOpt ==
  /\ pc = "idle" /\ optPc = "idle" /\ haveObjective
  /\ optPc' = "sat"
  /\ optBox' = Point
  /\ haveCand' = FALSE /\ haveUnsolved' = FALSE
  /\ Outdate
  /\ leftover' = (leftover \/ haveUnsolved \/ haveCand)
  /\ UNCHANGED <<solverVars, pc, local, active, answer, model, haveObjective,
                 objective, lpBox>>

(* The Boolean literals are written into the box, where no Boolean         *)
(* variable was declared: operator[] maps each of them to index 0, the     *)
(* place of the first LP variable once there is a candidate.               *)
OptBoxAfter(S) ==
  LET values == {IF l[2] THEN 1 ELSE 0 : l \in S \cap BoolLit}
  IN  IF haveCand /\ values # {}
        THEN {{WithFirst[p][v] : p \in optBox} : v \in values}
        ELSE {optBox}

OptSatFindsModel ==
  /\ optPc = "sat" /\ ObjectiveKnown
  /\ \E S \in SatSolverModels :
       /\ active' = S
       /\ optBox' \in OptBoxAfter(S)
  /\ lpBox' = optBox
  /\ optPc' = "theory"
  /\ UNCHANGED <<solverVars, pc, local, haveUnsolved, leftover, answer, model,
                 haveObjective, objective, haveCand, objLo, objUp, result>>

(* Whatever explanation_ holds is learned, and the loop goes on.           *)
LearnAndGoOn ==
  /\ optPc = "theory"
  /\ learned' = learned \cup {LearnedClause(explanation')}
  /\ optPc' = "sat"
  /\ active' = {}
  /\ UNCHANGED <<main, box, pc, local, leftover, answer, model,
                 haveObjective, objective, lpBox, result>>

(* Fault: the region is passed over, but never blocked.                    *)
OptInfeasibleNotBlocked ==
  /\ optPc = "theory" /\ Region = {}
  /\ optPc' = "sat"
  /\ explanation' = Theory(active) /\ active' = {}
  /\ UNCHANGED <<learned, main, box, pc, local, leftover, answer, model,
                 haveObjective, objective, lpBox, result>>
  /\ UNCHANGED <<haveUnsolved, haveCand, optBox, objLo, objUp>>

OptInfeasible ==
  /\ Region = {}
  /\ explanation' = Theory(active)
  /\ LearnAndGoOn
  /\ UNCHANGED <<haveUnsolved, haveCand, optBox, objLo, objUp>>

(* Fault: an unsolved LP counts as an infeasible one.                      *)
OptUnsolvedIsInfeasible ==
  /\ ~Rowless
  /\ explanation' = Theory(active)
  /\ LearnAndGoOn
  /\ UNCHANGED <<haveUnsolved, haveCand, optBox, objLo, objUp>>

OptUnsolved ==
  /\ ~Rowless
  /\ explanation' = Theory(active)
  /\ LearnAndGoOn
  /\ haveUnsolved' = TRUE
  /\ UNCHANGED <<haveCand, optBox, objLo, objUp>>

(* Fault: the range left by the caller is compared with the first one.     *)
AdoptAlways(p, lo, up) ==
  /\ objLo' = IF lo < objLo THEN lo ELSE objLo
  /\ objUp' = IF up < objUp THEN up ELSE objUp
  /\ optBox' = IF up < objUp THEN {p} ELSE optBox

(* A delta-optimal LP: its range and its point improve on the best so far. *)
Adopt(p, lo, up) ==
  /\ objLo' = IF ~haveCand \/ lo < objLo THEN lo ELSE objLo
  /\ objUp' = IF ~haveCand \/ up < objUp THEN up ELSE objUp
  /\ optBox' = IF ~haveCand \/ up < objUp THEN {p} ELSE optBox

(* QSopt_ex returns a point and a range around the LP's optimum; without   *)
(* rows the LP is not solved and the range is not set.  explanation_ is    *)
(* left as it was, and learned.                                            *)
OptDeltaOptimal ==
  /\ \/ /\ ~Rowless
        /\ \E best \in {objective[p] : p \in Minima(Region)} :
             /\ best > -Infinity
             /\ \E lo \in best - Slack .. best : \E up \in best .. lo + Slack :
                  \E p \in {q \in Region : objective[q] \in lo .. up} : Adopt(p, lo, up)
     \/ /\ Rowless
        /\ \E p \in Maxima(Region) : objective[p] < Infinity /\ Adopt(p, 0, 0)
  /\ haveCand' = TRUE
  /\ UNCHANGED <<explanation, haveUnsolved>>
  /\ LearnAndGoOn

(* The end of a call: only an optimum leaves a model.                      *)
OptReturn(r, m) ==
  /\ optPc' = "idle"
  /\ result' = r
  /\ model' = m
  /\ active' = {} /\ optBox' = Point /\ lpBox' = Point
  /\ UNCHANGED <<solverVars, pc, local, haveUnsolved, leftover, answer,
                 haveObjective, objective, haveCand, objLo, objUp>>

(* Fault: an LP that improves without limit upwards counts, too.           *)
OptUnboundedEitherWay ==
  /\ optPc = "theory"
  /\ \E p \in Region : objective[p] <= -Infinity \/ objective[p] >= Infinity
  /\ OptReturn("unbounded", EmptyBox)

OptUnbounded ==
  /\ optPc = "theory"
  /\ \E p \in Region :
       IF Rowless THEN objective[p] >= Infinity ELSE objective[p] <= -Infinity
  /\ OptReturn("unbounded", EmptyBox)

OptSatFindsNone ==
  /\ optPc = "sat" /\ ObjectiveKnown
  /\ PicosatModels(main \cup learned) = {}
  /\ IF haveUnsolved THEN OptReturn("error", model)
     ELSE IF haveCand THEN OptReturn("optimal", [num |-> optBox, bool |-> FreeBools])
     ELSE OptReturn("infeasible", EmptyBox)

(* An objective with a variable the LP does not know or with a constant    *)
(* term, an exception out of picosat or QSopt_ex, or an interrupt.         *)
OptThrows ==
  /\ optPc \in {"sat", "theory"}
  /\ OptReturn("error", model)

-----------------------------------------------------------------------------
OptSolve ==
  \/ OptSatFindsModel
  \/ OptInfeasible
  \/ OptUnsolved
  \/ OptDeltaOptimal
  \/ OptUnbounded
  \/ OptSatFindsNone
  \/ OptThrows

OptNext ==
  \/ CallOrCheckSat
  \/ \E o \in Objectives : Minimize(o) \/ Maximize(o)
  \/ StartCheckOpt
  \/ OptSolve

OptSpec == OptInit /\ [][OptNext]_allVars /\ WF_allVars(OptSolve)

-----------------------------------------------------------------------------
(***************************************************************************)
(* Properties.                                                             *)
(***************************************************************************)

(* Point p delta-satisfies the assertions, with the help of some values of *)
(* the Boolean and temporary variables.                                    *)
DeltaSolution(p) ==
  \E S \in PartialAssignments :
    Hits(S, main) /\ \A l \in Theory(S) : p \in DeltaSat(l)

(* The variables of both modules keep their types when checks and          *)
(* optimizations alternate on one context.                                 *)
OptTypeOK ==
  /\ TypeOK
  /\ optPc \in {"idle", "sat", "theory"}
  /\ optPc # "idle" => pc = "idle" /\ haveObjective /\ result = "none"
  /\ objective \in [Point -> Int]
  /\ optBox \in (SUBSET Point) \ {{}} /\ lpBox \in (SUBSET Point) \ {{}}
  /\ objLo \in Int /\ objUp \in Int
  /\ result \in {"none", "optimal", "unbounded", "infeasible", "error"}

(* CheckOpt answers infeasible only when the assertions have no solution   *)
(* within the declared bounds - unless an earlier call has taught the SAT  *)
(* solver a clause no LP had refuted.                                      *)
InfeasibleSound ==
  result = "infeasible" /\ ~leftover => ~Satisfiable(main, box)

(* When the LP has rows, an unbounded answer means that the objective does *)
(* decrease without limit over the assertions, whatever regions were       *)
(* solved, skipped or wrongly excluded before this one.                    *)
UnboundedSound ==
  result = "unbounded" /\ ~Rowless =>
    \E p \in Point : objective[p] <= -Infinity /\ DeltaSolution(p)

(* The upper end of the reported range is one: some point of some region   *)
(* that delta-satisfies the assertions does not exceed it, though the      *)
(* range is merged from several regions.                                   *)
UpperBoundValid ==
  result = "optimal" /\ ~Rowless =>
    \E p \in Point : objective[p] <= objUp /\ DeltaSolution(p)

(* The inductive invariant behind the theorems of OptimizeProofs.  Before  *)
(* the first candidate CheckOpt's LPs range over every point, so that what *)
(* they refute stays refuted within any bounds; from then on neither       *)
(* "infeasible" nor a later "infeasible" on this context can rely on the   *)
(* learned clauses.                                                        *)
RegionsUnbounded ==
  optPc = "idle" \/ ~haveCand => optBox = Point /\ lpBox = Point

LearnedSoundSoFar == ~haveCand => LearnedSound

ActiveHits == optPc = "theory" => Hits(active, main)

CandidateValid ==
  haveCand /\ optPc # "idle" /\ ~Rowless =>
    \E p \in Point : objective[p] <= objUp /\ DeltaSolution(p)

OptIInv ==
  /\ OptTypeOK
  /\ haveObjective => pc = "idle"
  /\ RegionsUnbounded /\ LearnedSoundSoFar /\ ActiveHits /\ InfeasibleSound

RangeIInv == CandidateValid /\ UnboundedSound /\ UpperBoundValid

(* A running CheckOpt returns, or comes to a first optimality candidate:   *)
(* regions without one cannot keep it busy.                                *)
FindsCandidate == optPc # "idle" ~> optPc = "idle" \/ haveCand

(* No solution of the assertions is below the reported range: the optimum  *)
(* is "the best across all feasible regions".                              *)
OptimumIsGlobal ==
  result = "optimal" /\ ~Rowless /\ ~leftover =>
    \A p \in box : Satisfiable(main, {p}) => objective[p] >= objLo

(* The model of an optimum lies within the bounds its variables were       *)
(* declared with.                                                          *)
OptimumWithinBounds == result = "optimal" => model.num \subseteq box
=============================================================================
