---------------------------- MODULE OptimizeProofs ----------------------------
(***************************************************************************)
(* Theorems about Optimize, for every set of points, variables, formulas,  *)
(* bounds and objectives.  The lemmas of LazySmtProofs about literals,     *)
(* clauses and picosat's models carry over; so do its steps, for the calls *)
(* that Optimize takes from LazySmt.                                       *)
(***************************************************************************)
EXTENDS Optimize, LazySmtProofs

-----------------------------------------------------------------------------
(* The box that receives the Boolean literals is a nonempty set of points; *)
(* without a candidate it is the box as it was.                            *)
LEMMA OptBoxAfterFacts ==
  ASSUME OptTypeOK, TypeOK, NEW S \in PartialAssignments, NEW B \in OptBoxAfter(S)
  PROVE  /\ B \in (SUBSET Point) \ {{}}
         /\ ~haveCand => B = optBox
<1> DEFINE values == {IF l[2] THEN 1 ELSE 0 : l \in S \cap BoolLit}
<1>1. CASE haveCand /\ values # {}
  <2>1. PICK v \in values : B = {WithFirst[p][v] : p \in optBox}
    BY <1>1 DEF OptBoxAfter
  <2>2. v \in 0 .. 1
    OBVIOUS
  <2>3. \A p \in optBox : WithFirst[p][v] \in Point
    BY <2>2, OptimizeAssumption DEF OptTypeOK
  <2>4. optBox # {}
    BY DEF OptTypeOK
  <2> QED BY <1>1, <2>1, <2>3, <2>4
<1>2. CASE ~(haveCand /\ values # {})
  BY <1>2 DEF OptBoxAfter, OptTypeOK
<1> QED BY <1>1, <1>2

(* Every point of the LP's region satisfies the active literals up to the  *)
(* precision, so that it is a delta-solution once they hit every clause.   *)
LEMMA RegionIsDeltaSolution ==
  ASSUME Delta > 0, OptTypeOK, ActiveHits, optPc = "theory", NEW p \in Region
  PROVE  p \in Point /\ DeltaSolution(p)
<1>1. p \in Point
  BY DEF Region, OptTypeOK
<1>2. active \in PartialAssignments /\ Hits(active, main)
  BY DEF OptTypeOK, TypeOK, ActiveHits
<1>3. ASSUME NEW l \in Theory(active)
      PROVE  p \in DeltaSat(l)
  <2>1. /\ l \in TheoryLit /\ Op[l[1]] \in RelOp /\ Diff[l[1]][p] \in Int
        /\ l[2] \in BOOLEAN /\ Delta \in Nat
    BY <1>1, LiteralAssumption DEF Theory, TheoryLit
  <2>2. RowHolds(Sense(Op[l[1]], l[2]), Diff[l[1]][p], 0)
    BY DEF Region, Row
  <2>3. Weakened(IF l[2] THEN Op[l[1]] ELSE Complement[Op[l[1]]], Diff[l[1]][p], Delta)
    <3>1. CASE l[2] = TRUE   BY <2>1, <2>2, <3>1, SenseWeakens
    <3>2. CASE l[2] = FALSE  BY <2>1, <2>2, <3>2, SenseWeakens
    <3> QED BY <2>1, <3>1, <3>2
  <2> QED BY <1>1, <2>3 DEF DeltaSat
<1> QED BY <1>1, <1>2, <1>3 DEF DeltaSolution

-----------------------------------------------------------------------------
LEMMA OptTypeInit == OptInit => OptTypeOK /\ (haveObjective => pc = "idle")
<1> SUFFICES ASSUME OptInit  PROVE OptTypeOK /\ (haveObjective => pc = "idle")
  OBVIOUS
<1>1. TypeOK
  BY TypeInit DEF OptInit
<1> QED BY <1>1, OptimizeAssumption DEF OptInit, OptTypeOK

(* What a step that learns from explanation' leaves well typed.            *)
LEMMA LearnTypes ==
  ASSUME OptTypeOK, LearnAndGoOn, explanation' \in SUBSET TheoryLit,
         haveUnsolved' \in BOOLEAN
  PROVE  TypeOK'
<1>1. {} \in PartialAssignments
  BY DEF PartialAssignments, Consistent
<1>2. LearnedClause(explanation') \in SUBSET TheoryLit
  BY NegInvolution DEF LearnedClause
<1> QED BY <1>1, <1>2 DEF OptTypeOK, TypeOK, LearnAndGoOn

(* What the end of a CheckOpt leaves well typed.                           *)
LEMMA ReturnTypes ==
  ASSUME OptTypeOK, haveObjective => pc = "idle", NEW m \in Box,
         NEW r \in {"optimal", "unbounded", "infeasible", "error"}, OptReturn(r, m)
  PROVE  OptTypeOK' /\ (haveObjective => pc = "idle")'
<1>1. {} \in PartialAssignments
  BY DEF PartialAssignments, Consistent
<1>2. TypeOK'
  BY <1>1 DEF OptTypeOK, TypeOK, OptReturn, solverVars
<1> QED BY <1>2, OptimizeAssumption DEF OptTypeOK, OptReturn, solverVars

(* A range of integers, and a nonempty region, come of any adoption.       *)
LEMMA AdoptTypes ==
  ASSUME OptTypeOK, NEW p \in Point, NEW lo \in Int, NEW up \in Int, Adopt(p, lo, up)
  PROVE  /\ objLo' \in Int /\ objUp' \in Int
         /\ optBox' \in (SUBSET Point) \ {{}}
BY DEF Adopt, OptTypeOK

(* The LP that yields a candidate: its point is one of the region, and its *)
(* value is at most the upper end.                                         *)
LEMMA CandidateFacts ==
  ASSUME OptTypeOK, OptDeltaOptimal
  PROVE  \E p \in Region, lo \in Int, up \in Int :
            /\ Adopt(p, lo, up)
            /\ ~Rowless => objective[p] <= up
<1>1. Slack \in Nat /\ Infinity \in Nat /\ Region \subseteq Point /\ objective \in [Point -> Int]
  BY LiteralAssumption, OptimizeAssumption DEF OptTypeOK, Region
<1>2. CASE ~Rowless
  <2>1. PICK best \in {objective[q] : q \in Minima(Region)} :
          \E lo \in best - Slack .. best : \E up \in best .. lo + Slack :
            \E p \in {q \in Region : objective[q] \in lo .. up} : Adopt(p, lo, up)
    BY <1>2 DEF OptDeltaOptimal
  <2>2. best \in Int
    BY <1>1 DEF Minima
  <2>3. PICK lo \in best - Slack .. best : \E up \in best .. lo + Slack :
            \E p \in {q \in Region : objective[q] \in lo .. up} : Adopt(p, lo, up)
    BY <2>1
  <2>4. lo \in Int
    BY <1>1, <2>2
  <2>5. PICK up \in best .. lo + Slack :
            \E p \in {q \in Region : objective[q] \in lo .. up} : Adopt(p, lo, up)
    BY <2>3
  <2>6. up \in Int
    BY <1>1, <2>2, <2>4
  <2>7. PICK p \in {q \in Region : objective[q] \in lo .. up} : Adopt(p, lo, up)
    BY <2>5
  <2>8. p \in Region /\ objective[p] <= up
    OBVIOUS
  <2> QED BY <2>4, <2>6, <2>7, <2>8
<1>3. CASE Rowless
  BY <1>3 DEF OptDeltaOptimal, Maxima
<1> QED BY <1>2, <1>3

(* Checks, optimizations and the calls between them keep every type, and   *)
(* no check runs once there is an objective.                               *)
LEMMA OptTypeStep ==
  ASSUME OptTypeOK, haveObjective => pc = "idle", [OptNext]_allVars
  PROVE  OptTypeOK' /\ (haveObjective => pc = "idle")'
<1> USE DEF solverVars
<1>1. CASE CallOrCheckSat
  <2>1. TypeOK'
    BY <1>1, TypeStep DEF CallOrCheckSat, OptTypeOK
  <2> QED BY <1>1, <2>1 DEF CallOrCheckSat, Outdate, OptTypeOK
<1>2. ASSUME NEW o \in [Point -> Int], Minimize(o)
      PROVE  OptTypeOK' /\ (haveObjective => pc = "idle")'
  <2>1. TypeOK'
    BY <1>2 DEF Minimize, vars, OptTypeOK, TypeOK
  <2> QED BY <1>2, <2>1 DEF Minimize, Outdate, vars, OptTypeOK
<1>3. ASSUME NEW o \in Objectives, Minimize(o) \/ Maximize(o)
      PROVE  OptTypeOK' /\ (haveObjective => pc = "idle")'
  <2>1. o \in [Point -> Int]
    BY OptimizeAssumption
  <2>2. [p \in Point |-> -o[p]] \in [Point -> Int]
    BY <2>1
  <2> QED BY <1>2, <1>3, <2>1, <2>2 DEF Maximize
<1>4. CASE StartCheckOpt
  <2>1. TypeOK'
    BY <1>4 DEF StartCheckOpt, OptTypeOK, TypeOK
  <2> QED BY <1>4, <2>1, OptimizeAssumption DEF StartCheckOpt, Outdate, OptTypeOK
<1>5. CASE OptSatFindsModel
  <2>1. PICK S \in SatSolverModels : active' = S /\ optBox' \in OptBoxAfter(S)
    BY <1>5 DEF OptSatFindsModel
  <2>2. TypeOK /\ S \in PartialAssignments
    BY ModelFacts DEF OptTypeOK
  <2>3. optBox' \in (SUBSET Point) \ {{}}
    BY <2>1, <2>2, OptBoxAfterFacts
  <2>4. TypeOK'
    BY <1>5, <2>1, <2>2 DEF OptSatFindsModel, TypeOK
  <2> QED BY <1>5, <2>3, <2>4 DEF OptSatFindsModel, OptTypeOK
<1>6. CASE OptInfeasible
  <2>1. TypeOK'
    BY <1>6, LearnTypes DEF OptInfeasible, OptTypeOK, TypeOK, Theory
  <2> QED BY <1>6, <2>1 DEF OptInfeasible, LearnAndGoOn, OptTypeOK
<1>7. CASE OptUnsolved
  <2>1. TypeOK'
    BY <1>7, LearnTypes DEF OptUnsolved, OptTypeOK, TypeOK, Theory
  <2> QED BY <1>7, <2>1 DEF OptUnsolved, LearnAndGoOn, OptTypeOK
<1>8. CASE OptDeltaOptimal
  <2>1. LearnAndGoOn /\ UNCHANGED <<explanation, haveUnsolved>>
    BY <1>8 DEF OptDeltaOptimal
  <2>2. TypeOK'
    BY <2>1, LearnTypes DEF OptTypeOK, TypeOK
  <2>3. PICK p \in Region, lo \in Int, up \in Int : Adopt(p, lo, up)
    BY <1>8, CandidateFacts
  <2>4. p \in Point
    BY DEF Region, OptTypeOK
  <2>5. objLo' \in Int /\ objUp' \in Int /\ optBox' \in (SUBSET Point) \ {{}}
    BY <2>3, <2>4, AdoptTypes
  <2> QED BY <2>1, <2>2, <2>5 DEF LearnAndGoOn, OptTypeOK
<1>9. FreeBools \in [BoolVar -> Interval01]
  BY DEF FreeBools, Interval01
<1>10. /\ EmptyBox \in Box /\ model \in Box
       /\ [num |-> optBox, bool |-> FreeBools] \in Box
  BY <1>9 DEF EmptyBox, Box, OptTypeOK, TypeOK
<1>11. CASE OptUnbounded
  BY <1>10, <1>11, ReturnTypes DEF OptUnbounded
<1>12. CASE OptSatFindsNone
  BY <1>10, <1>12, ReturnTypes DEF OptSatFindsNone
<1>13. CASE OptThrows
  BY <1>10, <1>13, ReturnTypes DEF OptThrows
<1>14. CASE UNCHANGED allVars
  BY <1>14 DEF allVars, optVars, vars, OptTypeOK, TypeOK
<1> QED
  BY <1>1, <1>3, <1>4, <1>5, <1>6, <1>7, <1>8, <1>11, <1>12, <1>13, <1>14
     DEF OptNext, OptSolve

-----------------------------------------------------------------------------
(* Between calls and until the first candidate, the box and the bounds of  *)
(* the LP are all points.                                                  *)
LEMMA RegionsStep ==
  ASSUME OptTypeOK, RegionsUnbounded, [OptNext]_allVars
  PROVE  RegionsUnbounded'
<1> SUFFICES ASSUME (optPc = "idle" \/ ~haveCand)'
             PROVE  optBox' = Point /\ lpBox' = Point
  BY DEF RegionsUnbounded
<1>1. CASE UNCHANGED <<optPc, haveCand, optBox, lpBox>>
  BY <1>1 DEF RegionsUnbounded
<1>2. CASE OptSatFindsModel
  <2>1. PICK S \in SatSolverModels : optBox' \in OptBoxAfter(S)
    BY <1>2 DEF OptSatFindsModel
  <2>2. ~haveCand /\ TypeOK /\ S \in PartialAssignments
    BY <1>2, ModelFacts DEF OptSatFindsModel, OptTypeOK
  <2> QED BY <1>2, <2>1, <2>2, OptBoxAfterFacts DEF OptSatFindsModel, RegionsUnbounded
<1>3. ASSUME NEW r, NEW m, OptReturn(r, m)
      PROVE  optBox' = Point /\ lpBox' = Point
  BY <1>3 DEF OptReturn
<1>4. CASE CallOrCheckSat
  BY <1>1, <1>4 DEF CallOrCheckSat
<1>5. ASSUME NEW o, Minimize(o)
      PROVE  UNCHANGED <<optPc, haveCand, optBox, lpBox>>
  BY <1>5 DEF Minimize
<1>6. CASE StartCheckOpt
  BY <1>6 DEF StartCheckOpt, RegionsUnbounded
<1>7. CASE OptInfeasible
  BY <1>7 DEF OptInfeasible, LearnAndGoOn, RegionsUnbounded
<1>8. CASE OptUnsolved
  BY <1>8 DEF OptUnsolved, LearnAndGoOn, RegionsUnbounded
<1>9. CASE OptDeltaOptimal
  BY <1>9 DEF OptDeltaOptimal, LearnAndGoOn
<1>10. CASE OptUnbounded
  BY <1>3, <1>10 DEF OptUnbounded
<1>11. CASE OptSatFindsNone
  BY <1>3, <1>11 DEF OptSatFindsNone
<1>12. CASE OptThrows
  BY <1>3, <1>12 DEF OptThrows
<1>13. CASE UNCHANGED allVars
  BY <1>1, <1>13 DEF allVars, optVars
<1> QED
  BY <1>1, <1>2, <1>4, <1>5, <1>6, <1>7, <1>8, <1>9, <1>10, <1>11, <1>12, <1>13
     DEF OptNext, OptSolve, Maximize

(* An LP without a solution over all points excludes a literal of every    *)
(* point, whatever box the caller declared.                                *)
LEMMA OptRefutationHolds ==
  ASSUME TypeOK, lpBox = Point, Region = {}, NEW p \in box
  PROVE  \E l \in LearnedClause(Theory(active)) : p \notin Meaning(Neg(l))
<1>1. p \in Point
  BY DEF TypeOK
<1>2. PICK k \in Theory(active) : p \notin Row(k)
  BY <1>1 DEF Region
<1>3. k \in TheoryLit /\ p \notin Meaning(k)
  BY <1>2, MeaningInRow DEF Theory
<1>4. Neg(k) \in LearnedClause(Theory(active))
  BY <1>2 DEF LearnedClause
<1>5. Neg(Neg(k)) = k
  BY <1>3, NegInvolution DEF Lit
<1> QED BY <1>3, <1>4, <1>5

(* Up to the first candidate, everything learned is true within the box.   *)
LEMMA LearnedSoFarStep ==
  ASSUME OptTypeOK, RegionsUnbounded, LearnedSoundSoFar, [OptNext]_allVars
  PROVE  LearnedSoundSoFar'
<1> SUFFICES ASSUME ~haveCand', ~leftover', ~haveUnsolved',
                    NEW c \in learned', NEW p \in box'
             PROVE  \E l \in c : p \notin Meaning(Neg(l))
  BY DEF LearnedSoundSoFar, LearnedSound
<1> USE DEF solverVars
<1>1. CASE /\ learned' = learned /\ box' = box
           /\ ~leftover /\ ~haveUnsolved /\ ~haveCand
  BY <1>1 DEF LearnedSoundSoFar, LearnedSound
<1>2. CASE CallOrCheckSat
  <2>1. LearnedSound
    BY <1>2 DEF CallOrCheckSat, LearnedSoundSoFar
  <2>2. LearnedSound'
    BY <1>2, <2>1, LearnedStep DEF CallOrCheckSat, OptTypeOK
  <2> QED BY <2>2 DEF LearnedSound
<1>3. CASE OptInfeasible
  <2>1. /\ learned' = learned \cup {LearnedClause(Theory(active))}
        /\ box' = box /\ ~leftover /\ ~haveUnsolved /\ ~haveCand /\ Region = {}
    BY <1>3 DEF OptInfeasible, LearnAndGoOn
  <2>2. CASE c = LearnedClause(Theory(active))
    BY <2>1, <2>2, OptRefutationHolds DEF RegionsUnbounded, OptTypeOK
  <2>3. CASE c \in learned
    BY <2>1, <2>3 DEF LearnedSoundSoFar, LearnedSound
  <2> QED BY <2>1, <2>2, <2>3
<1>4. CASE OptUnsolved
  BY <1>4 DEF OptUnsolved
<1>5. CASE OptDeltaOptimal
  BY <1>5 DEF OptDeltaOptimal
<1>6. ASSUME NEW o, Minimize(o)
      PROVE  /\ learned' = learned /\ box' = box
             /\ ~leftover /\ ~haveUnsolved /\ ~haveCand
  BY <1>6 DEF Minimize, vars
<1>7. CASE StartCheckOpt
  BY <1>1, <1>7 DEF StartCheckOpt
<1>8. CASE OptSatFindsModel
  BY <1>1, <1>8 DEF OptSatFindsModel
<1>9. ASSUME NEW r, NEW m, OptReturn(r, m)
      PROVE  /\ learned' = learned /\ box' = box
             /\ ~leftover /\ ~haveUnsolved /\ ~haveCand
  BY <1>9 DEF OptReturn
<1>10. CASE OptUnbounded
  BY <1>1, <1>9, <1>10 DEF OptUnbounded
<1>11. CASE OptSatFindsNone
  BY <1>1, <1>9, <1>11 DEF OptSatFindsNone
<1>12. CASE OptThrows
  BY <1>1, <1>9, <1>12 DEF OptThrows
<1>13. CASE UNCHANGED allVars
  BY <1>1, <1>13 DEF allVars, optVars, vars
<1> QED
  BY <1>1, <1>2, <1>3, <1>4, <1>5, <1>6, <1>7, <1>8, <1>10, <1>11, <1>12, <1>13
     DEF OptNext, OptSolve, Maximize

(* "infeasible" is answered in one place: picosat is out of models, no LP  *)
(* was left unsolved and none has given a candidate.                       *)
LEMMA InfeasibleStep ==
  ASSUME OptTypeOK, LearnedSoundSoFar, InfeasibleSound, [OptNext]_allVars
  PROVE  InfeasibleSound'
<1> SUFFICES ASSUME result' = "infeasible", ~leftover'
             PROVE  ~Satisfiable(main, box)'
  BY DEF InfeasibleSound
<1> USE DEF solverVars
<1>1. CASE UNCHANGED <<result, main, box, leftover>>
  BY <1>1 DEF InfeasibleSound, Satisfiable
<1>2. CASE OptSatFindsNone
  <2>1. /\ PicosatModels(main \cup learned) = {}
        /\ ~haveUnsolved /\ ~haveCand /\ ~leftover
        /\ main' = main /\ box' = box
    BY <1>2 DEF OptSatFindsNone, OptReturn
  <2>2. ~Satisfiable(main, box)
    BY <2>1, SolutionIsPicosatModel DEF LearnedSoundSoFar, LearnedSound, OptTypeOK
  <2> QED BY <2>1, <2>2 DEF Satisfiable
<1>3. CASE CallOrCheckSat
  BY <1>3 DEF CallOrCheckSat, Outdate
<1>4. ASSUME NEW o, Minimize(o)  PROVE FALSE
  BY <1>4 DEF Minimize, Outdate
<1>5. CASE StartCheckOpt
  BY <1>5 DEF StartCheckOpt, Outdate
<1>6. CASE OptSatFindsModel
  BY <1>1, <1>6 DEF OptSatFindsModel
<1>7. CASE OptInfeasible
  BY <1>1, <1>7 DEF OptInfeasible, LearnAndGoOn
<1>8. CASE OptUnsolved
  BY <1>1, <1>8 DEF OptUnsolved, LearnAndGoOn
<1>9. CASE OptDeltaOptimal
  BY <1>1, <1>9 DEF OptDeltaOptimal, LearnAndGoOn
<1>10. CASE OptUnbounded
  BY <1>10 DEF OptUnbounded, OptReturn
<1>11. CASE OptThrows
  BY <1>11 DEF OptThrows, OptReturn
<1>12. CASE UNCHANGED allVars
  BY <1>1, <1>12 DEF allVars, optVars, vars
<1> QED
  BY <1>1, <1>2, <1>3, <1>4, <1>5, <1>6, <1>7, <1>8, <1>9, <1>10, <1>11, <1>12
     DEF OptNext, OptSolve, Maximize

(* While an LP is solved, its literals hit every asserted clause.          *)
LEMMA ActiveHitsStep ==
  ASSUME OptTypeOK, ActiveHits, [OptNext]_allVars
  PROVE  ActiveHits'
<1> SUFFICES ASSUME optPc' = "theory"  PROVE Hits(active, main)'
  BY DEF ActiveHits
<1>1. CASE OptSatFindsModel
  <2>1. PICK S \in SatSolverModels : active' = S
    BY <1>1 DEF OptSatFindsModel
  <2> QED BY <1>1, <2>1, ModelFacts DEF OptSatFindsModel, OptTypeOK, solverVars
<1>2. CASE CallOrCheckSat
  BY <1>2 DEF CallOrCheckSat
<1>3. ASSUME NEW o, Minimize(o)  PROVE FALSE
  BY <1>3 DEF Minimize
<1>4. CASE StartCheckOpt
  BY <1>4 DEF StartCheckOpt
<1>5. CASE OptInfeasible \/ OptUnsolved \/ OptDeltaOptimal
  BY <1>5 DEF OptInfeasible, OptUnsolved, OptDeltaOptimal, LearnAndGoOn
<1>6. CASE OptUnbounded \/ OptSatFindsNone \/ OptThrows
  BY <1>6 DEF OptUnbounded, OptSatFindsNone, OptThrows, OptReturn
<1>7. CASE UNCHANGED allVars
  BY <1>7 DEF allVars, optVars, vars, ActiveHits
<1> QED
  BY <1>1, <1>2, <1>3, <1>4, <1>5, <1>6, <1>7 DEF OptNext, OptSolve, Maximize

-----------------------------------------------------------------------------
(* A witness for the upper end survives every step that leaves it, the     *)
(* objective and the assertions alone.                                     *)
LEMMA WitnessStays ==
  ASSUME UNCHANGED <<main, objective, objUp>>,
         \E p \in Point : objective[p] <= objUp /\ DeltaSolution(p)
  PROVE  (\E p \in Point : objective[p] <= objUp /\ DeltaSolution(p))'
BY DEF DeltaSolution

(* Each candidate brings a witness for the upper end it sets; one that     *)
(* does not lower the upper end leaves the old witness in place.           *)
LEMMA CandidateStep ==
  ASSUME Delta > 0, OptTypeOK, ActiveHits, CandidateValid, [OptNext]_allVars
  PROVE  CandidateValid'
<1> DEFINE Witnessed == \E p \in Point : objective[p] <= objUp /\ DeltaSolution(p)
<1> SUFFICES ASSUME haveCand', optPc' # "idle", ~Rowless'
             PROVE  Witnessed'
  BY DEF CandidateValid
<1> USE DEF solverVars
<1>1. CASE UNCHANGED <<main, objective, objUp, haveCand>> /\ optPc # "idle"
  <2>1. Witnessed
    BY <1>1 DEF CandidateValid, Rowless
  <2> QED BY <1>1, <2>1, WitnessStays
<1>2. CASE OptDeltaOptimal
  <2>1. /\ UNCHANGED <<main, objective>> /\ optPc = "theory"
    BY <1>2 DEF OptDeltaOptimal, LearnAndGoOn
  <2>2. ~Rowless
    BY <2>1 DEF Rowless
  <2>3. PICK p \in Region, lo \in Int, up \in Int :
          Adopt(p, lo, up) /\ objective[p] <= up
    BY <1>2, <2>2, CandidateFacts
  <2>4. CASE objUp' = objUp /\ haveCand
    <3>1. Witnessed
      BY <2>1, <2>2, <2>4 DEF CandidateValid
    <3> QED BY <2>1, <2>4, <3>1, WitnessStays
  <2>5. CASE objUp' = up
    <3>1. p \in Point /\ DeltaSolution(p)
      BY <2>1, RegionIsDeltaSolution
    <3>2. DeltaSolution(p)'
      BY <2>1, <3>1 DEF DeltaSolution
    <3>3. objective'[p] <= objUp'
      BY <2>1, <2>3, <2>5
    <3> QED BY <3>1, <3>2, <3>3
  <2> QED BY <2>3, <2>4, <2>5 DEF Adopt
<1>3. CASE CallOrCheckSat
  BY <1>3 DEF CallOrCheckSat
<1>4. ASSUME NEW o, Minimize(o)  PROVE FALSE
  BY <1>4 DEF Minimize
<1>5. CASE StartCheckOpt
  BY <1>5 DEF StartCheckOpt
<1>6. CASE OptSatFindsModel
  BY <1>1, <1>6 DEF OptSatFindsModel
<1>7. CASE OptInfeasible
  BY <1>1, <1>7 DEF OptInfeasible, LearnAndGoOn
<1>8. CASE OptUnsolved
  BY <1>1, <1>8 DEF OptUnsolved, LearnAndGoOn
<1>9. CASE OptUnbounded \/ OptSatFindsNone \/ OptThrows
  BY <1>9 DEF OptUnbounded, OptSatFindsNone, OptThrows, OptReturn
<1>10. CASE UNCHANGED allVars
  BY <1>1, <1>10 DEF allVars, optVars, vars
<1> QED
  BY <1>2, <1>3, <1>4, <1>5, <1>6, <1>7, <1>8, <1>9, <1>10
     DEF OptNext, OptSolve, Maximize

(* The range of an optimal answer is the one of the last candidate.        *)
LEMMA UpperBoundStep ==
  ASSUME OptTypeOK, CandidateValid, UpperBoundValid, [OptNext]_allVars
  PROVE  UpperBoundValid'
<1> DEFINE Witnessed == \E p \in Point : objective[p] <= objUp /\ DeltaSolution(p)
<1> SUFFICES ASSUME result' = "optimal", ~Rowless'
             PROVE  Witnessed'
  BY DEF UpperBoundValid
<1> USE DEF solverVars
<1>1. CASE UNCHANGED <<main, objective, objUp, result>>
  <2>1. Witnessed
    BY <1>1 DEF UpperBoundValid, Rowless
  <2> QED BY <1>1, <2>1, WitnessStays
<1>2. CASE OptSatFindsNone
  <2>1. /\ UNCHANGED <<main, objective, objUp>>
        /\ haveCand /\ optPc = "sat"
    BY <1>2 DEF OptSatFindsNone, OptReturn
  <2>2. Witnessed
    BY <2>1 DEF CandidateValid, Rowless
  <2> QED BY <2>1, <2>2, WitnessStays
<1>3. CASE CallOrCheckSat
  BY <1>3 DEF CallOrCheckSat, Outdate
<1>4. ASSUME NEW o, Minimize(o)  PROVE FALSE
  BY <1>4 DEF Minimize, Outdate
<1>5. CASE StartCheckOpt
  BY <1>5 DEF StartCheckOpt, Outdate
<1>6. CASE OptSatFindsModel
  BY <1>1, <1>6 DEF OptSatFindsModel
<1>7. CASE OptInfeasible
  BY <1>1, <1>7 DEF OptInfeasible, LearnAndGoOn
<1>8. CASE OptUnsolved
  BY <1>1, <1>8 DEF OptUnsolved, LearnAndGoOn
<1>9. CASE OptUnbounded \/ OptThrows
  BY <1>9 DEF OptUnbounded, OptThrows, OptReturn
<1>10. CASE OptDeltaOptimal
  BY <1>10 DEF OptDeltaOptimal, LearnAndGoOn, OptTypeOK
<1>11. CASE UNCHANGED allVars
  BY <1>1, <1>11 DEF allVars, optVars, vars
<1> QED
  BY <1>2, <1>3, <1>4, <1>5, <1>6, <1>7, <1>8, <1>9, <1>10, <1>11
     DEF OptNext, OptSolve, Maximize

(* An unbounded answer, when the LP has rows, shows a point.               *)
LEMMA UnboundedStep ==
  ASSUME Delta > 0, OptTypeOK, ActiveHits, UnboundedSound, [OptNext]_allVars
  PROVE  UnboundedSound'
<1> DEFINE Shown == \E p \in Point : objective[p] <= -Infinity /\ DeltaSolution(p)
<1> SUFFICES ASSUME result' = "unbounded", ~Rowless'
             PROVE  Shown'
  BY DEF UnboundedSound
<1> USE DEF solverVars
<1>1. CASE UNCHANGED <<main, objective>> /\ Shown
  BY <1>1 DEF DeltaSolution
<1>2. CASE OptUnbounded
  <2>1. UNCHANGED <<main, objective>> /\ optPc = "theory"
    BY <1>2 DEF OptUnbounded, OptReturn
  <2>2. ~Rowless
    BY <2>1 DEF Rowless
  <2>3. PICK p \in Region : objective[p] <= -Infinity
    BY <1>2, <2>2 DEF OptUnbounded
  <2>4. Shown
    BY <2>1, <2>3, RegionIsDeltaSolution
  <2> QED BY <1>1, <2>1, <2>4
<1>3. CASE UNCHANGED <<main, objective, result>>
  <2>1. Shown
    BY <1>3 DEF UnboundedSound, Rowless
  <2> QED BY <1>1, <1>3, <2>1
<1>4. CASE CallOrCheckSat
  BY <1>4 DEF CallOrCheckSat, Outdate
<1>5. ASSUME NEW o, Minimize(o)  PROVE FALSE
  BY <1>5 DEF Minimize, Outdate
<1>6. CASE StartCheckOpt
  BY <1>6 DEF StartCheckOpt, Outdate
<1>7. CASE OptSatFindsModel
  BY <1>3, <1>7 DEF OptSatFindsModel
<1>8. CASE OptInfeasible \/ OptUnsolved \/ OptDeltaOptimal
  BY <1>3, <1>8 DEF OptInfeasible, OptUnsolved, OptDeltaOptimal, LearnAndGoOn
<1>9. CASE OptSatFindsNone \/ OptThrows
  BY <1>9 DEF OptSatFindsNone, OptThrows, OptReturn
<1>10. CASE UNCHANGED allVars
  BY <1>3, <1>10 DEF allVars, optVars, vars
<1> QED
  BY <1>2, <1>4, <1>5, <1>6, <1>7, <1>8, <1>9, <1>10 DEF OptNext, OptSolve, Maximize

-----------------------------------------------------------------------------
(* The inductive invariant holds: types, LPs over all points and sound     *)
(* learned clauses until the first candidate, active literals that hit     *)
(* every clause, sound "infeasible".                                       *)
THEOREM OptInductive == OptSpec => []OptIInv
<1>1. OptInit => OptIInv
  BY OptTypeInit DEF OptInit, Init, OptIInv, RegionsUnbounded, LearnedSoundSoFar,
     LearnedSound, ActiveHits, InfeasibleSound
<1>2. OptIInv /\ [OptNext]_allVars => OptIInv'
  BY OptTypeStep, RegionsStep, LearnedSoFarStep, ActiveHitsStep, InfeasibleStep
     DEF OptIInv
<1> QED BY <1>1, <1>2, PTL DEF OptSpec

(* Every variable of the context keeps its type when checks and            *)
(* optimizations alternate.                                                *)
THEOREM OptTypeCorrect == OptSpec => []OptTypeOK
BY OptInductive, PTL DEF OptIInv

(* "infeasible" means that the assertions have no solution in the declared *)
(* bounds, although CheckOpt never looks at these bounds, unless an        *)
(* earlier call taught the SAT solver a clause that no LP had refuted.     *)
THEOREM InfeasibleSoundness == OptSpec => []InfeasibleSound
BY OptInductive, PTL DEF OptIInv

LEMMA RangeInductive ==
  ASSUME Delta > 0
  PROVE  OptSpec => []RangeIInv
<1>1. OptInit => RangeIInv
  BY DEF OptInit, RangeIInv, CandidateValid, UnboundedSound, UpperBoundValid
<1>2. OptIInv /\ RangeIInv /\ [OptNext]_allVars => RangeIInv'
  BY CandidateStep, UpperBoundStep, UnboundedStep DEF OptIInv, RangeIInv
<1> QED BY <1>1, <1>2, OptInductive, PTL DEF OptSpec

(* For a positive precision, and an LP with rows, "unbounded" is shown by  *)
(* a delta-solution whose value counts as infinite.                        *)
THEOREM UnboundedSoundness ==
  ASSUME Delta > 0
  PROVE  OptSpec => []UnboundedSound
BY RangeInductive, PTL DEF RangeIInv

(* For a positive precision, and an LP with rows, the upper end of the     *)
(* reported range bounds the value of some delta-solution from above,      *)
(* however many regions the range was merged from.                         *)
THEOREM UpperBoundValidity ==
  ASSUME Delta > 0
  PROVE  OptSpec => []UpperBoundValid
BY RangeInductive, PTL DEF RangeIInv
=============================================================================
