---------------------------- MODULE LazySmtProofs ----------------------------
(***************************************************************************)
(* Theorems about LazySmt, for every set of points, variables, formulas    *)
(* and bounds.                                                             *)
(***************************************************************************)
EXTENDS LazySmt, TLAPS

-----------------------------------------------------------------------------
(* The LP is a relaxation: a value that satisfies a relation, or its       *)
(* negation, satisfies the row the sense tables make of it.                *)
LEMMA SenseRelaxes ==
  ASSUME NEW op \in RelOp, NEW v \in Int
  PROVE  /\ OpHolds(op, v) => RowHolds(Sense(op, TRUE), v, 0)
         /\ ~OpHolds(op, v) => RowHolds(Sense(op, FALSE), v, 0)
<1> USE DEF OpHolds, RowHolds, Sense, IsEqual, IsGreater, IsLess
<1>1. CASE op = "eq"   BY <1>1
<1>2. CASE op = "neq"  BY <1>2
<1>3. CASE op = "lt"   BY <1>3
<1>4. CASE op = "leq"  BY <1>4
<1>5. CASE op = "gt"   BY <1>5
<1>6. CASE op = "geq"  BY <1>6
<1> QED BY <1>1, <1>2, <1>3, <1>4, <1>5, <1>6 DEF RelOp

(* A violation below delta keeps a row within the delta-weakening of the   *)
(* relation it came from, strict inequalities and disequalities included.  *)
LEMMA SenseWeakens ==
  ASSUME NEW op \in RelOp, NEW v \in Int,
         NEW slack \in Nat, NEW delta \in Nat, slack < delta
  PROVE  /\ RowHolds(Sense(op, TRUE), v, slack) => Weakened(op, v, delta)
         /\ RowHolds(Sense(op, FALSE), v, slack)
              => Weakened(Complement[op], v, delta)
<1> USE DEF RelOp, Complement, Weakened, RowHolds, Sense, IsEqual, IsGreater, IsLess
<1>1. CASE op = "eq"   BY <1>1
<1>2. CASE op = "neq"  BY <1>2
<1>3. CASE op = "lt"   BY <1>3
<1>4. CASE op = "leq"  BY <1>4
<1>5. CASE op = "gt"   BY <1>5
<1>6. CASE op = "geq"  BY <1>6
<1> QED BY <1>1, <1>2, <1>3, <1>4, <1>5, <1>6

LEMMA MeaningInRow ==
  \A l \in TheoryLit : Meaning(l) \subseteq Row(l)
<1> SUFFICES ASSUME NEW l \in TheoryLit, NEW p \in Meaning(l)
             PROVE  p \in Row(l)
  OBVIOUS
<1>1. /\ p \in Point /\ Op[l[1]] \in RelOp /\ Diff[l[1]][p] \in Int
      /\ l[2] \in BOOLEAN
  BY LiteralAssumption DEF TheoryLit, Meaning
<1>2. OpHolds(Op[l[1]], Diff[l[1]][p]) <=> l[2]
  BY DEF Meaning
<1>3. RowHolds(Sense(Op[l[1]], l[2]), Diff[l[1]][p], 0)
  <2>1. CASE l[2] = TRUE   BY <1>1, <1>2, <2>1, SenseRelaxes
  <2>2. CASE l[2] = FALSE  BY <1>1, <1>2, <2>2, SenseRelaxes
  <2> QED BY <1>1, <2>1, <2>2
<1> QED BY <1>1, <1>3 DEF Row

LEMMA NearIsDeltaSat ==
  ASSUME Slack < Delta
  PROVE  \A l \in TheoryLit : Near(l) \subseteq DeltaSat(l)
<1> SUFFICES ASSUME NEW l \in TheoryLit, NEW p \in Near(l)
             PROVE  p \in DeltaSat(l)
  OBVIOUS
<1>1. /\ p \in Point /\ Op[l[1]] \in RelOp /\ Diff[l[1]][p] \in Int
      /\ l[2] \in BOOLEAN /\ Slack \in Nat /\ Delta \in Nat
  BY LiteralAssumption DEF TheoryLit, Near
<1>2. RowHolds(Sense(Op[l[1]], l[2]), Diff[l[1]][p], Slack)
  BY DEF Near
<1>3. Weakened(IF l[2] THEN Op[l[1]] ELSE Complement[Op[l[1]]], Diff[l[1]][p], Delta)
  <2>1. CASE l[2] = TRUE   BY <1>1, <1>2, <2>1, SenseWeakens
  <2>2. CASE l[2] = FALSE  BY <1>1, <1>2, <2>2, SenseWeakens
  <2> QED BY <1>1, <2>1, <2>2
<1> QED BY <1>1, <1>3 DEF DeltaSat

LEMMA NegInvolution ==
  /\ \A l \in Lit : Neg(l) \in Lit /\ Neg(Neg(l)) = l
  /\ \A l \in TheoryLit : Neg(l) \in TheoryLit
<1>1. ASSUME NEW V, NEW l \in V \X BOOLEAN
      PROVE  Neg(l) \in V \X BOOLEAN /\ Neg(Neg(l)) = l
  <2>1. PICK v \in V, t \in BOOLEAN : l = <<v, t>>
    OBVIOUS
  <2>2. PICK u \in BOOLEAN : u = (~t) /\ t = (~u)
    OBVIOUS
  <2>3. Neg(l) = <<v, u>> /\ Neg(<<v, u>>) = <<v, t>>
    BY <2>1, <2>2 DEF Neg
  <2>4. Neg(l) \in V \X BOOLEAN
    BY <2>3
  <2>5. Neg(Neg(l)) = l
    BY <2>1, <2>3
  <2> QED BY <2>4, <2>5
<1>2. \A l \in TheoryLit : Neg(l) \in TheoryLit /\ Neg(Neg(l)) = l
  BY <1>1 DEF TheoryLit
<1>3. \A l \in BoolLit : Neg(l) \in BoolLit /\ Neg(Neg(l)) = l
  BY <1>1 DEF BoolLit
<1>4. \A l \in CnfLit : Neg(l) \in CnfLit /\ Neg(Neg(l)) = l
  BY <1>1 DEF CnfLit
<1> QED BY <1>2, <1>3, <1>4 DEF Lit

(* A clause learned from T is a set of literals, its negations are T.      *)
LEMMA LearnedClauseNeg ==
  ASSUME NEW T \in SUBSET TheoryLit
  PROVE  /\ LearnedClause(T) \in Clause
         /\ \A l \in LearnedClause(T) : Neg(l) \in T
         /\ \A l \in T : Neg(l) \in LearnedClause(T)
BY NegInvolution DEF LearnedClause, Clause, Lit

(* The literals kept by GetMainActiveLiterals: a consistent set that hits  *)
(* every main clause and contradicts a literal of each learned clause's    *)
(* negation.                                                               *)
LEMMA ModelFacts ==
  ASSUME TypeOK, NEW S \in SatSolverModels
  PROVE  /\ S \in PartialAssignments
         /\ Hits(S, main)
         /\ \A c \in learned : \E l \in c : Neg(l) \notin S
<1>1. PICK P \in PicosatModels(main \cup learned) : S \in MainActiveLiterals(P, main)
  BY DEF SatSolverModels
<1>2. P \in SUBSET Lit /\ Consistent(P) /\ Hits(P, main \cup learned)
  BY DEF PicosatModels, PartialAssignments
<1>3. S \subseteq P /\ Hits(S, main)
  BY <1>1 DEF MainActiveLiterals
<1>4. S \in PartialAssignments
  BY <1>2, <1>3 DEF PartialAssignments, Consistent
<1>5. ASSUME NEW c \in learned
      PROVE  \E l \in c : Neg(l) \notin S
  <2>1. PICK l \in c : l \in P
    BY <1>2 DEF Hits
  <2>2. Neg(l) \notin P
    BY <1>2, <2>1 DEF Consistent
  <2> QED BY <1>3, <2>1, <2>2
<1> QED BY <1>3, <1>4, <1>5

(* At a point, exactly one of a theory literal and its negation holds.     *)
LEMMA MeaningNeg ==
  ASSUME NEW l \in TheoryLit, NEW p \in Point
  PROVE  p \in Meaning(Neg(l)) <=> p \notin Meaning(l)
<1>1. PICK b \in TheoryVar, t \in BOOLEAN : l = <<b, t>>
  BY DEF TheoryLit
<1>2. p \in Meaning(l) <=> (OpHolds(Op[b], Diff[b][p]) <=> t)
  BY <1>1 DEF Meaning
<1>3. p \in Meaning(Neg(l)) <=> (OpHolds(Op[b], Diff[b][p]) <=> ~t)
  BY <1>1 DEF Meaning, Neg
<1> QED BY <1>2, <1>3

(* A solution of the assertions in the box is a model picosat can find, as *)
(* long as the learned clauses exclude no point: its Boolean part, and the *)
(* theory literals that hold at its point.                                 *)
LEMMA SolutionIsPicosatModel ==
  ASSUME TypeOK, Satisfiable(main, box),
         \A c \in learned : \A p \in box : \E l \in c : p \notin Meaning(Neg(l))
  PROVE  PicosatModels(main \cup learned) # {}
<1>1. PICK p \in box, S \in PartialAssignments :
        Hits(S, main) /\ \A l \in Theory(S) : p \in Meaning(l)
  BY DEF Satisfiable
<1>2. p \in Point
  BY DEF TypeOK
<1> DEFINE True == {l \in TheoryLit : p \in Meaning(l)}
           P == (S \ TheoryLit) \cup True
<1>3. S \subseteq Lit /\ Consistent(S)
  BY DEF PartialAssignments
<1>4. P \subseteq Lit
  BY <1>3 DEF Lit
<1>5. Consistent(P)
  <2> SUFFICES ASSUME NEW l \in P, Neg(l) \in P  PROVE FALSE
    BY DEF Consistent
  <2>1. CASE l \in TheoryLit
    BY <1>2, <2>1, MeaningNeg, NegInvolution
  <2>2. CASE l \notin TheoryLit
    <3>1. Neg(l) \notin TheoryLit
      BY <1>4, <2>2, NegInvolution
    <3> QED BY <1>3, <2>2, <3>1 DEF Consistent
  <2> QED BY <2>1, <2>2
<1>6. S \subseteq P
  BY <1>1 DEF Theory
<1>7. Hits(P, main)
  BY <1>1, <1>6 DEF Hits
<1>8. ASSUME NEW c \in learned
      PROVE  c \cap P # {}
  <2>1. PICK l \in c : p \notin Meaning(Neg(l))
    OBVIOUS
  <2>2. l \in TheoryLit
    BY DEF TypeOK
  <2> QED BY <1>2, <2>1, <2>2, MeaningNeg
<1> QED BY <1>4, <1>5, <1>7, <1>8 DEF PicosatModels, PartialAssignments, Hits

-----------------------------------------------------------------------------
(* CheckSatCore's box after the Boolean literals of S are written into it: *)
(* still a box, and each literal decides its variable.                     *)
LEMMA WithBoolsFacts ==
  ASSUME NEW bools \in [BoolVar -> Interval01], NEW S \in PartialAssignments
  PROVE  /\ WithBools(bools, S) \in [BoolVar -> Interval01]
         /\ \A l \in S \cap BoolLit : WithBools(bools, S)[l[1]] = {l[2]}
<1>1. S \subseteq Lit /\ Consistent(S)
  BY DEF PartialAssignments
<1>2. \A l \in S : l[2] \in BOOLEAN
  BY <1>1 DEF Lit, TheoryLit, BoolLit, CnfLit
<1>3. ASSUME NEW b \in BoolVar
      PROVE  WithBools(bools, S)[b] \in Interval01
  <2>1. CASE \E l \in S : l[1] = b
    <3>1. WithBools(bools, S)[b] = {l[2] : l \in {k \in S : k[1] = b}}
      BY <2>1 DEF WithBools
    <3> QED BY <1>2, <2>1, <3>1 DEF Interval01
  <2>2. CASE ~\E l \in S : l[1] = b
    BY <2>2 DEF WithBools
  <2> QED BY <2>1, <2>2
<1>4. ASSUME NEW l \in S \cap BoolLit
      PROVE  WithBools(bools, S)[l[1]] = {l[2]}
  <2>1. l[1] \in BoolVar /\ l \in S
    BY DEF BoolLit
  <2>2. WithBools(bools, S)[l[1]] = {k[2] : k \in {k \in S : k[1] = l[1]}}
    BY <2>1 DEF WithBools
  <2>3. ASSUME NEW k \in S, k[1] = l[1]  PROVE k[2] = l[2]
    <3>1. PICK v \in TheoryVar \cup BoolVar \cup CnfVar, t \in BOOLEAN : k = <<v, t>>
      BY <1>1 DEF Lit, TheoryLit, BoolLit, CnfLit
    <3>2. PICK u \in BOOLEAN : l = <<v, u>>
      BY <2>3, <3>1 DEF BoolLit
    <3>3. CASE t = u
      BY <3>1, <3>2, <3>3
    <3>4. CASE t # u
      <4>1. t = (~u)
        BY <3>4
      <4>2. Neg(l) = <<v, t>>
        BY <3>2, <4>1 DEF Neg
      <4> QED BY <1>1, <2>1, <3>1, <4>2 DEF Consistent
    <3> QED BY <3>3, <3>4
  <2> QED BY <2>1, <2>2, <2>3
<1>5. WithBools(bools, S) = [b \in BoolVar |-> WithBools(bools, S)[b]]
  BY DEF WithBools
<1> QED BY <1>3, <1>4, <1>5

LEMMA TypeInit == Init => TypeOK
<1> SUFFICES ASSUME Init  PROVE TypeOK
  OBVIOUS
<1>1. active \in PartialAssignments
  BY DEF Init, PartialAssignments, Consistent
<1>2. FreeBools \in [BoolVar -> Interval01]
  BY DEF FreeBools, Interval01
<1>3. local \in [BoolVar -> Interval01] /\ model \in Box
  BY <1>2 DEF Init, Box
<1>4. box \in SUBSET Point
  BY FormulaAssumption DEF Init
<1> QED BY <1>1, <1>3, <1>4 DEF Init, TypeOK

(* Every call keeps the types.                                             *)
LEMMA TypeStep == TypeOK /\ [Next]_vars => TypeOK'
<1> SUFFICES ASSUME TypeOK, [Next]_vars  PROVE TypeOK'
  OBVIOUS
<1> USE DEF callVars, solverVars
<1>1. {} \in PartialAssignments
  BY DEF PartialAssignments, Consistent
<1>2. FreeBools \in [BoolVar -> Interval01]
  BY DEF FreeBools, Interval01
<1>3. EmptyBox \in Box
  BY <1>2 DEF EmptyBox, Box
<1>4. ASSUME NEW f \in Formulas, Assert(f)  PROVE TypeOK'
  BY <1>4, FormulaAssumption DEF Assert, TypeOK
<1>5. CASE AssertFalse
  BY <1>5 DEF AssertFalse, TypeOK
<1>6. ASSUME NEW b \in Boxes, SetInterval(b)  PROVE TypeOK'
  BY <1>6, FormulaAssumption DEF SetInterval, TypeOK
<1>7. CASE CheckSatEmptyBox
  BY <1>1, <1>2, <1>3, <1>7 DEF CheckSatEmptyBox, Return, TypeOK
<1>8. CASE CheckSatEmptyStack
  BY <1>1, <1>2, <1>8 DEF CheckSatEmptyStack, Return, TypeOK, Box
<1>9. CASE StartCheckSat
  BY <1>9 DEF StartCheckSat, TypeOK
<1>10. CASE SatFindsModel
  <2>1. PICK S \in SatSolverModels : active' = S /\ local' = WithBools(local, S)
    BY <1>10 DEF SatFindsModel
  <2>2. active' \in PartialAssignments /\ local' \in [BoolVar -> Interval01]
    BY <2>1, ModelFacts, WithBoolsFacts DEF TypeOK
  <2> QED BY <1>10, <2>2 DEF SatFindsModel, TypeOK
<1>11. CASE SatModelSuffices
  <2>1. PICK S \in SatSolverModels :
          Return("sat", [num |-> box, bool |-> WithBools(local, S)])
    BY <1>11 DEF SatModelSuffices
  <2>2. WithBools(local, S) \in [BoolVar -> Interval01]
    BY ModelFacts, WithBoolsFacts DEF TypeOK
  <2> QED BY <1>1, <1>2, <1>11, <2>1, <2>2 DEF SatModelSuffices, Return, TypeOK, Box
<1>12. CASE SatFindsNone
  BY <1>1, <1>2, <1>3, <1>12 DEF SatFindsNone, Return, TypeOK
<1>13. CASE TheoryDeltaSat
  BY <1>1, <1>2, <1>13 DEF TheoryDeltaSat, NearFeasible, Return, TypeOK, Box
<1>14. ASSUME Block, haveUnsolved' \in BOOLEAN  PROVE TypeOK'
  <2>1. LearnedClause(Theory(active)) \in SUBSET TheoryLit
    BY NegInvolution DEF LearnedClause, Theory
  <2> QED BY <1>1, <1>14, <2>1 DEF Block, Theory, TypeOK
<1>15. CASE TheoryUnsat
  BY <1>14, <1>15 DEF TheoryUnsat, TypeOK
<1>16. CASE TheoryUnsolved
  BY <1>14, <1>16 DEF TheoryUnsolved
<1>17. CASE SolverThrows
  BY <1>1, <1>2, <1>17 DEF SolverThrows, Return, TypeOK
<1>18. CASE UNCHANGED vars
  BY <1>18 DEF vars, TypeOK
<1> QED
  BY <1>4, <1>5, <1>6, <1>7, <1>8, <1>9, <1>10, <1>11, <1>12, <1>13,
     <1>15, <1>16, <1>17, <1>18 DEF Next, Solve

(* Every variable keeps its type: no sequence of calls leaves the solver   *)
(* with a malformed clause, an inconsistent model or an empty interval.    *)
THEOREM TypeCorrect == Spec => []TypeOK
BY TypeInit, TypeStep, PTL DEF Spec

-----------------------------------------------------------------------------
(* An LP without a solution excludes, for every point of the box, one of   *)
(* the literals that were enabled: the LP only relaxed them.               *)
LEMMA RefutationHolds ==
  ASSUME TypeOK, Feasible(Theory(active)) = {}, NEW p \in box
  PROVE  \E l \in LearnedClause(Theory(active)) : p \notin Meaning(Neg(l))
<1>1. PICK k \in Theory(active) : p \notin Row(k)
  BY DEF Feasible
<1>2. k \in TheoryLit /\ p \notin Meaning(k)
  BY <1>1, MeaningInRow DEF Theory
<1>3. Neg(k) \in LearnedClause(Theory(active))
  BY <1>1 DEF LearnedClause
<1>4. Neg(Neg(k)) = k
  BY <1>2, NegInvolution DEF Lit
<1> QED BY <1>2, <1>3, <1>4

LEMMA LearnedStep ==
  TypeOK /\ LearnedSound /\ [Next]_vars => LearnedSound'
<1> SUFFICES ASSUME TypeOK, LearnedSound, [Next]_vars,
                    ~leftover', ~haveUnsolved',
                    NEW c \in learned', NEW p \in box'
             PROVE  \E l \in c : p \notin Meaning(Neg(l))
  BY DEF LearnedSound
<1> USE DEF callVars, solverVars
<1>1. CASE learned' = learned /\ box' \subseteq box /\ ~leftover /\ ~haveUnsolved
  BY <1>1 DEF LearnedSound
<1>2. CASE TheoryUnsat
  <2>1. /\ learned' = learned \cup {LearnedClause(Theory(active))}
        /\ box' = box /\ ~leftover /\ ~haveUnsolved
    BY <1>2 DEF TheoryUnsat, Block
  <2>2. CASE c = LearnedClause(Theory(active))
    BY <1>2, <2>1, <2>2, RefutationHolds DEF TheoryUnsat
  <2>3. CASE c \in learned
    BY <2>1, <2>3 DEF LearnedSound
  <2> QED BY <2>1, <2>2, <2>3
<1>3. CASE TheoryUnsolved
  BY <1>3 DEF TheoryUnsolved
<1>4. ASSUME NEW f \in Formulas, Assert(f)
      PROVE  learned' = learned /\ box' \subseteq box /\ ~leftover /\ ~haveUnsolved
  BY <1>4 DEF Assert
<1>5. CASE AssertFalse
  BY <1>1, <1>5 DEF AssertFalse
<1>6. ASSUME NEW b \in Boxes, b \subseteq box, SetInterval(b)
      PROVE  learned' = learned /\ box' \subseteq box /\ ~leftover /\ ~haveUnsolved
  BY <1>6 DEF SetInterval
<1>7. CASE CheckSatEmptyBox
  BY <1>1, <1>7 DEF CheckSatEmptyBox
<1>8. CASE CheckSatEmptyStack
  BY <1>1, <1>8 DEF CheckSatEmptyStack
<1>9. CASE StartCheckSat
  BY <1>1, <1>9 DEF StartCheckSat
<1>10. CASE SatFindsModel
  BY <1>1, <1>10 DEF SatFindsModel
<1>11. CASE SatModelSuffices
  BY <1>1, <1>11 DEF SatModelSuffices
<1>12. CASE SatFindsNone
  BY <1>1, <1>12 DEF SatFindsNone
<1>13. CASE TheoryDeltaSat
  BY <1>1, <1>13 DEF TheoryDeltaSat
<1>14. CASE SolverThrows
  BY <1>1, <1>14 DEF SolverThrows
<1>15. CASE UNCHANGED vars
  BY <1>1, <1>15 DEF vars
<1> QED
  BY <1>1, <1>2, <1>3, <1>4, <1>5, <1>6, <1>7, <1>8, <1>9, <1>10, <1>11,
     <1>12, <1>13, <1>14, <1>15 DEF Next, Solve

LEMMA ActiveStep ==
  TypeOK /\ ActiveInv /\ [Next]_vars => ActiveInv'
<1> SUFFICES ASSUME TypeOK, ActiveInv, [Next]_vars  PROVE ActiveInv'
  OBVIOUS
<1> USE DEF callVars, solverVars
<1>1. CASE pc' = "idle"
  BY <1>1 DEF ActiveInv
<1>2. CASE pc' = "sat" /\ box' # {}
  BY <1>2 DEF ActiveInv
<1>3. CASE SatFindsModel
  <2>1. PICK S \in SatSolverModels : active' = S /\ local' = WithBools(local, S)
    BY <1>3 DEF SatFindsModel
  <2>2. /\ Hits(active', main')
        /\ \A c \in learned' : \E l \in c : Neg(l) \notin active'
    BY <1>3, <2>1, ModelFacts DEF SatFindsModel
  <2>3. \A l \in active' \cap BoolLit : local'[l[1]] = {l[2]}
    <3>1. local \in [BoolVar -> Interval01] /\ S \in PartialAssignments
      BY ModelFacts DEF TypeOK
    <3>2. \A l \in S \cap BoolLit : WithBools(local, S)[l[1]] = {l[2]}
      BY <3>1, WithBoolsFacts
    <3> QED BY <2>1, <3>2
  <2>4. pc' = "theory" /\ box' # {}
    BY <1>3 DEF SatFindsModel, ActiveInv
  <2> QED BY <2>2, <2>3, <2>4 DEF ActiveInv
<1>4. ASSUME NEW f \in Formulas, Assert(f)  PROVE pc' = "idle"
  BY <1>4 DEF Assert
<1>5. CASE AssertFalse
  BY <1>1, <1>5 DEF AssertFalse
<1>6. ASSUME NEW b \in Boxes, SetInterval(b)  PROVE pc' = "idle"
  BY <1>6 DEF SetInterval
<1>7. CASE CheckSatEmptyBox
  BY <1>1, <1>7 DEF CheckSatEmptyBox, Return
<1>8. CASE CheckSatEmptyStack
  BY <1>1, <1>8 DEF CheckSatEmptyStack, Return
<1>9. CASE StartCheckSat
  BY <1>2, <1>9 DEF StartCheckSat
<1>10. CASE SatModelSuffices
  BY <1>1, <1>10 DEF SatModelSuffices, Return
<1>11. CASE SatFindsNone
  BY <1>1, <1>11 DEF SatFindsNone, Return
<1>12. CASE TheoryDeltaSat
  BY <1>1, <1>12 DEF TheoryDeltaSat, Return
<1>13. CASE TheoryUnsat
  BY <1>2, <1>13 DEF TheoryUnsat, Block, ActiveInv
<1>14. CASE TheoryUnsolved
  BY <1>2, <1>14 DEF TheoryUnsolved, Block, ActiveInv
<1>15. CASE SolverThrows
  BY <1>1, <1>15 DEF SolverThrows, Return
<1>16. CASE UNCHANGED vars
  BY <1>16 DEF vars, ActiveInv
<1> QED
  BY <1>1, <1>3, <1>4, <1>5, <1>6, <1>7, <1>8, <1>9, <1>10, <1>11, <1>12,
     <1>13, <1>14, <1>15, <1>16 DEF Next, Solve

LEMMA UnsatStep ==
  TypeOK /\ LearnedSound /\ UnsatSound /\ [Next]_vars => UnsatSound'
<1> SUFFICES ASSUME TypeOK, LearnedSound, UnsatSound, [Next]_vars,
                    answer' = "unsat", ~leftover'
             PROVE  ~Satisfiable(main, box)'
  BY DEF UnsatSound
<1> USE DEF callVars, solverVars
<1>1. CASE CheckSatEmptyBox
  BY <1>1 DEF CheckSatEmptyBox, Satisfiable
<1>2. CASE SatFindsNone
  <2>1. ~haveUnsolved /\ ~leftover
    BY <1>2 DEF SatFindsNone, Return
  <2>2. ~Satisfiable(main, box)
    BY <1>2, <2>1, SolutionIsPicosatModel DEF SatFindsNone, LearnedSound
  <2> QED BY <1>2, <2>2 DEF SatFindsNone, Satisfiable
<1>3. CASE UNCHANGED <<answer, main, box, leftover>>
  BY <1>3 DEF UnsatSound, Satisfiable
<1>4. ASSUME NEW f \in Formulas, Assert(f)  PROVE FALSE
  BY <1>4 DEF Assert
<1>5. CASE AssertFalse
  BY <1>5 DEF AssertFalse
<1>6. ASSUME NEW b \in Boxes, SetInterval(b)  PROVE FALSE
  BY <1>6 DEF SetInterval
<1>7. CASE CheckSatEmptyStack
  BY <1>7 DEF CheckSatEmptyStack, Return
<1>8. CASE StartCheckSat
  BY <1>8 DEF StartCheckSat
<1>9. CASE SatFindsModel
  BY <1>3, <1>9 DEF SatFindsModel
<1>10. CASE SatModelSuffices
  BY <1>10 DEF SatModelSuffices, Return
<1>11. CASE TheoryDeltaSat
  BY <1>11 DEF TheoryDeltaSat, Return
<1>12. CASE TheoryUnsat
  BY <1>3, <1>12 DEF TheoryUnsat, Block
<1>13. CASE TheoryUnsolved
  BY <1>3, <1>13 DEF TheoryUnsolved, Block
<1>14. CASE SolverThrows
  BY <1>14 DEF SolverThrows, Return
<1>15. CASE UNCHANGED vars
  BY <1>3, <1>15 DEF vars
<1> QED
  BY <1>1, <1>2, <1>3, <1>4, <1>5, <1>6, <1>7, <1>8, <1>9, <1>10, <1>11,
     <1>12, <1>13, <1>14, <1>15 DEF Next, Solve

(* Sat answers: what each of the three ways to find a model records.       *)
LEMMA SatStep ==
  ASSUME Slack < Delta, TypeOK, ActiveInv, SatSound, [Next]_vars
  PROVE  SatSound'
<1> SUFFICES ASSUME answer' = "sat"
             PROVE  IsModel(model, main, box)'
  BY DEF SatSound
<1> USE DEF callVars, solverVars
<1>1. CASE UNCHANGED <<answer, model, main, box>>
  BY <1>1 DEF SatSound, IsModel, ModelHolds
<1>2. CASE CheckSatEmptyStack
  <2>1. model'.num # {} /\ model'.num \subseteq box' /\ main' = {}
    BY <1>2 DEF CheckSatEmptyStack, Return
  <2>2. {} \in SUBSET CnfLit /\ Consistent({})
    BY DEF Consistent
  <2> QED BY <2>1, <2>2 DEF IsModel
<1>3. ASSUME NEW S \in PartialAssignments, Hits(S, main'),
             \A l \in S \cap BoolLit : model'.bool[l[1]] = {l[2]},
             \A l \in S \cap TheoryLit : model'.num \subseteq DeltaSat(l),
             model'.num # {}, model'.num \subseteq box'
      PROVE  IsModel(model, main, box)'
  <2> DEFINE A == S \cap CnfLit
  <2>1. A \in SUBSET CnfLit /\ Consistent(A) /\ S \subseteq Lit
    BY DEF PartialAssignments, Consistent
  <2>2. ASSUME NEW c \in main'
        PROVE  \E l \in c : ModelHolds(model, A, l)'
    <3>1. PICK l \in c : l \in S
      BY <1>3 DEF Hits
    <3>2. l \in A \/ l \in BoolLit \/ l \in TheoryLit
      BY <2>1, <3>1 DEF Lit
    <3> QED BY <1>3, <3>1, <3>2 DEF ModelHolds
  <2> QED BY <1>3, <2>1, <2>2 DEF IsModel
<1>4. CASE SatModelSuffices
  <2>1. PICK S \in SatSolverModels :
          /\ Theory(S) = {}
          /\ Return("sat", [num |-> box, bool |-> WithBools(local, S)])
    BY <1>4 DEF SatModelSuffices
  <2>2. S \in PartialAssignments /\ Hits(S, main')
    BY <1>4, ModelFacts DEF SatModelSuffices
  <2>3. local \in [BoolVar -> Interval01]
    BY DEF TypeOK
  <2>4. \A l \in S \cap BoolLit : WithBools(local, S)[l[1]] = {l[2]}
    BY <2>2, <2>3, WithBoolsFacts
  <2>5. model' = [num |-> box, bool |-> WithBools(local, S)]
    BY <2>1 DEF Return
  <2>6. box' = box /\ box # {}
    BY <1>4 DEF SatModelSuffices, ActiveInv
  <2> QED BY <1>3, <2>1, <2>2, <2>4, <2>5, <2>6 DEF Theory
<1>5. CASE TheoryDeltaSat
  <2>1. PICK p \in NearFeasible(Theory(active)) :
          Return("sat", [num |-> {p}, bool |-> local])
    BY <1>5 DEF TheoryDeltaSat
  <2>2. active \in PartialAssignments /\ Hits(active, main')
    BY <1>5 DEF TheoryDeltaSat, TypeOK, ActiveInv
  <2>3. model' = [num |-> {p}, bool |-> local]
    BY <2>1 DEF Return
  <2>4. \A l \in active \cap TheoryLit : {p} \subseteq DeltaSat(l)
    BY NearIsDeltaSat DEF NearFeasible, Theory
  <2>5. p \in box' /\ \A l \in active \cap BoolLit : local[l[1]] = {l[2]}
    BY <1>5 DEF TheoryDeltaSat, NearFeasible, ActiveInv
  <2> QED BY <1>3, <2>2, <2>3, <2>4, <2>5
<1>6. ASSUME NEW f \in Formulas, Assert(f)  PROVE FALSE
  BY <1>6 DEF Assert
<1>7. CASE AssertFalse
  BY <1>7 DEF AssertFalse
<1>8. ASSUME NEW b \in Boxes, SetInterval(b)  PROVE FALSE
  BY <1>8 DEF SetInterval
<1>9. CASE CheckSatEmptyBox
  BY <1>9 DEF CheckSatEmptyBox, Return
<1>10. CASE StartCheckSat
  BY <1>10 DEF StartCheckSat
<1>11. CASE SatFindsModel
  BY <1>1, <1>11 DEF SatFindsModel
<1>12. CASE SatFindsNone
  BY <1>12 DEF SatFindsNone, Return
<1>13. CASE TheoryUnsat
  BY <1>1, <1>13 DEF TheoryUnsat, Block
<1>14. CASE TheoryUnsolved
  BY <1>1, <1>14 DEF TheoryUnsolved, Block
<1>15. CASE SolverThrows
  BY <1>15 DEF SolverThrows, Return
<1>16. CASE UNCHANGED vars
  BY <1>1, <1>16 DEF vars
<1> QED
  BY <1>1, <1>2, <1>4, <1>5, <1>6, <1>7, <1>8, <1>9, <1>10, <1>11, <1>12,
     <1>13, <1>14, <1>15, <1>16 DEF Next, Solve

-----------------------------------------------------------------------------
(* The inductive invariant holds: types, learned clauses that exclude no   *)
(* solution, active literals that hit every main clause, sound unsat.      *)
THEOREM Inductive == Spec => []IInv
<1>1. Init => IInv
  BY TypeInit DEF Init, IInv, LearnedSound, ActiveInv, UnsatSound
<1>2. IInv /\ [Next]_vars => IInv'
  BY TypeStep, LearnedStep, ActiveStep, UnsatStep DEF IInv
<1> QED BY <1>1, <1>2, PTL DEF Spec

(* A clause learned from a refuted LP excludes no point of the box, for    *)
(* any formulas, bounds and number of checks.                              *)
THEOREM LearnedSoundness == Spec => []LearnedSound
BY Inductive, PTL DEF IInv

(* An unsat answer means that the assertions have no solution in the box,  *)
(* unless an earlier call on the context left an LP unsolved.              *)
THEOREM UnsatSoundness == Spec => []UnsatSound
BY Inductive, PTL DEF IInv

(* When the LP's precision is below the user's, the model of every sat     *)
(* answer delta-satisfies every asserted clause.                           *)
THEOREM SatSoundness ==
  ASSUME Slack < Delta
  PROVE  Spec => []SatSound
<1>1. Init => SatSound
  BY DEF Init, SatSound
<1>2. IInv /\ SatSound /\ [Next]_vars => SatSound'
  BY SatStep DEF IInv
<1> QED BY <1>1, <1>2, Inductive, PTL DEF Spec

(* A refuted or unsolved LP always adds a clause the SAT solver did not    *)
(* have: this is why the loop of a check cannot go round for ever.         *)
THEOREM ProgressHolds == Spec => Progress
<1>1. IInv /\ [Next]_vars => [pc = "theory" /\ pc' = "sat" => learned' # learned]_vars
  <2> SUFFICES ASSUME IInv, [Next]_vars, pc = "theory", pc' = "sat"
               PROVE  learned' # learned
    OBVIOUS
  <2>1. Block
    BY DEF Next, Solve, Assert, AssertFalse, SetInterval, CheckSatEmptyBox,
           CheckSatEmptyStack, StartCheckSat, SatFindsModel, SatModelSuffices,
           SatFindsNone, TheoryDeltaSat, TheoryUnsat, TheoryUnsolved,
           SolverThrows, Return, vars
  <2> DEFINE c == LearnedClause(Theory(active))
  <2>2. c \in learned'
    BY <2>1 DEF Block
  <2>3. c \notin learned
    <3>1. \A l \in c : Neg(l) \in active
      BY LearnedClauseNeg DEF Theory
    <3> QED BY <3>1 DEF IInv, ActiveInv
  <2> QED BY <2>2, <2>3
<1> QED BY <1>1, Inductive, PTL DEF Spec, Progress

-----------------------------------------------------------------------------
(* Why unsat is for good: the box stays empty, or the SAT solver keeps the *)
(* clauses that have no model.  No check is at its LP then, and the stack  *)
(* is not empty, which CheckSat would answer sat to.                       *)
Refuted ==
  /\ pc \in {"idle", "sat"} /\ answer # "sat"
  /\ box = {} \/ (main # {} /\ PicosatModels(main \cup learned) = {})

RefutedIInv ==
  /\ pc # "idle" => main # {}
  /\ answer = "unsat" => Refuted

LEMMA MoreClausesFewerModels ==
  ASSUME NEW A, NEW B, A \subseteq B, PicosatModels(A) = {}
  PROVE  PicosatModels(B) = {}
BY DEF PicosatModels, Hits

LEMMA StaysRefuted ==
  ASSUME IInv, RefutedIInv, Refuted, [Next]_vars
  PROVE  Refuted'
<1>1. pc # "idle" => pc = "sat" /\ box # {} /\ main # {} /\ SatSolverModels = {}
  BY DEF IInv, ActiveInv, Refuted, RefutedIInv, SatSolverModels
<1>2. ASSUME NEW f \in Formulas, Assert(f)  PROVE Refuted'
  <2>1. main \subseteq main' /\ UNCHANGED <<learned, box, pc>> /\ answer' = "none"
    BY <1>2 DEF Assert, callVars
  <2>2. PicosatModels(main \cup learned) = {} => PicosatModels(main' \cup learned') = {}
    <3>1. main \cup learned \subseteq main' \cup learned'
      BY <2>1
    <3> QED BY <3>1, MoreClausesFewerModels
  <2>3. (main # {} => main' # {}) /\ pc' \in {"idle", "sat"}
    BY <2>1 DEF Refuted
  <2>4. box' = {} \/ (main' # {} /\ PicosatModels(main' \cup learned') = {})
    BY <2>1, <2>2, <2>3 DEF Refuted
  <2>5. (PicosatModels(main \cup learned) = {})' <=> PicosatModels(main' \cup learned') = {}
    BY DEF PicosatModels
  <2> QED BY <2>1, <2>3, <2>4, <2>5 DEF Refuted
<1> USE DEF callVars, solverVars, Return, Refuted
<1>3. CASE AssertFalse
  BY <1>3 DEF AssertFalse
<1>4. ASSUME NEW b \in Boxes, b \subseteq box, SetInterval(b)  PROVE Refuted'
  BY <1>4 DEF SetInterval, PicosatModels
<1>5. CASE CheckSatEmptyBox
  BY <1>5 DEF CheckSatEmptyBox
<1>6. CASE CheckSatEmptyStack
  BY <1>6 DEF CheckSatEmptyStack
<1>7. CASE StartCheckSat
  BY <1>7 DEF StartCheckSat, PicosatModels
<1>8. CASE SatFindsModel \/ SatModelSuffices
  BY <1>1, <1>8 DEF SatFindsModel, SatModelSuffices
<1>9. CASE SatFindsNone
  BY <1>9 DEF SatFindsNone, PicosatModels
<1>10. CASE TheoryDeltaSat \/ TheoryUnsat \/ TheoryUnsolved
  BY <1>10 DEF TheoryDeltaSat, TheoryUnsat, TheoryUnsolved
<1>11. CASE SolverThrows
  BY <1>11 DEF SolverThrows, PicosatModels
<1>12. CASE UNCHANGED vars
  BY <1>12 DEF vars, PicosatModels
<1> QED
  BY <1>2, <1>3, <1>4, <1>5, <1>6, <1>7, <1>8, <1>9, <1>10, <1>11, <1>12 DEF Next, Solve

LEMMA RefutedStep == IInv /\ RefutedIInv /\ [Next]_vars => RefutedIInv'
<1> SUFFICES ASSUME IInv, RefutedIInv, [Next]_vars  PROVE RefutedIInv'
  OBVIOUS
<1>1. (pc # "idle" => main # {})'
  BY DEF RefutedIInv, Next, Solve, Assert, AssertFalse, SetInterval, CheckSatEmptyBox,
         CheckSatEmptyStack, StartCheckSat, SatFindsModel, SatModelSuffices,
         SatFindsNone, TheoryDeltaSat, TheoryUnsat, TheoryUnsolved, Block,
         SolverThrows, Return, vars, callVars, solverVars
<1>2. (answer = "unsat" => Refuted)'
  <2> SUFFICES ASSUME answer' = "unsat"  PROVE Refuted'
    OBVIOUS
  <2>1. CheckSatEmptyBox \/ SatFindsNone \/ answer = "unsat"
    BY DEF Next, Solve, Assert, AssertFalse, SetInterval, CheckSatEmptyStack,
           StartCheckSat, SatFindsModel, SatModelSuffices, TheoryDeltaSat,
           TheoryUnsat, TheoryUnsolved, Block, SolverThrows, Return, vars
  <2>2. CASE CheckSatEmptyBox
    BY <2>2 DEF CheckSatEmptyBox, Return, solverVars, Refuted
  <2>3. CASE SatFindsNone
    BY <2>3 DEF SatFindsNone, Return, solverVars, Refuted, RefutedIInv, PicosatModels
  <2>4. CASE answer = "unsat"
    BY <2>4, StaysRefuted DEF RefutedIInv
  <2> QED BY <2>1, <2>2, <2>3, <2>4
<1> QED BY <1>1, <1>2 DEF RefutedIInv

(* A context that has answered unsat never answers sat again, whatever is  *)
(* asserted, bounded, left unsolved or thrown in between: learned clauses  *)
(* outlive the calls, right or wrong.                                      *)
THEOREM UnsatStaysFinal == Spec => UnsatIsFinal
<1>1. Init => RefutedIInv
  BY DEF Init, RefutedIInv
<1>2. IInv /\ RefutedIInv /\ Refuted /\ [Next]_vars => Refuted'
  BY StaysRefuted
<1>3. RefutedIInv => (answer = "unsat" => Refuted)
  BY DEF RefutedIInv
<1>4. Refuted => answer # "sat"
  BY DEF Refuted
<1> QED BY <1>1, <1>2, <1>3, <1>4, RefutedStep, Inductive, PTL DEF Spec, UnsatIsFinal

-----------------------------------------------------------------------------
(* The solver keeps the contract of SmtContract: each call it finishes is  *)
(* one of the contract's replies, each step inside a call a stutter.       *)
THEOREM Implements ==
  ASSUME Slack < Delta
  PROVE  Spec => ImplementsContract
<1>1. Init => Contract!Init
  BY DEF Init, Contract!Init
<1>2. ASSUME IInv, SatSound, IInv', SatSound', [Next]_vars
      PROVE  [Contract!Next]_Contract!cvars
  <2> USE DEF callVars, solverVars
  <2>1. CASE /\ pc' = "idle" /\ answer' \in {"sat", "unsat", "error"}
             /\ answer' = "error" => model' = model
             /\ main' = main /\ box' = box /\ leftover' = leftover
    <3>1. answer' = "unsat" => leftover \/ ~Satisfiable(main, box)
      BY <1>2, <2>1 DEF IInv, UnsatSound, Satisfiable
    <3>2. answer' = "sat" => model' \in Box /\ IsModel(model', main, box)
      BY <1>2, <2>1 DEF IInv, TypeOK, SatSound, IsModel, ModelHolds
    <3>3. Contract!Reply
      BY <2>1, <3>1, <3>2 DEF Contract!Reply
    <3> QED BY <3>3 DEF Contract!Next
  <2>2. CASE UNCHANGED <<pc # "idle", main, box, answer, model, leftover>>
    BY <2>2 DEF Contract!cvars
  <2>3. ASSUME NEW f \in Formulas, Assert(f)  PROVE Contract!Change
    BY <2>3 DEF Assert, Contract!Change
  <2>4. CASE AssertFalse
    BY <2>4 DEF AssertFalse, Contract!Change, Contract!Next
  <2>5. ASSUME NEW b \in Boxes, b \subseteq box, SetInterval(b)
        PROVE  Contract!Change
    BY <2>5 DEF SetInterval, Contract!Change
  <2>6. CASE CheckSatEmptyBox
    BY <2>1, <2>6 DEF CheckSatEmptyBox, Return
  <2>7. CASE CheckSatEmptyStack
    BY <2>1, <2>7 DEF CheckSatEmptyStack, Return
  <2>8. CASE StartCheckSat
    BY <2>8 DEF StartCheckSat, Contract!Ask, Contract!Next
  <2>9. CASE SatFindsModel
    BY <2>2, <2>9 DEF SatFindsModel
  <2>10. CASE SatModelSuffices
    BY <2>1, <2>10 DEF SatModelSuffices, Return
  <2>11. CASE SatFindsNone
    BY <2>1, <2>11 DEF SatFindsNone, Return
  <2>12. CASE TheoryDeltaSat
    BY <2>1, <2>12 DEF TheoryDeltaSat, Return
  <2>13. CASE TheoryUnsat
    BY <2>2, <2>13 DEF TheoryUnsat, Block
  <2>14. CASE TheoryUnsolved
    BY <2>2, <2>14 DEF TheoryUnsolved, Block
  <2>15. CASE SolverThrows
    BY <2>1, <2>15 DEF SolverThrows, Return
  <2>16. CASE UNCHANGED vars
    BY <2>2, <2>16 DEF vars
  <2> QED
    BY <1>2, <2>3, <2>4, <2>5, <2>6, <2>7, <2>8, <2>9, <2>10, <2>11, <2>12,
       <2>13, <2>14, <2>15, <2>16 DEF Next, Solve, Contract!Next
<1> QED BY <1>1, <1>2, Inductive, SatSoundness, PTL
       DEF Spec, Contract!Spec, ImplementsContract
=============================================================================
