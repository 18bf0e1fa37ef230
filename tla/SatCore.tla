------------------------------- MODULE SatCore -------------------------------
(***************************************************************************)
(* The propositional half of the solver: literals, clauses, what picosat   *)
(* may answer, and how the SAT solver wrapper (QsoptexSatSolver and        *)
(* SoplexSatSolver, which agree on all of this) reduces picosat's model to *)
(* the literals the main clauses need.                                     *)
(*                                                                         *)
(* SAT variables come in three kinds: theory variables, which the          *)
(* predicate abstractor made; Boolean variables of the input; and the      *)
(* temporary variables of the CNF conversion.  A literal is a pair         *)
(* <<variable, polarity>> as in the code (type Literal), a clause a set of *)
(* literals.                                                               *)
(***************************************************************************)
EXTENDS LinearLiterals

CONSTANTS
  BoolVar,  \* Boolean variables of the input
  CnfVar    \* temporary variables of the CNF conversion (cnf_variables_)

BoolLit == BoolVar \X BOOLEAN
CnfLit  == CnfVar \X BOOLEAN
Lit     == TheoryLit \cup BoolLit \cup CnfLit
Clause  == SUBSET Lit

ASSUME KindsDisjoint ==
  /\ TheoryVar \cap BoolVar = {}
  /\ TheoryVar \cap CnfVar = {}
  /\ BoolVar \cap CnfVar = {}

Neg(l) == <<l[1], ~l[2]>>

(* A set of literals assigns no variable twice.                            *)
Consistent(S) == \A l \in S : Neg(l) \notin S

(* Every clause of cs has a literal in S.                                  *)
Hits(S, cs) == \A c \in cs : c \cap S # {}

PartialAssignments == {P \in SUBSET Lit : Consistent(P)}

(* picosat_sat followed by picosat_deref_partial: any partial assignment   *)
(* that satisfies all the clauses added so far may come out, and           *)
(* PICOSAT_UNSATISFIABLE only when there is none.                          *)
PicosatModels(cs) == {P \in PartialAssignments : Hits(P, cs)}

(* Fault: every literal is judged against picosat's whole model, so that   *)
(* two literals of one clause may make each other look superfluous.        *)
MainActiveLiteralsAtOnce(P, main) ==
  {{l \in P : \E c \in main : c \cap P = {l}}}

(* GetMainActiveLiterals: one pass over picosat's literals drops each one  *)
(* that is not, at its turn, the only remaining literal of some main       *)
(* clause.  What is left is a subset that still hits every main clause and *)
(* of which every literal is needed; which of these subsets it is depends  *)
(* on the numbering of the SAT variables, which is left open here.         *)
MainActiveLiterals(P, main) ==
  {S \in SUBSET P : /\ Hits(S, main)
                    /\ \A l \in S : ~Hits(S \ {l}, main)}

(* Fault: the literals are added as they are, not negated.                 *)
LearnedClauseAsIs(explanation) == explanation

(* Fault: negative literals are lost on the way.                           *)
LearnedClausePositive(explanation) == {Neg(l) : l \in {k \in explanation : k[2]}}

(* AddLearnedClause: the explanation's literals negated, as one clause.    *)
LearnedClause(explanation) == {Neg(l) : l \in explanation}
=============================================================================
