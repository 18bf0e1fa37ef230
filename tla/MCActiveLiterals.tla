-------------------------- MODULE MCActiveLiterals --------------------------
(***************************************************************************)
(* Three SAT variables and clauses that share literals of either sign, so  *)
(* that the literals of a model can make each other superfluous.  The      *)
(* fourth variable's formula is rejected, in the middle of a clause, at    *)
(* its end, and in a clause of its own.                                    *)
(***************************************************************************)
EXTENDS ActiveLiterals

MCClauses ==
  {<<1, 2>>, <<3, 2>>, <<-1, 3>>, <<-2, 1, 3>>, <<2, -3>>, <<-2>>,
   <<2, 4, 1>>, <<1, 4>>}
MCRejected == {4}
=============================================================================
