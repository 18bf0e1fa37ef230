--------------------------- MODULE LinearLiterals ---------------------------
(***************************************************************************)
(* How a theory literal of the SAT solver becomes a constraint of the      *)
(* linear program, and what the LP solver's answer about it is worth.      *)
(*                                                                         *)
(* A theory variable b stands for a relational formula  lhs op rhs         *)
(* (PredicateAbstractor); the literal <<b, TRUE>> asserts the formula and  *)
(* <<b, FALSE>> its negation.  The values of the continuous variables are  *)
(* abstracted to a set Point, and a formula to its operator and to the     *)
(* value Diff[b][p] of  lhs - rhs  at a point p: the code too moves        *)
(* everything to the left before it builds a row.                          *)
(*                                                                         *)
(* Three readings of a literal matter:                                     *)
(*   Meaning  the points that satisfy it, strictness included;             *)
(*   Row      the points that satisfy the row or bound the code enables    *)
(*            (strict made non-strict, disequalities dropped);             *)
(*   Near     the points the LP solver may return for that row: it accepts *)
(*            a violation of at most Slack, the precision it is given.     *)
(***************************************************************************)
EXTENDS Integers

CONSTANTS
  Point,      \* values of all continuous variables
  TheoryVar,  \* SAT variables that stand for a relational formula
  Op,         \* Op[b]: the relational operator of b's formula
  Diff,       \* Diff[b][p]: lhs - rhs of b's formula at point p
  Delta,      \* the precision the user asked for
  Slack       \* the precision handed to the LP solver

RelOp == {"eq", "neq", "lt", "leq", "gt", "geq"}

TheoryLit == TheoryVar \X BOOLEAN

ASSUME LiteralAssumption ==
  /\ Op \in [TheoryVar -> RelOp]
  /\ Diff \in [TheoryVar -> [Point -> Int]]
  /\ Delta \in Nat
  /\ Slack \in Nat

-----------------------------------------------------------------------------
(* is_equal_or_whatever and its siblings: which operator the literal has   *)
(* once its sign is taken into account, strictness forgotten.              *)

IsEqual(op, truth)    == IF truth THEN op = "eq" ELSE op = "neq"
IsGreater(op, truth)  == IF truth THEN op \in {"gt", "geq"} ELSE op \in {"lt", "leq"}
IsLess(op, truth)     == IsGreater(op, ~truth)

(* The sense AddLinearLiteral records for the literal's row, and the kind  *)
(* of bound EnableLinearLiteral sets when the formula is a simple bound:   *)
(* equal, at least, at most, or no constraint at all.                      *)
Sense(op, truth) ==
  IF IsEqual(op, truth) THEN "E"
  ELSE IF IsGreater(op, truth) THEN "G"
  ELSE IF IsLess(op, truth) THEN "L"
  ELSE "none"  \* IsNotEqual: always delta-sat

(* v, a value of lhs - rhs, satisfies a row of this sense up to a violation *)
(* of at most slack.                                                       *)
RowHolds(sense, v, slack) ==
  /\ sense \in {"E", "G"} => v >= -slack
  /\ sense \in {"E", "L"} => v <= slack

Row(l)  == {p \in Point : RowHolds(Sense(Op[l[1]], l[2]), Diff[l[1]][p], 0)}
Near(l) == {p \in Point : RowHolds(Sense(Op[l[1]], l[2]), Diff[l[1]][p], Slack)}

-----------------------------------------------------------------------------
(* The semantics of formulas: what op says of v = lhs - rhs.               *)
OpHolds(op, v) ==
  /\ op = "eq"  => v = 0
  /\ op = "neq" => v # 0
  /\ op = "lt"  => v < 0
  /\ op = "leq" => v <= 0
  /\ op = "gt"  => v > 0
  /\ op = "geq" => v >= 0

Meaning(l) == {p \in Point : OpHolds(Op[l[1]], Diff[l[1]][p]) <=> l[2]}

(* The operator of the literal, its sign absorbed.                         *)
Complement ==
  [eq |-> "neq", neq |-> "eq", lt |-> "geq", geq |-> "lt", leq |-> "gt", gt |-> "leq"]

(* The delta-weakening of  v op 0  for delta > 0: every occurrence of zero *)
(* is relaxed by delta and strictness kept; a disequality asks nothing.    *)
Weakened(op, v, delta) ==
  /\ op = "eq"  => -delta <= v /\ v <= delta
  /\ op = "lt"  => v < delta
  /\ op = "leq" => v <= delta
  /\ op = "gt"  => v > -delta
  /\ op = "geq" => v >= -delta

(* The points that delta-satisfy the literal.                              *)
DeltaSat(l) ==
  {p \in Point :
     Weakened(IF l[2] THEN Op[l[1]] ELSE Complement[Op[l[1]]],
              Diff[l[1]][p], Delta)}
=============================================================================
