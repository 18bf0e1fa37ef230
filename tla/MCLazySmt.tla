----------------------------- MODULE MCLazySmt -----------------------------
(***************************************************************************)
(* A small instance of LazySmt: one continuous variable x with values      *)
(* 0 .. 3, two formulas about it, one Boolean and one CNF variable.        *)
(***************************************************************************)
EXTENDS LazySmt

MCPoint == 0 .. 3

\* a: x < 1     c: x = 2, as lhs - rhs
MCTheoryVar == {"a", "c"}
MCOp   == [v \in MCTheoryVar |-> IF v = "a" THEN "lt" ELSE "eq"]
MCDiff == [v \in MCTheoryVar |-> [x \in MCPoint |-> IF v = "a" THEN x - 1 ELSE x - 2]]

Pos(v) == <<v, TRUE>>
Not(v) == <<v, FALSE>>

MCFormulas ==
  { \* a \/ (q /\ ~c), converted with a temporary variable t
    {{Pos("a"), Pos("t")}, {Not("t"), Pos("q")}, {Not("t"), Not("c")}},
    \* (q => c) /\ (~q => ~a)
    {{Not("q"), Pos("c")}, {Pos("q"), Not("a")}},
    \* ~a \/ ~q, and a \/ q, where either literal is enough
    {{Not("a"), Not("q")}},
    {{Pos("a"), Pos("q")}} }

MCBoxes == {MCPoint, {0}}
=============================================================================
