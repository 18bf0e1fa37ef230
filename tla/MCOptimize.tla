----------------------------- MODULE MCOptimize -----------------------------
(***************************************************************************)
(* A small instance of Optimize: one continuous variable x, its values     *)
(* 0, 1, 2 and one that stands for all large values, minimized or          *)
(* maximized; two formulas about it and one Boolean variable.              *)
(***************************************************************************)
EXTENDS Optimize

MCPoint == 0 .. 3

\* l: x < 2     e: x = 1, as lhs - rhs, in a unit below the precision
MCTheoryVar == {"l", "e"}
MCOp   == [v \in MCTheoryVar |-> IF v = "l" THEN "lt" ELSE "eq"]
MCDiff == [v \in MCTheoryVar |->
             [x \in MCPoint |-> IF v = "l" THEN 3 * (x - 2) ELSE 3 * (x - 1)]]

Pos(v) == <<v, TRUE>>
Not(v) == <<v, FALSE>>

MCFormulas ==
  { \* x = 1 or (x >= 2 and q): two feasible regions
    {{Not("l"), Pos("e")}, {Pos("e"), Pos("q")}},
    \* x >= 2 and ~q: with the first one, an LP without a solution
    {{Not("l")}, {Not("q")}},
    \* x = 1, a simple bound: on its own, an LP without rows
    {{Pos("e")}} }

MCBoxes == {MCPoint, 2 .. 2}

\* x, which is maximized as well as minimized
MCInfinity   == 4
MCObjectives == {[x \in MCPoint |-> IF x = 3 THEN MCInfinity ELSE x]}
MCWithFirst  == [x \in MCPoint |-> [v \in 0 .. 1 |-> v]]
=============================================================================
