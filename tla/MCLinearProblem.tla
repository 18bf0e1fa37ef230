--------------------------- MODULE MCLinearProblem ---------------------------
(***************************************************************************)
(* Two continuous variables; a row and simple bounds of either side, both  *)
(* polarities of a literal, a bound that is too large and a formula that   *)
(* is not linear.                                                          *)
(***************************************************************************)
EXTENDS LinearProblem

MCCol   == {"x", "y"}
MCPoint == [MCCol -> 0 .. 2]

XY(a, b) == [x \in MCCol |-> IF x = "x" THEN a ELSE b]

\* r: x <= y   s: 1 < x   t: y >= 1   e: x = 9, too large   n: 1 = x * y + y
MCForm ==
  [r |-> [coef |-> XY(1, -1), rest |-> 0,  simple |-> FALSE],
   s |-> [coef |-> XY(-1, 0), rest |-> 1,  simple |-> TRUE],
   t |-> [coef |-> XY(0, 1),  rest |-> -1, simple |-> TRUE],
   e |-> [coef |-> XY(1, 0),  rest |-> -9, simple |-> TRUE],
   n |-> [coef |-> XY(0, 1),  rest |-> -1, simple |-> FALSE]]

MCOp == [r |-> "leq", s |-> "lt", t |-> "geq", e |-> "eq", n |-> "eq"]

MCDiff ==
  [b \in DOMAIN MCForm |-> [p \in MCPoint |->
     MCForm[b].coef["x"] * p["x"] + MCForm[b].coef["y"] * p["y"] + MCForm[b].rest]]

Pos(v) == <<v, TRUE>>
Not(v) == <<v, FALSE>>

MCClauses ==
  {<<Pos("r"), Not("s")>>, <<Not("r"), Pos("e")>>, <<Pos("s")>>,
   <<Not("e"), Not("s")>>, <<Pos("q"), Pos("t"), Pos("n")>>}

MCSatNumber == [q |-> 1, r |-> 2, s |-> 3, e |-> 4, n |-> 5, t |-> 6]

MCBoxes == {<<>>, [x \in {"x"} |-> [lo |-> 1, up |-> 2]]}
MCObjs  == {XY(1, 2)}
=============================================================================
