-------------------------------- MODULE MCIcp --------------------------------
(* Two variables, x_2 integer where the problem says so, and small         *)
(* coefficients; every combination of the options.                         *)
EXTENDS Icp

R(a, b, op, rhs)     == [forall |-> FALSE, body |-> {[coef |-> <<a, b>>, ycoef |-> 0, op |-> op, rhs |-> rhs]}]
All(a, b, y, op, rhs) == [coef |-> <<a, b>>, ycoef |-> y, op |-> op, rhs |-> rhs]
Forall(rs)           == [forall |-> TRUE, body |-> rs]

MCDim     == {1, 2}
MCIntDim  == {2}
MCYDomain == {0, 1, 2}

Assertions == {
  <<>>,
  << R(1, 0, "<", 4), R(1, 0, ">", 1), R(0, 1, ">=", 2) >>,           \* bounds only
  << R(1, 0, "<", 0), R(0, 1, "<=", 2) >>,                            \* no room: strict at zero
  << R(0, 1, ">", 2), R(0, 1, "<", 4), R(1, 0, "=", 1) >>,            \* no integer between
  << R(1, 1, "=", 3), R(1, -1, "=", 0) >>,                            \* no common point
  << R(1, 1, "<=", 5), R(1, -1, ">=", -1), R(1, 0, "!=", 2) >>,
  << R(2, 0, "=", 3), R(0, 1, ">=", 1) >>,                            \* between two numbers
  << R(0, 2, "=", 2), R(1, 0, "<=", 3) >>,                            \* between two integers
  << R(1, -1, ">", 0), R(-1, 1, ">=", 0), R(1, 0, "<=", 3) >>,
  << R(1, 1, ">=", 4), R(1, 1, "<=", 4), R(1, -1, "=", 1) >>,
  << Forall({All(1, 0, 1, ">=", 2)}), R(1, 1, "<=", 4) >>,
  << Forall({All(1, 0, -1, ">=", 0), All(0, 1, 1, ">", 3)}), R(1, 1, "=", 3) >>,
  << Forall({All(1, 0, 2, "<=", 3)}), R(1, 1, ">=", 2), R(0, 1, "<=", 2) >> }

(* Where ibex only detects what cannot hold, the search splits all the     *)
(* more, and the box is smaller.                                           *)
MCProblems ==
  [box : {<< <<-1, 4>>, <<0, 4>> >>}, assertions : Assertions,
   polytope : BOOLEAN, worklist : BOOLEAN, narrow : {TRUE}]
  \cup
  [box : {<< <<1, 4>>, <<0, 2>> >>}, assertions : Assertions,
   polytope : {FALSE}, worklist : BOOLEAN, narrow : {FALSE}]

MCJobs == {1, 2}
=============================================================================
