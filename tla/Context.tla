------------------------------ MODULE Context ------------------------------
(***************************************************************************)
(* A Context as its caller sees it: the box of declared variables, which   *)
(* of them are model variables, the assertions, and the model of the last  *)
(* check.  How a check finds its answer is LazySmt's and Optimize's; here  *)
(* it is any answer the branches of CheckSatCore and CheckOptCore allow.   *)
(*                                                                         *)
(* A box has a vector of variables, shared between copies until Add needs  *)
(* it for itself, and a vector of intervals that is never empty: without   *)
(* variables it has one interval.  Of an interval only its kind matters.   *)
(***************************************************************************)
EXTENDS Integers, Sequences, FiniteSets

CONSTANTS
  NoVar,   \* not a variable
  ITEVar   \* the variable that eliminating an if-then-else introduces

VARIABLES
  box,        \* the box of the context: vars and vals
  model,      \* model_; its vars mean nothing while they are shared
  shared,     \* model_ and box have the same vector of variables
  modelVars,  \* model_variables_
  stray,      \* variables var_to_idx_ has at the first place, unasked
  objective,  \* have_objective_
  stack,      \* the formulas of stack_
  saved,      \* the scopes of stack_: what pop would go back to
  answer,     \* of the last command
  found,      \* history: the box CheckSatCore has returned with a sat answer
  refuted     \* history: false was asserted, "early" before any declaration

cvars == <<box, model, shared, modelVars, stray, objective, stack, saved,
           answer, found, refuted>>

Answer   == {"none", "sat", "unsat", "optimal", "infeasible", "unbounded", "throws", "rejected"}
Interval == {"all", "bounded", "point", "empty"}

(***************************************************************************)
(* Boxes                                                                   *)
(***************************************************************************)
NewBox == [vars |-> <<>>, vals |-> <<"all">>]

IsEmpty(b)  == \E i \in DOMAIN b.vals : b.vals[i] = "empty"
SetEmpty(b) == [b EXCEPT !.vals = [i \in DOMAIN @ |-> "empty"]]

Has(b, v)   == \E i \in DOMAIN b.vars : b.vars[i] = v
Index(b, v) == CHOOSE i \in DOMAIN b.vars : b.vars[i] = v

(* Fault: the intervals are made anew.                                     *)
ResizeAnew(vals, n) == [i \in 1 .. n |-> "all"]

(* values_.resize: what is there stays.                                    *)
Resize(vals, n) == [i \in 1 .. n |-> IF i <= Len(vals) THEN vals[i] ELSE "all"]

(* The interval of a new Boolean variable is set, that of a real variable  *)
(* is what resize leaves in its place.                                     *)
BoxAdd(b, v) ==
  LET n == Len(b.vars) + 1
  IN  [vars |-> Append(b.vars, v),
       vals |-> [Resize(b.vals, n) EXCEPT ![n] = IF v.sort = "Bool" THEN "bounded" ELSE @]]

(* Where operator[] finds the interval of v: a variable that was asked for *)
(* before it was added has the first place for good.                       *)
Place(b, v) == IF v \in stray THEN 1 ELSE Index(b, v)

BoxSet(b, v) == [b EXCEPT !.vals[Place(b, v)] = "bounded"]

(* What get_model() shows.                                                 *)
ShownModel == [vars |-> IF shared THEN box.vars ELSE model.vars, vals |-> model.vals]

-----------------------------------------------------------------------------
ContextInit ==
  /\ box = NewBox /\ model = NewBox /\ shared = FALSE
  /\ modelVars = {} /\ stray = {} /\ objective = FALSE
  /\ stack = {} /\ saved = <<>>
  /\ answer = "none" /\ found = NewBox /\ refuted = "no"

(* found is only of interest until the next command.                       *)
Says(a) == answer' = a /\ found' = NewBox

(* Fault: Add extends the vector of variables that the model shares.       *)
ChangeBoxInPlace(b) == box' = b /\ UNCHANGED <<model, shared>>

(* Add makes its own vector of variables when the model has it too.        *)
ChangeBox(b) ==
  /\ box' = b
  /\ IF shared /\ b.vars # box.vars
     THEN shared' = FALSE /\ model' = [model EXCEPT !.vars = box.vars]
     ELSE UNCHANGED <<model, shared>>

(* AddToBox: a variable that is there is not added again.                  *)
WithVar(b, v) == IF Has(b, v) THEN b ELSE BoxAdd(b, v)

(* A command that throws before it has changed anything.                   *)
Throws ==
  /\ Says("throws")
  /\ UNCHANGED <<box, model, shared, modelVars, stray, objective, stack, saved, refuted>>

(* The bounds of a declaration: none, two numbers, or two expressions of   *)
(* which one cannot be evaluated.                                          *)
Bounds == {"none", "given", "faulty"}

Declared(v, bounds) ==
  IF bounds = "given" THEN BoxSet(WithVar(box, v), v) ELSE WithVar(box, v)

(* Fault: an integer variable is marked before Add refuses it.             *)
DeclareMarksFirst(v, bounds) ==
  /\ modelVars' = modelVars \cup {v}
  /\ IF v.sort = "Int" THEN Says("throws") /\ UNCHANGED <<box, model, shared>>
     ELSE /\ Says(IF bounds = "faulty" THEN "throws" ELSE "none")
          /\ ChangeBox(Declared(v, bounds))
  /\ UNCHANGED <<stray, objective, stack, saved, refuted>>

(* DeclareVariable, then SetDomain when there are bounds: they are         *)
(* evaluated when the variable has been added and marked.                  *)
Declare(v, bounds) ==
  IF v.sort = "Int" THEN Throws
  ELSE /\ Says(IF bounds = "faulty" THEN "throws" ELSE "none")
       /\ ChangeBox(Declared(v, bounds))
       /\ modelVars' = modelVars \cup {v}
       /\ UNCHANGED <<stray, objective, stack, saved, refuted>>

(* A variable that the box does not have gets the first place.             *)
SetInterval(v) ==
  /\ Says("none")
  /\ stray' = IF Has(box, v) THEN stray ELSE stray \cup {v}
  /\ box' = [box EXCEPT !.vals[IF Has(box, v) THEN Place(box, v) ELSE 1] = "bounded"]
  /\ UNCHANGED <<model, shared, modelVars, objective, stack, saved, refuted>>

(* Minimize and Maximize; a context on SoPlex throws.                      *)
Minimize ==
  \/ Throws
  \/ /\ Says("none") /\ objective' = TRUE
     /\ UNCHANGED <<box, model, shared, modelVars, stray, stack, saved, refuted>>

(***************************************************************************)
(* Assert of f when the box is b: true is ignored, and so is everything    *)
(* once the box is empty.  Otherwise the variables that replace            *)
(* if-then-else terms enter the box and f the stack, and AddFormula may    *)
(* still refuse it.  A formula is the variable it defines, if any, and the *)
(* variable it mentions.                                                   *)
(***************************************************************************)
AssertIn(b, f, ites) ==
  IF IsEmpty(b) THEN Says("none") /\ ChangeBox(b) /\ UNCHANGED stack
  ELSE /\ stack' = stack \cup {f}
       /\ ChangeBox(IF ites THEN WithVar(b, ITEVar) ELSE b)
       /\ Says("none") \/ Says("rejected")

Assert(f, ites) ==
  /\ AssertIn(box, f, ites)
  /\ UNCHANGED <<modelVars, stray, objective, saved, refuted>>

(* Only the intervals change: there is no formula to solve any more.       *)
AssertFalse ==
  /\ Says("none")
  /\ box' = SetEmpty(box)
  /\ refuted' = IF refuted = "no" THEN (IF box.vars = <<>> THEN "early" ELSE "late") ELSE refuted
  /\ UNCHANGED <<model, shared, modelVars, stray, objective, stack, saved>>

(* Fault: the SAT solver comes last, and throws when all the rest is done. *)
PushStackFirst == Says("throws") /\ saved' = Append(saved, stack)
  /\ UNCHANGED <<box, model, shared, modelVars, stray, objective, stack, refuted>>

(* The SAT solver comes first, and does not support it.                    *)
Push == Throws

(* stack_.pop() comes first, and finds nothing to pop; were there a scope, *)
(* boxes_.pop() would throw when the stack has changed.                    *)
Pop ==
  IF saved = <<>> THEN Throws
  ELSE /\ Says("throws")
       /\ stack' = saved[Len(saved)] /\ saved' = SubSeq(saved, 1, Len(saved) - 1)
       /\ UNCHANGED <<box, model, shared, modelVars, stray, objective, refuted>>

-----------------------------------------------------------------------------
(* The positions of the model variables in a box, and the i-th of them.    *)
ModelPositions(b) == {i \in DOMAIN b.vars : b.vars[i] \in modelVars}
Nth(K, i)         == CHOOSE k \in K : Cardinality({j \in K : j <= k}) = i

Kept(b) ==
  LET K == ModelPositions(b)
  IN  [i \in 1 .. Cardinality(K) |-> b.vars[Nth(K, i)]]

(* With as many model variables as there are variables the box itself is   *)
(* the model; otherwise the box is walked through and the model variables  *)
(* are added to a new one.                                                 *)
Filtered(b) ==
  IF Kept(b) = <<>> THEN NewBox
  ELSE [vars |-> Kept(b),
        vals |-> [i \in DOMAIN Kept(b) |-> b.vals[Place(b, Kept(b)[i])]]]

ExtractModel(b) ==
  IF Cardinality(modelVars) = Len(b.vars)
  THEN model' = [b EXCEPT !.vars = <<>>] /\ shared' = TRUE
  ELSE model' = Filtered(b) /\ shared' = FALSE

(* model_.set_empty(): the variables of the model before stay.             *)
CheckUnsat ==
  /\ answer' = "unsat" /\ found' = NewBox
  /\ model' = SetEmpty(model) /\ UNCHANGED shared

CheckSatisfied(b) == answer' = "sat" /\ found' = b /\ ExtractModel(b)

Solved(b, sorts) ==
  LET places == {Place(b, b.vars[i]) : i \in {k \in DOMAIN b.vars : b.vars[k].sort \in sorts}}
  IN  [b EXCEPT !.vals = [i \in DOMAIN @ |-> IF i \in places THEN "point" ELSE @[i]]]

(* Without formulas the box is the answer; else the Boolean literals and   *)
(* the columns of the LP get a value if picosat's model has any, and the   *)
(* other variables keep their interval.                                    *)
CheckSat ==
  /\ CASE IsEmpty(box)                   -> CheckUnsat
       [] ~IsEmpty(box) /\ stack = {}    -> CheckSatisfied(box)
       [] ~IsEmpty(box) /\ stack # {}    ->
            \/ CheckUnsat
            \/ Says("throws") /\ UNCHANGED <<model, shared>>
            \/ \E sorts \in {{"Bool"}, {"Real"}, {"Bool", "Real"}} :
                 CheckSatisfied(Solved(box, sorts))
  /\ UNCHANGED <<box, modelVars, stray, objective, stack, saved, refuted>>

(***************************************************************************)
(* CheckOpt, on the fresh box that the driver hands in.  Its variables are *)
(* the columns of the LP once a region is solved: real variables of the    *)
(* asserted formulas, in the order in which they have got there, among     *)
(* them the variables with a definition.                                   *)
(***************************************************************************)
Columns ==
  LET real    == {v \in {box.vars[i] : i \in DOMAIN box.vars} : v.sort = "Real"}
      defined == {f.def : f \in stack} \cap real
      inLP    == UNION {[1 .. n -> real] : n \in 0 .. Cardinality(real)}
  IN  {c \in inLP : /\ \A i, j \in DOMAIN c : c[i] = c[j] => i = j
                    /\ defined \subseteq {c[i] : i \in DOMAIN c}
                    /\ stack = {} => c = <<>>}

Candidate(c) ==
  IF c = <<>> THEN NewBox ELSE [vars |-> c, vals |-> [i \in DOMAIN c |-> "point"]]

(* Without an optimum the model is the box as the search has left it, with *)
(* all its intervals emptied: before a candidate it has no variables.      *)
CheckOpt ==
  /\ \/ Says("throws") /\ UNCHANGED <<model, shared>>
     \/ Says("infeasible") /\ model' = SetEmpty(NewBox) /\ shared' = FALSE
     \/ \E c \in Columns \cup {<<>>} :
          Says("unbounded") /\ model' = SetEmpty(Candidate(c)) /\ shared' = FALSE
     \/ \E c \in Columns :
          /\ Says("optimal") /\ shared' = FALSE
          /\ model' = IF Cardinality(modelVars) = Len(c)
                      THEN Candidate(c) ELSE Filtered(Candidate(c))
  /\ UNCHANGED <<box, modelVars, stray, objective, stack, saved, refuted>>

-----------------------------------------------------------------------------
(* The boxes over a set of variables, and those the program may have.      *)
Boxes(V) == [vars : Seq(V), vals : Seq(Interval)]

IsBox(b) ==
  /\ \A i \in DOMAIN b.vals : b.vals[i] \in Interval
  /\ \A i, j \in DOMAIN b.vars : b.vars[i] = b.vars[j] => i = j
  /\ Len(b.vals) = IF b.vars = <<>> THEN 1 ELSE Len(b.vars)

(* Every box has an interval for each of its variables and no variable     *)
(* twice, the model too, although it may share the vector of variables;    *)
(* and ExtractModel may compare sizes after a CheckSat because every model *)
(* variable is in the box.                                                 *)
ContextOK ==
  /\ IsBox(box) /\ IsBox(ShownModel)
  /\ \A v \in modelVars : Has(box, v)
  /\ answer \in Answer /\ objective \in BOOLEAN

Checked == {"sat", "unsat", "optimal", "infeasible", "unbounded"}

(* Only a check changes what get_model() shows: not a declaration, nor an  *)
(* assertion that adds variables to the box the model was copied from.     *)
ModelIsolated == [][answer' \notin Checked => ShownModel' = ShownModel]_cvars

(* A model of CheckSat has the model variables and no other, in the order  *)
(* of the box, each with the interval that the check has found for it,     *)
(* unless a program has set that interval before it declared the variable; *)
(* a check that finds no solution leaves no model.                         *)
ModelComplete ==
  /\ answer = "sat" =>
       /\ {ShownModel.vars[i] : i \in DOMAIN ShownModel.vars} = modelVars
       /\ \A i, j \in DOMAIN ShownModel.vars :
            i < j => Index(found, ShownModel.vars[i]) < Index(found, ShownModel.vars[j])
       /\ \A i \in DOMAIN ShownModel.vars : ShownModel.vars[i] \notin stray =>
            ShownModel.vals[i] = found.vals[Index(found, ShownModel.vars[i])]
       /\ ~IsEmpty(ShownModel)
  /\ answer \in {"unsat", "infeasible", "unbounded"} => IsEmpty(ShownModel)

(* A variable that is not a model variable does not appear in the model,   *)
(* says context.h.  True of CheckSat by ModelComplete, but not of CheckOpt *)
(* (README): its box may have as many variables by chance.                 *)
OnlyModelVars ==
  answer \in {"sat", "optimal"} =>
    {ShownModel.vars[i] : i \in DOMAIN ShownModel.vars} \subseteq modelVars

(* A command that throws, other than an assertion whose formula is refused *)
(* half way, leaves the assertions and scopes as they were.  What it may   *)
(* leave behind is one declared variable without its bounds, known to the  *)
(* box and marked: never one without the other.                            *)
ThrowsCleanly ==
  [][answer' = "throws" =>
       /\ UNCHANGED <<stack, saved, objective>>
       /\ \/ UNCHANGED <<box, modelVars>>
          \/ \E v \in modelVars' : box' = WithVar(box, v) /\ modelVars' = modelVars \cup {v}]_cvars
=============================================================================
