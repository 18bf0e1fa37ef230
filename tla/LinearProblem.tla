---------------------------- MODULE LinearProblem ----------------------------
(***************************************************************************)
(* How the SAT solver wrapper builds and re-uses one linear program:       *)
(* AddClause creates columns and rows (AddLiteral, AddLinearLiteral,       *)
(* AddLinearVariable), and each check sets the objective, clears every     *)
(* bound (ResetLinearProblem) and enables the literals of picosat's model  *)
(* one by one (EnableLinearLiteral, SetQSXVarBound).                       *)
(*                                                                         *)
(* LazySmt takes for granted that the LP is then the conjunction of the    *)
(* box and the literals' rows.  Here the arrays are kept that say which    *)
(* row belongs to which literal, and what is left of them when a formula   *)
(* turns out to be unsupported half way and the caller carries on.         *)
(***************************************************************************)
EXTENDS SatCore, Sequences, FiniteSetsExt, Functions

CONSTANTS
  Col,         \* continuous variables
  Form,        \* Form[b]: lhs - rhs of b's formula, and whether it is a simple bound
  NonLinear,   \* theory variables whose formula is not linear
  Infinity,    \* the LP solver's infinity: numbers this large are rejected
  SatNumber,   \* picosat's numbers of the variables (to_sat_var_)
  Clauses,     \* the clauses that may be added, their literals in some order
  BoxesOf,     \* what the box may say: bounds of some of the variables
  Objs,        \* objective functions, by their coefficients
  MaxRows      \* bound on the number of rows

(* The value of a row's left-hand side at a point.                         *)
RowValue(coef, p) == MapThenSumSet(LAMBDA x : coef[x] * p[x], Col)

(* Form and Diff are two views of one formula, and no point lies beyond    *)
(* infinity, which stands for the absence of a bound.                      *)
ASSUME ProblemAssumption ==
  /\ Form \in [TheoryVar -> [coef : [Col -> Int], rest : Int, simple : BOOLEAN]]
  /\ NonLinear \subseteq TheoryVar
  /\ Point \subseteq [Col -> Int]
  /\ \A b \in TheoryVar : Form[b].simple =>
       \E x \in Col : /\ Form[b].coef[x] \in {-1, 1}
                      /\ \A y \in Col \ {x} : Form[b].coef[y] = 0
                      /\ \A p \in Point :
                           Diff[b][p] = Form[b].coef[x] * p[x] + Form[b].rest
  /\ \A b \in TheoryVar \ NonLinear : \A p \in Point :
       RowValue(Form[b].coef, p) = Diff[b][p] - Form[b].rest
  /\ Infinity \in Nat
  /\ \A p \in Point : \A x \in Col : -Infinity <= p[x] /\ p[x] <= Infinity
  /\ SatNumber \in Injection(TheoryVar \cup BoolVar \cup CnfVar, Nat \ {0})
  /\ Clauses \subseteq Seq(Lit)
  /\ \A b \in BoxesOf : /\ DOMAIN b \subseteq Col
                       /\ \A x \in DOMAIN b : b[x] \in [lo : Int, up : Int]
  /\ Objs \subseteq [Col -> Int]

VARIABLES
  solver,     \* the LP library of this context
  pc,         \* "idle", "adding" a clause, "enabling" literals or "aborted"
  todo,       \* literals of the clause still to be added
  open,       \* literals given to picosat since the last terminator
  clauses,    \* picosat's clauses
  cols,       \* to_qsx_col_: variables the LP knows
  rows,       \* the LP's rows: coefficients, and sense and right-hand side now
  senses,     \* qsx_sense_
  rhss,       \* qsx_rhs_
  toRow,      \* to_qsx_row_
  bound,      \* the LP's bounds of each column
  obj,        \* the LP's objective
  toEnable,   \* literals of picosat's model still to be enabled
  asked,      \* history: literals, box and objective of the current check
  failed      \* history: a formula was rejected half way

vars == <<solver, pc, todo, open, clauses, cols, rows, senses, rhss, toRow,
          bound, obj, toEnable, asked, failed>>

clauseVars == <<open, clauses>>
indexVars  == <<cols, senses, rhss, toRow>>
checkVars  == <<toEnable, asked>>

Unbounded  == [lo |-> -Infinity, up |-> Infinity]
TooLarge(v) == v <= -Infinity \/ v >= Infinity
NoObjective == [x \in Col |-> 0]
NoCheck     == [lits |-> {}, box |-> <<>>, obj |-> NoObjective]

FreeVariables(b) == {x \in Col : Form[b].coef[x] # 0}
LiteralSense(l)  == Sense(Op[l[1]], l[2])

(* The literal of a relational formula that must become a row.             *)
WantsRow(l) ==
  l \in TheoryLit /\ ~Form[l[1]].simple /\ LiteralSense(l) # "none"

(* Its row cannot be built: not a sum of variables, or a number too large. *)
BadTerm(b)     == b \in NonLinear \/ \E x \in Col : TooLarge(Form[b].coef[x])
Unsupported(l) == WantsRow(l) /\ (BadTerm(l[1]) \/ TooLarge(Form[l[1]].rest))

-----------------------------------------------------------------------------
Init ==
  /\ solver \in {"qsoptex", "soplex"}
  /\ pc = "idle"
  /\ todo = <<>> /\ open = {} /\ clauses = {}
  /\ cols = {} /\ rows = <<>> /\ senses = <<>> /\ rhss = <<>> /\ toRow = <<>>
  /\ bound = [x \in Col |-> Unbounded]
  /\ obj = NoObjective
  /\ toEnable = {} /\ failed = FALSE
  /\ asked = NoCheck

(***************************************************************************)
(* Adding a clause, one literal per step.                                  *)
(***************************************************************************)
Fits(c) == Len(senses) + Len(SelectSeq(c, WantsRow)) <= MaxRows

AddClause(c) ==
  /\ pc = "idle" /\ Fits(c)
  /\ pc' = "adding" /\ todo' = c
  /\ UNCHANGED <<solver, clauseVars, indexVars, rows, bound, obj, checkVars, failed>>

(* Every literal is given to picosat before the LP hears of it.            *)
AddLiteral ==
  /\ pc = "adding" /\ todo # <<>>
  /\ open' = open \cup {Head(todo)}
  /\ cols' = cols \cup (IF Head(todo) \in TheoryLit
                          THEN FreeVariables(Head(todo)[1]) ELSE {})
  /\ UNCHANGED <<solver, clauses, bound, obj, checkVars>>

(* A Boolean variable, a simple bound, a disequality, or a known literal.  *)
AddRowlessLiteral ==
  /\ AddLiteral
  /\ ~WantsRow(Head(todo)) \/ Head(todo) \in DOMAIN toRow
  /\ todo' = Tail(todo)
  /\ UNCHANGED <<pc, rows, senses, rhss, toRow, failed>>

NewRow(l) == [coef |-> Form[l[1]].coef, sense |-> "G", rhs |-> -Infinity]

(* A new row, inactive; its sense and right-hand side are kept aside.      *)
AddRow ==
  LET l == Head(todo)
  IN  /\ AddLiteral
      /\ WantsRow(l) /\ l \notin DOMAIN toRow /\ ~Unsupported(l)
      /\ senses' = Append(senses, LiteralSense(l))
      /\ rhss' = Append(rhss, -Form[l[1]].rest)
      /\ rows' = Append(rows, NewRow(l))
      /\ toRow' = [m \in DOMAIN toRow \cup {l} |->
                     IF m = l THEN Len(rows) + 1 ELSE toRow[m]]
      /\ todo' = Tail(todo)
      /\ UNCHANGED <<pc, failed>>

(* An exception: sense and right-hand side are there, with QSopt_ex the    *)
(* row is, too (how many of its coefficients does not matter, it will not  *)
(* be enabled), with SoPlex it is not; the literal gets no index and the   *)
(* clause no terminator.                                                   *)
AddRowThrows ==
  /\ AddLiteral
  /\ Unsupported(Head(todo))
  /\ senses' = Append(senses, LiteralSense(Head(todo)))
  /\ rhss' = Append(rhss, IF BadTerm(Head(todo)[1]) THEN 0 ELSE -Form[Head(todo)[1]].rest)
  /\ rows' = IF solver = "qsoptex" THEN Append(rows, NewRow(Head(todo))) ELSE rows
  /\ pc' = "idle" /\ todo' = <<>>
  /\ failed' = TRUE
  /\ UNCHANGED toRow

(* Fault: what was left over is taken into the next clause, too.           *)
EndClauseKeepsOpen ==
  /\ pc = "adding" /\ todo = <<>>
  /\ clauses' = clauses \cup {open}
  /\ pc' = "idle"
  /\ UNCHANGED <<solver, open, todo, indexVars, rows, bound, obj, checkVars, failed>>

(* The terminator closes all that was given to picosat since the last one. *)
EndClause ==
  /\ pc = "adding" /\ todo = <<>>
  /\ clauses' = clauses \cup {open} /\ open' = {}
  /\ pc' = "idle"
  /\ UNCHANGED <<solver, todo, indexVars, rows, bound, obj, checkVars, failed>>

(***************************************************************************)
(* A check.                                                                *)
(***************************************************************************)
Known(o) == \A x \in Col : o[x] # 0 => x \in cols /\ ~TooLarge(o[x])

(* SetLinearObjective throws at an unknown variable; the coefficients it   *)
(* has set by then stay.                                                   *)
ObjectiveThrows(o) ==
  /\ pc = "idle" /\ solver = "qsoptex" /\ ~Known(o)
  /\ \E X \in SUBSET {x \in cols : ~TooLarge(o[x])} :
       obj' = [x \in Col |-> IF x \in X THEN o[x] ELSE 0]
  /\ UNCHANGED <<solver, pc, todo, clauseVars, indexVars, rows, bound, checkVars, failed>>

(* Fault: the rows enabled for the last check stay enabled.                *)
ClearedNot(rs) == rs

(* Every row goes back to  >= -infinity.                                   *)
Cleared(rs) ==
  [i \in DOMAIN rs |-> [rs[i] EXCEPT !.sense = "G", !.rhs = -Infinity]]

(* CheckSat: the objective, which replaces the old one coefficient by      *)
(* coefficient, then picosat's model and ResetLinearProblem(box).          *)
(* Which literals of the model GetMainActiveLiterals keeps is the subject  *)
(* of ActiveLiterals; here any of the main clauses' that satisfy them all. *)
StartCheck(o, b) ==
  /\ pc = "idle" /\ open = {} /\ Known(o)
  /\ solver = "soplex" => o = NoObjective
  /\ obj' = o
  /\ \E S \in PicosatModels(clauses) :
       /\ S \subseteq UNION clauses
       /\ toEnable' = S /\ asked' = [lits |-> S, box |-> b, obj |-> o]
  /\ rows' = Cleared(rows)
  /\ bound' = [x \in Col |-> IF x \in cols \cap DOMAIN b THEN b[x] ELSE Unbounded]
  /\ pc' = "enabling"
  /\ UNCHANGED <<solver, todo, clauseVars, indexVars, failed>>

(* picosat finds no model: only the objective has changed.                 *)
CheckFindsNone(o) ==
  /\ pc = "idle" /\ open = {} /\ Known(o)
  /\ solver = "soplex" => o = NoObjective
  /\ PicosatModels(clauses) = {}
  /\ obj' = o
  /\ UNCHANGED <<solver, pc, todo, clauseVars, indexVars, rows, bound, checkVars, failed>>

(* picosat_sat ends the process when a clause is still open.               *)
CheckAborts ==
  /\ pc = "idle" /\ open # {}
  /\ pc' = "aborted"
  /\ UNCHANGED <<solver, todo, clauseVars, indexVars, rows, bound, obj, checkVars, failed>>

(* Literals come in the order of set<int>, negative ones first.            *)
SatLiteral(l) == IF l[2] THEN SatNumber[l[1]] ELSE -SatNumber[l[1]]
IsNext(l) ==
  pc = "enabling" /\ l \in toEnable /\ \A k \in toEnable : SatLiteral(l) <= SatLiteral(k)

Enable(l) ==
  /\ IsNext(l)
  /\ toEnable' = toEnable \ {l}
  /\ UNCHANGED <<solver, pc, todo, clauseVars, indexVars, obj, asked, failed>>

EnableRow(l) ==
  /\ Enable(l)
  /\ l \in DOMAIN toRow
  /\ LET i == toRow[l]
     IN  rows' = [rows EXCEPT ![i].sense = senses[i], ![i].rhs = rhss[i]]
  /\ UNCHANGED bound

(* The variable and the constant of a simple bound, whichever side they    *)
(* are on, and which ends of the variable's interval it is about.          *)
BoundVar(b)   == CHOOSE x \in FreeVariables(b) : TRUE
OnLeft(b)     == Form[b].coef[BoundVar(b)] = 1
BoundValue(b) == IF OnLeft(b) THEN -Form[b].rest ELSE Form[b].rest
SetsLower(l)  == LiteralSense(l) \in (IF OnLeft(l[1]) THEN {"E", "G"} ELSE {"E", "L"})
SetsUpper(l)  == LiteralSense(l) \in (IF OnLeft(l[1]) THEN {"E", "L"} ELSE {"E", "G"})
IsBound(l)    == l \in TheoryLit /\ Form[l[1]].simple

(* SetQSXVarBound: a bound is only ever tightened.                         *)
EnableBound(l) ==
  LET x == BoundVar(l[1])
      v == BoundValue(l[1])
  IN  /\ Enable(l)
      /\ IsBound(l) /\ (LiteralSense(l) = "none" \/ ~TooLarge(v))
      /\ bound' = [bound EXCEPT
           ![x].lo = IF SetsLower(l) /\ @ < v THEN v ELSE @,
           ![x].up = IF SetsUpper(l) /\ v < @ THEN v ELSE @]
      /\ UNCHANGED rows

(* Booleans, disequalities and learned literals mean nothing to the LP.    *)
EnableNothing(l) ==
  /\ Enable(l)
  /\ l \notin DOMAIN toRow /\ ~IsBound(l)
  /\ UNCHANGED <<rows, bound>>

(* SetQSXVarBound rejects the constant; what was enabled before it stays.  *)
EnableThrows(l) ==
  /\ IsNext(l)
  /\ IsBound(l) /\ LiteralSense(l) # "none" /\ TooLarge(BoundValue(l[1]))
  /\ pc' = "idle" /\ toEnable' = {} /\ asked' = NoCheck
  /\ UNCHANGED <<solver, todo, clauseVars, indexVars, rows, bound, obj, failed>>

(* The LP is complete; the theory solver reads it and is done with it.     *)
Ready == pc = "enabling" /\ toEnable = {}

SolveLP ==
  /\ Ready
  /\ pc' = "idle" /\ asked' = NoCheck
  /\ UNCHANGED <<solver, todo, clauseVars, indexVars, rows, bound, obj, toEnable, failed>>

Next ==
  \/ \E c \in Clauses : AddClause(c)
  \/ AddRowlessLiteral \/ AddRow \/ AddRowThrows \/ EndClause
  \/ \E o \in Objs : ObjectiveThrows(o)
  \/ \E o \in Objs \cup {NoObjective}, b \in BoxesOf : StartCheck(o, b)
  \/ \E o \in Objs \cup {NoObjective} : CheckFindsNone(o)
  \/ CheckAborts
  \/ \E l \in toEnable :
       EnableRow(l) \/ EnableBound(l) \/ EnableNothing(l) \/ EnableThrows(l)
  \/ SolveLP

Spec == Init /\ [][Next]_vars

-----------------------------------------------------------------------------
(* The points the LP allows.                                               *)
RowAllows(r, p) ==
  RowHolds(r.sense, RowValue(r.coef, p) - r.rhs, 0)

LPRegion ==
  {p \in Point : /\ \A x \in cols : bound[x].lo <= p[x] /\ p[x] <= bound[x].up
                 /\ \A i \in DOMAIN rows :
                      rows[i].rhs > -Infinity => RowAllows(rows[i], p)}

(* The arrays stay aligned, every index points to a row with the           *)
(* coefficients of its literal, and a clause is left open by a rejected    *)
(* formula only.                                                           *)
LPTypeOK ==
  /\ pc \in {"idle", "adding", "enabling", "aborted"}
  /\ todo \in Seq(Lit) /\ open \subseteq Lit /\ clauses \subseteq Clause
  /\ cols \subseteq Col
  /\ Len(senses) = Len(rhss) /\ Len(rows) <= Len(senses)
  /\ DOMAIN toRow \subseteq TheoryLit
  /\ \A l \in DOMAIN toRow :
       toRow[l] \in DOMAIN rows /\ rows[toRow[l]].coef = Form[l[1]].coef
  /\ bound \in [Col -> [lo : Int, up : Int]]
  /\ obj \in [Col -> Int]
  /\ toEnable \subseteq asked.lits
  /\ pc # "adding" /\ open # {} => failed

(* When the theory solver reads the LP, it is what was asked for: the      *)
(* conjunction of the box and of the literals of picosat's model under the *)
(* objective, nothing of an earlier check and nothing missing - with       *)
(* QSopt_ex even after formulas were rejected half way, the rejected       *)
(* literals themselves apart.                                              *)
LPIsAsked ==
  Ready /\ (failed => solver = "qsoptex") =>
    /\ obj = asked.obj
    /\ LPRegion = {p \in Point :
         /\ \A x \in cols \cap DOMAIN asked.box :
              asked.box[x].lo <= p[x] /\ p[x] <= asked.box[x].up
         /\ \A l \in asked.lits \cap TheoryLit : Unsupported(l) \/ p \in Row(l)}

-----------------------------------------------------------------------------
(* What the theorems about LPTypeOK and LPIsAsked need beside them.        *)

(* The LP knows what there is to know of a literal that picosat has.       *)
Settled(l) ==
  /\ l \in TheoryLit => FreeVariables(l[1]) \subseteq cols
  /\ WantsRow(l) => l \in DOMAIN toRow \/ Unsupported(l)

RowSense == {"E", "G", "L"}
LPRow    == [coef : [Col -> Int], sense : RowSense, rhs : Int]

ArraysOK ==
  /\ rows \in Seq(LPRow)
  /\ senses \in Seq(RowSense) /\ rhss \in Seq(Int)
  /\ \A l \in DOMAIN toRow : WantsRow(l) /\ ~Unsupported(l)

(* With QSopt_ex, and with SoPlex before the first failure, sense and      *)
(* right-hand side kept for a row are those of the row's literal.          *)
ArraysAligned ==
  (failed => solver = "qsoptex") =>
    /\ Len(rows) = Len(senses)
    /\ \A l \in DOMAIN toRow : /\ senses[toRow[l]] = LiteralSense(l)
                              /\ rhss[toRow[l]] = -Form[l[1]].rest

EnabledLits == asked.lits \ toEnable

(* The rows in force are those of the literals enabled so far.             *)
RowsSoFar ==
  /\ \A l \in EnabledLits \cap DOMAIN toRow :
       /\ rows[toRow[l]].sense = senses[toRow[l]]
       /\ rows[toRow[l]].rhs = rhss[toRow[l]]
  /\ \A i \in DOMAIN rows : rows[i].rhs > -Infinity =>
       \E l \in EnabledLits \cap DOMAIN toRow : toRow[l] = i

(* A column's bounds are the box and the simple bounds enabled so far.     *)
BoundsSoFar ==
  \A x \in Col : \A p \in Point :
    bound[x].lo <= p[x] /\ p[x] <= bound[x].up <=>
      /\ x \in cols \cap DOMAIN asked.box =>
           asked.box[x].lo <= p[x] /\ p[x] <= asked.box[x].up
      /\ \A l \in EnabledLits :
           IsBound(l) /\ BoundVar(l[1]) = x => p \in Row(l)

LPIInv ==
  /\ LPTypeOK
  /\ ArraysOK
  /\ ArraysAligned
  /\ \A l \in open \cup UNION clauses : Settled(l)
  /\ pc = "enabling" =>
       /\ asked.obj = obj /\ asked.lits \subseteq UNION clauses
       /\ RowsSoFar
       /\ BoundsSoFar
=============================================================================
