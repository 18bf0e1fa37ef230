------------------------- MODULE LinearProblemProofs -------------------------
(***************************************************************************)
(* Theorems about LinearProblem, for any formulas, clauses, boxes and      *)
(* objectives, and any number of rows.                                     *)
(***************************************************************************)
EXTENDS LinearProblem, SequenceTheorems, TLAPS

-----------------------------------------------------------------------------
(* What a literal means to the LP.                                         *)

LEMMA SenseValues ==
  \A op : \A t \in BOOLEAN : Sense(op, t) \in {"E", "G", "L", "none"}
BY DEF Sense

LEMMA TheoryLitFacts ==
  ASSUME NEW l \in TheoryLit
  PROVE  /\ l[1] \in TheoryVar /\ l[2] \in BOOLEAN
         /\ Form[l[1]].coef \in [Col -> Int] /\ Form[l[1]].rest \in Int
         /\ Form[l[1]].simple \in BOOLEAN
         /\ LiteralSense(l) \in {"E", "G", "L", "none"}
         /\ FreeVariables(l[1]) \subseteq Col
<1>1. l[1] \in TheoryVar /\ l[2] \in BOOLEAN
  BY DEF TheoryLit
<1>2. Form[l[1]] \in [coef : [Col -> Int], rest : Int, simple : BOOLEAN]
  BY <1>1, ProblemAssumption
<1> QED BY <1>1, <1>2, SenseValues DEF LiteralSense, FreeVariables

LEMMA RowFacts ==
  ASSUME NEW l, WantsRow(l)
  PROVE  /\ l \in TheoryLit /\ LiteralSense(l) \in RowSense
         /\ NewRow(l) \in LPRow
         /\ NewRow(l).coef = Form[l[1]].coef /\ NewRow(l).rhs = -Infinity
         /\ Form[l[1]].rest \in Int
         /\ ~IsBound(l)
<1>1. l \in TheoryLit /\ LiteralSense(l) # "none" /\ ~Form[l[1]].simple
  BY DEF WantsRow
<1>2. -Infinity \in Int
  BY ProblemAssumption
<1> QED BY <1>1, <1>2, TheoryLitFacts DEF NewRow, IsBound, RowSense, LPRow

(* The only variable of a simple bound, its constant, and the points on    *)
(* the right side of it.                                                   *)
LEMMA BoundFacts ==
  ASSUME NEW l, IsBound(l)
  PROVE  /\ BoundVar(l[1]) \in Col
         /\ BoundVar(l[1]) \in FreeVariables(l[1])
         /\ BoundValue(l[1]) \in Int
         /\ \A p \in Point :
              p \in Row(l) <=>
                /\ SetsLower(l) => BoundValue(l[1]) <= p[BoundVar(l[1])]
                /\ SetsUpper(l) => p[BoundVar(l[1])] <= BoundValue(l[1])
<1> DEFINE b == l[1]
           v == BoundVar(b)
<1>1. l \in TheoryLit /\ b \in TheoryVar /\ Form[b].simple
  BY TheoryLitFacts DEF IsBound
<1>2. PICK x \in Col : /\ Form[b].coef[x] \in {-1, 1}
                       /\ \A y \in Col \ {x} : Form[b].coef[y] = 0
                       /\ \A p \in Point :
                            Diff[b][p] = Form[b].coef[x] * p[x] + Form[b].rest
  BY <1>1, ProblemAssumption
<1>3. FreeVariables(b) = {x}
  BY <1>2 DEF FreeVariables
<1>4. v = x
  BY <1>3 DEF BoundVar
<1>5. Form[b].rest \in Int /\ BoundValue(b) \in Int
  BY <1>1, TheoryLitFacts DEF BoundValue
<1>6. ASSUME NEW p \in Point
      PROVE  p \in Row(l) <=> /\ SetsLower(l) => BoundValue(b) <= p[x]
                              /\ SetsUpper(l) => p[x] <= BoundValue(b)
  <2>1. p[x] \in Int
    BY ProblemAssumption, <1>2
  <2>2. p \in Row(l) <=> RowHolds(LiteralSense(l), Diff[b][p], 0)
    BY DEF Row, LiteralSense
  <2>3. CASE Form[b].coef[x] = 1
    <3>1. Diff[b][p] = p[x] + Form[b].rest
      BY <1>2, <2>1, <2>3, <1>5
    <3>2. OnLeft(b)
      BY <1>4, <2>3 DEF OnLeft
    <3> QED BY <3>1, <3>2, <2>1, <2>2, <1>5
            DEF RowHolds, SetsLower, SetsUpper, BoundValue
  <2>4. CASE Form[b].coef[x] = -1
    <3>1. Diff[b][p] = Form[b].rest - p[x]
      BY <1>2, <2>1, <2>4, <1>5
    <3>2. ~OnLeft(b)
      BY <1>4, <2>4 DEF OnLeft
    <3> QED BY <3>1, <3>2, <2>1, <2>2, <1>5
            DEF RowHolds, SetsLower, SetsUpper, BoundValue
  <2> QED BY <1>2, <2>3, <2>4
<1> QED BY <1>2, <1>3, <1>4, <1>5, <1>6

-----------------------------------------------------------------------------
LEMMA LPInit == Init => LPIInv
<1> SUFFICES ASSUME Init  PROVE LPIInv
  OBVIOUS
<1>1. LPTypeOK
  BY ProblemAssumption DEF Init, LPTypeOK, Unbounded, NoObjective, NoCheck
<1>2. ArraysOK
  BY DEF Init, ArraysOK
<1>3. ArraysAligned
  BY DEF Init, ArraysAligned
<1> QED BY <1>1, <1>2, <1>3 DEF Init, LPIInv

-----------------------------------------------------------------------------
(* Adding a clause.  No check is under way, so what is left to show is     *)
(* that the arrays stay aligned and every literal of picosat's is settled. *)

LEMMA AddClausePreserves ==
  ASSUME LPIInv, NEW c \in Clauses, AddClause(c)
  PROVE  LPIInv'
<1> USE DEF LPIInv, AddClause, clauseVars, indexVars, checkVars
<1>1. LPTypeOK'
  BY ProblemAssumption DEF LPTypeOK
<1>2. ArraysOK'
  BY DEF ArraysOK, WantsRow, Unsupported, BadTerm, LiteralSense
<1>3. ArraysAligned'
  BY DEF ArraysAligned
<1>4. (\A l \in open \cup UNION clauses : Settled(l))'
  BY DEF Settled
<1> QED BY <1>1, <1>2, <1>3, <1>4

(* The literal picosat gets is settled as soon as its columns exist and it *)
(* has a row, can have none, or wants none.                                *)
LEMMA AddLiteralSettles ==
  ASSUME LPIInv, AddLiteral, 
         DOMAIN toRow \subseteq DOMAIN toRow',
         WantsRow(Head(todo)) => Head(todo) \in DOMAIN toRow' \/ Unsupported(Head(todo))
  PROVE  /\ (\A l \in open \cup UNION clauses : Settled(l))'
         /\ Head(todo) \in Lit /\ Tail(todo) \in Seq(Lit)
         /\ open' \subseteq Lit /\ clauses' \subseteq Clause /\ cols' \subseteq Col
<1>1. Head(todo) \in Lit /\ Tail(todo) \in Seq(Lit)
  BY DEF LPIInv, LPTypeOK, AddLiteral
<1>2. cols \subseteq cols' /\ open' = open \cup {Head(todo)} /\ clauses' = clauses
  BY DEF AddLiteral
<1>3. ASSUME NEW l, l = Head(todo)
      PROVE  Settled(l)'
  BY <1>3 DEF AddLiteral, Settled
<1>4. ASSUME NEW l \in open \cup UNION clauses
      PROVE  Settled(l)'
  BY <1>2 DEF LPIInv, Settled
<1>5. cols' \subseteq Col
  BY TheoryLitFacts DEF LPIInv, LPTypeOK, AddLiteral
<1> QED BY <1>1, <1>2, <1>3, <1>4, <1>5 DEF LPIInv, LPTypeOK

LEMMA AddRowlessPreserves ==
  ASSUME LPIInv, AddRowlessLiteral
  PROVE  LPIInv'
<1>1. /\ (\A l \in open \cup UNION clauses : Settled(l))'
      /\ Head(todo) \in Lit /\ Tail(todo) \in Seq(Lit)
      /\ open' \subseteq Lit /\ clauses' \subseteq Clause /\ cols' \subseteq Col
  BY AddLiteralSettles DEF AddRowlessLiteral
<1> USE DEF LPIInv, AddRowlessLiteral, AddLiteral, checkVars
<1>2. LPTypeOK'
  BY <1>1 DEF LPTypeOK
<1>3. ArraysOK'
  BY DEF ArraysOK, WantsRow, Unsupported, BadTerm, LiteralSense
<1>4. ArraysAligned'
  BY DEF ArraysAligned
<1> QED BY <1>1, <1>2, <1>3, <1>4

LEMMA AddRowPreserves ==
  ASSUME LPIInv, AddRow
  PROVE  LPIInv'
<1> DEFINE l == Head(todo)
           n == Len(rows) + 1
<1>1. /\ AddLiteral /\ WantsRow(l) /\ l \notin DOMAIN toRow /\ ~Unsupported(l)
      /\ senses' = Append(senses, LiteralSense(l))
      /\ rhss' = Append(rhss, -Form[l[1]].rest)
      /\ rows' = Append(rows, NewRow(l))
      /\ toRow' = [m \in DOMAIN toRow \cup {l} |-> IF m = l THEN n ELSE toRow[m]]
      /\ todo' = Tail(todo) /\ pc' = pc /\ failed' = failed
  BY DEF AddRow
<1>2. /\ pc = "adding" /\ solver' = solver /\ bound' = bound /\ obj' = obj
      /\ toEnable' = toEnable /\ asked' = asked
  BY <1>1 DEF AddLiteral, checkVars
<1>3. /\ LPTypeOK /\ ArraysOK /\ ArraysAligned
  BY DEF LPIInv
<1>4. /\ rows \in Seq(LPRow)
      /\ senses \in Seq(RowSense) /\ rhss \in Seq(Int)
      /\ Len(rows) \in Nat /\ DOMAIN rows = 1 .. Len(rows)
  BY <1>3 DEF ArraysOK
<1>5. /\ DOMAIN toRow' = DOMAIN toRow \cup {l}
      /\ \A m \in DOMAIN toRow : toRow'[m] = toRow[m]
      /\ toRow'[l] = n
  BY <1>1
<1>6. /\ l \in TheoryLit /\ LiteralSense(l) \in RowSense
      /\ NewRow(l) \in LPRow
      /\ NewRow(l).coef = Form[l[1]].coef
      /\ -Form[l[1]].rest \in Int
  BY <1>1, RowFacts
<1> HIDE DEF l
<1>7. /\ Len(rows') = n /\ Len(senses') = Len(senses) + 1 /\ Len(rhss') = Len(rhss) + 1
      /\ \A i \in 1 .. Len(rows) : rows'[i] = rows[i]
      /\ rows'[n] = NewRow(l)
      /\ DOMAIN rows' = 1 .. n
      /\ \A i \in 1 .. Len(senses) : senses'[i] = senses[i]
      /\ senses'[Len(senses) + 1] = LiteralSense(l)
      /\ \A i \in 1 .. Len(rhss) : rhss'[i] = rhss[i]
      /\ rhss'[Len(rhss) + 1] = -Form[l[1]].rest
      /\ rows' \in Seq(LPRow)
      /\ senses' \in Seq(RowSense) /\ rhss' \in Seq(Int)
  BY <1>1, <1>4, <1>6, AppendProperties
<1>8. /\ (\A m \in open \cup UNION clauses : Settled(m))'
      /\ Tail(todo) \in Seq(Lit)
      /\ open' \subseteq Lit /\ clauses' \subseteq Clause /\ cols' \subseteq Col
  BY <1>1, <1>5, AddLiteralSettles DEF l
<1>9. LPTypeOK'
  <2>1. \A m \in DOMAIN toRow' :
          toRow'[m] \in DOMAIN rows' /\ rows'[toRow'[m]].coef = Form[m[1]].coef
    <3> TAKE m \in DOMAIN toRow'
    <3>1. CASE m = l
      BY <3>1, <1>5, <1>6, <1>7, <1>4
    <3>2. CASE m # l
      BY <3>2, <1>3, <1>4, <1>5, <1>7 DEF LPTypeOK
    <3> QED BY <3>1, <3>2
  <2>2. Len(senses') = Len(rhss') /\ Len(rows') <= Len(senses')
    BY <1>3, <1>4, <1>7 DEF LPTypeOK
  <2> QED BY <2>1, <2>2, <1>1, <1>2, <1>3, <1>5, <1>6, <1>8 DEF LPTypeOK
<1>10. ArraysOK'
  BY <1>1, <1>3, <1>5, <1>7 DEF ArraysOK, WantsRow, Unsupported, BadTerm, LiteralSense
<1>11. ArraysAligned'
  <2> SUFFICES ASSUME failed => solver = "qsoptex"
               PROVE  /\ Len(rows') = Len(senses')
                      /\ \A m \in DOMAIN toRow' :
                           /\ senses'[toRow'[m]] = LiteralSense(m)
                           /\ rhss'[toRow'[m]] = -Form[m[1]].rest
    BY <1>1, <1>2 DEF ArraysAligned, LiteralSense
  <2>1. /\ Len(rows) = Len(senses) /\ Len(rows) = Len(rhss)
        /\ \A m \in DOMAIN toRow : /\ senses[toRow[m]] = LiteralSense(m)
                                   /\ rhss[toRow[m]] = -Form[m[1]].rest
                                   /\ toRow[m] \in 1 .. Len(rows)
    BY <1>3, <1>4 DEF ArraysAligned, LPTypeOK
  <2>2. ASSUME NEW m \in DOMAIN toRow
        PROVE  /\ senses'[toRow'[m]] = LiteralSense(m)
               /\ rhss'[toRow'[m]] = -Form[m[1]].rest
    <3>1. toRow'[m] = toRow[m] /\ toRow[m] \in 1 .. Len(senses) /\ toRow[m] \in 1 .. Len(rhss)
      BY <2>1, <1>5
    <3>2. senses'[toRow[m]] = senses[toRow[m]] /\ rhss'[toRow[m]] = rhss[toRow[m]]
      BY <3>1, <1>7
    <3> QED BY <3>1, <3>2, <2>1
  <2>3. /\ senses'[toRow'[l]] = LiteralSense(l)
        /\ rhss'[toRow'[l]] = -Form[l[1]].rest
    BY <2>1, <1>5, <1>7
  <2> QED BY <2>1, <2>2, <2>3, <1>5, <1>7
<1> QED BY <1>1, <1>2, <1>8, <1>9, <1>10, <1>11 DEF LPIInv

(* A rejected formula leaves a sense and a right-hand side that no index   *)
(* points to, and with QSopt_ex a row that is aligned with them.           *)
LEMMA AddRowThrowsPreserves ==
  ASSUME LPIInv, AddRowThrows
  PROVE  LPIInv'
<1> DEFINE l == Head(todo)
           v == IF BadTerm(l[1]) THEN 0 ELSE -Form[l[1]].rest
<1>1. /\ AddLiteral /\ Unsupported(l)
      /\ senses' = Append(senses, LiteralSense(l))
      /\ rhss' = Append(rhss, v)
      /\ rows' = IF solver = "qsoptex" THEN Append(rows, NewRow(l)) ELSE rows
      /\ pc' = "idle" /\ todo' = <<>> /\ failed' = TRUE /\ toRow' = toRow
  BY DEF AddRowThrows
<1>2. /\ pc = "adding" /\ solver' = solver /\ bound' = bound /\ obj' = obj
      /\ toEnable' = toEnable /\ asked' = asked
  BY <1>1 DEF AddLiteral, checkVars
<1>3. /\ LPTypeOK /\ ArraysOK /\ ArraysAligned
  BY DEF LPIInv
<1>4. /\ rows \in Seq(LPRow)
      /\ senses \in Seq(RowSense) /\ rhss \in Seq(Int)
      /\ Len(rows) \in Nat /\ DOMAIN rows = 1 .. Len(rows)
      /\ Len(senses) \in Nat /\ Len(rhss) = Len(senses)
  BY <1>3 DEF ArraysOK, LPTypeOK
<1>5. /\ LiteralSense(l) \in RowSense /\ v \in Int
      /\ NewRow(l) \in LPRow
  BY <1>1, RowFacts DEF Unsupported
<1> HIDE DEF l, v
<1>6. /\ Len(senses') = Len(senses) + 1 /\ Len(rhss') = Len(rhss) + 1
      /\ \A i \in 1 .. Len(senses) : senses'[i] = senses[i] /\ rhss'[i] = rhss[i]
      /\ senses' \in Seq(RowSense) /\ rhss' \in Seq(Int)
  BY <1>1, <1>4, <1>5, AppendProperties
<1>7. /\ rows' \in Seq(LPRow)
      /\ DOMAIN rows \subseteq DOMAIN rows'
      /\ \A i \in 1 .. Len(rows) : rows'[i] = rows[i]
      /\ Len(rows') = IF solver = "qsoptex" THEN Len(rows) + 1 ELSE Len(rows)
  <2>1. CASE solver = "qsoptex"
    <3>1. rows' = Append(rows, NewRow(l))
      BY <1>1, <2>1
    <3>2. /\ Len(rows') = Len(rows) + 1
          /\ DOMAIN rows' = 1 .. Len(rows) + 1
          /\ \A i \in 1 .. Len(rows) : rows'[i] = rows[i]
          /\ rows' \in Seq(LPRow)
      BY <3>1, <1>4, <1>5, AppendProperties
    <3> QED BY <3>2, <2>1, <1>4
  <2>2. CASE solver # "qsoptex"
    BY <1>1, <1>4, <2>2
  <2> QED BY <2>1, <2>2
<1>8. /\ (\A m \in open \cup UNION clauses : Settled(m))'
      /\ open' \subseteq Lit /\ clauses' \subseteq Clause /\ cols' \subseteq Col
  BY <1>1, AddLiteralSettles DEF l
<1>9. LPTypeOK'
  <2>1. \A m \in DOMAIN toRow :
          toRow[m] \in DOMAIN rows' /\ rows'[toRow[m]].coef = Form[m[1]].coef
    BY <1>3, <1>4, <1>7 DEF LPTypeOK
  <2>2. Len(senses') = Len(rhss') /\ Len(rows') <= Len(senses')
    BY <1>3, <1>4, <1>6, <1>7 DEF LPTypeOK
  <2>3. todo' \in Seq(Lit)
    BY <1>1
  <2> QED BY <2>1, <2>2, <2>3, <1>1, <1>2, <1>3, <1>8 DEF LPTypeOK
<1>10. ArraysOK'
  BY <1>1, <1>3, <1>6, <1>7 DEF ArraysOK, WantsRow, Unsupported, BadTerm, LiteralSense
<1>11. ArraysAligned'
  <2> SUFFICES ASSUME solver = "qsoptex"
               PROVE  /\ Len(rows') = Len(senses')
                      /\ \A m \in DOMAIN toRow :
                           /\ senses'[toRow[m]] = LiteralSense(m)
                           /\ rhss'[toRow[m]] = -Form[m[1]].rest
    BY <1>1, <1>2 DEF ArraysAligned, LiteralSense
  <2>1. /\ Len(rows) = Len(senses)
        /\ \A m \in DOMAIN toRow : /\ senses[toRow[m]] = LiteralSense(m)
                                   /\ rhss[toRow[m]] = -Form[m[1]].rest
                                   /\ toRow[m] \in 1 .. Len(rows)
    BY <1>3, <1>4 DEF ArraysAligned, LPTypeOK
  <2> QED BY <2>1, <1>4, <1>6, <1>7
<1> QED BY <1>1, <1>8, <1>9, <1>10, <1>11 DEF LPIInv

LEMMA EndClausePreserves ==
  ASSUME LPIInv, EndClause
  PROVE  LPIInv'
<1> USE DEF LPIInv, EndClause, indexVars, checkVars
<1>1. LPTypeOK'
  BY DEF LPTypeOK, Clause
<1>2. ArraysOK'
  BY DEF ArraysOK, WantsRow, Unsupported, BadTerm, LiteralSense
<1>3. ArraysAligned'
  BY DEF ArraysAligned
<1>4. open' \cup UNION clauses' = open \cup UNION clauses
  OBVIOUS
<1>5. (\A l \in open \cup UNION clauses : Settled(l))'
  BY <1>4 DEF Settled
<1> QED BY <1>1, <1>2, <1>3, <1>5

-----------------------------------------------------------------------------
(* Outside of a check.                                                     *)

(* What the step leaves alone of the arrays and the clauses.               *)
LEMMA IndexUnchanged ==
  ASSUME LPIInv, UNCHANGED <<open, clauses, indexVars>>
  PROVE  (\A l \in open \cup UNION clauses : Settled(l))'
BY DEF LPIInv, indexVars, Settled

LEMMA ObjectiveThrowsPreserves ==
  ASSUME LPIInv, NEW o \in Objs, ObjectiveThrows(o)
  PROVE  LPIInv'
<1> USE DEF LPIInv, ObjectiveThrows, clauseVars, indexVars, checkVars
<1>1. o \in [Col -> Int]
  BY ProblemAssumption
<1>2. obj' \in [Col -> Int]
  BY <1>1
<1>3. LPTypeOK'
  BY <1>2 DEF LPTypeOK
<1>4. ArraysOK'
  BY DEF ArraysOK
<1>5. ArraysAligned'
  BY DEF ArraysAligned
<1> QED BY <1>3, <1>4, <1>5, IndexUnchanged

LEMMA IdlePreserves ==
  ASSUME LPIInv,
         \/ \E o \in Objs \cup {NoObjective} : CheckFindsNone(o)
         \/ CheckAborts
         \/ SolveLP
         \/ UNCHANGED vars
  PROVE  LPIInv'
<1>1. /\ UNCHANGED <<solver, todo, open, clauses, cols, rows, senses, rhss, toRow,
                     bound, failed, toEnable>>
      /\ pc' \in {"idle", "aborted", pc} /\ obj' \in [Col -> Int]
      /\ pc' = "enabling" => UNCHANGED vars
      /\ toEnable' \subseteq asked'.lits
      /\ pc' # "adding" /\ pc = "adding" => open = {}
  <2> USE DEF LPIInv, LPTypeOK, clauseVars, indexVars, checkVars
  <2>1. CASE \E o \in Objs \cup {NoObjective} : CheckFindsNone(o)
    BY <2>1, ProblemAssumption DEF CheckFindsNone, NoObjective
  <2>2. CASE CheckAborts
    BY <2>2 DEF CheckAborts
  <2>3. CASE SolveLP
    BY <2>3 DEF SolveLP, Ready
  <2>4. CASE UNCHANGED vars
    BY <2>4 DEF vars
  <2> QED BY <2>1, <2>2, <2>3, <2>4
<1>2. LPTypeOK'
  BY <1>1 DEF LPIInv, LPTypeOK
<1>3. ArraysOK'
  BY <1>1 DEF LPIInv, ArraysOK
<1>4. ArraysAligned'
  BY <1>1 DEF LPIInv, ArraysAligned
<1>5. (\A l \in open \cup UNION clauses : Settled(l))'
  BY <1>1, IndexUnchanged DEF indexVars
<1>6. ASSUME pc' = "enabling"
      PROVE  /\ asked'.obj = obj' /\ asked'.lits \subseteq UNION clauses'
             /\ RowsSoFar' /\ BoundsSoFar'
  BY <1>1, <1>6 DEF LPIInv, vars, RowsSoFar, BoundsSoFar, EnabledLits
<1> QED BY <1>2, <1>3, <1>4, <1>5, <1>6 DEF LPIInv

-----------------------------------------------------------------------------
(* The start of a check: nothing is enabled yet, no row is in force, and   *)
(* the bounds are those of the box.                                        *)
LEMMA StartCheckPreserves ==
  ASSUME LPIInv, NEW o \in Objs \cup {NoObjective}, NEW b \in BoxesOf, StartCheck(o, b)
  PROVE  LPIInv'
<1>1. PICK S : /\ S \subseteq UNION clauses /\ toEnable' = S
               /\ asked' = [lits |-> S, box |-> b, obj |-> o]
  BY DEF StartCheck
<1>2. /\ pc = "idle" /\ open = {} /\ obj' = o
      /\ rows' = Cleared(rows)
      /\ bound' = [x \in Col |-> IF x \in cols \cap DOMAIN b THEN b[x] ELSE Unbounded]
      /\ pc' = "enabling"
      /\ UNCHANGED <<solver, todo, clauseVars, indexVars, failed>>
  BY DEF StartCheck
<1>3. /\ asked'.lits = S /\ asked'.box = b /\ asked'.obj = o /\ EnabledLits' = {}
  BY <1>1 DEF EnabledLits
<1>4. /\ Infinity \in Nat /\ -Infinity \in Int
      /\ \A p \in Point : \A x \in Col : -Infinity <= p[x] /\ p[x] <= Infinity
      /\ \A x \in DOMAIN b : x \in Col /\ b[x] \in [lo : Int, up : Int]
      /\ o \in [Col -> Int]
  BY ProblemAssumption DEF NoObjective
<1>5. /\ DOMAIN rows' = DOMAIN rows
      /\ \A i \in DOMAIN rows : rows'[i] = [rows[i] EXCEPT !.sense = "G", !.rhs = -Infinity]
  BY <1>2 DEF Cleared
<1>6. /\ rows \in Seq(LPRow)
      /\ \A i \in DOMAIN rows : rows[i] \in LPRow
  BY DEF LPIInv, ArraysOK
<1>7. \A i \in DOMAIN rows :
         /\ rows'[i] \in LPRow
         /\ rows'[i].coef = rows[i].coef /\ rows'[i].rhs = -Infinity
  <2> TAKE i \in DOMAIN rows
  <2> DEFINE r == rows[i]
  <2>1. r \in LPRow /\ rows'[i] = [r EXCEPT !.sense = "G", !.rhs = -Infinity]
    BY <1>5, <1>6
  <2> HIDE DEF r
  <2>2. /\ rows'[i] \in LPRow
        /\ rows'[i].coef = r.coef /\ rows'[i].rhs = -Infinity
    BY <2>1, <1>4 DEF LPRow, RowSense
  <2> QED BY <2>2 DEF r
<1>8. /\ rows' \in Seq(LPRow)
      /\ Len(rows') = Len(rows)
  <2>1. Len(rows) \in Nat /\ DOMAIN rows = 1 .. Len(rows)
    BY <1>6
  <2>2. rows' = [i \in 1 .. Len(rows) |-> rows'[i]]
    BY <2>1, <1>2 DEF Cleared
  <2>3. \A i \in 1 .. Len(rows) : rows'[i] \in LPRow
    BY <2>1, <1>7
  <2> QED BY <2>1, <2>2, <2>3
<1>9. bound' \in [Col -> [lo : Int, up : Int]]
  BY <1>2, <1>4 DEF Unbounded
<1>10. LPTypeOK'
  BY <1>1, <1>2, <1>3, <1>4, <1>5, <1>7, <1>8, <1>9
     DEF LPIInv, LPTypeOK, clauseVars, indexVars
<1>11. ArraysOK'
  BY <1>2, <1>8 DEF LPIInv, ArraysOK, indexVars
<1>12. ArraysAligned'
  BY <1>2, <1>8 DEF LPIInv, ArraysAligned, indexVars
<1>13. (\A l \in open \cup UNION clauses : Settled(l))'
  BY <1>2, IndexUnchanged DEF clauseVars
<1>14. RowsSoFar'
  <2>1. EnabledLits' \cap DOMAIN toRow' = {}
    BY <1>3
  <2>2. ASSUME NEW i \in DOMAIN rows'  PROVE ~(rows'[i].rhs > -Infinity)
    <3>1. rows'[i].rhs = -Infinity
      BY <1>5, <1>7
    <3> QED BY <3>1, <1>4
  <2> QED BY <2>1, <2>2 DEF RowsSoFar
<1>15. BoundsSoFar'
  <2> SUFFICES ASSUME NEW x \in Col, NEW p \in Point
               PROVE  bound'[x].lo <= p[x] /\ p[x] <= bound'[x].up <=>
                        (x \in cols \cap DOMAIN b => b[x].lo <= p[x] /\ p[x] <= b[x].up)
    BY <1>2, <1>3 DEF BoundsSoFar, indexVars
  <2>1. bound'[x] = IF x \in cols \cap DOMAIN b THEN b[x] ELSE [lo |-> -Infinity, up |-> Infinity]
    BY <1>2 DEF Unbounded
  <2> QED BY <2>1, <1>4
<1> QED BY <1>1, <1>2, <1>3, <1>10, <1>11, <1>12, <1>13, <1>14, <1>15 DEF LPIInv, clauseVars

-----------------------------------------------------------------------------
(* During a check.  The arrays do not change, and of the rows only sense   *)
(* and right-hand side do.                                                 *)

LEMMA EnableRowPreserves ==
  ASSUME LPIInv, NEW l \in toEnable, EnableRow(l)
  PROVE  LPIInv'
<1> DEFINE i == toRow[l]
<1>1. /\ pc = "enabling" /\ l \in DOMAIN toRow
      /\ toEnable' = toEnable \ {l}
      /\ rows' = [rows EXCEPT ![i].sense = senses[i], ![i].rhs = rhss[i]]
      /\ UNCHANGED <<solver, pc, todo, clauseVars, indexVars, obj, asked, failed, bound>>
  BY DEF EnableRow, Enable, IsNext
<1>2. LPTypeOK /\ ArraysOK /\ ArraysAligned /\ RowsSoFar /\ BoundsSoFar
  BY <1>1 DEF LPIInv
<1>3. /\ rows \in Seq(LPRow) /\ i \in DOMAIN rows
      /\ senses[i] \in RowSense /\ rhss[i] \in Int
      /\ Len(rows) \in Nat /\ DOMAIN rows = 1 .. Len(rows)
      /\ \A j \in DOMAIN rows : rows[j] \in LPRow
  <2>1. /\ rows \in Seq(LPRow) /\ i \in DOMAIN rows
        /\ senses \in Seq(RowSense) /\ rhss \in Seq(Int)
        /\ Len(rows) <= Len(senses) /\ Len(senses) = Len(rhss)
    BY <1>1, <1>2 DEF LPTypeOK, ArraysOK
  <2> HIDE DEF i
  <2>2. i \in 1 .. Len(senses) /\ i \in 1 .. Len(rhss)
    BY <2>1
  <2>3. senses[i] \in RowSense /\ rhss[i] \in Int
    BY <2>1, <2>2
  <2> QED BY <2>1, <2>3
<1> HIDE DEF i
<1>4. /\ DOMAIN rows' = DOMAIN rows
      /\ \A j \in DOMAIN rows : j # i => rows'[j] = rows[j]
      /\ rows'[i] = [rows[i] EXCEPT !.sense = senses[i], !.rhs = rhss[i]]
  BY <1>1, <1>3
<1>5. /\ rows'[i] \in LPRow /\ rows'[i].coef = rows[i].coef
      /\ rows'[i].sense = senses[i] /\ rows'[i].rhs = rhss[i]
  BY <1>3, <1>4 DEF LPRow
<1>6. rows' \in Seq(LPRow) /\ Len(rows') = Len(rows)
  <2>1. rows' = [j \in 1 .. Len(rows) |-> rows'[j]]
    BY <1>1, <1>3
  <2>2. \A j \in 1 .. Len(rows) : rows'[j] \in LPRow
    BY <1>3, <1>4, <1>5
  <2> QED BY <2>1, <2>2, <1>3
<1>7. EnabledLits' = EnabledLits \cup {l}
  BY <1>1, <1>2 DEF EnabledLits, LPTypeOK
<1>8. LPTypeOK'
  <2>1. \A m \in DOMAIN toRow :
          toRow[m] \in DOMAIN rows' /\ rows'[toRow[m]].coef = Form[m[1]].coef
    BY <1>2, <1>4, <1>5 DEF LPTypeOK
  <2> QED BY <2>1, <1>1, <1>2, <1>6 DEF LPTypeOK, clauseVars, indexVars
<1>9. ArraysOK'
  BY <1>1, <1>2, <1>6 DEF ArraysOK, indexVars
<1>10. ArraysAligned'
  BY <1>1, <1>2, <1>6 DEF ArraysAligned, indexVars
<1>11. (\A m \in open \cup UNION clauses : Settled(m))'
  BY <1>1, IndexUnchanged DEF clauseVars
<1>12. RowsSoFar'
  <2>1. toRow' = toRow /\ senses' = senses /\ rhss' = rhss
    BY <1>1 DEF indexVars
  <2>2. \A m \in (EnabledLits \cup {l}) \cap DOMAIN toRow :
          rows'[toRow[m]].sense = senses[toRow[m]] /\ rows'[toRow[m]].rhs = rhss[toRow[m]]
    <3> TAKE m \in (EnabledLits \cup {l}) \cap DOMAIN toRow
    <3>1. CASE toRow[m] = i
      BY <3>1, <1>5
    <3>2. CASE toRow[m] # i
      <4>1. m # l
        BY <3>2 DEF i
      <4> QED BY <3>2, <4>1, <1>2, <1>4 DEF RowsSoFar, LPTypeOK
    <3> QED BY <3>1, <3>2
  <2>3. \A j \in DOMAIN rows : rows'[j].rhs > -Infinity =>
          \E m \in (EnabledLits \cup {l}) \cap DOMAIN toRow : toRow[m] = j
    <3> TAKE j \in DOMAIN rows
    <3>1. CASE j = i
      BY <3>1, <1>1 DEF i
    <3>2. CASE j # i
      BY <3>2, <1>2, <1>4 DEF RowsSoFar
    <3> QED BY <3>1, <3>2
  <2> QED BY <2>1, <2>2, <2>3, <1>4, <1>7 DEF RowsSoFar
<1>13. BoundsSoFar'
  <2>1. ~IsBound(l)
    BY <1>1, <1>2, RowFacts DEF ArraysOK
  <2> QED BY <2>1, <1>1, <1>2, <1>7 DEF BoundsSoFar, indexVars
<1> QED BY <1>1, <1>8, <1>9, <1>10, <1>11, <1>12, <1>13 DEF LPIInv, clauseVars

LEMMA EnableNothingPreserves ==
  ASSUME LPIInv, NEW l \in toEnable, EnableNothing(l)
  PROVE  LPIInv'
<1>1. /\ pc = "enabling" /\ l \notin DOMAIN toRow /\ ~IsBound(l)
      /\ toEnable' = toEnable \ {l}
      /\ UNCHANGED <<solver, pc, todo, clauseVars, indexVars, obj, asked, failed, rows, bound>>
  BY DEF EnableNothing, Enable, IsNext
<1>2. LPTypeOK /\ ArraysOK /\ ArraysAligned /\ RowsSoFar /\ BoundsSoFar
  BY <1>1 DEF LPIInv
<1>3. EnabledLits' = EnabledLits \cup {l}
  BY <1>1, <1>2 DEF EnabledLits, LPTypeOK
<1>4. LPTypeOK'
  BY <1>1, <1>2 DEF LPTypeOK, clauseVars, indexVars
<1>5. ArraysOK'
  BY <1>1, <1>2 DEF ArraysOK, indexVars
<1>6. ArraysAligned'
  BY <1>1, <1>2 DEF ArraysAligned, indexVars
<1>7. (\A m \in open \cup UNION clauses : Settled(m))'
  BY <1>1, IndexUnchanged DEF clauseVars
<1>8. RowsSoFar'
  BY <1>1, <1>2, <1>3 DEF RowsSoFar, indexVars
<1>9. BoundsSoFar'
  BY <1>1, <1>2, <1>3 DEF BoundsSoFar, indexVars
<1> QED BY <1>1, <1>4, <1>5, <1>6, <1>7, <1>8, <1>9 DEF LPIInv, clauseVars

LEMMA EnableThrowsPreserves ==
  ASSUME LPIInv, NEW l \in toEnable, EnableThrows(l)
  PROVE  LPIInv'
<1>1. /\ pc = "enabling" /\ pc' = "idle" /\ toEnable' = {}
      /\ UNCHANGED <<solver, todo, clauseVars, indexVars, rows, bound, obj, failed>>
  BY DEF EnableThrows, IsNext
<1>2. LPTypeOK /\ ArraysOK /\ ArraysAligned
  BY DEF LPIInv
<1>3. LPTypeOK'
  BY <1>1, <1>2 DEF LPTypeOK, clauseVars, indexVars
<1>4. ArraysOK'
  BY <1>1, <1>2 DEF ArraysOK, indexVars
<1>5. ArraysAligned'
  BY <1>1, <1>2 DEF ArraysAligned, indexVars
<1>6. (\A m \in open \cup UNION clauses : Settled(m))'
  BY <1>1, IndexUnchanged DEF clauseVars
<1> QED BY <1>1, <1>3, <1>4, <1>5, <1>6 DEF LPIInv

(* A simple bound cuts the interval of its one variable, and only it.      *)
LEMMA EnableBoundPreserves ==
  ASSUME LPIInv, NEW l \in toEnable, EnableBound(l)
  PROVE  LPIInv'
<1> DEFINE x == BoundVar(l[1])
           v == BoundValue(l[1])
           lo == IF SetsLower(l) /\ bound[x].lo < v THEN v ELSE bound[x].lo
           up == IF SetsUpper(l) /\ v < bound[x].up THEN v ELSE bound[x].up
<1>1. /\ pc = "enabling" /\ IsBound(l)
      /\ toEnable' = toEnable \ {l}
      /\ bound' = [bound EXCEPT
           ![x].lo = IF SetsLower(l) /\ @ < v THEN v ELSE @,
           ![x].up = IF SetsUpper(l) /\ v < @ THEN v ELSE @]
      /\ UNCHANGED <<solver, pc, todo, clauseVars, indexVars, obj, asked, failed, rows>>
  BY DEF EnableBound, Enable, IsNext
<1>2. LPTypeOK /\ ArraysOK /\ ArraysAligned /\ RowsSoFar /\ BoundsSoFar
  BY <1>1 DEF LPIInv
<1>3. /\ x \in Col /\ v \in Int
      /\ \A p \in Point : p \in Row(l) <=> /\ SetsLower(l) => v <= p[x]
                                           /\ SetsUpper(l) => p[x] <= v
  BY <1>1, BoundFacts
<1>4. bound \in [Col -> [lo : Int, up : Int]]
  BY <1>2 DEF LPTypeOK
<1> HIDE DEF x, v
<1>5. /\ bound' \in [Col -> [lo : Int, up : Int]]
      /\ \A y \in Col : y # x => bound'[y] = bound[y]
      /\ bound'[x].lo = lo /\ bound'[x].up = up
  BY <1>1, <1>3, <1>4
<1>6. EnabledLits' = EnabledLits \cup {l}
  BY <1>1, <1>2 DEF EnabledLits, LPTypeOK
<1>7. LPTypeOK'
  BY <1>1, <1>2, <1>5 DEF LPTypeOK, clauseVars, indexVars
<1>8. ArraysOK'
  BY <1>1, <1>2 DEF ArraysOK, indexVars
<1>9. ArraysAligned'
  BY <1>1, <1>2 DEF ArraysAligned, indexVars
<1>10. (\A m \in open \cup UNION clauses : Settled(m))'
  BY <1>1, IndexUnchanged DEF clauseVars
<1>11. RowsSoFar'
  <2>1. l \notin DOMAIN toRow
    BY <1>1, <1>2, RowFacts DEF ArraysOK
  <2> QED BY <2>1, <1>1, <1>2, <1>6 DEF RowsSoFar, indexVars
<1>12. BoundsSoFar'
  <2> SUFFICES ASSUME NEW y \in Col, NEW p \in Point
               PROVE  bound'[y].lo <= p[y] /\ p[y] <= bound'[y].up <=>
                        /\ y \in cols \cap DOMAIN asked.box =>
                             asked.box[y].lo <= p[y] /\ p[y] <= asked.box[y].up
                        /\ \A m \in EnabledLits \cup {l} :
                             IsBound(m) /\ BoundVar(m[1]) = y => p \in Row(m)
    BY <1>1, <1>6 DEF BoundsSoFar, indexVars
  <2>1. bound[y].lo <= p[y] /\ p[y] <= bound[y].up <=>
          /\ y \in cols \cap DOMAIN asked.box =>
               asked.box[y].lo <= p[y] /\ p[y] <= asked.box[y].up
          /\ \A m \in EnabledLits : IsBound(m) /\ BoundVar(m[1]) = y => p \in Row(m)
    BY <1>2 DEF BoundsSoFar
  <2>2. CASE y # x
    BY <2>1, <2>2, <1>5 DEF x
  <2>3. CASE y = x
    <3>1. bound[x].lo \in Int /\ bound[x].up \in Int /\ p[x] \in Int
      BY <1>3, <1>4, ProblemAssumption
    <3>2. bound'[x].lo <= p[x] /\ p[x] <= bound'[x].up <=>
            /\ bound[x].lo <= p[x] /\ p[x] <= bound[x].up
            /\ SetsLower(l) => v <= p[x]
            /\ SetsUpper(l) => p[x] <= v
      BY <3>1, <1>3, <1>5
    <3>3. (\A m \in EnabledLits \cup {l} : IsBound(m) /\ BoundVar(m[1]) = x => p \in Row(m))
            <=> /\ \A m \in EnabledLits : IsBound(m) /\ BoundVar(m[1]) = x => p \in Row(m)
                /\ p \in Row(l)
      BY <1>1 DEF x
    <3>4. p \in Row(l) <=> (SetsLower(l) => v <= p[x]) /\ (SetsUpper(l) => p[x] <= v)
      BY <1>3
    <3> HIDE DEF lo, up
    <3> QED BY <2>1, <2>3, <3>2, <3>3, <3>4
  <2> QED BY <2>2, <2>3
<1> QED BY <1>1, <1>7, <1>8, <1>9, <1>10, <1>11, <1>12 DEF LPIInv, clauseVars

-----------------------------------------------------------------------------
(* LPIInv is inductive: what the arrays and the enabled literals have to   *)
(* do with each other, over any sequence of clauses, failures and checks.  *)
THEOREM LPInductive == Spec => []LPIInv
<1>1. Init => LPIInv
  BY LPInit
<1>2. LPIInv /\ [Next]_vars => LPIInv'
  <2> SUFFICES ASSUME LPIInv, [Next]_vars
               PROVE  LPIInv'
    OBVIOUS
  <2>1. CASE \E c \in Clauses : AddClause(c)
    BY <2>1, AddClausePreserves
  <2>2. CASE AddRowlessLiteral
    BY <2>2, AddRowlessPreserves
  <2>3. CASE AddRow
    BY <2>3, AddRowPreserves
  <2>4. CASE AddRowThrows
    BY <2>4, AddRowThrowsPreserves
  <2>5. CASE EndClause
    BY <2>5, EndClausePreserves
  <2>6. CASE \E o \in Objs : ObjectiveThrows(o)
    BY <2>6, ObjectiveThrowsPreserves
  <2>7. CASE \E o \in Objs \cup {NoObjective}, b \in BoxesOf : StartCheck(o, b)
    BY <2>7, StartCheckPreserves
  <2>8. CASE \/ \E o \in Objs \cup {NoObjective} : CheckFindsNone(o)
             \/ CheckAborts \/ SolveLP \/ UNCHANGED vars
    BY <2>8, IdlePreserves
  <2>9. CASE \E l \in toEnable : EnableRow(l)
    BY <2>9, EnableRowPreserves
  <2>10. CASE \E l \in toEnable : EnableBound(l)
    BY <2>10, EnableBoundPreserves
  <2>11. CASE \E l \in toEnable : EnableNothing(l)
    BY <2>11, EnableNothingPreserves
  <2>12. CASE \E l \in toEnable : EnableThrows(l)
    BY <2>12, EnableThrowsPreserves
  <2> QED BY <2>1, <2>2, <2>3, <2>4, <2>5, <2>6, <2>7, <2>8, <2>9, <2>10, <2>11,
             <2>12 DEF Next
<1> QED BY <1>1, <1>2, PTL DEF Spec

(* The arrays stay aligned whatever is thrown, and only a rejected formula *)
(* leaves a clause of picosat's open.                                      *)
THEOREM LPTypeCorrect == Spec => []LPTypeOK
<1>1. LPIInv => LPTypeOK
  BY DEF LPIInv
<1> QED BY <1>1, LPInductive, PTL

-----------------------------------------------------------------------------
(* A row in force for a literal allows the points the literal asks for.    *)
LEMMA RowInForce ==
  ASSUME LPTypeOK, ArraysOK, ArraysAligned, RowsSoFar,
         failed => solver = "qsoptex",
         NEW l \in EnabledLits \cap DOMAIN toRow, NEW p \in Point
  PROVE  /\ rows[toRow[l]].rhs > -Infinity
         /\ RowAllows(rows[toRow[l]], p) <=> p \in Row(l)
<1> DEFINE r == rows[toRow[l]]
           b == l[1]
<1>1. WantsRow(l) /\ ~Unsupported(l)
  BY DEF ArraysOK
<1>2. l \in TheoryLit /\ b \in TheoryVar /\ Form[b].rest \in Int
  BY <1>1, RowFacts, TheoryLitFacts
<1>3. b \notin NonLinear /\ ~TooLarge(Form[b].rest)
  BY <1>1 DEF Unsupported, BadTerm
<1>4. /\ r.sense = LiteralSense(l) /\ r.rhs = -Form[b].rest /\ r.coef = Form[b].coef
  BY DEF RowsSoFar, ArraysAligned, LPTypeOK
<1>5. Diff[b][p] \in Int
  BY <1>2, LiteralAssumption
<1>6. RowValue(Form[b].coef, p) = Diff[b][p] - Form[b].rest
  BY <1>2, <1>3, ProblemAssumption
<1> HIDE DEF r, b
<1>7. RowValue(r.coef, p) - r.rhs = Diff[b][p]
  BY <1>2, <1>4, <1>5, <1>6
<1>8. p \in Row(l) <=> RowHolds(r.sense, Diff[b][p], 0)
  BY <1>4 DEF Row, LiteralSense, b
<1>9. r.rhs > -Infinity
  BY <1>2, <1>3, <1>4, ProblemAssumption DEF TooLarge
<1> QED BY <1>7, <1>8, <1>9 DEF RowAllows, r

(* A disequality, strict or not, asks nothing.                             *)
LEMMA NoSenseNoRow ==
  ASSUME NEW l, LiteralSense(l) = "none"
  PROVE  Row(l) = Point
BY DEF Row, LiteralSense, RowHolds

(* When the theory solver reads the LP, it is the conjunction of the box   *)
(* and of the literals of picosat's model, under the objective asked for.  *)
(* Of what was enabled, a row's points are its literal's by the alignment  *)
(* of the arrays, a column's interval is its simple bounds'; a literal     *)
(* with neither is a disequality or was rejected, because every literal in *)
(* a clause went through AddLinearLiteral.                                 *)
LEMMA ReadyIsAsked == LPIInv => LPIsAsked
<1> SUFFICES ASSUME LPIInv, Ready, failed => solver = "qsoptex"
             PROVE  /\ obj = asked.obj
                    /\ LPRegion = {p \in Point :
                         /\ \A x \in cols \cap DOMAIN asked.box :
                              asked.box[x].lo <= p[x] /\ p[x] <= asked.box[x].up
                         /\ \A l \in asked.lits \cap TheoryLit : Unsupported(l) \/ p \in Row(l)}
  BY DEF LPIsAsked
<1>1. /\ LPTypeOK /\ ArraysOK /\ ArraysAligned /\ RowsSoFar /\ BoundsSoFar
      /\ obj = asked.obj /\ EnabledLits = asked.lits
      /\ \A l \in asked.lits : Settled(l)
  BY DEF LPIInv, Ready, EnabledLits
<1>2. ASSUME NEW p \in Point, p \in LPRegion, NEW x \in cols \cap DOMAIN asked.box
      PROVE  asked.box[x].lo <= p[x] /\ p[x] <= asked.box[x].up
  BY <1>1, <1>2 DEF LPRegion, BoundsSoFar, LPTypeOK
<1>3. ASSUME NEW p \in Point, p \in LPRegion,
             NEW l \in asked.lits \cap TheoryLit, ~Unsupported(l)
      PROVE  p \in Row(l)
  <2>1. CASE WantsRow(l)
    <3>1. l \in EnabledLits \cap DOMAIN toRow
      BY <2>1, <1>1, <1>3 DEF Settled
    <3>2. toRow[l] \in DOMAIN rows
      BY <3>1, <1>1 DEF LPTypeOK
    <3> QED BY <3>1, <3>2, <1>1, <1>3, RowInForce DEF LPRegion
  <2>2. CASE IsBound(l)
    <3>1. /\ BoundVar(l[1]) \in Col
          /\ BoundVar(l[1]) \in cols
      BY <2>2, <1>1, BoundFacts DEF Settled
    <3> QED BY <3>1, <2>2, <1>1, <1>3 DEF LPRegion, BoundsSoFar
  <2>3. CASE ~WantsRow(l) /\ ~IsBound(l)
    BY <2>3, NoSenseNoRow DEF WantsRow, IsBound
  <2> QED BY <2>1, <2>2, <2>3
<1>4. ASSUME NEW p \in Point,
             \A x \in cols \cap DOMAIN asked.box :
               asked.box[x].lo <= p[x] /\ p[x] <= asked.box[x].up,
             \A l \in asked.lits \cap TheoryLit : Unsupported(l) \/ p \in Row(l)
      PROVE  p \in LPRegion
  <2>1. ASSUME NEW x \in cols
        PROVE  bound[x].lo <= p[x] /\ p[x] <= bound[x].up
    <3>1. x \in Col
      BY <1>1 DEF LPTypeOK
    <3>2. ASSUME NEW l \in EnabledLits, IsBound(l)
          PROVE  p \in Row(l)
      <4>1. l \in TheoryLit /\ ~Unsupported(l)
        BY <3>2 DEF IsBound, Unsupported, WantsRow
      <4> QED BY <4>1, <1>1, <1>4
    <3> QED BY <3>1, <3>2, <1>1, <1>4 DEF BoundsSoFar
  <2>2. ASSUME NEW i \in DOMAIN rows, rows[i].rhs > -Infinity
        PROVE  RowAllows(rows[i], p)
    <3>1. PICK l \in EnabledLits \cap DOMAIN toRow : toRow[l] = i
      BY <2>2, <1>1 DEF RowsSoFar
    <3>2. l \in TheoryLit /\ ~Unsupported(l)
      BY <3>1, <1>1 DEF ArraysOK, WantsRow
    <3>3. p \in Row(l)
      BY <3>1, <3>2, <1>1, <1>4
    <3> QED BY <3>1, <3>3, <1>1, RowInForce
  <2> QED BY <2>1, <2>2 DEF LPRegion
<1> QED BY <1>1, <1>2, <1>3, <1>4 DEF LPRegion

THEOREM LPIsWhatWasAsked == Spec => []LPIsAsked
BY ReadyIsAsked, LPInductive, PTL
=============================================================================
