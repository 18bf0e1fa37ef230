------------------------------ MODULE Formulas ------------------------------
(***************************************************************************)
(* Formulas and linear expressions as the symbolic library builds them:    *)
(* syntax trees whose constructors simplify, what the solver asks of them  *)
(* (free variables, clauses, strengthening by a precision), and their      *)
(* value under an assignment, the reference the conversions are checked    *)
(* against.                                                                *)
(*                                                                         *)
(* A variable's name is a tuple, so that the names the user chose and the  *)
(* names the conversions introduce can be told apart.                      *)
(***************************************************************************)
EXTENDS Integers, Sequences, FiniteSets, FiniteSetsExt, TLC

CONSTANT ValuesOf(_)   \* the values a numeric variable ranges over

-----------------------------------------------------------------------------
(* Expressions.                                                            *)
Num(n)        == <<"num", n>>
Var(v)        == <<"var", v>>
Plus(e1, e2)  == <<"plus", e1, e2>>
Ite(c, e1, e2) == <<"ite", c, e1, e2>>

(* Formulas, as they are stored.                                           *)
True          == <<"true">>
False         == <<"false">>
Bool(b)       == <<"bool", b>>
Rel(op, l, r) == <<"rel", op, l, r>>
Operands(f)   == f[2]

Kind(f) == f[1]

-----------------------------------------------------------------------------
(* The simplifying constructors of the library.                            *)
Neg(f) ==
  CASE f = True        -> False
    [] f = False       -> True
    [] Kind(f) = "not" -> f[2]
    [] OTHER           -> <<"not", f>>

(* Operands of the same connective are merged, neutral ones dropped; an    *)
(* absorbing one decides, one that is alone stands for itself.             *)
LOCAL NAry(kind, neutral, absorbing, S) ==
  LET flat == UNION {IF Kind(f) = kind THEN Operands(f) ELSE {f} : f \in S}
              \ {neutral}
  IN  CASE absorbing \in flat    -> absorbing
        [] flat = {}             -> neutral
        [] Cardinality(flat) = 1 -> CHOOSE f \in flat : TRUE
        [] OTHER                 -> <<kind, flat>>

And(S) == NAry("and", True, False, S)
Or(S)  == NAry("or", False, True, S)

imply(f1, f2) == Or({Neg(f1), f2})

RECURSIVE FreeOf(_), Free(_)

(* Variables of an expression, and free variables of a formula.            *)
FreeOf(e) ==
  CASE Kind(e) = "num"  -> {}
    [] Kind(e) = "var"  -> {e[2]}
    [] Kind(e) = "plus" -> FreeOf(e[2]) \cup FreeOf(e[3])
    [] Kind(e) = "ite"  -> Free(e[2]) \cup FreeOf(e[3]) \cup FreeOf(e[4])

Free(f) ==
  CASE Kind(f) \in {"true", "false"} -> {}
    [] Kind(f) = "bool"              -> {f[2]}
    [] Kind(f) = "rel"               -> FreeOf(f[3]) \cup FreeOf(f[4])
    [] Kind(f) = "not"               -> Free(f[2])
    [] Kind(f) \in {"and", "or"}     -> UNION {Free(g) : g \in Operands(f)}
    [] Kind(f) = "forall"            -> Free(f[3]) \ f[2]

(* A quantifier binds the variables that occur, and stays without any.     *)
Forall(V, f) == <<"forall", V \cap Free(f), f>>

HaveIntersection(V1, V2) == V1 \cap V2 # {}

-----------------------------------------------------------------------------
(* Shapes.                                                                 *)
IsRelational(f) == Kind(f) = "rel"

is_atomic(f) ==
  \/ Kind(f) \in {"true", "false", "bool", "rel", "forall"}
  \/ Kind(f) = "not" /\ Kind(f[2]) \in {"bool", "rel"}

is_clause(f) ==
  \/ is_atomic(f)
  \/ Kind(f) = "not" /\ is_atomic(f[2])
  \/ Kind(f) = "or" /\ \A g \in Operands(f) : is_atomic(g)

is_cnf(f) ==
  \/ is_atomic(f) \/ is_clause(f)
  \/ Kind(f) = "and" /\ \A g \in Operands(f) : is_clause(g)

get_clauses(f) == IF Kind(f) = "and" THEN Operands(f) ELSE {f}

(* The relation that holds when op does not.                               *)
Complement(op) ==
  CASE op = "=" -> "!=" [] op = "!=" -> "="
    [] op = "<" -> ">=" [] op = ">=" -> "<"
    [] op = ">" -> "<=" [] op = "<=" -> ">"

-----------------------------------------------------------------------------
(* The meaning of expressions and formulas under an assignment a.          *)
Compare(op, m, n) ==
  CASE op = "=" -> m = n [] op = "!=" -> m # n
    [] op = "<" -> m < n [] op = ">=" -> m >= n
    [] op = ">" -> m > n [] op = "<=" -> m =< n

RECURSIVE Value(_, _), Holds(_, _)

Value(e, a) ==
  CASE Kind(e) = "num"  -> e[2]
    [] Kind(e) = "var"  -> a[e[2]]
    [] Kind(e) = "plus" -> Value(e[2], a) + Value(e[3], a)
    [] Kind(e) = "ite"  -> IF Holds(e[2], a) THEN Value(e[3], a) ELSE Value(e[4], a)

(* All functions that give each variable of V one of its values.           *)
RECURSIVE Assignments(_)
Assignments(V) ==
  IF V = {} THEN {<<>>}
  ELSE LET v == CHOOSE v \in V : TRUE
       IN  {(v :> n) @@ a : n \in ValuesOf(v), a \in Assignments(V \ {v})}

Holds(f, a) ==
  CASE Kind(f) = "true"   -> TRUE
    [] Kind(f) = "false"  -> FALSE
    [] Kind(f) = "bool"   -> a[f[2]]
    [] Kind(f) = "rel"    -> Compare(f[2], Value(f[3], a), Value(f[4], a))
    [] Kind(f) = "not"    -> ~Holds(f[2], a)
    [] Kind(f) = "and"    -> \A g \in Operands(f) : Holds(g, a)
    [] Kind(f) = "or"     -> \E g \in Operands(f) : Holds(g, a)
    [] Kind(f) = "forall" -> \A q \in Assignments(f[2]) : Holds(f[3], q @@ a)

-----------------------------------------------------------------------------
(* Strengthening by d, or weakening when d is negative: a point satisfies  *)
(* a strengthened relation only if it satisfies it with d to spare.  The   *)
(* expressions are left alone, which is sound without if-then-else.  An    *)
(* equality is not strengthened, and a disequality weakens to True.        *)
RelShifted(op, l, r, d) ==
  CASE op \in {">", ">="} -> Rel(op, l, Plus(r, Num(d)))
    [] op \in {"<", "<="} -> Rel(op, Plus(l, Num(d)), r)
    [] op = "="  -> IF d > 0 THEN Rel("=", l, r)
                    ELSE And({Rel(">=", l, Plus(r, Num(d))), Rel("<=", Plus(l, Num(d)), r)})
    [] op = "!=" -> IF d > 0
                    THEN Or({Rel(">", l, Plus(r, Num(d))), Rel("<", Plus(l, Num(d)), r)})
                    ELSE True

(* Fault: below a negation the formula is strengthened all the same.       *)
RECURSIVE ShiftedSameSign(_, _)
ShiftedSameSign(f, d) ==
  CASE Kind(f) = "rel" -> RelShifted(f[2], f[3], f[4], d)
    [] Kind(f) = "not" -> Neg(ShiftedSameSign(f[2], d))
    [] Kind(f) = "and" -> And({ShiftedSameSign(g, d) : g \in Operands(f)})
    [] Kind(f) = "or"  -> Or({ShiftedSameSign(g, d) : g \in Operands(f)})
    [] OTHER           -> f

RECURSIVE Shifted(_, _)
Shifted(f, d) ==
  CASE Kind(f) = "rel" -> RelShifted(f[2], f[3], f[4], d)
    [] Kind(f) = "not" -> Neg(Shifted(f[2], -d))
    [] Kind(f) = "and" -> And({Shifted(g, d) : g \in Operands(f)})
    [] Kind(f) = "or"  -> Or({Shifted(g, d) : g \in Operands(f)})
    [] OTHER           -> f

DeltaStrengthen(f, d) == Shifted(f, d)
DeltaWeaken(f, d)     == Shifted(f, -d)

(* Formulas the strengthening is applied to: no quantifier (an exception)  *)
(* and no if-then-else (eliminated before).                                *)
RECURSIVE HasIte(_), Strengthens(_)
HasIte(e) ==
  CASE Kind(e) = "ite"  -> TRUE
    [] Kind(e) = "plus" -> HasIte(e[2]) \/ HasIte(e[3])
    [] OTHER            -> FALSE

Strengthens(f) ==
  CASE Kind(f) = "forall"        -> FALSE
    [] Kind(f) = "rel"           -> ~HasIte(f[3]) /\ ~HasIte(f[4])
    [] Kind(f) = "not"           -> Strengthens(f[2])
    [] Kind(f) \in {"and", "or"} -> \A g \in Operands(f) : Strengthens(g)
    [] OTHER                     -> TRUE
=============================================================================
