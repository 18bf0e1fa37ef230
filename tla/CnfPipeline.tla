----------------------------- MODULE CnfPipeline -----------------------------
(***************************************************************************)
(* What happens to a formula between Context::Assert and the SAT solver:   *)
(* if-then-else expressions are replaced by variables, the result is put   *)
(* in negation normal form and in clauses that name its subformulas, and   *)
(* the predicates left in the clauses are replaced by the Boolean          *)
(* variables the SAT solver decides.  The SAT solvers have Plaisted and    *)
(* Greenbaum's conversion, with one-sided names; Tseitin's, with two-sided *)
(* ones, is only in the library, and is tried in its place.                *)
(*                                                                         *)
(* The code numbers its new variables with counters; here a new variable   *)
(* is named by the call and by what it stands for, so two occurrences of   *)
(* one subformula share a variable whose definition is the same.           *)
(***************************************************************************)
EXTENDS Formulas, SequencesExt

CONSTANTS
  Pool,          \* the formulas that are asserted
  Later,         \* those asserted when there is one already
  MaxFormulas,   \* bound: formulas asserted in one context
  Delta,         \* the precision formulas are strengthened by
  SampleOf(_)    \* the values at which an original variable is tried

ASSUME CnfAssumption ==
  /\ Later \subseteq Pool
  /\ MaxFormulas \in Nat /\ Delta \in Nat \ {0}

VARIABLES
  cnfizer,   \* which of the two conversions is tried
  asserted,  \* the formulas asserted, in order
  clauses,   \* for each of them the clauses the SAT solver got
  atoms      \* the predicates that have a Boolean variable, the i-th b_i

vars == <<cnfizer, asserted, clauses, atoms>>

(* New variables: of an if-then-else, of a subformula, of a predicate.     *)
IteVar(k, e, guard) == <<"ITE", k, e, guard>>
Name(k, f)          == <<"name", k, f>>
PredVar(i)          == <<"b", i>>

-----------------------------------------------------------------------------
(* Nnfizer.  polarity: f itself or its negation; push: whether a negated   *)
(* relation becomes the opposite relation.                                 *)

RECURSIVE Nnf(_, _, _)
Nnf(f, polarity, push) ==
  CASE Kind(f) = "not" -> Nnf(f[2], ~polarity, push)
    [] Kind(f) = "rel" /\ ~polarity /\ push -> Rel(Complement(f[2]), f[3], f[4])
    [] Kind(f) \in {"and", "or"} ->
         LET operands == {Nnf(g, polarity, push) : g \in Operands(f)}
         IN  IF (Kind(f) = "and") = polarity THEN And(operands) ELSE Or(operands)
    [] OTHER           -> IF polarity THEN f ELSE Neg(f)

-----------------------------------------------------------------------------
(* IfThenElseEliminator.  guard is the condition under which the           *)
(* expression is reached.  A quantified formula has an eliminator of its   *)
(* own, whose variables join the quantified ones: it works on the negated  *)
(* formula, where they are existential, and negates the result again.      *)
RECURSIVE NoIte(_, _, _), NoIteIn(_, _, _), Added(_, _, _), AddedIn(_, _, _)

NoIte(e, guard, k) ==
  CASE Kind(e) = "plus" -> Plus(NoIte(e[2], guard, k), NoIte(e[3], guard, k))
    [] Kind(e) = "ite"  -> Var(IteVar(k, e, guard))
    [] OTHER            -> e

(* The guards of the branches of an if-then-else.                          *)
Branches(e, guard, k) ==
  LET c == NoIteIn(e[2], guard, k)
  IN  <<And({guard, c}), And({guard, Neg(c)})>>

(* On a branch the new variable has the value of the branch.               *)
DefinedAs(e, guard, k) ==
  LET branch == Branches(e, guard, k)
  IN  {imply(branch[i], Rel("=", Var(IteVar(k, e, guard)), NoIte(e[i + 2], branch[i], k)))
        : i \in 1 .. 2}

Added(e, guard, k) ==
  CASE Kind(e) = "plus" -> Added(e[2], guard, k) \cup Added(e[3], guard, k)
    [] Kind(e) = "ite"  ->
         LET branch == Branches(e, guard, k)
         IN  AddedIn(e[2], guard, k) \cup DefinedAs(e, guard, k)
             \cup Added(e[3], branch[1], k) \cup Added(e[4], branch[2], k)
    [] OTHER            -> {}

(* Process; quantified formulas are closed over their own new variables.   *)
RECURSIVE ProcessIte(_, _)
ProcessForall(f, k) ==
  LET inner      == Append(k, f)
      eliminated == ProcessIte(Neg(f[3]), inner)
      new        == {v \in Free(eliminated) : v[1] = "ITE" /\ v[2] = inner}
  IN  Forall(f[2] \cup new, Nnf(Neg(eliminated), TRUE, FALSE))

NoIteIn(f, guard, k) ==
  CASE Kind(f) = "rel"    -> Rel(f[2], NoIte(f[3], guard, k), NoIte(f[4], guard, k))
    [] Kind(f) = "not"    -> Neg(NoIteIn(f[2], guard, k))
    [] Kind(f) = "and"    -> And({NoIteIn(g, guard, k) : g \in Operands(f)})
    [] Kind(f) = "or"     -> Or({NoIteIn(g, guard, k) : g \in Operands(f)})
    [] Kind(f) = "forall" -> ProcessForall(f, k)
    [] OTHER              -> f

AddedIn(f, guard, k) ==
  CASE Kind(f) = "rel"           -> Added(f[3], guard, k) \cup Added(f[4], guard, k)
    [] Kind(f) = "not"           -> AddedIn(f[2], guard, k)
    [] Kind(f) \in {"and", "or"} -> UNION {AddedIn(g, guard, k) : g \in Operands(f)}
    [] OTHER                     -> {}

ProcessIte(f, k) == And({NoIteIn(f, True, k)} \cup AddedIn(f, True, k))

-----------------------------------------------------------------------------
(* NaiveCnfizer: distributes, for the formulas under a quantifier.         *)
Distribute(cnf1, cnf2) ==
  And({Or({c1, c2}) : c1 \in get_clauses(cnf1), c2 \in get_clauses(cnf2)})

RECURSIVE NaiveVisit(_)
NaiveCnf(f) == NaiveVisit(Nnf(f, TRUE, TRUE))

NaiveVisit(f) ==
  CASE Kind(f) = "rel" /\ f[2] = "="  -> And({Rel(">=", f[3], f[4]), Rel("<=", f[3], f[4])})
    [] Kind(f) = "rel" /\ f[2] = "!=" -> Or({Rel(">", f[3], f[4]), Rel("<", f[3], f[4])})
    [] Kind(f) = "and"    -> And({NaiveVisit(g) : g \in Operands(f)})
    [] Kind(f) = "or"     -> FoldSet(Distribute, False, {NaiveVisit(g) : g \in Operands(f)})
    [] Kind(f) = "forall" -> Forall(f[2], NaiveVisit(Nnf(f[3], TRUE, TRUE)))
    [] OTHER              -> f

(* The clauses of a quantified formula, the quantifier on each that has    *)
(* its variables; extra is a literal every clause gets.                    *)
PushedForall(f, extra) ==
  {LET new == Or(extra \cup get_clauses(IF Kind(c) = "or" THEN And(Operands(c)) ELSE c))
   IN  IF HaveIntersection(Free(c), f[2]) THEN Forall(f[2], new) ELSE new
    : c \in get_clauses(NaiveCnf(f[3]))}

-----------------------------------------------------------------------------
(* PlaistedGreenbaumCnfizer: a name for each conjunction, disjunction and  *)
(* quantified formula, and the clauses of "the name implies it".           *)
NamedUnlessAnd(f) == Kind(f) \in {"or", "forall"}   \* fault: no name for a conjunction

Named(f) == Kind(f) \in {"and", "or", "forall"}
Visit(f, k) == IF Named(f) THEN Bool(Name(k, f)) ELSE f

(* Fault: the clause of a disjunction does not depend on its name.         *)
PGClausesUnnamed(f, k) ==
  LET b == Neg(Bool(Name(k, f)))
  IN  CASE Kind(f) = "and"    -> {Or({b, Visit(g, k)}) : g \in Operands(f)}
        [] Kind(f) = "or"     -> {Or({Visit(g, k) : g \in Operands(f)})}
        [] Kind(f) = "forall" -> PushedForall(f, {b})
        [] OTHER              -> {}

PGClauses(f, k) ==
  LET b == Neg(Bool(Name(k, f)))
  IN  CASE Kind(f) = "and"    -> {Or({b, Visit(g, k)}) : g \in Operands(f)}
        [] Kind(f) = "or"     -> {Or({b} \cup {Visit(g, k) : g \in Operands(f)})}
        [] Kind(f) = "forall" -> PushedForall(f, {b})
        [] OTHER              -> {}

RECURSIVE PGAux(_, _)
PGAux(f, k) ==
  PGClauses(f, k) \cup
  (IF Kind(f) \in {"and", "or"} THEN UNION {PGAux(g, k) : g \in Operands(f)} ELSE {})

PlaistedGreenbaum(f, k) ==
  LET g == Nnf(f, TRUE, TRUE)
  IN  PGAux(g, k) \cup {Visit(g, k)}

-----------------------------------------------------------------------------
(* TseitinCnfizer: two-sided names, negations of compound formulas         *)
(* included; the outermost name is asserted by asserting what it stands    *)
(* for.  What a quantifier leaves may be a clause, not a literal: its      *)
(* negation is no literal either.                                          *)
TseitinNamed(f) ==
  CASE Kind(f) \in {"and", "or"} -> TRUE
    [] Kind(f) = "not"           -> ~is_atomic(f[2])
    [] Kind(f) = "forall"        -> Cardinality(PushedForall(f, {})) > 1
    [] OTHER                     -> FALSE

TseitinHead(f, k) ==
  CASE TseitinNamed(f)      -> Bool(Name(k, f))
    [] Kind(f) = "forall"   -> CHOOSE g \in PushedForall(f, {}) : TRUE
    [] OTHER                -> f

(* What a name stands for, over the names of the operands.                 *)
TseitinBody(f, k) ==
  CASE Kind(f) = "and"    -> And({TseitinHead(g, k) : g \in Operands(f)})
    [] Kind(f) = "or"     -> Or({TseitinHead(g, k) : g \in Operands(f)})
    [] Kind(f) = "not"    -> Neg(TseitinHead(f[2], k))
    [] Kind(f) = "forall" -> And(PushedForall(f, {}))

(* b <=> body in clauses, for the bodies that have a conversion.           *)
HasCnf(body) == Kind(body) \in {"and", "or", "not"}

Cnfize(b, body) ==
  CASE Kind(body) = "and" ->
         {Or({Neg(b), g}) : g \in Operands(body)}
         \cup {Or({Neg(g) : g \in Operands(body)} \cup {b})}
    [] Kind(body) = "or"  ->
         {Or({Neg(b), body})} \cup {Or({Neg(g), b}) : g \in Operands(body)}
    [] Kind(body) = "not" -> {imply(b, body), imply(body, b)}

RECURSIVE SubNamed(_)
SubNamed(f) ==
  (IF TseitinNamed(f) THEN {f} ELSE {}) \cup
  (CASE Kind(f) \in {"and", "or"} -> UNION {SubNamed(g) : g \in Operands(f)}
     [] Kind(f) = "not" /\ ~is_atomic(f[2]) -> SubNamed(f[2])
     [] OTHER -> {})

Tseitin(f, k) ==
  IF ~TseitinNamed(f) THEN {TseitinHead(f, k)}
  ELSE get_clauses(TseitinBody(f, k))
       \cup (UNION {Cnfize(Bool(Name(k, g)), TseitinBody(g, k)) : g \in SubNamed(f) \ {f}}
             \ {True})

(* The operands of a connective may become one when they are transformed.  *)
TseitinThrows(f, k) == \E g \in SubNamed(f) \ {f} : ~HasCnf(TseitinBody(g, k))

-----------------------------------------------------------------------------
(* PredicateAbstractor: one Boolean variable stands for a relation, and    *)
(* its negation for the opposite relation.                                 *)

(* Fault: each relation gets a variable of its own.                        *)
OwnAtom(f) == <<f, TRUE>>

(* The predicate that has the variable, and the sign.                      *)
Atom(f) ==
  IF Kind(f) = "rel" /\ f[2] \in {"!=", ">", ">="}
  THEN <<Rel(Complement(f[2]), f[3], f[4]), FALSE>>
  ELSE <<f, TRUE>>

IsPredicate(f) == Kind(f) \in {"rel", "forall"}

RECURSIVE Predicates(_)
Predicates(f) ==
  CASE IsPredicate(f)            -> {Atom(f)[1]}
    [] Kind(f) = "not"           -> Predicates(f[2])
    [] Kind(f) \in {"and", "or"} -> UNION {Predicates(g) : g \in Operands(f)}
    [] OTHER                     -> {}

(* The abstraction when the i-th of known has the variable b_i.            *)
RECURSIVE Abstract(_, _)
Abstract(f, known) ==
  CASE IsPredicate(f) ->
         LET b == Bool(PredVar(CHOOSE i \in DOMAIN known : known[i] = Atom(f)[1]))
         IN  IF Atom(f)[2] THEN b ELSE Neg(b)
    [] Kind(f) = "not" -> Neg(Abstract(f[2], known))
    [] Kind(f) = "and" -> And({Abstract(g, known) : g \in Operands(f)})
    [] Kind(f) = "or"  -> Or({Abstract(g, known) : g \in Operands(f)})
    [] OTHER           -> f

NewPredicates(fs) == UNION {Predicates(f) : f \in fs} \ ToSet(atoms)

-----------------------------------------------------------------------------
Init ==
  /\ cnfizer \in {"PlaistedGreenbaum", "Tseitin"}
  /\ asserted = <<>> /\ clauses = <<>> /\ atoms = <<>>

(* Context::Assert: eliminate, convert, abstract each clause and pass it   *)
(* to the SAT solver, unless the conversion throws.                        *)
AddFormula(f) ==
  LET k      == <<Len(asserted) + 1>>
      noIte  == ProcessIte(f, k)
      cnf    == IF cnfizer = "Tseitin" THEN Tseitin(noIte, k) ELSE PlaistedGreenbaum(noIte, k)
  IN  /\ Len(asserted) < MaxFormulas
      /\ asserted # <<>> => f \in Later
      /\ IF cnfizer = "Tseitin" /\ TseitinThrows(noIte, k) THEN UNCHANGED <<asserted, clauses, atoms>>
         ELSE /\ asserted' = Append(asserted, f)
              /\ atoms' = FoldSet(LAMBDA q, known : Append(known, q), atoms, NewPredicates(cnf))
              /\ clauses' = Append(clauses, {Abstract(c, atoms') : c \in cnf})
      /\ UNCHANGED cnfizer

Next == \E f \in Pool : AddFormula(f)

Spec == Init /\ [][Next]_vars

-----------------------------------------------------------------------------
IsLiteral(f) ==
  \/ Kind(f) = "bool"
  \/ Kind(f) = "not" /\ Kind(f[2]) = "bool"

LiteralsOf(c) == IF Kind(c) = "or" THEN Operands(c) ELSE {c}

(* What the SAT solvers' conversion leaves, quantified formulas with or    *)
(* without the quantified variables included, is a literal or a            *)
(* disjunction of literals over Boolean variables, as AddLiteral asserts,  *)
(* and every predicate variable in it stands for a predicate.              *)
ClausesInForm ==
  cnfizer = "PlaistedGreenbaum" =>
    \A i \in DOMAIN clauses : \A c \in clauses[i] :
      /\ \A l \in LiteralsOf(c) : IsLiteral(l)
      /\ \A v \in Free(c) : v[1] = "b" => v[2] \in DOMAIN atoms

(* The SAT solver cannot decide a relation in two ways: no predicate has   *)
(* two variables, none has a variable beside its opposite's.               *)
OneVariablePerPredicate ==
  \A i, j \in DOMAIN atoms : i # j =>
    /\ atoms[i] # atoms[j]
    /\ IsRelational(atoms[i]) =>
         atoms[j] # Rel(Complement(atoms[i][2]), atoms[i][3], atoms[i][4])

(* What a literal, or the negated clause that Tseitin's conversion leaves, *)
(* is about, and its value: a predicate variable has the value of its      *)
(* predicate.                                                              *)
AboutOf(l) == UNION {IF v[1] = "b" THEN Free(atoms[v[2]]) ELSE {v} : v \in Free(l)}
LiteralHolds(l, a) ==
  Holds(l, [v \in Free(l) |-> IF v[1] = "b" THEN Holds(atoms[v[2]], a) ELSE a[v]])

(* The clauses, as sets of literals, left to satisfy under a partial       *)
(* assignment.                                                             *)
Left(cs, a) ==
  LET decided(l) == AboutOf(l) \subseteq DOMAIN a
  IN  {{l \in c : ~decided(l)} :
        c \in {d \in cs : \A l \in d : decided(l) => ~LiteralHolds(l, a)}}

(* Some extension of a satisfies the clauses; a variable of a shortest     *)
(* clause is tried first.                                                  *)
RECURSIVE Satisfiable(_, _)
Satisfiable(cs, a) ==
  LET left == Left(cs, a)
  IN  /\ {} \notin left
      /\ left # {} =>
           LET c == CHOOSE c \in left : \A d \in left : Cardinality(c) <= Cardinality(d)
               v == CHOOSE v \in UNION {AboutOf(l) : l \in c} : v \notin DOMAIN a
           IN  \E n \in ValuesOf(v) : Satisfiable(left, (v :> n) @@ a)

RECURSIVE Samples(_)
Samples(V) ==
  IF V = {} THEN {<<>>}
  ELSE LET v == CHOOSE v \in V : TRUE
       IN  {(v :> n) @@ a : n \in SampleOf(v), a \in Samples(V \ {v})}

(* The conversion is faithful: an assignment of the user's variables       *)
(* satisfies the formula exactly when the new variables can be given       *)
(* values that, with it, satisfy the formula's clauses.                    *)
SameSolutions ==
  asserted # <<>> =>
    LET i == Len(asserted) IN
    \A a \in Samples(Free(asserted[i])) :
      Holds(asserted[i], a) <=>
        Satisfiable({LiteralsOf(c) : c \in clauses[i]}, a)

(* Strengthening can only lose points and weakening can only gain them,    *)
(* through any nesting of negations and connectives.                       *)
StrengthenRestricts ==
  asserted # <<>> =>
    LET f == Last(asserted) IN
    Strengthens(f) =>
      \A a \in Samples(Free(f)) :
        /\ Holds(DeltaStrengthen(f, Delta), a) => Holds(f, a)
        /\ Holds(f, a) => Holds(DeltaWeaken(f, Delta), a)
=============================================================================
