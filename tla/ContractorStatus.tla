-------------------------- MODULE ContractorStatus --------------------------
(***************************************************************************)
(* What the interval solver works on: boxes, constraints, and the status   *)
(* of a contraction.                                                       *)
(*                                                                         *)
(* Constraints are linear.  The integers 0, 1, ... stand for the           *)
(* floating-point numbers, Unit of them apart make an integer of the       *)
(* program.  A relation                                                    *)
(*     coef[1] * x_1 + ... + coef[n] * x_n + ycoef * y - rhs  op  0        *)
(* is [coef, ycoef, op, rhs].  A constraint is [forall, body]: a relation  *)
(* or, under "for all y", a disjunction of relations.                      *)
(***************************************************************************)
EXTENDS Integers, Sequences, SequencesExt

CONSTANTS
  Dim,         \* the variables of a box
  IntDim,      \* those of type INTEGER or BINARY
  Unit,        \* the distance of two integers
  YDomain,     \* the values of a quantified variable
  Epsilon,     \* a counterexample violates its constraint by more than this
  Precision    \* config.precision()

ASSUME ContractorStatusAssumption ==
  /\ IsFiniteSet(Dim) /\ Dim = 1 .. Cardinality(Dim) /\ Dim # {} /\ IntDim \subseteq Dim
  /\ Unit \in Nat \ {0}
  /\ YDomain \subseteq Int /\ IsFiniteSet(YDomain) /\ YDomain # {}
  /\ Epsilon \in Nat /\ Precision \in Nat

-----------------------------------------------------------------------------
(* Intervals <<lb, ub>> and boxes: an interval for each variable.          *)
Empty == <<>>
IsBox(box) == box \in [Dim -> Int \X Int]

lb(iv) == iv[1]
ub(iv) == iv[2]
diam(iv) == ub(iv) - lb(iv)
contains(iv, v) == lb(iv) <= v /\ v <= ub(iv)
is_degenerated(iv) == lb(iv) = ub(iv)
is_bisectable(iv)  == diam(iv) > 1     \* has a number between its bounds

Lower(a, b)  == IF a < b THEN a ELSE b
Higher(a, b) == IF a > b THEN a ELSE b
DivUp(a, b)  == -((-a) \div b)

(* A box with one interval replaced; empty with it.                        *)
With(box, i, iv) == IF lb(iv) > ub(iv) THEN Empty ELSE [box EXCEPT ![i] = iv]

InplaceUnion(b1, b2) ==
  CASE b1 = Empty -> b2
    [] b2 = Empty -> b1
    [] OTHER -> [i \in Dim |-> <<Lower(lb(b1[i]), lb(b2[i])), Higher(ub(b1[i]), ub(b2[i]))>>]

Changed(old, new) == IF new = Empty THEN Dim ELSE {i \in Dim : old[i] # new[i]}

Within(b1, b2) == b1 = Empty \/ \A i \in Dim : lb(b2[i]) <= lb(b1[i]) /\ ub(b1[i]) <= ub(b2[i])

(* A point is in a box, as far as some variables are concerned.            *)
CoversOn(D, box, p) == box # Empty /\ \A i \in D : contains(box[i], p[i])
Covers(box, p) == CoversOn(Dim, box, p)

Points(box) ==
  IF box = Empty THEN {}
  ELSE LET least == CHOOSE v \in {lb(box[i]) : i \in Dim} : \A i \in Dim : v <= lb(box[i])
           most  == CHOOSE v \in {ub(box[i]) : i \in Dim} : \A i \in Dim : ub(box[i]) <= v
       IN {p \in [Dim -> least .. most] : Covers(box, p)}

(* The halves of bisect_continuous and bisect_int.                         *)
Bisect(box, i) ==
  LET mid  == (lb(box[i]) + ub(box[i])) \div 2
      down == (mid \div Unit) * Unit
  IN IF i \in IntDim
     THEN << [box EXCEPT ![i] = <<DivUp(lb(box[i]), Unit) * Unit, down>>],
             [box EXCEPT ![i] = <<down + Unit, (ub(box[i]) \div Unit) * Unit>>] >>
     ELSE << [box EXCEPT ![i] = <<lb(box[i]), mid>>], [box EXCEPT ![i] = <<mid, ub(box[i])>>] >>

(* FindMaxDiam: the first bisectable candidate of the greatest width, 0    *)
(* when there is none.                                                     *)
FindMaxDiam(box, candidates) ==
  LET open == {i \in candidates : is_bisectable(box[i])}
  IN IF open = {} THEN 0
     ELSE CHOOSE i \in open :
            /\ \A j \in open : diam(box[j]) <= diam(box[i])
            /\ \A j \in open : diam(box[j]) = diam(box[i]) => i <= j

-----------------------------------------------------------------------------
(* Constraints.                                                            *)
Relation(f) == CHOOSE r \in f.body : TRUE
is_neq(f)   == ~f.forall /\ Relation(f).op = "!="
VarsOf(f)   == {i \in Dim : \E r \in f.body : r.coef[i] # 0}

(* The assertions there are.  One that mentions no variable of the box is  *)
(* not among them: without quantifier it is true or false and simplified   *)
(* away.                                                                   *)
Relations ==
  [coef : [Dim -> Int], ycoef : Int, op : {"=", "!=", "<=", "<", ">=", ">"}, rhs : Int]

IsConstraint(f) ==
  /\ f \in [forall : BOOLEAN, body : SUBSET Relations] /\ IsFiniteSet(f.body)
  /\ VarsOf(f) # {}
  /\ ~f.forall => \E r \in f.body : f.body = {r} /\ r.ycoef = 0

(* A variable against a constant.                                          *)
is_simple_relational(f) ==
  ~f.forall /\ \E i \in Dim : Relation(f).coef = [j \in Dim |-> IF i = j THEN 1 ELSE 0]

(* A strict bound of an integer variable is an integer: the program moves  *)
(* it by one.                                                              *)
IntegerBound(f) ==
  is_simple_relational(f) /\ VarsOf(f) \subseteq IntDim /\ Relation(f).op \in {"<", ">"} =>
    Relation(f).rhs % Unit = 0

Scaled(c, iv) == IF c >= 0 THEN <<c * lb(iv), c * ub(iv)>> ELSE <<c * ub(iv), c * lb(iv)>>
Plus(iv, jv)  == <<lb(iv) + lb(jv), ub(iv) + ub(jv)>>

(* Interval value of the terms over some variables, summed up from the     *)
(* first on.                                                               *)
ValueOver(dims, r, y, box) ==
  LET Sum[n \in 0 .. Cardinality(Dim)] ==
        IF n = 0 THEN <<r.ycoef * y - r.rhs, r.ycoef * y - r.rhs>>
        ELSE IF n \in dims THEN Plus(Sum[n - 1], Scaled(r.coef[n], box[n]))
        ELSE Sum[n - 1]
  IN Sum[Cardinality(Dim)]
Value(r, y, box) == ValueOver(Dim, r, y, box)

(* Its value at a point.                                                   *)
At(r, y, p) ==
  LET Sum[n \in 0 .. Cardinality(Dim)] ==
        IF n = 0 THEN r.ycoef * y - r.rhs ELSE Sum[n - 1] + r.coef[n] * p[n]
  IN Sum[Cardinality(Dim)]

Compare(v, op) ==
  CASE op = "="  -> v = 0
    [] op = "!=" -> v # 0
    [] op = "<=" -> v <= 0
    [] op = "<"  -> v < 0
    [] op = ">=" -> v >= 0
    [] op = ">"  -> v > 0

Satisfies(p, f) == \A y \in YDomain : \E r \in f.body : Compare(At(r, y, p), r.op)

(* The solutions the program must not lose: integer where it matters.      *)
Solutions(box, fs) ==
  {p \in Points(box) : /\ \A i \in IntDim : p[i] % Unit = 0
                       /\ \A f \in fs : Satisfies(p, f)}

-----------------------------------------------------------------------------
(* ContractorStatus: a box, the dimensions changed since the last reset,   *)
(* the constraints used so far, and the variables an empty box is due to.  *)
AddUsedConstraints(st, fs) ==
  [st EXCEPT !.used    = @ \cup fs,
             !.witness = IF st.box = Empty THEN @ \cup UNION {VarsOf(f) : f \in fs} ELSE @]
AddUsedConstraint(st, f) == AddUsedConstraints(st, {f})

InplaceJoin(st1, st2) ==
  [box     |-> InplaceUnion(st1.box, st2.box),
   output  |-> st1.output \cup st2.output,
   used    |-> st1.used \cup st2.used,
   witness |-> st1.witness \cup st2.witness]

(* The constraints connected to the witnesses through common variables:    *)
(* the least set that has those with a witness and, with a constraint,     *)
(* those that share a variable with it.                                    *)
GenerateExplanation(witness, used) ==
  LET Closed(E) == \A f \in used :
        VarsOf(f) \cap (witness \cup UNION {VarsOf(g) : g \in E}) # {} => f \in E
  IN {f \in used : \A E \in SUBSET used : Closed(E) => f \in E}

(* What a status says of a point as far as the variables D go: nothing is  *)
(* against it if D has the witnesses, the constraints used connect it with *)
(* no other variable, and the point satisfies those on D.                  *)
Admits(st, D, p) ==
  /\ st.witness \subseteq D
  /\ \A f \in st.used : VarsOf(f) \cap D # {} => VarsOf(f) \subseteq D /\ Satisfies(p, f)

NewStatus(box) == [box |-> box, output |-> {}, used |-> {}, witness |-> {}]
=============================================================================
