----------------------------- MODULE Contractors -----------------------------
(***************************************************************************)
(* The contractors of the interval solver, which narrow a box to where the *)
(* constraints can hold, and the evaluators that judge a box.  Rounding is *)
(* outward, to the next number.                                            *)
(***************************************************************************)
EXTENDS ContractorStatus

-----------------------------------------------------------------------------
(* What ibex is relied upon for: no solution of the relation is lost; the  *)
(* box is emptied when the relation's value cannot meet the operator;      *)
(* otherwise it is narrowed to its projections (narrow) or not at all.     *)
(* Strict relations are treated as the others, "!=" is not converted.      *)
Impossible(iv, op) ==
  CASE op = "="          -> ~contains(iv, 0)
    [] op \in {"<=", "<"} -> lb(iv) > 0
    [] op \in {">=", ">"} -> ub(iv) < 0
    [] OTHER              -> FALSE

(* Fault: the sign of the coefficient does not turn the relation around.   *)
NarrowedSameWay(iv, c, op, rest) ==
  LET low   == IF c > 0 THEN (-ub(rest)) \div c ELSE lb(rest) \div (-c)
      high  == IF c > 0 THEN DivUp(-lb(rest), c) ELSE DivUp(ub(rest), -c)
  IN << IF op \in {"<=", "<"} THEN lb(iv) ELSE Higher(lb(iv), low),
        IF op \in {">=", ">"} THEN ub(iv) ELSE Lower(ub(iv), high) >>

(* An interval iv narrowed by  c * iv + rest  op  0.                       *)
Narrowed(iv, c, op, rest) ==
  LET below == op \in (IF c > 0 THEN {"<=", "<"} ELSE {">=", ">"})
      above == op \in (IF c > 0 THEN {">=", ">"} ELSE {"<=", "<"})
      low   == IF c > 0 THEN (-ub(rest)) \div c ELSE lb(rest) \div (-c)
      high  == IF c > 0 THEN DivUp(-lb(rest), c) ELSE DivUp(ub(rest), -c)
  IN << IF below THEN lb(iv) ELSE Higher(lb(iv), low), IF above THEN ub(iv) ELSE Lower(ub(iv), high) >>

Projection(r, y, box, i) ==
  IF r.coef[i] = 0 THEN box[i]
  ELSE Narrowed(box[i], r.coef[i], r.op, ValueOver(Dim \ {i}, r, y, box))

Contract(narrow, r, y, box) ==
  IF r.op = "!=" THEN box
  ELSE IF Impossible(Value(r, y, box), r.op) THEN Empty
  ELSE IF narrow THEN [i \in Dim |-> Projection(r, y, box, i)]
  ELSE box

-----------------------------------------------------------------------------
(* FilterAssertion: a bound on one variable goes into the box.             *)
UpdateBoundsViaEquality(box, i, v) == IF contains(box[i], v) THEN With(box, i, <<v, v>>) ELSE Empty
UpdateLowerBound(box, i, v) == IF v <= lb(box[i]) THEN box ELSE With(box, i, <<v, ub(box[i])>>)
UpdateUpperBound(box, i, v) == IF v >= ub(box[i]) THEN box ELSE With(box, i, <<lb(box[i]), v>>)

UpdateStrictLowerBound(box, i, v) == UpdateLowerBound(box, i, v + IF i \in IntDim THEN Unit ELSE 1)
UpdateStrictUpperBound(box, i, v) ==    \* the next number towards the least positive one
  UpdateUpperBound(box, i, IF i \in IntDim THEN v - Unit ELSE IF v > 0 THEN v - 1 ELSE v + 1)

IsFiltered(f) == is_simple_relational(f) /\ ~is_neq(f)

FilterAssertion(f, box) ==
  LET r == Relation(f)
      i == CHOOSE j \in Dim : r.coef[j] # 0
  IN CASE r.op = "="  -> UpdateBoundsViaEquality(box, i, r.rhs)
       [] r.op = ">=" -> UpdateLowerBound(box, i, r.rhs)
       [] r.op = ">"  -> UpdateStrictLowerBound(box, i, r.rhs)
       [] r.op = "<=" -> UpdateUpperBound(box, i, r.rhs)
       [] r.op = "<"  -> UpdateStrictUpperBound(box, i, r.rhs)

-----------------------------------------------------------------------------
(* A loop that takes a step at least once, and more of them until what was *)
(* and what has become of it end it; rounds is how many it can take.       *)
RepeatUntil(Step(_), Stop(_, _), start, rounds) ==
  LET Run[n \in 0 .. rounds] ==
        IF n = 0 THEN <<start, Step(start)>>
        ELSE LET run == Run[n - 1]
             IN IF Stop(run[1], run[2]) THEN run ELSE <<run[2], Step(run[2])>>
  IN Run[rounds][2]

(* Every round of the loops below but the last narrows the box.            *)
Rounds(box) == MapThenSumSet(LAMBDA i : Higher(0, diam(box[i])), Dim)

(* Contractors.  Each takes and returns a status; none is applied to an    *)
(* empty box.                                                              *)
PruneTo(st, box) == [st EXCEPT !.box = box, !.output = @ \cup Changed(st.box, box)]

(* The formulas count as used when the box has changed.                    *)
PruneUsing(st, box, fs) == IF box = st.box THEN st ELSE AddUsedConstraints(PruneTo(st, box), fs)

PruneIbexFwdbwd(narrow, f, st) == PruneUsing(st, Contract(narrow, Relation(f), 0, st.box), {f})

(* The relations of the system contract the box together, and all its      *)
(* formulas are used, the quantified ones included.                        *)
PruneIbexPolytope(narrow, fs, st) ==
  LET Step(f, box) == IF box = Empty \/ f.forall THEN box ELSE Contract(narrow, Relation(f), 0, box)
  IN PruneUsing(st, FoldSet(Step, st.box, fs), fs)

(* Rounds the bounds of an integer variable inwards, unless it is a point. *)
PruneInteger(st) ==
  LET Rounded(iv) == <<DivUp(lb(iv), Unit) * Unit, (ub(iv) \div Unit) * Unit>>
      todo == {i \in IntDim : ~is_degenerated(st.box[i])}
      none == {i \in todo : lb(Rounded(st.box[i])) > ub(Rounded(st.box[i]))}
  IN IF none = {}
     THEN PruneTo(st, [i \in Dim |-> IF i \in todo THEN Rounded(st.box[i]) ELSE st.box[i]])
     ELSE LET first == CHOOSE i \in none : \A j \in none : i <= j
          IN [PruneTo(st, Empty) EXCEPT !.witness = @ \cup {first}]

(* Join: a box around what any of the disjuncts leaves.                    *)
PruneJoin(narrow, body, y, box) ==
  FoldSet(LAMBDA r, joined : InplaceUnion(joined, Contract(narrow, r, y, box)), Empty, body)

(* GenericContractorGenerator, for what is under a quantifier: a relation  *)
(* gets a contractor of its own, a disjunction the join of its disjuncts'. *)
PruneGenerated(narrow, body, y, box) ==
  IF Cardinality(body) = 1 THEN Contract(narrow, CHOOSE r \in body : TRUE, y, box)
  ELSE PruneJoin(narrow, body, y, box)

(* Values of y that violate the quantified formula, by more than Epsilon,  *)
(* somewhere in the box: what the inner context finds one of.              *)
Counterexamples(f, box) ==
  LET Violates(v, op) == IF op \in {"<=", "<"} THEN v > Epsilon ELSE v < -Epsilon
  IN {y \in YDomain : \E p \in Points(box) : \A r \in f.body : Violates(At(r, y, p), r.op)}
Least(ys) == CHOOSE y \in ys : \A z \in ys : y <= z

(* Narrows a box by the quantified formula at a counterexample, over and   *)
(* over until there is none or the box does not change.                    *)
PruneWithCounterexample(narrow, f, box) ==
  LET ys == Counterexamples(f, box)
  IN IF ys = {} THEN box ELSE PruneGenerated(narrow, f.body, Least(ys), box)

PruneByCounterexamples(narrow, f, box) ==
  RepeatUntil(LAMBDA b : PruneWithCounterexample(narrow, f, b),
              LAMBDA old, new : new \in {Empty, old}, box, Rounds(box))

PruneForall(narrow, f, st) ==
  AddUsedConstraint(PruneTo(st, PruneByCounterexamples(narrow, f, st.box)), f)

(* DefaultTerminationCondition: no width has become smaller by 1%.         *)
NoImprovement(old, new) ==
  \A i \in Dim : is_degenerated(old[i]) \/ 100 * (diam(old[i]) - diam(new[i])) < diam(old[i])

Stops(old, new) == new.box = Empty \/ NoImprovement(old.box, new.box)

(* A fixpoint around one contractor, which BuildContractor puts around the *)
(* quantified ones.                                                        *)
PruneForallFixpoint(narrow, f, st) ==
  RepeatUntil(LAMBDA s : PruneForall(narrow, f, s), Stops, st, Rounds(st.box))

Cell(narrow, c, st) ==
  CASE c.kind = "fwdbwd"   -> PruneIbexFwdbwd(narrow, c.f, st)
    [] c.kind = "forall"   -> PruneForallFixpoint(narrow, c.f, st)
    [] c.kind = "integer"  -> PruneInteger(st)
    [] c.kind = "polytope" -> PruneIbexPolytope(narrow, c.fs, st)

Input(c) ==
  CASE c.kind \in {"fwdbwd", "forall"} -> VarsOf(c.f)
    [] c.kind = "integer"              -> IntDim
    [] c.kind = "polytope"             -> UNION {VarsOf(f) : f \in c.fs}

PruneSeq(narrow, ctcs, st) ==
  FoldLeft(LAMBDA s, c : IF s.box = Empty THEN s ELSE Cell(narrow, c, s), st, ctcs)

PruneFixpoint(narrow, ctcs, st) ==
  RepeatUntil(LAMBDA s : PruneSeq(narrow, ctcs, s), Stops, st, Rounds(st.box))

(* One contractor of a worklist: clears the outputs, prunes, and puts the  *)
(* contractors that read what changed on the list.                         *)
Listed(ctcs, list, k, st) ==
  [st |-> st, last |-> k, list |-> list \cup {j \in DOMAIN ctcs : Input(ctcs[j]) \cap st.output # {}}]

Visit(narrow, ctcs, list, k, w) ==
  Listed(ctcs, list, k, Cell(narrow, ctcs[k], [w.st EXCEPT !.output = {}]))

Apply(narrow, ctcs, k, w) == Visit(narrow, ctcs, w.list \ {k}, k, w)

(* First every contractor that reads the branching point: it does not take *)
(* them off the list.  Then those on the list, round and round in their    *)
(* order, until the box or the list is empty.                              *)
FirstPass(narrow, ctcs, branching_point, st) ==
  FoldLeftDomain(LAMBDA w, k :
      IF w.st.box # Empty /\ (branching_point = -1 \/ branching_point \in Input(ctcs[k]))
      THEN Visit(narrow, ctcs, w.list, k, w) ELSE w,
    [st |-> st, last |-> 0, list |-> {}], ctcs)

NextListed(w) ==
  LET later == {j \in w.list : j > w.last} IN IF later = {} THEN Least(w.list) ELSE Least(later)

RunWorklist(narrow, ctcs, w) ==
  RepeatUntil(LAMBDA v : Apply(narrow, ctcs, NextListed(v), v),
              LAMBDA old, new : new.st.box = Empty \/ new.list = {},
              [w EXCEPT !.last = 0], (Rounds(w.st.box) + 1) * Len(ctcs))

RunUnlessStopped(narrow, ctcs, st, w) ==
  IF w.list = {} \/ Stops(st, w.st) THEN w ELSE RunWorklist(narrow, ctcs, w)

PruneWorklistFixpoint(narrow, ctcs, branching_point, st) ==
  RunUnlessStopped(narrow, ctcs, st, FirstPass(narrow, ctcs, branching_point, st)).st

-----------------------------------------------------------------------------
(* TheorySolver.  A problem is [box, assertions, polytope, worklist,       *)
(* narrow]: the first two are the arguments of CheckSat, then two options, *)
(* and what ibex does.                                                     *)
IsProblem(problem) ==
  /\ IsBox(problem.box)
  /\ problem.assertions \in Seq(ToSet(problem.assertions))
  /\ \A f \in ToSet(problem.assertions) : IsConstraint(f) /\ IntegerBound(f)
  /\ {problem.polytope, problem.worklist, problem.narrow} \subseteq BOOLEAN

(* The status after the bounds among the assertions went into the box;     *)
(* nothing is done once the box is empty.                                  *)
InitialStatus(problem) ==
  FoldLeft(LAMBDA st, f :
             IF st.box = Empty \/ ~IsFiltered(f) \/ FilterAssertion(f, st.box) = st.box THEN st
             ELSE AddUsedConstraint([st EXCEPT !.box = FilterAssertion(f, @)], f),
           NewStatus(problem.box), problem.assertions)

(* A contractor for each assertion that is no bound; ibex has none for     *)
(* "!=".                                                                   *)
AssertionCells(fs) ==
  FoldLeft(LAMBDA cells, f :
             IF IsFiltered(f) \/ is_neq(f) THEN cells
             ELSE Append(cells, [kind |-> IF f.forall THEN "forall" ELSE "fwdbwd", f |-> f]),
           <<>>, fs)

BuildContractor(problem) ==
  LET all == ToSet(problem.assertions)
  IN AssertionCells(problem.assertions)
       \o (IF IntDim # {} THEN <<[kind |-> "integer"]>> ELSE <<>>)
       \o (IF problem.polytope /\ \E f \in all : ~f.forall /\ ~is_neq(f)
           THEN <<[kind |-> "polytope", fs |-> all]>> ELSE <<>>)

(* Without contractors nothing is pruned; without assertions there is only *)
(* the one for integers.                                                   *)
Prune(problem, branching_point, st) ==
  LET ctcs == BuildContractor(problem)
  IN IF ctcs = <<>> THEN st
     ELSE IF problem.assertions = <<>> THEN PruneInteger(st)
     ELSE IF problem.worklist THEN PruneWorklistFixpoint(problem.narrow, ctcs, branching_point, st)
     ELSE PruneFixpoint(problem.narrow, ctcs, st)

-----------------------------------------------------------------------------
(* Evaluators: UNSAT, VALID or UNKNOWN, with a width.                      *)
EvaluateRelation(r, y, box) ==
  LET iv == Value(r, y, box)
      unsat == CASE r.op = "="  -> ~contains(iv, 0)
                 [] r.op = "!=" -> iv = <<0, 0>>
                 [] r.op = ">"  -> ub(iv) <= 0
                 [] r.op = ">=" -> ub(iv) < 0
                 [] r.op = "<"  -> lb(iv) >= 0
                 [] r.op = "<=" -> lb(iv) > 0
      valid == CASE r.op = "="  -> iv = <<0, 0>>
                 [] r.op = "!=" -> ~contains(iv, 0)
                 [] r.op = ">"  -> lb(iv) > 0
                 [] r.op = ">=" -> lb(iv) >= 0
                 [] r.op = "<"  -> ub(iv) < 0
                 [] r.op = "<=" -> ub(iv) <= 0
      mag   == Higher(ub(iv), -lb(iv))
  IN CASE valid -> [type |-> "VALID", diam |-> diam(iv)]
       [] unsat -> [type |-> "UNSAT", diam |-> mag]
       [] OTHER -> [type |-> "UNKNOWN", diam |-> diam(iv)]

(* A quantified constraint is never refuted here: a counterexample leaves  *)
(* it unknown, with the greatest width of its disjuncts.                   *)
EvaluateForall(f, box) ==
  LET ys     == Counterexamples(f, box)
      widths == {EvaluateRelation(r, Least(ys), box).diam : r \in f.body}
  IN IF ys = {} THEN [type |-> "VALID", diam |-> 0]
     ELSE [type |-> "UNKNOWN", diam |-> CHOOSE d \in widths : \A e \in widths : e <= d]

Evaluate(f, box) == IF f.forall THEN EvaluateForall(f, box) ELSE EvaluateRelation(Relation(f), 0, box)

(* The first constraint the box refutes, if any.                           *)
Refuters(problem, box) ==
  LET ks == {k \in DOMAIN problem.assertions : Evaluate(problem.assertions[k], box).type = "UNSAT"}
  IN {problem.assertions[k] : k \in {k \in ks : \A j \in ks : k <= j}}

(* The variables of the constraints that are wider than the precision.     *)
Candidates(problem, box) ==
  LET Wide(e) == e.type = "UNKNOWN" /\ e.diam > Precision
  IN UNION {VarsOf(f) : f \in {g \in ToSet(problem.assertions) :
       ~is_simple_relational(g) /\ ~is_neq(g) /\ Wide(Evaluate(g, box))}}

EvaluateBox(problem, box) ==
  [refuters |-> Refuters(problem, box), candidates |-> Candidates(problem, box)]
=============================================================================
