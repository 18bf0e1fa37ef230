--------------------------------- MODULE Icp ---------------------------------
(***************************************************************************)
(* Interval constraint propagation: TheorySolver::CheckSat builds the      *)
(* contractor and hands the box to IcpSeq, or to IcpParallel when there    *)
(* are several jobs.  Both keep a stack of boxes, prune the box on top,    *)
(* judge it, and split it when it is neither refuted nor small enough.     *)
(*                                                                         *)
(* A worker of IcpParallel takes one step per access to what it shares     *)
(* with the others: the stack, the number of boxes and found_delta_sat.    *)
(* Memory order adds nothing: the only reads that could be out of date are *)
(* the two of the loop condition, and an old value there sends the worker  *)
(* around the loop once more.                                              *)
(***************************************************************************)
EXTENDS Contractors

CONSTANTS
  Problems,    \* the calls of CheckSat: a box, assertions, options
  Jobs         \* config.number_of_jobs(), for each call

ASSUME IcpAssumption == Jobs \subseteq Nat \ {0} /\ \A p \in Problems : IsProblem(p)

VARIABLES
  problem,     \* arguments and options of the call
  jobs,
  cs,          \* the contractor status of the call
  branching_point,
  stack,       \* <<box, branching point>>, the top last
  left_first,  \* stack_left_box_first, of each worker (0: of IcpSeq)
  pc,          \* of each worker; of the caller at 0
  need_to_pop, \* of each worker
  status,      \* status_vector_
  found_delta_sat,
  number_of_boxes,
  answer       \* [result, box | explanation]

shared == <<stack, found_delta_sat, number_of_boxes>>
call   == <<problem, jobs, cs, branching_point, answer>>
vars   == <<call, shared, left_first, pc, need_to_pop, status>>

Workers  == 1 .. jobs
Parallel == jobs > 1
NoAnswer == [result |-> "none"]

Init ==
  /\ problem \in Problems /\ jobs \in Jobs
  /\ cs = NewStatus(problem.box)
  /\ branching_point = -1
  /\ stack = <<>>
  /\ left_first \in [0 .. jobs -> {TRUE}] \cup [0 .. jobs -> {FALSE}]   \* the option
  /\ pc = [w \in 0 .. jobs |-> "idle"]
  /\ need_to_pop = [w \in 0 .. jobs |-> TRUE]
  /\ status = [w \in 0 .. jobs |-> NewStatus(Empty)]
  /\ found_delta_sat = -1 /\ number_of_boxes = 0
  /\ answer = NoAnswer

(* What TheorySolver makes of the status the search ends with.             *)
Answered(st) ==
  answer' = IF st.box = Empty
            THEN [result |-> "unsat", explanation |-> GenerateExplanation(st.witness, st.used)]
            ELSE [result |-> "sat", box |-> st.box]

(* A box is contracted and, unless that leaves nothing, judged: what the   *)
(* status has collected before is kept.                                    *)
Contraction(p, point, box) == Prune(p, point, NewStatus(box))
Extended(st, own) == [InplaceJoin(st, own) EXCEPT !.box = own.box]
Contracted(st, point, box) == Extended(st, Contraction(problem, point, box))

RefutedBy(st, fs) ==
  IF fs = {} THEN st ELSE AddUsedConstraints([st EXCEPT !.box = Empty], fs)
Judged(st) == IF st.box = Empty THEN st ELSE RefutedBy(st, EvaluateBox(problem, st.box).refuters)

Processed(st, point, box) == Judged(Contracted(st, point, box))

(* The variable to split a box on; 0 when it is a solution up to the       *)
(* precision or cannot be split.                                           *)
BranchOn(box) == FindMaxDiam(box, EvaluateBox(problem, box).candidates)
IsFinal(box)  == BranchOn(box) = 0

-----------------------------------------------------------------------------
(* BuildContractor ends the call when the bounds leave nothing.            *)
Build ==
  /\ pc[0] = "idle" /\ answer = NoAnswer
  /\ \E st \in {InitialStatus(problem)} :
     /\ cs' = st
     /\ IF st.box = Empty
        THEN /\ Answered(st)
             /\ pc' = [pc EXCEPT ![0] = "done"]
        ELSE /\ pc' = [pc EXCEPT ![0] = IF Parallel THEN "initial" ELSE "search"]
             /\ UNCHANGED answer
     /\ stack' = IF st.box = Empty \/ Parallel THEN <<>> ELSE << <<st.box, -1>> >>
     /\ UNCHANGED <<problem, jobs, branching_point, left_first, need_to_pop, status,
                    found_delta_sat, number_of_boxes>>

(* One round of IcpSeq's loop, with the contractor run on the status of    *)
(* the call: its used constraints and witnesses add up over all boxes.     *)
SeqStep ==
  LET top   == stack[Len(stack)]
      below == SubSeq(stack, 1, Len(stack) - 1)
  IN /\ pc[0] = "search" /\ stack # <<>>
     /\ branching_point' = top[2]
     /\ \E st \in {Processed(cs, top[2], top[1])} :
          /\ cs' = st
          /\ \/ /\ st.box = Empty
                /\ stack' = below
                /\ UNCHANGED <<pc, left_first, answer>>
             \/ /\ st.box # Empty /\ IsFinal(st.box)
                /\ stack' = below
                /\ pc' = [pc EXCEPT ![0] = "done"]
                /\ Answered(st)
                /\ UNCHANGED left_first
             \/ /\ st.box # Empty /\ ~IsFinal(st.box)
                /\ \E i \in {BranchOn(st.box)} :
                     LET halves == Bisect(st.box, i)
                         pushed == IF left_first[0] THEN halves ELSE <<halves[2], halves[1]>>
                     IN stack' = below \o << <<pushed[1], i>>, <<pushed[2], i>> >>
                /\ left_first' = [left_first EXCEPT ![0] = ~@]
                /\ UNCHANGED <<pc, answer>>
     /\ UNCHANGED <<problem, jobs, need_to_pop, status, found_delta_sat, number_of_boxes>>

(* The stack has run empty: the last box was refuted.                      *)
SeqExhausted ==
  /\ pc[0] = "search" /\ stack = <<>>
  /\ pc' = [pc EXCEPT ![0] = "done"]
  /\ Answered(cs)
  /\ UNCHANGED <<problem, jobs, cs, branching_point, shared, left_first, need_to_pop, status>>

-----------------------------------------------------------------------------
(* IcpParallel prunes once, then every worker starts with a copy of the    *)
(* status.                                                                 *)
Launch ==
  /\ pc[0] = "initial"
  /\ \E st \in {Contracted(cs, branching_point, cs.box)} :
     /\ cs' = st
     /\ IF st.box = Empty
        THEN /\ pc' = [pc EXCEPT ![0] = "done"]
             /\ Answered(st)
             /\ UNCHANGED <<stack, status, number_of_boxes>>
        ELSE /\ pc' = [w \in 0 .. jobs |-> IF w = 0 THEN "join" ELSE "check_found"]
             /\ stack' = << <<st.box, -1>> >>
             /\ number_of_boxes' = 1
             /\ status' = [w \in 0 .. jobs |-> IF w = 0 THEN status[0] ELSE st]
             /\ UNCHANGED answer
     /\ UNCHANGED <<problem, jobs, branching_point, left_first, need_to_pop, found_delta_sat>>

Goto(w, label) == pc' = [pc EXCEPT ![w] = label]

CheckFound(w) ==
  /\ pc[w] = "check_found"
  /\ Goto(w, IF found_delta_sat = -1 THEN "check_count" ELSE "done")
  /\ UNCHANGED <<call, shared, status, need_to_pop, left_first>>

(* A worker with a half in hand goes on with that, once; else it must pop. *)
CheckCount(w) ==
  /\ pc[w] = "check_count"
  /\ IF number_of_boxes = 0
     THEN Goto(w, "done") /\ UNCHANGED need_to_pop
     ELSE /\ Goto(w, IF need_to_pop[w] THEN "pop" ELSE "prune")
          /\ need_to_pop' = [need_to_pop EXCEPT ![w] = TRUE]
  /\ UNCHANGED <<call, shared, status, left_first>>

Pop(w) ==
  /\ pc[w] = "pop"
  /\ IF stack = <<>>
     THEN /\ Goto(w, "check_found")
          /\ UNCHANGED <<stack, status>>
     ELSE /\ Goto(w, "prune")
          /\ status' = [status EXCEPT ![w].box = stack[Len(stack)][1]]
          /\ stack' = SubSeq(stack, 1, Len(stack) - 1)
  /\ UNCHANGED <<call, found_delta_sat, number_of_boxes, need_to_pop, left_first>>

(* Fault: a box refuted by evaluation is not taken off the count.         *)
PruneBoxUncounted(w) ==
  LET pruned == Contracted(status[w], branching_point, status[w].box)
      st     == Judged(pruned)
  IN /\ pc[w] = "prune"
     /\ status' = [status EXCEPT ![w] = st]
     /\ Goto(w, IF pruned.box = Empty THEN "subtract"
                ELSE IF st.box = Empty THEN "check_found"
                ELSE IF IsFinal(st.box) THEN "found" ELSE "add")
     /\ UNCHANGED <<call, shared, need_to_pop, left_first>>

(* Pruning and judging touch only the worker's status.                     *)
PruneBox(w) ==
  /\ pc[w] = "prune"
  /\ \E st \in {Processed(status[w], branching_point, status[w].box)} :
     /\ status' = [status EXCEPT ![w] = st]
     /\ Goto(w, IF st.box = Empty THEN "subtract" ELSE IF IsFinal(st.box) THEN "found" ELSE "add")
     /\ UNCHANGED <<call, shared, need_to_pop, left_first>>

Subtract(w) ==
  /\ pc[w] = "subtract"
  /\ number_of_boxes' = number_of_boxes - 1
  /\ Goto(w, "check_found")
  /\ UNCHANGED <<call, stack, found_delta_sat, status, need_to_pop, left_first>>

Found(w) ==
  /\ pc[w] = "found"
  /\ found_delta_sat' = w
  /\ Goto(w, "done")
  /\ UNCHANGED <<call, stack, number_of_boxes, status, need_to_pop, left_first>>

(* Fault: the second half is not announced.                               *)
AddBoxUnannounced(w) ==
  /\ pc[w] = "add"
  /\ Goto(w, "push")
  /\ UNCHANGED <<call, shared, status, need_to_pop, left_first>>

(* Fault: the half that stays in hand is the one pushed.                  *)
PushKept(w) ==
  LET halves == Bisect(status[w].box, BranchOn(status[w].box))
      kept   == IF left_first[w] THEN 2 ELSE 1
  IN /\ pc[w] = "push"
     /\ stack' = Append(stack, <<halves[kept], -1>>)
     /\ status' = [status EXCEPT ![w].box = halves[kept]]
     /\ left_first' = [left_first EXCEPT ![w] = ~@]
     /\ need_to_pop' = [need_to_pop EXCEPT ![w] = FALSE]
     /\ Goto(w, "check_found")
     /\ UNCHANGED <<call, found_delta_sat, number_of_boxes>>

(* ParallelBranch: one more box is announced, then pushed; the other half  *)
(* stays in hand.                                                          *)
AddBox(w) ==
  /\ pc[w] = "add"
  /\ number_of_boxes' = number_of_boxes + 1
  /\ Goto(w, "push")
  /\ UNCHANGED <<call, stack, found_delta_sat, status, need_to_pop, left_first>>

Push(w) ==
  LET kept == IF left_first[w] THEN 2 ELSE 1
  IN /\ pc[w] = "push"
     /\ \E halves \in {Bisect(status[w].box, BranchOn(status[w].box))} :
          /\ stack' = Append(stack, <<halves[3 - kept], -1>>)
          /\ status' = [status EXCEPT ![w].box = halves[kept]]
     /\ left_first' = [left_first EXCEPT ![w] = ~@]
     /\ need_to_pop' = [need_to_pop EXCEPT ![w] = FALSE]
     /\ Goto(w, "check_found")
     /\ UNCHANGED <<call, found_delta_sat, number_of_boxes>>

(* The barrier, the union of all statuses, and the box of the worker that  *)
(* found one, or the empty box.                                            *)
JoinedMainOnly == <<cs, status[jobs]>>   \* fault: without the workers of the pool
Joined == <<cs>> \o [w \in Workers |-> status[w]]
JoinOf(box) ==
  [box     |-> box,
   output  |-> UNION {Joined[k].output  : k \in DOMAIN Joined},
   used    |-> UNION {Joined[k].used    : k \in DOMAIN Joined},
   witness |-> UNION {Joined[k].witness : k \in DOMAIN Joined}]

(* Fault: the union of the boxes is the answer.                            *)
ResultJoined ==
  JoinOf(IF found_delta_sat = -1 THEN Empty
         ELSE FoldLeft(InplaceUnion, Empty, [k \in DOMAIN Joined |-> Joined[k].box]))

Result == JoinOf(IF found_delta_sat = -1 THEN Empty ELSE status[found_delta_sat].box)

JoinWorkers ==
  /\ pc[0] = "join" /\ \A w \in Workers : pc[w] = "done"
  /\ cs' = Result
  /\ Answered(Result)
  /\ pc' = [pc EXCEPT ![0] = "done"]
  /\ UNCHANGED <<problem, jobs, branching_point, shared, left_first, need_to_pop, status>>

Worker(w) ==
  \/ CheckFound(w) \/ CheckCount(w) \/ Pop(w) \/ PruneBox(w) \/ Subtract(w) \/ Found(w) \/ AddBox(w) \/ Push(w)

Main == Build \/ SeqStep \/ SeqExhausted \/ Launch \/ JoinWorkers

Next == Main \/ \E w \in Workers : Worker(w)

(* Threads run: the caller, and every worker of the pool.  This is weak    *)
(* fairness of Main and of every Worker(w), with what enables them written *)
(* out.                                                                    *)
MaxJobs == CHOOSE n \in Jobs : \A m \in Jobs : m <= n
MainReady ==
  \/ pc[0] \in {"idle", "search", "initial"}
  \/ pc[0] = "join" /\ \A w \in Workers : pc[w] = "done"
WorkerReady(w) == w \in Workers /\ pc[w] \notin {"idle", "done"}
Fairness ==
  /\ <>[]MainReady => []<><<Main>>_vars
  /\ \A w \in 1 .. MaxJobs : <>[]WorkerReady(w) => []<><<w \in Workers /\ Worker(w)>>_vars
Spec == Init /\ [][Next]_vars /\ Fairness

-----------------------------------------------------------------------------
(* The workers with a box nobody has judged yet, or a judged one.          *)
HasBox(w) == pc[w] \in {"prune", "found", "add", "push"} \/ ~need_to_pop[w]

Searching == pc[0] \in {"search", "join"} /\ found_delta_sat = -1

SolutionsOf == [p \in Problems |-> Solutions(p.box, ToSet(p.assertions))]
IntegersOf  == [p \in Problems |-> Solutions(p.box, {})]

(* A point satisfies an assertion up to the precision, or up to what two   *)
(* neighbouring numbers differ in where nothing can be split any more.     *)
(* Quantified assertions are only looked at for one counterexample.        *)
SatisfiesUpTo(p, f) ==
  LET r     == Relation(f)
      v     == At(r, 0, p)
      slack == Higher(Precision, diam(Value(r, 0, [i \in Dim |-> <<0, 1>>])))
  IN CASE r.op = "!="          -> TRUE
       [] r.op = "="           -> -slack <= v /\ v <= slack
       [] r.op \in {"<=", "<"} -> v <= slack
       [] r.op \in {">=", ">"} -> v >= -slack

(* What the search relies upon, of every box it is about to contract.  The *)
(* contractors and evaluators, in whichever order they run, leave a part   *)
(* of the box, to be split on one of its own variables, and note why the   *)
(* rest cannot be: where a set of variables D has the witnesses and is     *)
(* connected with nothing else by the constraints used, what the box loses *)
(* on D violates one of the constraints on D.  And a box they are content  *)
(* with has points that satisfy the assertions up to the precision.        *)
Accounts(st, box) ==
  \A D \in SUBSET Dim, p \in IntegersOf[problem] :
    Admits(st, D, p) /\ CoversOn(D, box, p) => CoversOn(D, st.box, p)

Noted(st) == st.used \subseteq ToSet(problem.assertions) /\ st.witness \subseteq Dim

Sound(st, box) ==
  /\ Noted(st)
  /\ Accounts(st, box)
  /\ st.box # Empty =>
       IsBox(st.box) /\ Within(st.box, box) /\ EvaluateBox(problem, st.box).candidates \subseteq Dim

Near(box) ==
  \A p \in Points(box), f \in ToSet(problem.assertions) : ~f.forall => SatisfiesUpTo(p, f)

SoundOn(point, box) ==
  \E st \in {Processed(NewStatus(box), point, box)} :
    Sound(st, box) /\ (st.box # Empty /\ IsFinal(st.box) => Near(st.box))

ContractorsSound ==
  /\ pc[0] = "idle" => Sound(InitialStatus(problem), problem.box)
  /\ pc[0] = "search" /\ stack # <<>> => SoundOn(stack[Len(stack)][2], stack[Len(stack)][1])
  /\ pc[0] = "initial" => Sound(Contracted(NewStatus(cs.box), branching_point, cs.box), cs.box)
  /\ \A w \in Workers : pc[w] = "prune" => SoundOn(branching_point, status[w].box)

(* No solution of the assertions is lost while the search goes on without  *)
(* a result: every one is in a box on the stack or in a worker's hands,    *)
(* also between the push of one half and the pruning of the other.         *)
NoSolutionLost ==
  Searching =>
    \A p \in SolutionsOf[problem] :
      \/ \E k \in DOMAIN stack : Covers(stack[k][1], p)
      \/ \E w \in Workers : HasBox(w) /\ Covers(status[w].box, p)

(* The counter that lets workers stop: it is the number of boxes that are  *)
(* waiting, in work, or announced and not yet pushed, so that no worker    *)
(* stops while another one may still push a box.                           *)
BoxesCounted ==
  pc[0] = "join" /\ found_delta_sat = -1 =>
    number_of_boxes = Len(stack) + Cardinality({w \in Workers : HasBox(w) \/ pc[w] = "subtract"})
                                 + Cardinality({w \in Workers : pc[w] = "push"})

(* An unsat answer comes with an explanation: assertions that have no      *)
(* common solution in the box of the call, by what the contractors of all  *)
(* workers and all branches used, whoever refuted the last box.  The SAT   *)
(* solver learns its negation.                                             *)
ExplanationSound ==
  answer.result = "unsat" =>
    /\ answer.explanation \subseteq ToSet(problem.assertions)
    /\ Solutions(problem.box, answer.explanation) = {}

(* A delta-sat answer: the box is part of the box of the call, and all its *)
(* points satisfy the assertions, quantified ones apart, up to the         *)
(* precision, whichever worker found one, last.                            *)
DeltaSat ==
  answer.result = "sat" =>
    /\ Within(answer.box, problem.box)
    /\ Near(answer.box)

(* Every call is answered: the workers that wait for boxes do not wait for *)
(* each other for ever.                                                    *)
Terminates == <>(answer.result # "none")

-----------------------------------------------------------------------------
(* What the theorems about these properties need beside them.              *)
AtWork == {"prune", "subtract", "found", "add", "push"}
IsStatus(st) ==
  st = [box |-> st.box, output |-> st.output, used |-> st.used, witness |-> st.witness]

IcpTypeOK ==
  /\ problem \in Problems /\ jobs \in Nat \ {0}
  /\ pc \in [0 .. jobs -> {"idle", "search", "initial", "join", "check_found",
                           "check_count", "pop", "done"} \cup AtWork]
  /\ pc[0] \in {"idle", "search", "initial", "join", "done"}
  /\ need_to_pop \in [0 .. jobs -> BOOLEAN] /\ left_first \in [0 .. jobs -> BOOLEAN]
  /\ stack \in Seq({stack[k] : k \in DOMAIN stack})
  /\ DOMAIN status = 0 .. jobs /\ \A w \in 0 .. jobs : IsStatus(status[w])
  /\ number_of_boxes \in Int
  /\ found_delta_sat \in {-1} \cup Workers

(* A worker keeps a half in hand only on its way back to pruning, none has *)
(* started before the launch, and none stops without a result while there  *)
(* is a box left.                                                          *)
WorkerOK(w) ==
  /\ pc[w] \in {"idle", "pop"} \cup AtWork => need_to_pop[w]
  /\ pc[0] \in {"idle", "search", "initial"} => pc[w] = "idle"
  /\ pc[w] = "done" /\ pc[0] = "join" /\ found_delta_sat = -1 => number_of_boxes = 0
  /\ pc[w] \in {"found", "add", "push"} => status[w].box # Empty

FoundOK ==
  found_delta_sat # -1 =>
    pc[found_delta_sat] = "done" /\ status[found_delta_sat].box # Empty

WorkersOK == (\A w \in Workers : WorkerOK(w)) /\ FoundOK

CountIInv == IcpTypeOK /\ WorkersOK /\ BoxesCounted

(* With sound contractors: a point and variables D that no status speaks   *)
(* against are, on D, in a box that is still to be searched; once the      *)
(* answer is unsat there are none.  Boxes to be split can be, a worker has *)
(* collected nothing before it starts, and there is no answer before the   *)
(* end.                                                                    *)
Statuses   == {cs} \cup {status[w] : w \in Workers}
Open(D, p) == \A st \in Statuses : Admits(st, D, p)

CanSplit(box) ==
  IsBox(box) /\ \E i \in Dim : i = BranchOn(box) /\ is_bisectable(box[i])

NothingLeftOut ==
  Searching =>
    \A D \in SUBSET Dim, p \in IntegersOf[problem] : Open(D, p) =>
      \/ \E k \in DOMAIN stack : CoversOn(D, stack[k][1], p)
      \/ \E w \in Workers : HasBox(w) /\ CoversOn(D, status[w].box, p)

UnsatOK ==
  answer.result = "unsat" =>
    /\ answer.explanation = GenerateExplanation(cs.witness, cs.used)
    /\ \A D \in SUBSET Dim, p \in IntegersOf[problem] : ~Admits(cs, D, p)

SearchIInv ==
  /\ \A st \in Statuses : Noted(st)
  /\ \A w \in Workers : pc[w] = "idle" => status[w].used = {} /\ status[w].witness = {}
  /\ pc[0] # "done" => answer = NoAnswer
  /\ pc[0] = "initial" =>
       \A D \in SUBSET Dim, p \in IntegersOf[problem] : Open(D, p) => CoversOn(D, cs.box, p)
  /\ \A w \in Workers : pc[w] \in {"add", "push"} => CanSplit(status[w].box)
  /\ NothingLeftOut
  /\ UnsatOK

(* And every box of the search is part of what the bounds among the        *)
(* assertions have left, which is why they need not be evaluated; what a   *)
(* worker has found stays as it was found.                                 *)
PartOfCall(box) ==
  \E whole \in {InitialStatus(problem).box} : IsBox(whole) /\ IsBox(box) /\ Within(box, whole)

BoxIInv ==
  /\ pc[0] = "initial" => PartOfCall(cs.box)
  /\ pc[0] = "search" /\ stack = <<>> => cs.box = Empty
  /\ \A k \in DOMAIN stack : PartOfCall(stack[k][1])
  /\ \A w \in Workers :
       /\ HasBox(w) => PartOfCall(status[w].box)
       /\ pc[w] = "found" \/ w = found_delta_sat => PartOfCall(status[w].box) /\ Near(status[w].box)
  /\ DeltaSat
=============================================================================
