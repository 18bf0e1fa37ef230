------------------------------ MODULE IcpProofs ------------------------------
(***************************************************************************)
(* Theorems about Icp, for any problems and any number of workers.         *)
(***************************************************************************)
EXTENDS Icp, ContractorsProofs

-----------------------------------------------------------------------------
(* The stack.                                                              *)

LEMMA OwnElements ==
  ASSUME NEW S, NEW s \in Seq(S)
  PROVE  s \in Seq({s[k] : k \in DOMAIN s})
<1> DEFINE T == {s[k] : k \in DOMAIN s}
<1>1. /\ Len(s) \in Nat /\ DOMAIN s = 1 .. Len(s)
      /\ s = [k \in 1 .. Len(s) |-> s[k]]
  OBVIOUS
<1>2. \A k \in 1 .. Len(s) : s[k] \in T
  BY <1>1
<1> HIDE DEF T
<1> QED BY <1>1, <1>2

LEMMA Popped ==
  ASSUME NEW S, NEW s \in Seq(S), s # <<>>
  PROVE  /\ Len(s) \in Nat \ {0}
         /\ SubSeq(s, 1, Len(s) - 1) \in Seq(S)
         /\ Len(SubSeq(s, 1, Len(s) - 1)) = Len(s) - 1
         /\ \A k \in DOMAIN s : k # Len(s) =>
              /\ k \in DOMAIN SubSeq(s, 1, Len(s) - 1)
              /\ SubSeq(s, 1, Len(s) - 1)[k] = s[k]
<1> DEFINE b == SubSeq(s, 1, Len(s) - 1)
<1>1. Len(s) \in Nat \ {0} /\ DOMAIN s = 1 .. Len(s) /\ 1 \in Int /\ Len(s) - 1 \in Int
  BY EmptySeq, LenProperties
<1>2. \A i \in 1 .. Len(s) - 1 : s[i] \in S
  BY <1>1
<1>3. /\ b \in Seq(S)
      /\ Len(b) = IF 1 <= Len(s) - 1 THEN (Len(s) - 1) - 1 + 1 ELSE 0
      /\ \A i \in 1 .. (Len(s) - 1) - 1 + 1 : b[i] = s[1 + i - 1]
  BY <1>1, <1>2, SubSeqProperties
<1>4. Len(b) = Len(s) - 1 /\ DOMAIN b = 1 .. Len(s) - 1
  BY <1>1, <1>3, LenProperties
<1>5. ASSUME NEW k \in DOMAIN s, k # Len(s)
      PROVE  k \in DOMAIN b /\ b[k] = s[k]
  <2>1. k \in 1 .. Len(s) - 1 /\ k \in Int /\ 1 + k - 1 = k
    BY <1>1, <1>5
  <2>2. k \in 1 .. (Len(s) - 1) - 1 + 1
    BY <1>1, <2>1
  <2> HIDE DEF b
  <2>3. b[k] = s[1 + k - 1]
    BY <1>3, <2>2
  <2> QED BY <1>4, <2>1, <2>3
<1> QED BY <1>1, <1>3, <1>4, <1>5

LEMMA Pushed ==
  ASSUME NEW S, NEW s \in Seq(S), NEW e
  PROVE  /\ Append(s, e) \in Seq(S \cup {e})
         /\ Len(Append(s, e)) = Len(s) + 1
         /\ \A k \in DOMAIN s : k \in DOMAIN Append(s, e) /\ Append(s, e)[k] = s[k]
         /\ Len(s) + 1 \in DOMAIN Append(s, e) /\ Append(s, e)[Len(s) + 1] = e
<1>1. s \in Seq(S \cup {e}) /\ e \in S \cup {e}
  OBVIOUS
<1>2. /\ Append(s, e) \in Seq(S \cup {e})
      /\ Len(Append(s, e)) = Len(s) + 1
      /\ \A i \in 1 .. Len(s) : Append(s, e)[i] = s[i]
      /\ Append(s, e)[Len(s) + 1] = e
  BY <1>1, AppendProperties
<1>3. /\ DOMAIN s = 1 .. Len(s) /\ Len(s) \in Nat
      /\ DOMAIN Append(s, e) = 1 .. Len(s) + 1
  BY <1>2, LenProperties
<1> QED BY <1>2, <1>3

-----------------------------------------------------------------------------
(* Statuses.                                                               *)

LEMMA SetBox ==
  ASSUME NEW st, IsStatus(st), NEW box
  PROVE  /\ IsStatus([st EXCEPT !.box = box]) /\ [st EXCEPT !.box = box].box = box
         /\ [st EXCEPT !.box = box].used = st.used
         /\ [st EXCEPT !.box = box].witness = st.witness
<1> DEFINE o == st.output
           u == st.used
           w == st.witness
<1>1. st = [box |-> st.box, output |-> o, used |-> u, witness |-> w]
  BY DEF IsStatus
<1> HIDE DEF o, u, w
<1>2. [st EXCEPT !.box = box] = [box |-> box, output |-> o, used |-> u, witness |-> w]
  BY <1>1
<1>3. st.used = u /\ st.witness = w
  BY <1>1
<1> QED BY <1>2, <1>3 DEF IsStatus

(* A status that is refuted.                                               *)
LEMMA RefutedFacts ==
  ASSUME NEW st, IsStatus(st), NEW fs
  PROVE  LET r == AddUsedConstraints([st EXCEPT !.box = Empty], fs)
         IN  /\ IsStatus(r) /\ r.box = Empty /\ r.used = st.used \cup fs
             /\ r.witness = st.witness \cup UNION {VarsOf(f) : f \in fs}
<1> DEFINE e == [st EXCEPT !.box = Empty]
           o == e.output
           u == e.used
           x == e.witness
           V == UNION {VarsOf(f) : f \in fs}
           r == AddUsedConstraints(e, fs)
<1>1. IsStatus(e) /\ e.box = Empty /\ u = st.used /\ x = st.witness
  BY SetBox
<1>2. e = [box |-> Empty, output |-> o, used |-> u, witness |-> x]
  <2> HIDE DEF e
  <2> QED BY <1>1 DEF IsStatus
<1>3. r = [e EXCEPT !.used = @ \cup fs, !.witness = IF e.box = Empty THEN @ \cup V ELSE @]
  BY DEF AddUsedConstraints
<1> DEFINE y == u \cup fs
           z == x \cup V
<1> HIDE DEF e, V, r
<1>4. r = [box |-> Empty, output |-> o, used |-> y, witness |-> z]
  <2>1. r = [e EXCEPT !.used = y, !.witness = z]
    BY <1>1, <1>3
  <2> HIDE DEF o, u, x, y, z
  <2> QED BY <1>2, <2>1
<1>5. IsStatus(r) /\ r.box = Empty /\ r.used = u \cup fs /\ r.witness = x \cup V
  BY <1>4 DEF IsStatus
<1> QED BY <1>1, <1>5 DEF r, e, V

LEMMA ContractedFacts ==
  ASSUME NEW st, NEW point, NEW box
  PROVE  LET own == Contraction(problem, point, box)
             c   == Contracted(st, point, box)
         IN  /\ IsStatus(c) /\ c.box = own.box
             /\ c.used = st.used \cup own.used /\ c.witness = st.witness \cup own.witness
<1> DEFINE own == Contraction(problem, point, box)
           j   == InplaceJoin(st, own)
<1>1. IsStatus(j) /\ j.used = st.used \cup own.used /\ j.witness = st.witness \cup own.witness
  BY DEF InplaceJoin, IsStatus
<1>2. Contracted(st, point, box) = [j EXCEPT !.box = own.box]
  BY DEF Contracted, Extended
<1> HIDE DEF j
<1>3. /\ IsStatus([j EXCEPT !.box = own.box]) /\ [j EXCEPT !.box = own.box].box = own.box
      /\ [j EXCEPT !.box = own.box].used = j.used /\ [j EXCEPT !.box = own.box].witness = j.witness
  BY <1>1, SetBox
<1> QED BY <1>1, <1>2, <1>3

(* What a status becomes when something is contracted on it.               *)
Adds(st, new, result) ==
  /\ result.box = new.box
  /\ result.used = st.used \cup new.used /\ result.witness = st.witness \cup new.witness

LEMMA ContractedAdds ==
  ASSUME NEW st, NEW point, NEW box
  PROVE  Adds(st, Contracted(NewStatus(box), point, box), Contracted(st, point, box))
<1> DEFINE own == Contraction(problem, point, box)
           n   == Contracted(NewStatus(box), point, box)
<1>1. n.box = own.box /\ n.used = NewStatus(box).used \cup own.used
      /\ n.witness = NewStatus(box).witness \cup own.witness
  BY ContractedFacts
<1>2. NewStatus(box).used = {} /\ NewStatus(box).witness = {}
  BY DEF NewStatus
<1> HIDE DEF own, n
<1>3. n.used = own.used /\ n.witness = own.witness
  BY <1>1, <1>2
<1> QED BY <1>1, <1>3, ContractedFacts DEF Adds, own, n

(* What is left of a processed box: what the contractors leave, or nothing *)
(* when that is refuted.                                                   *)
LEMMA ProcessedFacts ==
  ASSUME NEW st, NEW point, NEW box
  PROVE  LET left == Contraction(problem, point, box).box
             c    == Contracted(st, point, box)
             fs   == EvaluateBox(problem, left).refuters
             V    == UNION {VarsOf(f) : f \in fs}
             new  == Processed(st, point, box)
         IN  /\ IsStatus(new)
             /\ left = Empty \/ fs = {} => new = c
             /\ ~(left = Empty \/ fs = {}) =>
                  new.box = Empty /\ new.used = c.used \cup fs /\ new.witness = c.witness \cup V
<1> DEFINE left == Contraction(problem, point, box).box
           c    == Contracted(st, point, box)
           fs   == EvaluateBox(problem, c.box).refuters
<1>1. IsStatus(c) /\ c.box = left
  BY ContractedFacts
<1>2. Processed(st, point, box) =
        IF c.box = Empty \/ fs = {} THEN c ELSE AddUsedConstraints([c EXCEPT !.box = Empty], fs)
  BY DEF Processed, Judged, RefutedBy
<1>3. fs = EvaluateBox(problem, left).refuters
  BY <1>1
<1> HIDE DEF c, fs, left
<1>4. /\ IsStatus(AddUsedConstraints([c EXCEPT !.box = Empty], fs))
      /\ AddUsedConstraints([c EXCEPT !.box = Empty], fs).box = Empty
      /\ AddUsedConstraints([c EXCEPT !.box = Empty], fs).used = c.used \cup fs
      /\ AddUsedConstraints([c EXCEPT !.box = Empty], fs).witness =
           c.witness \cup UNION {VarsOf(f) : f \in fs}
  BY <1>1, RefutedFacts
<1> QED BY <1>1, <1>2, <1>3, <1>4 DEF left, c

LEMMA ProcessedAdds ==
  ASSUME NEW st, NEW point, NEW box
  PROVE  Adds(st, Processed(NewStatus(box), point, box), Processed(st, point, box))
<1> DEFINE left == Contraction(problem, point, box).box
           c    == Contracted(st, point, box)
           n    == Contracted(NewStatus(box), point, box)
           fs   == EvaluateBox(problem, left).refuters
           V    == UNION {VarsOf(f) : f \in fs}
           new  == Processed(st, point, box)
           own  == Processed(NewStatus(box), point, box)
<1>1. c.box = n.box /\ c.used = st.used \cup n.used /\ c.witness = st.witness \cup n.witness
  BY ContractedAdds DEF Adds
<1>2. /\ left = Empty \/ fs = {} => new = c
      /\ ~(left = Empty \/ fs = {}) =>
           new.box = Empty /\ new.used = c.used \cup fs /\ new.witness = c.witness \cup V
  BY ProcessedFacts
<1>3. /\ left = Empty \/ fs = {} => own = n
      /\ ~(left = Empty \/ fs = {}) =>
           own.box = Empty /\ own.used = n.used \cup fs /\ own.witness = n.witness \cup V
  BY ProcessedFacts
<1> HIDE DEF left, c, n, fs, V, new, own
<1>4. /\ new.box = own.box /\ new.used = st.used \cup own.used
      /\ new.witness = st.witness \cup own.witness
  BY <1>1, <1>2, <1>3
<1> QED BY <1>4 DEF Adds, new, own

-----------------------------------------------------------------------------
(* Counting the workers.                                                   *)
Held    == {w \in Workers : HasBox(w) \/ pc[w] = "subtract"}
Pushing == {w \in Workers : pc[w] = "push"}

(* Two sets of workers that differ in one worker at most.                  *)
LEMMA OneApart ==
  ASSUME NEW J \in Nat, NEW A \in SUBSET (1 .. J), NEW B \in SUBSET (1 .. J), NEW w \in 1 .. J,
         \A v \in 1 .. J : v # w => (v \in A <=> v \in B)
  PROVE  /\ Cardinality(A) \in Nat /\ Cardinality(B) \in Nat
         /\ (w \in A <=> w \in B) => Cardinality(B) = Cardinality(A)
         /\ w \notin A /\ w \in B => Cardinality(B) = Cardinality(A) + 1
         /\ w \in A /\ w \notin B => Cardinality(B) = Cardinality(A) - 1
<1>1. 1 \in Int /\ J \in Int
  OBVIOUS
<1>2. IsFiniteSet(1 .. J)
  BY <1>1, FS_Interval
<1>3. IsFiniteSet(A) /\ IsFiniteSet(B)
  BY <1>2, FS_Subset
<1>4. Cardinality(A) \in Nat /\ Cardinality(B) \in Nat
  BY <1>3, FS_CardinalityType
<1>5. CASE w \in A <=> w \in B
  <2>1. \A v \in 1 .. J : v \in A <=> v \in B
    BY <1>5
  <2>2. A = B
    BY <2>1
  <2> QED BY <2>2, <1>4, <1>5
<1>6. CASE w \notin A /\ w \in B
  <2>1. B = A \cup {w}
    BY <1>6
  <2> QED BY <2>1, <1>3, <1>4, <1>6, FS_AddElement
<1>7. CASE w \in A /\ w \notin B
  <2>1. B = A \ {w}
    BY <1>7
  <2> QED BY <2>1, <1>3, <1>4, <1>7, FS_RemoveElement
<1> QED BY <1>4, <1>5, <1>6, <1>7

(* The same of the two sets in two states; only w moves.                   *)
LEMMA OneMoves ==
  ASSUME jobs \in Nat, jobs' = jobs, NEW w \in Workers,
         \A v \in Workers : v # w => pc'[v] = pc[v] /\ need_to_pop'[v] = need_to_pop[v]
  PROVE  /\ Cardinality(Held) \in Nat /\ Cardinality(Pushing) \in Nat
         /\ (w \in Held <=> w \in Held') => Cardinality(Held') = Cardinality(Held)
         /\ w \notin Held /\ w \in Held' => Cardinality(Held') = Cardinality(Held) + 1
         /\ w \in Held /\ w \notin Held' => Cardinality(Held') = Cardinality(Held) - 1
         /\ (w \in Pushing <=> w \in Pushing') => Cardinality(Pushing') = Cardinality(Pushing)
         /\ w \notin Pushing /\ w \in Pushing' => Cardinality(Pushing') = Cardinality(Pushing) + 1
         /\ w \in Pushing /\ w \notin Pushing' => Cardinality(Pushing') = Cardinality(Pushing) - 1
<1>1. /\ Held \in SUBSET (1 .. jobs) /\ Held' \in SUBSET (1 .. jobs)
      /\ Pushing \in SUBSET (1 .. jobs) /\ Pushing' \in SUBSET (1 .. jobs)
      /\ w \in 1 .. jobs
  BY DEF Held, Pushing, Workers
<1>2. \A v \in 1 .. jobs : v # w => (v \in Held <=> v \in Held')
  BY DEF Held, HasBox, Workers
<1>3. \A v \in 1 .. jobs : v # w => (v \in Pushing <=> v \in Pushing')
  BY DEF Pushing, Workers
<1> QED BY <1>1, <1>2, <1>3, OneApart

LEMMA NoneCounted ==
  /\ Held = {} => Cardinality(Held) = 0
  /\ Pushing = {} => Cardinality(Pushing) = 0
BY FS_EmptySet

Counted ==
  pc[0] = "join" /\ found_delta_sat = -1 =>
    number_of_boxes = Len(stack) + Cardinality(Held) + Cardinality(Pushing)

LEMMA CountedIs ==
  (BoxesCounted <=> Counted) /\ (BoxesCounted' <=> Counted')
<1>1. BoxesCounted <=> Counted
  BY DEF BoxesCounted, Counted, Held, Pushing
<1> QED BY <1>1, PTL

-----------------------------------------------------------------------------
LEMMA CountInit == Init => CountIInv
<1> SUFFICES ASSUME Init  PROVE CountIInv
  OBVIOUS
<1>1. jobs \in Nat \ {0} /\ 0 \in 0 .. jobs /\ Workers \subseteq 0 .. jobs
  BY IcpAssumption DEF Init, Workers
<1>2. IcpTypeOK
  <2>1. stack \in Seq({stack[k] : k \in DOMAIN stack})
    BY DEF Init
  <2>2. left_first \in [0 .. jobs -> BOOLEAN]
    BY DEF Init
  <2>3. \A w \in 0 .. jobs : IsStatus(status[w])
    BY DEF Init, NewStatus, IsStatus
  <2> QED BY <1>1, <2>1, <2>2, <2>3 DEF Init, IcpTypeOK
<1>3. WorkersOK
  BY <1>1 DEF Init, WorkersOK, WorkerOK, FoundOK, AtWork
<1>4. BoxesCounted
  BY <1>1 DEF Init, BoxesCounted
<1> QED BY <1>2, <1>3, <1>4 DEF CountIInv

-----------------------------------------------------------------------------
(* A worker's step.                                                        *)

(* What it leaves alone.                                                   *)
OnlyMoves(w) ==
  /\ UNCHANGED call
  /\ pc'[0] = pc[0]
  /\ \A v \in Workers : v # w =>
       pc'[v] = pc[v] /\ need_to_pop'[v] = need_to_pop[v] /\ status'[v] = status[v]

(* Where it goes, and what it has then.                                    *)
Moved(w, label, pop, st) ==
  pc'[w] = label /\ need_to_pop'[w] = pop /\ status'[w] = st

LEMMA WorkerIndex ==
  ASSUME IcpTypeOK, NEW w \in Workers
  PROVE  /\ jobs \in Nat \ {0} /\ w \in 0 .. jobs /\ w # 0 /\ w # -1 /\ 0 \in 0 .. jobs
         /\ Workers \subseteq 0 .. jobs /\ IsStatus(status[w]) /\ need_to_pop[w] \in BOOLEAN
BY DEF IcpTypeOK, Workers

LEMMA CheckFoundFacts ==
  ASSUME CountIInv, NEW w \in Workers, CheckFound(w)
  PROVE  /\ IcpTypeOK' /\ OnlyMoves(w) /\ UNCHANGED shared
         /\ pc[w] = "check_found"
         /\ \E l \in {"check_count", "done"} :
              /\ l = "done" => found_delta_sat # -1
              /\ Moved(w, l, need_to_pop[w], status[w])
<1>1. PICK l \in {"check_count", "done"} :
        /\ l = "done" => found_delta_sat # -1
        /\ pc' = [pc EXCEPT ![w] = l]
  BY DEF CheckFound, Goto
<1> USE DEF CountIInv, CheckFound, call, shared
<1>2. IcpTypeOK'
  BY <1>1, WorkerIndex DEF IcpTypeOK, Workers
<1>3. OnlyMoves(w) /\ Moved(w, l, need_to_pop[w], status[w])
  BY <1>1, WorkerIndex DEF OnlyMoves, Moved, IcpTypeOK
<1> QED BY <1>1, <1>2, <1>3

LEMMA CheckCountFacts ==
  ASSUME CountIInv, NEW w \in Workers, CheckCount(w)
  PROVE  /\ IcpTypeOK' /\ OnlyMoves(w) /\ UNCHANGED shared
         /\ pc[w] = "check_count"
         /\ \/ number_of_boxes = 0 /\ Moved(w, "done", need_to_pop[w], status[w])
            \/ need_to_pop[w] /\ Moved(w, "pop", TRUE, status[w])
            \/ ~need_to_pop[w] /\ Moved(w, "prune", TRUE, status[w])
<1>1. PICK l \in {"done", "pop", "prune"} : \E b \in BOOLEAN :
        /\ pc' = [pc EXCEPT ![w] = l] /\ need_to_pop' = [need_to_pop EXCEPT ![w] = b]
        /\ \/ number_of_boxes = 0 /\ l = "done" /\ b = need_to_pop[w]
           \/ need_to_pop[w] /\ l = "pop" /\ b
           \/ ~need_to_pop[w] /\ l = "prune" /\ b
  <2>1. IcpTypeOK /\ need_to_pop[w] \in BOOLEAN
    BY WorkerIndex DEF CountIInv
  <2>2. CASE number_of_boxes = 0
    <3>1. pc' = [pc EXCEPT ![w] = "done"] /\ need_to_pop' = need_to_pop
      BY <2>2 DEF CheckCount, Goto
    <3>2. need_to_pop' = [need_to_pop EXCEPT ![w] = need_to_pop[w]]
      BY <2>1, <3>1, WorkerIndex DEF IcpTypeOK
    <3> QED BY <2>1, <2>2, <3>1, <3>2
  <2>3. CASE number_of_boxes # 0
    BY <2>1, <2>3 DEF CheckCount, Goto
  <2> QED BY <2>2, <2>3
<1>2. PICK b \in BOOLEAN :
        /\ pc' = [pc EXCEPT ![w] = l] /\ need_to_pop' = [need_to_pop EXCEPT ![w] = b]
        /\ \/ number_of_boxes = 0 /\ l = "done" /\ b = need_to_pop[w]
           \/ need_to_pop[w] /\ l = "pop" /\ b
           \/ ~need_to_pop[w] /\ l = "prune" /\ b
  BY <1>1
<1> USE DEF CountIInv, call, shared
<1>3. pc[w] = "check_count" /\ UNCHANGED <<call, shared, status, left_first>>
  BY DEF CheckCount
<1>4. IcpTypeOK'
  BY <1>2, <1>3, WorkerIndex DEF IcpTypeOK, Workers, AtWork
<1>5. OnlyMoves(w)
  BY <1>2, <1>3, WorkerIndex DEF OnlyMoves, IcpTypeOK
<1>6. Moved(w, l, b, status[w])
  BY <1>2, <1>3, WorkerIndex DEF Moved, IcpTypeOK
<1> QED BY <1>2, <1>3, <1>4, <1>5, <1>6

LEMMA PopFacts ==
  ASSUME CountIInv, NEW w \in Workers, Pop(w)
  PROVE  /\ IcpTypeOK' /\ OnlyMoves(w) /\ UNCHANGED <<found_delta_sat, number_of_boxes>>
         /\ pc[w] = "pop"
         /\ \/ stack = <<>> /\ UNCHANGED stack /\ Moved(w, "check_found", need_to_pop[w], status[w])
            \/ /\ stack # <<>> /\ stack' = SubSeq(stack, 1, Len(stack) - 1)
               /\ Moved(w, "prune", need_to_pop[w], [status[w] EXCEPT !.box = stack[Len(stack)][1]])
<1> DEFINE st == [status[w] EXCEPT !.box = stack[Len(stack)][1]]
<1>1. /\ pc[w] = "pop" /\ UNCHANGED <<call, found_delta_sat, number_of_boxes, need_to_pop, left_first>>
      /\ IcpTypeOK
  BY DEF Pop, CountIInv
<1>2. CASE stack = <<>>
  <2>1. UNCHANGED <<stack, status>> /\ pc' = [pc EXCEPT ![w] = "check_found"]
    BY <1>2 DEF Pop, Goto
  <2>2. IcpTypeOK'
    BY <1>1, <2>1, WorkerIndex DEF IcpTypeOK, Workers, call
  <2> QED BY <1>1, <1>2, <2>1, <2>2, WorkerIndex DEF OnlyMoves, Moved, IcpTypeOK
<1>3. CASE stack # <<>>
  <2>1. /\ stack' = SubSeq(stack, 1, Len(stack) - 1)
        /\ status' = [status EXCEPT ![w] = st]
        /\ pc' = [pc EXCEPT ![w] = "prune"]
    BY <1>3 DEF Pop, Goto
  <2>2. stack' \in Seq({stack'[k] : k \in DOMAIN stack'})
    <3>1. stack \in Seq({stack[k] : k \in DOMAIN stack})
      BY <1>1 DEF IcpTypeOK
    <3>2. stack' \in Seq({stack[k] : k \in DOMAIN stack})
      BY <1>3, <2>1, <3>1, Popped
    <3> QED BY <3>2, OwnElements
  <2>3. IsStatus(st)
    BY <1>1, WorkerIndex, SetBox
  <2> HIDE DEF st
  <2>4. DOMAIN status' = 0 .. jobs /\ \A v \in 0 .. jobs : IsStatus(status'[v])
    BY <1>1, <2>1, <2>3, WorkerIndex DEF IcpTypeOK
  <2>5. IcpTypeOK'
    BY <1>1, <2>1, <2>2, <2>4, WorkerIndex DEF IcpTypeOK, Workers, call, AtWork
  <2>6. Moved(w, "prune", need_to_pop[w], st)
    BY <1>1, <2>1, WorkerIndex DEF Moved, IcpTypeOK
  <2>7. OnlyMoves(w)
    BY <1>1, <2>1, WorkerIndex DEF OnlyMoves, IcpTypeOK
  <2> QED BY <1>1, <1>3, <2>1, <2>5, <2>6, <2>7 DEF st
<1> QED BY <1>2, <1>3

LEMMA PruneBoxFacts ==
  ASSUME CountIInv, NEW w \in Workers, PruneBox(w)
  PROVE  /\ IcpTypeOK' /\ OnlyMoves(w) /\ UNCHANGED shared
         /\ pc[w] = "prune"
         /\ LET st == Processed(status[w], branching_point, status[w].box)
            IN  Moved(w, IF st.box = Empty THEN "subtract"
                         ELSE IF IsFinal(st.box) THEN "found" ELSE "add", need_to_pop[w], st)
<1> DEFINE st == Processed(status[w], branching_point, status[w].box)
           l  == IF st.box = Empty THEN "subtract" ELSE IF IsFinal(st.box) THEN "found" ELSE "add"
<1>1. /\ pc[w] = "prune" /\ UNCHANGED <<call, shared, need_to_pop, left_first>>
      /\ status' = [status EXCEPT ![w] = st] /\ pc' = [pc EXCEPT ![w] = l]
      /\ IcpTypeOK
  BY DEF PruneBox, Goto, CountIInv
<1>2. IsStatus(st) /\ l \in {"subtract", "found", "add"}
  BY ProcessedFacts
<1> HIDE DEF st, l
<1>3. DOMAIN status' = 0 .. jobs /\ \A v \in 0 .. jobs : IsStatus(status'[v])
  BY <1>1, <1>2, WorkerIndex DEF IcpTypeOK
<1>4. IcpTypeOK'
  BY <1>1, <1>2, <1>3, WorkerIndex DEF IcpTypeOK, Workers, call, shared, AtWork
<1>5. Moved(w, l, need_to_pop[w], st)
  BY <1>1, WorkerIndex DEF Moved, IcpTypeOK
<1>6. OnlyMoves(w)
  BY <1>1, WorkerIndex DEF OnlyMoves, IcpTypeOK
<1> QED BY <1>1, <1>4, <1>5, <1>6 DEF st, l

LEMMA SubtractFacts ==
  ASSUME CountIInv, NEW w \in Workers, Subtract(w)
  PROVE  /\ IcpTypeOK' /\ OnlyMoves(w) /\ UNCHANGED <<stack, found_delta_sat>>
         /\ pc[w] = "subtract" /\ number_of_boxes' = number_of_boxes - 1
         /\ Moved(w, "check_found", need_to_pop[w], status[w])
<1> USE DEF CountIInv, Subtract, Goto, call
<1>1. IcpTypeOK'
  BY WorkerIndex DEF IcpTypeOK, Workers
<1> QED BY <1>1, WorkerIndex DEF OnlyMoves, Moved, IcpTypeOK

LEMMA FoundFacts ==
  ASSUME CountIInv, NEW w \in Workers, Found(w)
  PROVE  /\ IcpTypeOK' /\ OnlyMoves(w) /\ UNCHANGED <<stack, number_of_boxes>>
         /\ pc[w] = "found" /\ found_delta_sat' = w
         /\ Moved(w, "done", need_to_pop[w], status[w])
<1> USE DEF CountIInv, Found, Goto, call
<1>1. IcpTypeOK'
  BY WorkerIndex DEF IcpTypeOK, Workers
<1> QED BY <1>1, WorkerIndex DEF OnlyMoves, Moved, IcpTypeOK

LEMMA AddBoxFacts ==
  ASSUME CountIInv, NEW w \in Workers, AddBox(w)
  PROVE  /\ IcpTypeOK' /\ OnlyMoves(w) /\ UNCHANGED <<stack, found_delta_sat>>
         /\ pc[w] = "add" /\ number_of_boxes' = number_of_boxes + 1
         /\ Moved(w, "push", need_to_pop[w], status[w])
<1> USE DEF CountIInv, AddBox, Goto, call
<1>1. IcpTypeOK'
  BY WorkerIndex DEF IcpTypeOK, Workers, AtWork
<1> QED BY <1>1, WorkerIndex DEF OnlyMoves, Moved, IcpTypeOK

LEMMA PushFacts ==
  ASSUME CountIInv, NEW w \in Workers, Push(w)
  PROVE  /\ IcpTypeOK' /\ OnlyMoves(w) /\ UNCHANGED <<found_delta_sat, number_of_boxes>>
         /\ pc[w] = "push"
         /\ \E halves \in {Bisect(status[w].box, BranchOn(status[w].box))} : \E kept \in {1, 2} :
              /\ stack' = Append(stack, <<halves[3 - kept], -1>>)
              /\ Moved(w, "check_found", FALSE, [status[w] EXCEPT !.box = halves[kept]])
<1> DEFINE halves == Bisect(status[w].box, BranchOn(status[w].box))
           kept == IF left_first[w] THEN 2 ELSE 1
           e    == <<halves[3 - kept], -1>>
           st   == [status[w] EXCEPT !.box = halves[kept]]
<1>1. /\ pc[w] = "push" /\ UNCHANGED <<call, found_delta_sat, number_of_boxes>>
      /\ stack' = Append(stack, e)
      /\ status' = [status EXCEPT ![w] = st] /\ pc' = [pc EXCEPT ![w] = "check_found"]
      /\ left_first' = [left_first EXCEPT ![w] = ~@]
      /\ need_to_pop' = [need_to_pop EXCEPT ![w] = FALSE]
      /\ IcpTypeOK
  BY DEF Push, Goto, CountIInv
<1>2. IsStatus(st)
  BY <1>1, WorkerIndex, SetBox
<1> HIDE DEF st, e
<1>3. stack' \in Seq({stack'[k] : k \in DOMAIN stack'})
  <2>1. stack' \in Seq({stack[k] : k \in DOMAIN stack} \cup {e})
    BY <1>1, Pushed DEF IcpTypeOK
  <2> QED BY <2>1, OwnElements
<1>4. DOMAIN status' = 0 .. jobs /\ \A v \in 0 .. jobs : IsStatus(status'[v])
  BY <1>1, <1>2, WorkerIndex DEF IcpTypeOK
<1>5. IcpTypeOK'
  BY <1>1, <1>3, <1>4, WorkerIndex DEF IcpTypeOK, Workers, call
<1>6. Moved(w, "check_found", FALSE, st)
  BY <1>1, WorkerIndex DEF Moved, IcpTypeOK
<1>7. OnlyMoves(w)
  BY <1>1, WorkerIndex DEF OnlyMoves, IcpTypeOK
<1>8. kept \in {1, 2}
  OBVIOUS
<1> HIDE DEF kept, halves
<1>9. \E k \in {1, 2} : /\ stack' = Append(stack, <<halves[3 - k], -1>>)
                        /\ Moved(w, "check_found", FALSE, [status[w] EXCEPT !.box = halves[k]])
  BY <1>1, <1>6, <1>8 DEF e, st
<1> QED BY <1>1, <1>5, <1>7, <1>9 DEF halves

(* No worker but w, and no result already there, is disturbed by w's step, *)
(* as long as the last box is not counted away from under one that stopped *)
(* for want of boxes.                                                      *)
LEMMA OthersOK ==
  ASSUME IcpTypeOK, WorkersOK, NEW w \in Workers, OnlyMoves(w), pc[w] # "done",
         found_delta_sat' = found_delta_sat,
         \/ number_of_boxes' = number_of_boxes
         \/ pc[0] = "join" /\ found_delta_sat = -1 => number_of_boxes # 0,
         WorkerOK(w)'
  PROVE  WorkersOK'
<1>1. jobs' = jobs /\ Workers' = Workers /\ found_delta_sat \in {-1} \cup Workers
  BY DEF OnlyMoves, call, Workers, IcpTypeOK
<1>2. ASSUME NEW v \in Workers, v # w  PROVE WorkerOK(v)'
  BY <1>2 DEF WorkersOK, WorkerOK, OnlyMoves
<1>3. FoundOK'
  BY <1>1 DEF WorkersOK, FoundOK, OnlyMoves
<1> QED BY <1>1, <1>2, <1>3 DEF WorkersOK

(* Its step keeps the count when what it holds, what it is about to push,  *)
(* the stack and the counter change together.                              *)
LEMMA CountMoves ==
  ASSUME IcpTypeOK, NEW w \in Workers, OnlyMoves(w)
  PROVE  /\ (w \in Held <=> w \in Held') => Cardinality(Held') = Cardinality(Held)
         /\ w \notin Held /\ w \in Held' => Cardinality(Held') = Cardinality(Held) + 1
         /\ w \in Held /\ w \notin Held' => Cardinality(Held') = Cardinality(Held) - 1
         /\ (w \in Pushing <=> w \in Pushing') => Cardinality(Pushing') = Cardinality(Pushing)
         /\ w \notin Pushing /\ w \in Pushing' => Cardinality(Pushing') = Cardinality(Pushing) + 1
         /\ w \in Pushing /\ w \notin Pushing' => Cardinality(Pushing') = Cardinality(Pushing) - 1
         /\ w \in Held => Cardinality(Held) > 0
         /\ Cardinality(Held) \in Nat /\ Cardinality(Pushing) \in Nat
         /\ Len(stack) \in Nat /\ number_of_boxes \in Int
         /\ Workers' = Workers /\ w \in 0 .. jobs /\ pc'[0] = pc[0]
<1>1. jobs' = jobs /\ jobs \in Nat /\ Workers' = Workers /\ w \in 0 .. jobs /\ pc'[0] = pc[0]
  BY WorkerIndex DEF OnlyMoves, call, Workers
<1>2. \A v \in Workers : v # w => pc'[v] = pc[v] /\ need_to_pop'[v] = need_to_pop[v]
  BY DEF OnlyMoves
<1>3. Len(stack) \in Nat /\ number_of_boxes \in Int
  BY LenProperties DEF IcpTypeOK
<1>4. w \in Held => Cardinality(Held) # 0
  <2>1. IsFiniteSet(Held)
    <3>1. 1 \in Int /\ jobs \in Int /\ Held \in SUBSET (1 .. jobs)
      BY <1>1 DEF Held, Workers
    <3> QED BY <3>1, FS_Interval, FS_Subset
  <2> QED BY <2>1, FS_EmptySet
<1> HIDE DEF Held, Pushing
<1>5. /\ Cardinality(Held) \in Nat /\ Cardinality(Pushing) \in Nat
      /\ (w \in Held <=> w \in Held') => Cardinality(Held') = Cardinality(Held)
      /\ w \notin Held /\ w \in Held' => Cardinality(Held') = Cardinality(Held) + 1
      /\ w \in Held /\ w \notin Held' => Cardinality(Held') = Cardinality(Held) - 1
      /\ (w \in Pushing <=> w \in Pushing') => Cardinality(Pushing') = Cardinality(Pushing)
      /\ w \notin Pushing /\ w \in Pushing' => Cardinality(Pushing') = Cardinality(Pushing) + 1
      /\ w \in Pushing /\ w \notin Pushing' => Cardinality(Pushing') = Cardinality(Pushing) - 1
  BY <1>1, <1>2, OneMoves, Zenon
<1>6. w \in Held => Cardinality(Held) > 0
  BY <1>4, <1>5
<1> QED BY <1>1, <1>3, <1>5, <1>6, Zenon

LEMMA CheckFoundPreserves ==
  ASSUME CountIInv, NEW w \in Workers, CheckFound(w)
  PROVE  CountIInv'
<1>1. PICK l \in {"check_count", "done"} :
        /\ IcpTypeOK' /\ OnlyMoves(w) /\ UNCHANGED shared /\ pc[w] = "check_found"
        /\ l = "done" => found_delta_sat # -1
        /\ Moved(w, l, need_to_pop[w], status[w])
  BY CheckFoundFacts
<1>2. WorkersOK'
  <2>1. WorkerOK(w)'
    <3>1. pc'[w] = l /\ found_delta_sat' = found_delta_sat /\ pc[0] = pc'[0] /\ pc[w] # "idle"
      BY <1>1 DEF Moved, OnlyMoves, shared
    <3>2. WorkerOK(w)
      BY DEF CountIInv, WorkersOK
    <3>3. pc'[w] \notin {"idle", "pop"} \cup AtWork /\ pc'[w] \notin {"found", "add", "push"}
      BY <3>1 DEF AtWork
    <3>4. ~(pc'[0] \in {"idle", "search", "initial"})
      BY <1>1, <3>1, <3>2 DEF WorkerOK
    <3>5. ~(pc'[w] = "done" /\ found_delta_sat' = -1)
      BY <1>1, <3>1
    <3> QED BY <3>3, <3>4, <3>5 DEF WorkerOK
  <2> QED BY <1>1, <2>1, OthersOK DEF CountIInv, shared
<1>3. BoxesCounted'
  <2>1. (w \in Held <=> w \in Held') /\ (w \in Pushing <=> w \in Pushing')
    BY <1>1, CountMoves DEF CountIInv, Held, Pushing, HasBox, Moved
  <2>2. Counted
    BY CountedIs DEF CountIInv
  <2>3. Counted'
    BY <1>1, <2>1, <2>2, CountMoves DEF CountIInv, shared, Counted
  <2> QED BY <2>3, CountedIs
<1> QED BY <1>1, <1>2, <1>3 DEF CountIInv

LEMMA Labels ==
  /\ "check_found" \notin AtWork
  /\ "subtract" \in AtWork /\ "push" \in AtWork /\ "add" \in AtWork
BY DEF AtWork

LEMMA HeldIs ==
  ASSUME NEW w \in Workers, OnlyMoves(w), NEW l, NEW b \in BOOLEAN, NEW st, Moved(w, l, b, st)
  PROVE  /\ w \in Held <=> pc[w] \in AtWork \/ ~need_to_pop[w]
         /\ w \in Held' <=> l \in AtWork \/ ~b
         /\ w \in Pushing <=> pc[w] = "push"
         /\ w \in Pushing' <=> l = "push"
BY DEF OnlyMoves, Moved, call, Held, Pushing, HasBox, Workers, AtWork

(* The two invariants after a step that leads w to l, taken apart.         *)
LEMMA WorkerOKNext ==
  ASSUME NEW w \in Workers, WorkersOK, OnlyMoves(w), pc[w] # "idle",
         NEW l, NEW b \in BOOLEAN, NEW st, Moved(w, l, b, st),
         l # "idle",
         l \in {"pop"} \cup AtWork => b,
         l \notin {"done"},
         l \in {"found", "add", "push"} => st.box # Empty
  PROVE  WorkerOK(w)'
<1>1. pc'[w] = l /\ need_to_pop'[w] = b /\ status'[w] = st /\ pc'[0] = pc[0]
  BY DEF Moved, OnlyMoves
<1>2. ~(pc[0] \in {"idle", "search", "initial"})
  BY DEF WorkersOK, WorkerOK
<1> QED BY <1>1, <1>2 DEF WorkerOK

LEMMA CheckCountPreserves ==
  ASSUME CountIInv, NEW w \in Workers, CheckCount(w)
  PROVE  CountIInv'
<1>1. /\ IcpTypeOK' /\ OnlyMoves(w) /\ UNCHANGED shared /\ pc[w] = "check_count"
      /\ IcpTypeOK /\ WorkersOK /\ Counted
  BY CheckCountFacts, CountedIs DEF CountIInv
<1>2. need_to_pop[w] \in BOOLEAN
  BY <1>1, WorkerIndex
<1>3. CASE number_of_boxes = 0 /\ Moved(w, "done", need_to_pop[w], status[w])
  <2>1. WorkerOK(w)'
    <3>1. /\ pc'[w] = "done" /\ pc'[0] = pc[0] /\ number_of_boxes' = 0
      BY <1>1, <1>3 DEF Moved, OnlyMoves, shared
    <3>2. ~(pc[0] \in {"idle", "search", "initial"})
      BY <1>1 DEF WorkersOK, WorkerOK
    <3> QED BY <3>1, <3>2 DEF WorkerOK, AtWork
  <2>2. WorkersOK'
    BY <1>1, <2>1, OthersOK DEF shared
  <2>3. (w \in Held <=> w \in Held') /\ (w \in Pushing <=> w \in Pushing')
    BY <1>1, <1>2, <1>3, HeldIs DEF AtWork
  <2>4. Counted'
    BY <1>1, <2>3, CountMoves DEF shared, Counted
  <2> QED BY <1>1, <2>2, <2>4, CountedIs DEF CountIInv
<1>4. ASSUME NEW l \in {"pop", "prune"}, need_to_pop[w] <=> l = "pop",
             Moved(w, l, TRUE, status[w])
      PROVE  CountIInv'
  <2>1. WorkerOK(w)'
    BY <1>1, <1>4, WorkerOKNext
  <2>2. WorkersOK'
    BY <1>1, <2>1, OthersOK DEF shared
  <2>3. (w \in Held <=> w \in Held') /\ (w \in Pushing <=> w \in Pushing')
    BY <1>1, <1>2, <1>4, HeldIs DEF AtWork
  <2>4. Counted'
    BY <1>1, <2>3, CountMoves DEF shared, Counted
  <2> QED BY <1>1, <2>2, <2>4, CountedIs DEF CountIInv
<1> QED BY <1>3, <1>4, CheckCountFacts

LEMMA PopPreserves ==
  ASSUME CountIInv, NEW w \in Workers, Pop(w)
  PROVE  CountIInv'
<1>1. /\ IcpTypeOK' /\ OnlyMoves(w) /\ UNCHANGED <<found_delta_sat, number_of_boxes>>
      /\ pc[w] = "pop" /\ need_to_pop[w]
      /\ IcpTypeOK /\ WorkersOK /\ Counted
  BY PopFacts, CountedIs DEF CountIInv, WorkersOK, WorkerOK
<1>2. ASSUME NEW l \in {"check_found", "prune"}, NEW st, Moved(w, l, need_to_pop[w], st),
             Len(stack') = IF l = "prune" THEN Len(stack) - 1 ELSE Len(stack)
      PROVE  CountIInv'
  <2>1. WorkerOK(w)'
    BY <1>1, <1>2, WorkerOKNext, WorkerIndex
  <2>2. WorkersOK'
    BY <1>1, <2>1, OthersOK
  <2>3. /\ w \notin Held /\ (w \in Held' <=> l = "prune") /\ (w \in Pushing <=> w \in Pushing')
    BY <1>1, <1>2, HeldIs, WorkerIndex DEF AtWork
  <2>4. Counted'
    <3>1. CASE l = "prune"
      BY <1>1, <1>2, <2>3, <3>1, CountMoves DEF Counted
    <3>2. CASE l # "prune"
      BY <1>1, <1>2, <2>3, <3>2, CountMoves DEF Counted
    <3> QED BY <3>1, <3>2
  <2> QED BY <1>1, <2>2, <2>4, CountedIs DEF CountIInv
<1>3. CASE stack = <<>> /\ UNCHANGED stack /\ Moved(w, "check_found", need_to_pop[w], status[w])
  BY <1>2, <1>3
<1>4. ASSUME stack # <<>>, stack' = SubSeq(stack, 1, Len(stack) - 1),
             NEW st, Moved(w, "prune", need_to_pop[w], st)
      PROVE  CountIInv'
  <2>1. Len(stack') = Len(stack) - 1
    BY <1>1, <1>4, Popped DEF IcpTypeOK
  <2> QED BY <1>2, <1>4, <2>1
<1> QED BY <1>3, <1>4, PopFacts

LEMMA PruneBoxPreserves ==
  ASSUME CountIInv, NEW w \in Workers, PruneBox(w)
  PROVE  CountIInv'
<1> DEFINE st == Processed(status[w], branching_point, status[w].box)
           l  == IF st.box = Empty THEN "subtract" ELSE IF IsFinal(st.box) THEN "found" ELSE "add"
<1>1. /\ IcpTypeOK' /\ OnlyMoves(w) /\ UNCHANGED shared
      /\ pc[w] = "prune" /\ need_to_pop[w]
      /\ IcpTypeOK /\ WorkersOK /\ Counted
      /\ Moved(w, l, need_to_pop[w], st)
  BY PruneBoxFacts, CountedIs DEF CountIInv, WorkersOK, WorkerOK, AtWork
<1>2. l \in {"subtract", "found", "add"} /\ (l # "subtract" => st.box # Empty)
  OBVIOUS
<1> HIDE DEF l, st
<1>3. WorkerOK(w)'
  BY <1>1, <1>2, WorkerOKNext, WorkerIndex
<1>4. WorkersOK'
  BY <1>1, <1>3, OthersOK DEF shared
<1>5. w \in Held /\ w \in Held' /\ (w \in Pushing <=> w \in Pushing')
  BY <1>1, <1>2, HeldIs, WorkerIndex DEF AtWork
<1>6. Counted'
  BY <1>1, <1>5, CountMoves DEF shared, Counted
<1> QED BY <1>1, <1>4, <1>6, CountedIs DEF CountIInv

LEMMA SubtractPreserves ==
  ASSUME CountIInv, NEW w \in Workers, Subtract(w)
  PROVE  CountIInv'
<1>1. /\ IcpTypeOK' /\ OnlyMoves(w) /\ UNCHANGED <<stack, found_delta_sat>>
      /\ pc[w] = "subtract" /\ number_of_boxes' = number_of_boxes - 1 /\ need_to_pop[w]
      /\ IcpTypeOK /\ WorkersOK /\ Counted
      /\ Moved(w, "check_found", need_to_pop[w], status[w])
  BY SubtractFacts, CountedIs DEF CountIInv, WorkersOK, WorkerOK, AtWork
<1>2. w \in Held /\ w \notin Held' /\ (w \in Pushing <=> w \in Pushing')
  BY <1>1, HeldIs, WorkerIndex, Labels
<1>3. pc[0] = "join" /\ found_delta_sat = -1 => number_of_boxes # 0
  BY <1>1, <1>2, CountMoves DEF Counted
<1>4. WorkerOK(w)'
  <2>1. PICK l \in {"check_found"} : Moved(w, l, need_to_pop[w], status[w])
    BY <1>1
  <2>2. l \in {"pop"} \cup AtWork => need_to_pop[w]
    BY <1>1, Labels
  <2> QED BY <1>1, <2>1, <2>2, WorkerOKNext, WorkerIndex
<1>5. WorkersOK'
  BY <1>1, <1>3, <1>4, OthersOK
<1>6. Counted'
  BY <1>1, <1>2, CountMoves DEF Counted
<1> QED BY <1>1, <1>5, <1>6, CountedIs DEF CountIInv

LEMMA AddBoxPreserves ==
  ASSUME CountIInv, NEW w \in Workers, AddBox(w)
  PROVE  CountIInv'
<1>1. /\ IcpTypeOK' /\ OnlyMoves(w) /\ UNCHANGED <<stack, found_delta_sat>>
      /\ pc[w] = "add" /\ number_of_boxes' = number_of_boxes + 1 /\ need_to_pop[w]
      /\ IcpTypeOK /\ WorkersOK /\ Counted /\ status[w].box # Empty
      /\ Moved(w, "push", need_to_pop[w], status[w])
  BY AddBoxFacts, CountedIs DEF CountIInv, WorkersOK, WorkerOK, AtWork
<1>2. w \in Held /\ w \in Held' /\ w \notin Pushing /\ w \in Pushing'
  BY <1>1, HeldIs, WorkerIndex, Labels
<1>3. pc[0] = "join" /\ found_delta_sat = -1 => number_of_boxes # 0
  BY <1>1, <1>2, CountMoves DEF Counted
<1>4. WorkerOK(w)'
  <2>1. PICK l \in {"push"} : Moved(w, l, need_to_pop[w], status[w])
    BY <1>1
  <2>2. l \in {"pop"} \cup AtWork => need_to_pop[w]
    BY <1>1, Labels
  <2> QED BY <1>1, <2>1, <2>2, WorkerOKNext, WorkerIndex
<1>5. WorkersOK'
  BY <1>1, <1>3, <1>4, OthersOK
<1>6. Counted'
  BY <1>1, <1>2, CountMoves DEF Counted
<1> QED BY <1>1, <1>5, <1>6, CountedIs DEF CountIInv

LEMMA PushPreserves ==
  ASSUME CountIInv, NEW w \in Workers, Push(w)
  PROVE  CountIInv'
<1>1. PICK e, st :
        /\ IcpTypeOK' /\ OnlyMoves(w) /\ UNCHANGED <<found_delta_sat, number_of_boxes>>
        /\ pc[w] = "push" /\ stack' = Append(stack, e)
        /\ Moved(w, "check_found", FALSE, st)
  BY PushFacts
<1>2. IcpTypeOK /\ WorkersOK /\ Counted /\ need_to_pop[w]
  BY <1>1, CountedIs DEF CountIInv, WorkersOK, WorkerOK, AtWork
<1>3. Len(stack') = Len(stack) + 1
  BY <1>1, <1>2, Pushed DEF IcpTypeOK
<1>4. w \in Held /\ w \in Held' /\ w \in Pushing /\ w \notin Pushing'
  BY <1>1, <1>2, HeldIs, Labels
<1>5. WorkerOK(w)'
  <2>1. PICK l \in {"check_found"} : Moved(w, l, FALSE, st)
    BY <1>1
  <2>2. l \in {"pop"} \cup AtWork => FALSE
    BY <1>1, Labels
  <2> QED BY <1>1, <1>2, <2>1, <2>2, WorkerOKNext
<1>6. WorkersOK'
  BY <1>1, <1>2, <1>5, OthersOK
<1>7. Counted'
  BY <1>1, <1>2, <1>3, <1>4, CountMoves DEF Counted
<1> QED BY <1>1, <1>6, <1>7, CountedIs DEF CountIInv

LEMMA FoundPreserves ==
  ASSUME CountIInv, NEW w \in Workers, Found(w)
  PROVE  CountIInv'
<1>1. /\ IcpTypeOK' /\ OnlyMoves(w) /\ UNCHANGED <<stack, number_of_boxes>>
      /\ pc[w] = "found" /\ found_delta_sat' = w
      /\ IcpTypeOK /\ WorkersOK /\ status[w].box # Empty
      /\ Moved(w, "done", need_to_pop[w], status[w])
  BY FoundFacts DEF CountIInv, WorkersOK, WorkerOK
<1>2. w # -1 /\ Workers' = Workers
  BY <1>1, WorkerIndex DEF OnlyMoves, call, Workers
<1>3. ~(pc[0] \in {"idle", "search", "initial"})
  BY <1>1 DEF WorkersOK, WorkerOK
<1>4. ASSUME NEW v \in Workers  PROVE WorkerOK(v)'
  <2>1. CASE v = w
    BY <1>1, <1>2, <1>3, <2>1 DEF WorkerOK, Moved, OnlyMoves, AtWork
  <2>2. CASE v # w
    BY <1>1, <1>2, <2>2 DEF WorkersOK, WorkerOK, OnlyMoves
  <2> QED BY <2>1, <2>2
<1>5. FoundOK'
  BY <1>1 DEF FoundOK, Moved
<1>6. BoxesCounted'
  BY <1>1, <1>2 DEF BoxesCounted
<1> QED BY <1>1, <1>2, <1>4, <1>5, <1>6 DEF CountIInv, WorkersOK

-----------------------------------------------------------------------------
(* The caller's steps, while no worker runs.                               *)

LEMMA CallerPreserves ==
  ASSUME CountIInv, NEW l \in {"search", "initial", "done"},
         pc[0] # "done", pc[0] = "join" => l = "done",
         pc' = [pc EXCEPT ![0] = l],
         UNCHANGED <<problem, jobs, status, need_to_pop, found_delta_sat, number_of_boxes>>,
         stack' \in Seq({stack'[k] : k \in DOMAIN stack'}),
         left_first' \in [0 .. jobs -> BOOLEAN]
  PROVE  CountIInv'
<1>1. IcpTypeOK /\ WorkersOK /\ 0 \in 0 .. jobs /\ Workers \subseteq 0 .. jobs /\ 0 \notin Workers
  BY DEF CountIInv, IcpTypeOK, Workers
<1>2. /\ pc'[0] = l /\ \A w \in Workers : pc'[w] = pc[w]
      /\ Workers' = Workers
  BY <1>1 DEF IcpTypeOK, Workers
<1>3. IcpTypeOK'
  BY <1>1, <1>2 DEF IcpTypeOK, AtWork
<1>4. \A w \in Workers : WorkerOK(w)'
  BY <1>1, <1>2 DEF IcpTypeOK, WorkersOK, WorkerOK
<1>5. FoundOK'
  BY <1>1, <1>2 DEF IcpTypeOK, WorkersOK, FoundOK
<1>6. BoxesCounted'
  BY <1>2 DEF BoxesCounted
<1> QED BY <1>2, <1>3, <1>4, <1>5, <1>6 DEF CountIInv, WorkersOK

LEMMA BuildPreserves == CountIInv /\ Build => CountIInv'
<1> SUFFICES ASSUME CountIInv, Build  PROVE CountIInv'
  OBVIOUS
<1>1. PICK st : /\ pc[0] = "idle"
                /\ pc' = [pc EXCEPT ![0] = IF st.box = Empty THEN "done"
                                           ELSE IF Parallel THEN "initial" ELSE "search"]
                /\ stack' = IF st.box = Empty \/ Parallel THEN <<>> ELSE << <<st.box, -1>> >>
                /\ UNCHANGED <<problem, jobs, branching_point, left_first, need_to_pop, status,
                               found_delta_sat, number_of_boxes>>
  BY DEF Build
<1>2. PICK l \in {"search", "initial", "done"} : pc' = [pc EXCEPT ![0] = l]
  BY <1>1
<1>3. stack' \in Seq({stack'[k] : k \in DOMAIN stack'})
  <2> DEFINE e == <<st.box, -1>>
  <2>1. <<>> \in Seq({e}) /\ <<e>> \in Seq({e})
    OBVIOUS
  <2>2. stack' = <<>> \/ stack' = <<e>>
    BY <1>1
  <2> HIDE DEF e
  <2>3. stack' \in Seq({e})
    BY <2>1, <2>2
  <2> QED BY <2>3, OwnElements
<1>4. left_first' \in [0 .. jobs -> BOOLEAN]
  BY <1>1 DEF CountIInv, IcpTypeOK
<1> QED BY <1>1, <1>2, <1>3, <1>4, CallerPreserves

(* What a round of IcpSeq does to the stack.                               *)
LEMMA SeqStepFacts ==
  ASSUME IcpTypeOK, SeqStep
  PROVE  LET top   == stack[Len(stack)]
             below == SubSeq(stack, 1, Len(stack) - 1)
             st    == Processed(cs, top[2], top[1])
         IN  /\ pc[0] = "search" /\ stack # <<>> /\ cs' = st /\ branching_point' = top[2]
             /\ UNCHANGED <<problem, jobs, need_to_pop, status, found_delta_sat, number_of_boxes>>
             /\ left_first' \in [0 .. jobs -> BOOLEAN]
             /\ \/ st.box = Empty /\ stack' = below /\ UNCHANGED <<pc, answer>>
                \/ /\ st.box # Empty /\ IsFinal(st.box) /\ stack' = below
                   /\ pc' = [pc EXCEPT ![0] = "done"] /\ Answered(st)
                \/ /\ st.box # Empty /\ ~IsFinal(st.box) /\ UNCHANGED <<pc, answer>>
                   /\ \E a, b : /\ {a, b} = {Bisect(st.box, BranchOn(st.box))[1],
                                            Bisect(st.box, BranchOn(st.box))[2]}
                                /\ stack' = below \o << <<a, BranchOn(st.box)>>, <<b, BranchOn(st.box)>> >>
<1> DEFINE top   == stack[Len(stack)]
           below == SubSeq(stack, 1, Len(stack) - 1)
           st    == Processed(cs, top[2], top[1])
           i     == BranchOn(st.box)
           halves == Bisect(st.box, i)
           pushed == IF left_first[0] THEN halves ELSE <<halves[2], halves[1]>>
<1>1. /\ pc[0] = "search" /\ stack # <<>> /\ cs' = st /\ branching_point' = top[2]
      /\ UNCHANGED <<problem, jobs, need_to_pop, status, found_delta_sat, number_of_boxes>>
      /\ \/ st.box = Empty /\ stack' = below /\ UNCHANGED <<pc, left_first, answer>>
         \/ /\ st.box # Empty /\ IsFinal(st.box) /\ stack' = below
            /\ pc' = [pc EXCEPT ![0] = "done"] /\ Answered(st) /\ UNCHANGED left_first
         \/ /\ st.box # Empty /\ ~IsFinal(st.box) /\ UNCHANGED <<pc, answer>>
            /\ stack' = below \o << <<pushed[1], i>>, <<pushed[2], i>> >>
            /\ left_first' = [left_first EXCEPT ![0] = ~@]
  BY DEF SeqStep
<1>2. 0 \in 0 .. jobs /\ left_first \in [0 .. jobs -> BOOLEAN]
  BY DEF IcpTypeOK
<1>3. \/ UNCHANGED left_first \/ left_first' = [left_first EXCEPT ![0] = ~@]
  BY <1>1
<1>4. left_first' \in [0 .. jobs -> BOOLEAN]
  BY <1>2, <1>3
<1>5. {pushed[1], pushed[2]} = {halves[1], halves[2]}
  <2> HIDE DEF halves
  <2>1. CASE left_first[0]
    BY <2>1
  <2>2. CASE ~left_first[0]
    BY <2>2
  <2> QED BY <2>1, <2>2
<1> HIDE DEF pushed, halves, i, st, below, top
<1> QED BY <1>1, <1>4, <1>5 DEF halves, i, st, below, top

(* The stack without its top, and two more boxes.                          *)
LEMMA TwoPushed ==
  ASSUME NEW S, NEW s \in Seq(S), NEW e, NEW f
  PROVE  /\ s \o <<e, f>> \in Seq(S \cup {e, f})
         /\ \A k \in DOMAIN s : k \in DOMAIN (s \o <<e, f>>) /\ (s \o <<e, f>>)[k] = s[k]
         /\ Len(s) + 1 \in DOMAIN (s \o <<e, f>>) /\ (s \o <<e, f>>)[Len(s) + 1] = e
         /\ Len(s) + 2 \in DOMAIN (s \o <<e, f>>) /\ (s \o <<e, f>>)[Len(s) + 2] = f
<1> DEFINE T == S \cup {e, f}
           t == <<e, f>>
           u == s \o t
<1>1. s \in Seq(T) /\ t \in Seq(T) /\ Len(t) = 2 /\ t[1] = e /\ t[2] = f
  OBVIOUS
<1> HIDE DEF t, T
<1>2. /\ u \in Seq(T) /\ Len(u) = Len(s) + 2
      /\ \A i \in 1 .. Len(s) + 2 : u[i] = IF i <= Len(s) THEN s[i] ELSE t[i - Len(s)]
  <2>1. /\ u \in Seq(T) /\ Len(u) = Len(s) + Len(t)
        /\ \A i \in 1 .. Len(s) + Len(t) : u[i] = IF i <= Len(s) THEN s[i] ELSE t[i - Len(s)]
    BY <1>1, ConcatProperties
  <2> HIDE DEF u
  <2> QED BY <1>1, <2>1
<1> HIDE DEF u
<1>3. Len(s) \in Nat /\ DOMAIN s = 1 .. Len(s) /\ DOMAIN u = 1 .. Len(s) + 2
  BY <1>2, LenProperties
<1>4. ASSUME NEW k \in DOMAIN s  PROVE k \in DOMAIN u /\ u[k] = s[k]
  <2>1. k \in 1 .. Len(s) + 2 /\ k <= Len(s)
    BY <1>3
  <2> QED BY <1>2, <1>3, <2>1
<1>5. Len(s) + 1 \in DOMAIN u /\ u[Len(s) + 1] = e
  <2>1. Len(s) + 1 \in 1 .. Len(s) + 2 /\ ~(Len(s) + 1 <= Len(s)) /\ Len(s) + 1 - Len(s) = 1
    BY <1>3
  <2> QED BY <1>1, <1>2, <1>3, <2>1
<1>6. Len(s) + 2 \in DOMAIN u /\ u[Len(s) + 2] = f
  <2>1. Len(s) + 2 \in 1 .. Len(s) + 2 /\ ~(Len(s) + 2 <= Len(s)) /\ Len(s) + 2 - Len(s) = 2
    BY <1>3
  <2> QED BY <1>1, <1>2, <1>3, <2>1
<1> QED BY <1>2, <1>4, <1>5, <1>6 DEF T, u, t

LEMMA SeqStepPreserves == CountIInv /\ SeqStep => CountIInv'
<1> SUFFICES ASSUME CountIInv, SeqStep  PROVE CountIInv'
  OBVIOUS
<1> DEFINE top   == stack[Len(stack)]
           below == SubSeq(stack, 1, Len(stack) - 1)
<1>1. /\ pc[0] = "search" /\ stack # <<>> /\ IcpTypeOK
      /\ UNCHANGED <<problem, jobs, need_to_pop, status, found_delta_sat, number_of_boxes>>
      /\ left_first' \in [0 .. jobs -> BOOLEAN]
      /\ pc' = pc \/ pc' = [pc EXCEPT ![0] = "done"]
      /\ stack' = below \/ \E e, f : stack' = below \o <<e, f>>
  BY SeqStepFacts DEF CountIInv
<1>2. \E l \in {"search", "done"} : pc' = [pc EXCEPT ![0] = l]
  <2>1. pc = [pc EXCEPT ![0] = "search"]
    BY <1>1 DEF IcpTypeOK
  <2> QED BY <1>1, <2>1
<1>3. below \in Seq({stack[k] : k \in DOMAIN stack})
  BY <1>1, Popped DEF IcpTypeOK
<1> HIDE DEF below
<1>4. stack' \in Seq({stack'[k] : k \in DOMAIN stack'})
  <2>1. CASE stack' = below
    BY <1>3, <2>1, OwnElements
  <2>2. ASSUME NEW e, NEW f, stack' = below \o <<e, f>>
        PROVE  stack' \in Seq({stack'[k] : k \in DOMAIN stack'})
    <3>1. stack' \in Seq({stack[k] : k \in DOMAIN stack} \cup {e, f})
      BY <1>3, <2>2, TwoPushed
    <3> QED BY <3>1, OwnElements
  <2> QED BY <1>1, <2>1, <2>2
<1> QED BY <1>1, <1>2, <1>4, CallerPreserves

LEMMA SeqExhaustedPreserves == CountIInv /\ SeqExhausted => CountIInv'
<1> SUFFICES ASSUME CountIInv, SeqExhausted  PROVE CountIInv'
  OBVIOUS
<1>1. /\ pc[0] = "search" /\ pc' = [pc EXCEPT ![0] = "done"]
      /\ UNCHANGED <<problem, jobs, stack, left_first, need_to_pop, status,
                     found_delta_sat, number_of_boxes>>
  BY DEF SeqExhausted, shared
<1> QED BY <1>1, CallerPreserves DEF CountIInv, IcpTypeOK

LEMMA JoinPreserves == CountIInv /\ JoinWorkers => CountIInv'
<1> SUFFICES ASSUME CountIInv, JoinWorkers  PROVE CountIInv'
  OBVIOUS
<1>1. /\ pc[0] = "join" /\ pc' = [pc EXCEPT ![0] = "done"]
      /\ UNCHANGED <<problem, jobs, stack, left_first, need_to_pop, status,
                     found_delta_sat, number_of_boxes>>
  BY DEF JoinWorkers, shared
<1> QED BY <1>1, CallerPreserves DEF CountIInv, IcpTypeOK

LEMMA LaunchPreserves == CountIInv /\ Launch => CountIInv'
<1> SUFFICES ASSUME CountIInv, Launch  PROVE CountIInv'
  OBVIOUS
<1> DEFINE st == Contracted(cs, branching_point, cs.box)
           e  == <<st.box, -1>>
<1>1. /\ pc[0] = "initial"
      /\ UNCHANGED <<problem, jobs, branching_point, left_first, need_to_pop, found_delta_sat>>
      /\ IcpTypeOK /\ WorkersOK /\ IsStatus(st)
      /\ jobs \in Nat \ {0} /\ 0 \in 0 .. jobs /\ Workers \subseteq 0 .. jobs /\ 0 \notin Workers
  BY ContractedFacts DEF Launch, CountIInv, IcpTypeOK, Workers
<1>2. CASE st.box = Empty
  <2>1. /\ pc' = [pc EXCEPT ![0] = "done"]
        /\ UNCHANGED <<stack, status, number_of_boxes>>
    BY <1>2 DEF Launch
  <2> QED BY <1>1, <2>1, CallerPreserves DEF IcpTypeOK
<1>3. CASE st.box # Empty
  <2>1. /\ pc' = [w \in 0 .. jobs |-> IF w = 0 THEN "join" ELSE "check_found"]
        /\ stack' = <<e>> /\ number_of_boxes' = 1
        /\ status' = [w \in 0 .. jobs |-> IF w = 0 THEN status[0] ELSE st]
    BY <1>3 DEF Launch
  <2> HIDE DEF st, e
  <2>2. \A w \in Workers : pc[w] = "idle" /\ need_to_pop[w]
    BY <1>1 DEF WorkersOK, WorkerOK
  <2>3. found_delta_sat = -1
    BY <1>1, <2>2 DEF IcpTypeOK, WorkersOK, FoundOK
  <2>4. /\ pc'[0] = "join" /\ Workers' = Workers
        /\ \A w \in Workers : pc'[w] = "check_found" /\ need_to_pop'[w]
    BY <1>1, <2>1, <2>2 DEF Workers
  <2>5. IcpTypeOK'
    <3>1. stack' \in Seq({stack'[k] : k \in DOMAIN stack'})
      <4>1. <<e>> \in Seq({e})
        OBVIOUS
      <4> QED BY <2>1, <4>1, OwnElements
    <3>2. \A w \in 0 .. jobs : IsStatus(status'[w])
      BY <1>1, <2>1 DEF IcpTypeOK
    <3>3. pc' \in [0 .. jobs -> {"join", "check_found"}]
      BY <2>1
    <3>4. DOMAIN status' = 0 .. jobs /\ number_of_boxes' \in Int
      BY <2>1
    <3> QED BY <1>1, <2>4, <3>1, <3>2, <3>3, <3>4 DEF IcpTypeOK
  <2>6. WorkersOK'
    BY <1>1, <2>3, <2>4 DEF WorkersOK, WorkerOK, FoundOK, AtWork
  <2>7. Counted'
    <3>1. Held' = {} /\ Pushing' = {}
      BY <2>4 DEF Held, Pushing, HasBox
    <3>2. Cardinality(Held') = 0 /\ Cardinality(Pushing') = 0
      BY <3>1, FS_EmptySet
    <3>3. Len(stack') = 1
      BY <2>1
    <3> HIDE DEF Held, Pushing
    <3> QED BY <2>1, <3>2, <3>3 DEF Counted
  <2> QED BY <2>5, <2>6, <2>7, CountedIs DEF CountIInv
<1> QED BY <1>2, <1>3

(* The counter protocol, whatever the contractors do.                      *)
THEOREM CountInductive == Spec => []CountIInv
<1>1. Init => CountIInv
  BY CountInit
<1>2. CountIInv /\ [Next]_vars => CountIInv'
  <2> SUFFICES ASSUME CountIInv, [Next]_vars
               PROVE  CountIInv'
    OBVIOUS
  <2>1. CASE Main
    BY <2>1, BuildPreserves, SeqStepPreserves, SeqExhaustedPreserves, LaunchPreserves,
       JoinPreserves DEF Main
  <2>2. ASSUME NEW w \in Workers, Worker(w)
        PROVE  CountIInv'
    BY <2>2, CheckFoundPreserves, CheckCountPreserves, PopPreserves, PruneBoxPreserves,
       SubtractPreserves, FoundPreserves, AddBoxPreserves, PushPreserves DEF Worker
  <2>3. CASE UNCHANGED vars
    <3>1. /\ UNCHANGED <<problem, jobs, stack, left_first, pc, need_to_pop, status,
                         found_delta_sat, number_of_boxes>>
      BY <2>3 DEF vars, call, shared
    <3> QED BY <3>1 DEF CountIInv, IcpTypeOK, WorkersOK, WorkerOK, FoundOK, BoxesCounted,
                        Workers, HasBox
  <2> QED BY <2>1, <2>2, <2>3 DEF Next
<1> QED BY <1>1, <1>2, PTL DEF Spec

(* The counter by which workers stop is the number of boxes there are.     *)
THEOREM BoxesAreCounted == Spec => []BoxesCounted
<1>1. CountIInv => BoxesCounted
  BY DEF CountIInv
<1> QED BY <1>1, CountInductive, PTL

-----------------------------------------------------------------------------
(* Boxes and their halves.                                                 *)

LEMMA SolutionsAreIntegers ==
  ASSUME NEW box, NEW fs, NEW p \in Solutions(box, fs)
  PROVE  (\A i \in Dim : p[i] \in Int) /\ (\A i \in IntDim : p[i] % Unit = 0)
<1>1. p \in Points(box) /\ \A i \in IntDim : p[i] % Unit = 0
  BY DEF Solutions
<1>2. \E a, b : p \in [Dim -> a .. b]
  BY <1>1 DEF Points
<1> QED BY <1>1, <1>2

(* A solution in a box is in one of its halves.                            *)
LEMMA HalvesCover ==
  ASSUME NEW box, IsBox(box), NEW i \in Dim, NEW D \in SUBSET Dim, NEW p, CoversOn(D, box, p),
         \A j \in Dim : p[j] \in Int, \A j \in IntDim : p[j] % Unit = 0
  PROVE  CoversOn(D, Bisect(box, i)[1], p) \/ CoversOn(D, Bisect(box, i)[2], p)
<1> DEFINE l    == box[i][1]
           h    == box[i][2]
           mid  == (l + h) \div 2
           down == (mid \div Unit) * Unit
           Put(a, b) == [box EXCEPT ![i] = <<a, b>>]
<1>1. /\ box \in [Dim -> Int \X Int] /\ l \in Int /\ h \in Int /\ mid \in Int /\ p[i] \in Int
      /\ i \in D => l <= p[i] /\ p[i] <= h
      /\ \A j \in D : contains(box[j], p[j])
  BY DEF IsBox, CoversOn, contains, lb, ub
<1>2. ASSUME NEW a, NEW b, i \in D => a <= p[i] /\ p[i] <= b  PROVE CoversOn(D, Put(a, b), p)
  <2>1. Put(a, b)[i] = <<a, b>> /\ \A j \in Dim : j # i => Put(a, b)[j] = box[j]
    BY <1>1
  <2>2. Put(a, b) # Empty
    <3>1. DOMAIN Put(a, b) = Dim /\ DOMAIN Empty = {}
      BY <1>1 DEF Empty
    <3> QED BY <3>1
  <2> HIDE DEF Put
  <2>3. \A j \in D : contains(Put(a, b)[j], p[j])
    BY <1>1, <1>2, <2>1 DEF contains, lb, ub
  <2> QED BY <2>2, <2>3 DEF CoversOn
<1>3. CASE i \notin IntDim
  <2>1. Bisect(box, i)[1] = Put(l, mid) /\ Bisect(box, i)[2] = Put(mid, h)
    BY <1>3 DEF Bisect, lb, ub
  <2> HIDE DEF Put, mid
  <2>2. p[i] <= mid \/ mid <= p[i]
    BY <1>1
  <2> QED BY <1>1, <1>2, <2>1, <2>2
<1>4. CASE i \in IntDim
  <2>1. /\ Bisect(box, i)[1] = Put(DivUp(l, Unit) * Unit, down)
        /\ Bisect(box, i)[2] = Put(down + Unit, (h \div Unit) * Unit)
    BY <1>4 DEF Bisect, lb, ub
  <2>2. Unit \in Nat \ {0} /\ p[i] % Unit = 0
    BY <1>4, ContractorStatusAssumption
  <2> HIDE DEF Put, mid, l, h
  <2>3. i \in D => DivUp(l, Unit) * Unit <= p[i] /\ p[i] <= (h \div Unit) * Unit
    BY <1>1, <2>2, Multiples
  <2>4. (p[i] <= mid => p[i] <= down) /\ (mid < p[i] => down + Unit <= p[i])
    BY <1>1, <2>2, Multiples
  <2>5. p[i] <= mid \/ mid < p[i]
    BY <1>1
  <2> QED BY <1>2, <2>1, <2>3, <2>4, <2>5
<1> QED BY <1>3, <1>4

(* The halves of a box that can be split are boxes, and part of it.        *)
LEMMA HalvesWithin ==
  ASSUME NEW box, CanSplit(box), NEW k \in {1, 2}
  PROVE  IsBox(Bisect(box, BranchOn(box))[k]) /\ Within(Bisect(box, BranchOn(box))[k], box)
<1>1. PICK i \in Dim : i = BranchOn(box) /\ is_bisectable(box[i])
  BY DEF CanSplit
<1> DEFINE l    == box[i][1]
           h    == box[i][2]
           mid  == (l + h) \div 2
           down == (mid \div Unit) * Unit
           Put(a, b) == [box EXCEPT ![i] = <<a, b>>]
<1>2. box \in [Dim -> Int \X Int] /\ l \in Int /\ h \in Int
  BY DEF CanSplit, IsBox
<1>3. l < h
  BY <1>1, <1>2 DEF is_bisectable, diam, lb, ub
<1>4. mid \in Int /\ l <= mid /\ mid <= h
  BY <1>2, <1>3
<1>5. ASSUME NEW a \in Int, NEW b \in Int, l <= a, b <= h
      PROVE  IsBox(Put(a, b)) /\ Within(Put(a, b), box)
  <2>1. Put(a, b)[i] = <<a, b>> /\ \A j \in Dim : j # i => Put(a, b)[j] = box[j]
    BY <1>2
  <2>2. IsBox(Put(a, b))
    BY <1>2 DEF IsBox
  <2> HIDE DEF Put
  <2>3. \A j \in Dim : lb(box[j]) <= lb(Put(a, b)[j]) /\ ub(Put(a, b)[j]) <= ub(box[j])
    BY <1>2, <1>5, <2>1 DEF lb, ub
  <2> QED BY <2>2, <2>3 DEF Within
<1>6. CASE i \notin IntDim
  <2>1. Bisect(box, i)[1] = Put(l, mid) /\ Bisect(box, i)[2] = Put(mid, h)
    BY <1>6 DEF Bisect, lb, ub
  <2> HIDE DEF Put, mid, l, h
  <2>2. l <= l /\ h <= h
    BY <1>2
  <2> QED BY <1>1, <1>2, <1>4, <1>5, <2>1, <2>2
<1>7. CASE i \in IntDim
  <2>1. /\ Bisect(box, i)[1] = Put(DivUp(l, Unit) * Unit, down)
        /\ Bisect(box, i)[2] = Put(down + Unit, (h \div Unit) * Unit)
    BY <1>7 DEF Bisect, lb, ub
  <2>2. Unit \in Nat \ {0}
    BY ContractorStatusAssumption
  <2> HIDE DEF Put, mid, l, h
  <2>3. DivUp(l, Unit) * Unit \in Int /\ l <= DivUp(l, Unit) * Unit
    BY <1>2, <2>2, Quotients
  <2>4. (h \div Unit) * Unit \in Int /\ (h \div Unit) * Unit <= h
    BY <1>2, <2>2, Quotients
  <2>5. down \in Int /\ down <= mid /\ mid < down + Unit
    BY <1>4, <2>2, Quotients
  <2> HIDE DEF down
  <2>6. down + Unit \in Int /\ down <= h /\ l <= down + Unit
    BY <1>2, <1>4, <2>2, <2>5
  <2> QED BY <1>1, <1>5, <2>1, <2>3, <2>4, <2>5, <2>6
<1> QED BY <1>6, <1>7

-----------------------------------------------------------------------------
(* No solution is lost, as long as the contractors account for what they   *)
(* take off the boxes they are applied to.                                 *)

(* A point is, on D, in a box on the stack or in the hands of worker w.    *)
InReach(w, D, p) ==
  \/ \E k \in DOMAIN stack : CoversOn(D, stack[k][1], p)
  \/ HasBox(w) /\ CoversOn(D, status[w].box, p)

LEMMA IntegersInt ==
  ASSUME NEW p \in IntegersOf[problem], problem \in Problems
  PROVE  /\ (\A i \in Dim : p[i] \in Int) /\ (\A i \in IntDim : p[i] % Unit = 0)
         /\ \A D \in SUBSET Dim : CoversOn(D, problem.box, p)
<1>1. p \in Solutions(problem.box, {})
  BY DEF IntegersOf
<1>2. p \in Points(problem.box)
  BY <1>1 DEF Solutions
<1>3. Covers(problem.box, p)
  BY <1>2 DEF Points
<1>4. \A D \in SUBSET Dim : CoversOn(D, problem.box, p)
  BY <1>3 DEF Covers, CoversOn
<1> QED BY <1>1, <1>4, SolutionsAreIntegers

LEMMA AdmitsLess ==
  ASSUME NEW st, NEW new, NEW result, Adds(st, new, result),
         NEW D, NEW p, Admits(result, D, p)
  PROVE  Admits(st, D, p) /\ Admits(new, D, p)
<1>1. result.used = st.used \cup new.used /\ result.witness = st.witness \cup new.witness
  BY DEF Adds
<1> QED BY <1>1 DEF Admits

(* What a status becomes by a sound contraction of a box.                  *)
LEMMA SoundAdds ==
  ASSUME NEW st, NEW new, NEW result, NEW box, Adds(st, new, result), Sound(new, box)
  PROVE  /\ Noted(st) => Noted(result)
         /\ \A D \in SUBSET Dim, p \in IntegersOf[problem] : Admits(result, D, p) =>
              Admits(st, D, p) /\ (CoversOn(D, box, p) => CoversOn(D, result.box, p))
         /\ result.box # Empty =>
              /\ IsBox(result.box) /\ Within(result.box, box)
              /\ ~IsFinal(result.box) => CanSplit(result.box)
<1>1. /\ result.used = st.used \cup new.used /\ result.witness = st.witness \cup new.witness
      /\ result.box = new.box
  BY DEF Adds
<1>2. Noted(st) => Noted(result)
  BY <1>1 DEF Sound, Noted
<1>3. ASSUME NEW D \in SUBSET Dim, NEW p \in IntegersOf[problem], Admits(result, D, p)
      PROVE  Admits(st, D, p) /\ (CoversOn(D, box, p) => CoversOn(D, result.box, p))
  <2>1. Admits(st, D, p) /\ Admits(new, D, p)
    BY <1>3, AdmitsLess
  <2>2. CoversOn(D, box, p) => CoversOn(D, new.box, p)
    BY <2>1 DEF Sound, Accounts
  <2> QED BY <1>1, <2>1, <2>2
<1>4. ASSUME result.box # Empty
      PROVE  /\ IsBox(result.box) /\ Within(result.box, box)
             /\ ~IsFinal(result.box) => CanSplit(result.box)
  <2>1. /\ IsBox(result.box) /\ Within(result.box, box)
        /\ EvaluateBox(problem, result.box).candidates \in SUBSET Dim
    BY <1>1, <1>4 DEF Sound
  <2>2. ASSUME ~IsFinal(result.box)  PROVE CanSplit(result.box)
    <3>1. /\ BranchOn(result.box) \in EvaluateBox(problem, result.box).candidates
          /\ is_bisectable(result.box[BranchOn(result.box)])
      BY <2>1, <2>2, MaxDiamIsCandidate DEF IsFinal, BranchOn
    <3> QED BY <2>1, <3>1 DEF CanSplit
  <2> QED BY <2>1, <2>2
<1> QED BY <1>2, <1>3, <1>4

(* A worker's step moves what it finds on the stack and in its own hands,  *)
(* but for what it has noted since.                                        *)
Moves(w) ==
  \A D \in SUBSET Dim, p \in IntegersOf[problem] : Admits(status'[w], D, p) =>
    Admits(status[w], D, p) /\ (Searching' /\ InReach(w, D, p) => InReach(w, D, p)')

LEMMA WorkerKeeps ==
  ASSUME SearchIInv, IcpTypeOK, NEW w \in Workers, OnlyMoves(w), pc'[w] # "idle",
         Searching' => Searching, Noted(status[w])', Moves(w),
         pc'[w] \in {"add", "push"} => CanSplit(status[w].box)'
  PROVE  SearchIInv'
<1>1. /\ UNCHANGED <<problem, jobs, cs, branching_point, answer>> /\ pc'[0] = pc[0] /\ Workers' = Workers
      /\ \A v \in Workers : v # w =>
           pc'[v] = pc[v] /\ need_to_pop'[v] = need_to_pop[v] /\ status'[v] = status[v]
  BY DEF OnlyMoves, call, Workers
<1>2. (\A st \in Statuses : Noted(st))'
  <2>1. Noted(cs)' /\ \A v \in Workers : v # w => Noted(status[v])'
    BY <1>1 DEF SearchIInv, Statuses, Noted
  <2> QED BY <1>1, <2>1 DEF Statuses
<1>3. (\A v \in Workers : pc[v] = "idle" => status[v].used = {} /\ status[v].witness = {})'
  BY <1>1 DEF SearchIInv
<1>4. (pc[0] # "done" => answer = NoAnswer)'
  BY <1>1 DEF SearchIInv
<1>5. ASSUME NEW D \in SUBSET Dim, NEW p \in IntegersOf[problem], Open(D, p)'
      PROVE  Open(D, p) /\ Admits(status'[w], D, p)
  <2>1. Admits(cs, D, p) /\ \A v \in Workers : Admits(status'[v], D, p)
    BY <1>1, <1>5 DEF Open, Statuses
  <2>2. \A v \in Workers : Admits(status[v], D, p)
    BY <1>1, <2>1 DEF Moves
  <2> QED BY <2>1, <2>2 DEF Open, Statuses
<1>6. (pc[0] = "initial" =>
        \A D \in SUBSET Dim, p \in IntegersOf[problem] : Open(D, p) => CoversOn(D, cs.box, p))'
  <2> SUFFICES ASSUME pc'[0] = "initial",
                      NEW D \in SUBSET Dim, NEW p \in IntegersOf[problem], Open(D, p)'
               PROVE  CoversOn(D, cs'.box, p)
    BY <1>1
  <2> QED BY <1>1, <1>5 DEF SearchIInv
<1>7. (\A v \in Workers : pc[v] \in {"add", "push"} => CanSplit(status[v].box))'
  <2>1. \A v \in Workers : v # w => (pc[v] \in {"add", "push"} => CanSplit(status[v].box))'
    BY <1>1 DEF SearchIInv, CanSplit, BranchOn
  <2> QED BY <1>1, <2>1
<1>8. NothingLeftOut'
  <2> SUFFICES ASSUME Searching', NEW D \in SUBSET Dim, NEW p \in IntegersOf[problem], Open(D, p)'
               PROVE  \/ \E k \in DOMAIN stack' : CoversOn(D, stack'[k][1], p)
                      \/ \E v \in Workers : HasBox(v)' /\ CoversOn(D, status'[v].box, p)
    BY <1>1 DEF NothingLeftOut
  <2>1. Open(D, p) /\ Admits(status'[w], D, p)
    BY <1>5
  <2>2. \/ \E k \in DOMAIN stack : CoversOn(D, stack[k][1], p)
        \/ \E v \in Workers : HasBox(v) /\ CoversOn(D, status[v].box, p)
    BY <2>1 DEF SearchIInv, NothingLeftOut
  <2>3. InReach(w, D, p) => InReach(w, D, p)'
    BY <2>1 DEF Moves
  <2>4. ASSUME NEW v \in Workers, v # w, HasBox(v), CoversOn(D, status[v].box, p)
        PROVE  HasBox(v)' /\ CoversOn(D, status'[v].box, p)
    BY <1>1, <2>4 DEF HasBox
  <2> QED BY <2>2, <2>3, <2>4 DEF InReach
<1>9. UnsatOK'
  BY <1>1 DEF SearchIInv, UnsatOK
<1> QED BY <1>2, <1>3, <1>4, <1>6, <1>7, <1>8, <1>9 DEF SearchIInv

(* The steps that leave the stack and the status alone.                    *)
LEMMA WorkerKeepsBoxes ==
  ASSUME SearchIInv, IcpTypeOK, NEW w \in Workers, OnlyMoves(w), UNCHANGED stack, pc'[w] # "idle",
         Searching' => Searching, Searching' => (HasBox(w) => HasBox(w)'),
         status'[w] = status[w],
         pc'[w] \in {"add", "push"} => pc[w] \in {"add", "push"}
  PROVE  SearchIInv'
<1>1. problem' = problem
  BY DEF OnlyMoves, call
<1>2. pc'[w] \in {"add", "push"} => CanSplit(status[w].box)'
  BY <1>1 DEF SearchIInv, CanSplit, BranchOn
<1>3. Moves(w)
  BY DEF Moves, InReach
<1>4. Noted(status[w])'
  BY <1>1 DEF SearchIInv, Statuses, Noted
<1> QED BY <1>2, <1>3, <1>4, WorkerKeeps

LEMMA CheckFoundKeeps ==
  ASSUME CountIInv, SearchIInv, NEW w \in Workers, CheckFound(w)  PROVE SearchIInv'
<1>1. /\ OnlyMoves(w) /\ UNCHANGED shared /\ pc[w] = "check_found" /\ IcpTypeOK
      /\ pc'[0] = pc[0]
      /\ \E l \in {"check_count", "done"} : Moved(w, l, need_to_pop[w], status[w])
  BY CheckFoundFacts DEF CountIInv, OnlyMoves
<1> QED BY <1>1, WorkerKeepsBoxes DEF Moved, shared, Searching, HasBox

LEMMA CheckCountKeeps ==
  ASSUME CountIInv, SearchIInv, NEW w \in Workers, CheckCount(w)  PROVE SearchIInv'
<1>1. /\ OnlyMoves(w) /\ UNCHANGED shared /\ pc[w] = "check_count" /\ IcpTypeOK
      /\ pc'[0] = pc[0]
      /\ \/ Moved(w, "done", need_to_pop[w], status[w])
         \/ need_to_pop[w] /\ Moved(w, "pop", TRUE, status[w])
         \/ Moved(w, "prune", TRUE, status[w])
  BY CheckCountFacts DEF CountIInv, OnlyMoves
<1>2. /\ status'[w] = status[w] /\ (HasBox(w) => HasBox(w)')
      /\ pc'[w] \in {"done", "pop", "prune"}
  BY <1>1 DEF Moved, HasBox
<1> QED BY <1>1, <1>2, WorkerKeepsBoxes DEF shared, Searching

LEMMA SubtractKeeps ==
  ASSUME CountIInv, SearchIInv, NEW w \in Workers, Subtract(w)  PROVE SearchIInv'
<1>1. /\ OnlyMoves(w) /\ UNCHANGED <<stack, found_delta_sat>> /\ IcpTypeOK /\ pc'[0] = pc[0]
      /\ pc[w] = "subtract" /\ need_to_pop[w]
      /\ Moved(w, "check_found", need_to_pop[w], status[w])
  BY SubtractFacts DEF CountIInv, OnlyMoves, WorkersOK, WorkerOK, AtWork
<1> QED BY <1>1, WorkerKeepsBoxes DEF Moved, Searching, HasBox

LEMMA FoundKeeps ==
  ASSUME CountIInv, SearchIInv, NEW w \in Workers, Found(w)  PROVE SearchIInv'
<1>1. /\ OnlyMoves(w) /\ UNCHANGED stack /\ IcpTypeOK /\ found_delta_sat' = w /\ w # -1
      /\ pc[w] = "found" /\ Moved(w, "done", need_to_pop[w], status[w])
  BY FoundFacts, WorkerIndex DEF CountIInv
<1> QED BY <1>1, WorkerKeepsBoxes DEF Moved, Searching

LEMMA AddBoxKeeps ==
  ASSUME CountIInv, SearchIInv, NEW w \in Workers, AddBox(w)  PROVE SearchIInv'
<1>1. /\ OnlyMoves(w) /\ UNCHANGED <<stack, found_delta_sat>> /\ IcpTypeOK /\ pc'[0] = pc[0]
      /\ pc[w] = "add" /\ Moved(w, "push", need_to_pop[w], status[w])
  BY AddBoxFacts DEF CountIInv, OnlyMoves
<1> QED BY <1>1, WorkerKeepsBoxes DEF Moved, Searching, HasBox

(* The status of a worker with another box.                                *)
LEMMA AlikeAdmits ==
  ASSUME NEW st, NEW new, new.used = st.used, new.witness = st.witness
  PROVE  \A D, p : Admits(new, D, p) <=> Admits(st, D, p)
BY DEF Admits

LEMMA PopKeeps ==
  ASSUME CountIInv, SearchIInv, NEW w \in Workers, Pop(w)  PROVE SearchIInv'
<1>1. /\ OnlyMoves(w) /\ UNCHANGED <<found_delta_sat, number_of_boxes>> /\ IcpTypeOK
      /\ pc[w] = "pop" /\ need_to_pop[w] /\ pc'[0] = pc[0] /\ IsStatus(status[w])
      /\ \/ stack = <<>> /\ UNCHANGED stack /\ Moved(w, "check_found", need_to_pop[w], status[w])
         \/ /\ stack # <<>> /\ stack' = SubSeq(stack, 1, Len(stack) - 1)
            /\ Moved(w, "prune", need_to_pop[w], [status[w] EXCEPT !.box = stack[Len(stack)][1]])
  BY PopFacts, WorkerIndex DEF CountIInv, OnlyMoves, WorkersOK, WorkerOK
<1>2. CASE stack = <<>> /\ UNCHANGED stack /\ Moved(w, "check_found", need_to_pop[w], status[w])
  BY <1>1, <1>2, WorkerKeepsBoxes DEF Moved, Searching, HasBox
<1>3. CASE /\ stack # <<>> /\ stack' = SubSeq(stack, 1, Len(stack) - 1)
           /\ Moved(w, "prune", need_to_pop[w], [status[w] EXCEPT !.box = stack[Len(stack)][1]])
  <2>1. pc'[w] = "prune" /\ HasBox(w)' /\ ~HasBox(w)
    BY <1>1, <1>3 DEF Moved, HasBox
  <2>2. /\ status'[w].box = stack[Len(stack)][1]
        /\ status'[w].used = status[w].used /\ status'[w].witness = status[w].witness
    BY <1>1, <1>3, SetBox DEF Moved
  <2>3. \A k \in DOMAIN stack : k # Len(stack) => k \in DOMAIN stack' /\ stack'[k] = stack[k]
    BY <1>1, <1>3, Popped DEF IcpTypeOK
  <2>4. \A D, p : InReach(w, D, p) => InReach(w, D, p)'
    BY <2>1, <2>2, <2>3 DEF InReach
  <2>5. Moves(w)
    BY <2>2, <2>4, AlikeAdmits DEF Moves
  <2>6. Noted(status[w])'
    BY <1>1, <2>2 DEF SearchIInv, Statuses, Noted, OnlyMoves, call
  <2> QED BY <1>1, <2>1, <2>5, <2>6, WorkerKeeps DEF Searching
<1> QED BY <1>1, <1>2, <1>3

LEMMA PruneBoxKeeps ==
  ASSUME CountIInv, SearchIInv, ContractorsSound, NEW w \in Workers, PruneBox(w)
  PROVE  SearchIInv'
<1> DEFINE st  == Processed(status[w], branching_point, status[w].box)
           new == Processed(NewStatus(status[w].box), branching_point, status[w].box)
<1>1. /\ OnlyMoves(w) /\ UNCHANGED shared /\ IcpTypeOK /\ pc[w] = "prune" /\ pc'[0] = pc[0]
      /\ problem' = problem /\ status'[w] = st
      /\ pc'[w] = IF st.box = Empty THEN "subtract" ELSE IF IsFinal(st.box) THEN "found" ELSE "add"
  <2>1. OnlyMoves(w) /\ UNCHANGED shared /\ pc[w] = "prune" /\ IcpTypeOK
    BY PruneBoxFacts DEF CountIInv
  <2>2. problem' = problem /\ pc'[0] = pc[0]
    BY <2>1 DEF OnlyMoves, call
  <2>3. Moved(w, IF st.box = Empty THEN "subtract"
                 ELSE IF IsFinal(st.box) THEN "found" ELSE "add", need_to_pop[w], st)
    BY PruneBoxFacts
  <2> HIDE DEF st
  <2> QED BY <2>1, <2>2, <2>3 DEF Moved
<1>2. Sound(new, status[w].box)
  BY <1>1 DEF ContractorsSound, SoundOn
<1>3. Adds(status[w], new, st)
  BY ProcessedAdds
<1>4. Noted(status[w])
  BY DEF SearchIInv, Statuses
<1> HIDE DEF st, new
<1>5. /\ Noted(st)
      /\ \A D \in SUBSET Dim, p \in IntegersOf[problem] : Admits(st, D, p) =>
           Admits(status[w], D, p) /\ (CoversOn(D, status[w].box, p) => CoversOn(D, st.box, p))
      /\ st.box # Empty => (~IsFinal(st.box) => CanSplit(st.box))
  BY <1>2, <1>3, <1>4, SoundAdds
<1>6. Noted(status[w])' /\ (pc'[w] \in {"add", "push"} => CanSplit(status[w].box)')
  BY <1>1, <1>5 DEF Noted, CanSplit, BranchOn
<1>7. Moves(w)
  <2> SUFFICES ASSUME NEW D \in SUBSET Dim, NEW p \in IntegersOf[problem],
                      Admits(st, D, p), InReach(w, D, p)
               PROVE  InReach(w, D, p)'
    BY <1>1, <1>5 DEF Moves
  <2>1. ASSUME CoversOn(D, status[w].box, p)  PROVE HasBox(w)' /\ CoversOn(D, status'[w].box, p)
    BY <1>1, <1>5, <2>1, EmptyCoversNothing DEF HasBox
  <2> QED BY <1>1, <2>1 DEF InReach, shared
<1> QED BY <1>1, <1>6, <1>7, WorkerKeeps DEF Searching, shared

(* What Push does: half b is pushed, half a kept.                          *)
PushesHalf(w, a, b) ==
  LET halves == Bisect(status[w].box, BranchOn(status[w].box))
  IN  /\ (a = halves[1] /\ b = halves[2]) \/ (a = halves[2] /\ b = halves[1])
      /\ status'[w].box = a
      /\ status'[w].used = status[w].used /\ status'[w].witness = status[w].witness
      /\ \A k \in DOMAIN stack : k \in DOMAIN stack' /\ stack'[k] = stack[k]
      /\ Len(stack) + 1 \in DOMAIN stack' /\ stack'[Len(stack) + 1][1] = b
      /\ \A k \in DOMAIN stack' : k \in DOMAIN stack \/ stack'[k][1] = b

LEMMA PushedHalves ==
  ASSUME CountIInv, NEW w \in Workers, Push(w)
  PROVE  \E a, b : PushesHalf(w, a, b)
<1> DEFINE halves == Bisect(status[w].box, BranchOn(status[w].box))
<1>1. PICK kept \in {1, 2} :
        /\ stack' = Append(stack, <<halves[3 - kept], -1>>)
        /\ Moved(w, "check_found", FALSE, [status[w] EXCEPT !.box = halves[kept]])
  BY PushFacts
<1>2. IsStatus(status[w]) /\ stack \in Seq({stack[k] : k \in DOMAIN stack})
  BY WorkerIndex DEF CountIInv, IcpTypeOK
<1> HIDE DEF halves
<1> DEFINE a == halves[kept]
           b == halves[3 - kept]
           e == <<b, -1>>
<1>3. (a = halves[1] /\ b = halves[2]) \/ (a = halves[2] /\ b = halves[1])
  BY <1>1
<1>4. /\ status'[w].box = a
      /\ status'[w].used = status[w].used /\ status'[w].witness = status[w].witness
  BY <1>1, <1>2, SetBox DEF Moved
<1>5. stack' = Append(stack, e) /\ e[1] = b
  BY <1>1
<1> HIDE DEF a, b, e
<1>6. /\ \A k \in DOMAIN stack : k \in DOMAIN stack' /\ stack'[k] = stack[k]
      /\ Len(stack) + 1 \in DOMAIN stack' /\ stack'[Len(stack) + 1] = e
      /\ stack' \in Seq({stack[k] : k \in DOMAIN stack} \cup {e})
      /\ Len(stack') = Len(stack) + 1
  BY <1>2, <1>5, Pushed
<1>7. \A k \in DOMAIN stack' : k \in DOMAIN stack \/ stack'[k] = e
  <2>1. DOMAIN stack' = 1 .. Len(stack) + 1 /\ DOMAIN stack = 1 .. Len(stack) /\ Len(stack) \in Nat
    BY <1>2, <1>6, LenProperties
  <2> QED BY <1>6, <2>1
<1> QED BY <1>3, <1>4, <1>5, <1>6, <1>7 DEF halves, PushesHalf

LEMMA PushKeeps ==
  ASSUME CountIInv, SearchIInv, NEW w \in Workers, Push(w)  PROVE SearchIInv'
<1> DEFINE box    == status[w].box
           halves == Bisect(box, BranchOn(box))
<1>1. /\ OnlyMoves(w) /\ UNCHANGED found_delta_sat /\ pc[w] = "push" /\ IcpTypeOK
      /\ problem \in Problems /\ problem' = problem /\ pc'[0] = pc[0]
      /\ pc'[w] = "check_found" /\ need_to_pop'[w] = FALSE
  BY PushFacts DEF OnlyMoves, call, Moved, CountIInv, IcpTypeOK
<1>8. PICK a, b : PushesHalf(w, a, b)
  BY PushedHalves
<1>2. /\ (a = halves[1] /\ b = halves[2]) \/ (a = halves[2] /\ b = halves[1])
      /\ status'[w].box = a
      /\ status'[w].used = status[w].used /\ status'[w].witness = status[w].witness
      /\ \A k \in DOMAIN stack : k \in DOMAIN stack' /\ stack'[k] = stack[k]
      /\ Len(stack) + 1 \in DOMAIN stack' /\ stack'[Len(stack) + 1][1] = b
  BY <1>8 DEF PushesHalf
<1>3. ASSUME NEW D \in SUBSET Dim, NEW p \in IntegersOf[problem], CoversOn(D, box, p)
      PROVE  CoversOn(D, a, p) \/ CoversOn(D, b, p)
  <2>1. IsBox(box) /\ BranchOn(box) \in Dim
    BY <1>1 DEF SearchIInv, CanSplit
  <2>2. (\A i \in Dim : p[i] \in Int) /\ (\A i \in IntDim : p[i] % Unit = 0)
    BY <1>1, IntegersInt
  <2> HIDE DEF box
  <2>3. CoversOn(D, halves[1], p) \/ CoversOn(D, halves[2], p)
    BY <1>3, <2>1, <2>2, HalvesCover
  <2> HIDE DEF halves
  <2> QED BY <1>2, <2>3, Zenon
<1> HIDE DEF halves
<1>4. HasBox(w)'
  BY <1>1 DEF HasBox
<1>5. \A D \in SUBSET Dim, p \in IntegersOf[problem] : InReach(w, D, p) => InReach(w, D, p)'
  BY <1>2, <1>3, <1>4 DEF InReach
<1>6. Moves(w)
  BY <1>2, <1>5, AlikeAdmits DEF Moves
<1>7. Noted(status[w])'
  BY <1>1, <1>2 DEF SearchIInv, Statuses, Noted
<1> QED BY <1>1, <1>6, <1>7, WorkerKeeps DEF Searching

-----------------------------------------------------------------------------
(* The caller's steps: every worker is idle, or done.                      *)

LEMMA NobodyHolds ==
  ASSUME CountIInv, pc[0] \in {"idle", "search", "initial"}
  PROVE  /\ found_delta_sat = -1
         /\ \A w \in Workers : pc[w] = "idle" /\ need_to_pop[w] /\ ~HasBox(w)
         /\ \A w \in Workers : pc[w] \notin {"add", "push"}
<1>1. \A w \in Workers : pc[w] = "idle" /\ need_to_pop[w]
  BY DEF CountIInv, WorkersOK, WorkerOK
<1>2. found_delta_sat = -1
  BY <1>1 DEF CountIInv, IcpTypeOK, WorkersOK, FoundOK
<1> QED BY <1>1, <1>2 DEF HasBox

(* Before the launch the status of the call is the only one that counts.   *)
LEMMA OnlyTheCall ==
  ASSUME CountIInv, SearchIInv, pc[0] \in {"idle", "search", "initial"},
         NEW D \in SUBSET Dim, NEW p \in IntegersOf[problem], Admits(cs, D, p)
  PROVE  Open(D, p)
<1>1. \A w \in Workers : status[w].used = {} /\ status[w].witness = {}
  BY NobodyHolds DEF SearchIInv
<1>2. \A w \in Workers : Admits(status[w], D, p)
  BY <1>1 DEF Admits
<1> QED BY <1>2 DEF Open, Statuses

(* Every point the status admits is in a box on the stack.                 *)
OnStack(st, s) ==
  \A D \in SUBSET Dim, p \in IntegersOf[problem] :
    Admits(st, D, p) => \E k \in DOMAIN s : CoversOn(D, s[k][1], p)

Excludes(st) == \A D \in SUBSET Dim, p \in IntegersOf[problem] : ~Admits(st, D, p)

AllNoted ==
  /\ Noted(cs)'
  /\ \A w \in Workers : Noted(status[w])'
  /\ \A w \in Workers :
       pc'[w] \notin {"add", "push"} /\ (pc'[w] = "idle" => pc[w] = "idle" /\ status'[w] = status[w])

(* The call is over, or there is no answer yet and the stack has it all.   *)
LEMMA CallerKeeps ==
  ASSUME CountIInv, SearchIInv, NEW l \in {"search", "initial", "join", "done"},
         UNCHANGED <<problem, jobs>>, pc'[0] = l, AllNoted,
         l = "initial" => \A D \in SUBSET Dim, p \in IntegersOf[problem] :
                            Admits(cs', D, p) => CoversOn(D, cs'.box, p),
         l \in {"search", "join"} => OnStack(cs', stack'),
         l # "done" => UNCHANGED answer /\ pc[0] # "done",
         l = "done" => answer'.result # "unsat" \/ (Answered(cs') /\ Excludes(cs'))
  PROVE  SearchIInv'
<1>1. (\A st \in Statuses : Noted(st))'
  BY DEF AllNoted, Statuses, Workers
<1>2. (\A w \in Workers : pc[w] = "idle" => status[w].used = {} /\ status[w].witness = {})'
  BY DEF AllNoted, SearchIInv, Workers
<1>3. (pc[0] # "done" => answer = NoAnswer)'
  BY DEF SearchIInv, NoAnswer
<1>4. \A D \in SUBSET Dim, p \in IntegersOf[problem] : Open(D, p)' => Admits(cs', D, p)
  BY DEF Open, Statuses
<1>5. (pc[0] = "initial" =>
        \A D \in SUBSET Dim, p \in IntegersOf[problem] : Open(D, p) => CoversOn(D, cs.box, p))'
  BY <1>4
<1>6. (\A w \in Workers : pc[w] \in {"add", "push"} => CanSplit(status[w].box))'
  BY DEF AllNoted, Workers
<1>7. NothingLeftOut'
  BY <1>4 DEF NothingLeftOut, Searching, OnStack
<1>8. UnsatOK'
  <2> SUFFICES ASSUME answer'.result = "unsat"
               PROVE  /\ answer'.explanation = GenerateExplanation(cs'.witness, cs'.used)
                      /\ \A D \in SUBSET Dim, p \in IntegersOf[problem] : ~Admits(cs', D, p)
    BY DEF UnsatOK
  <2>1. Answered(cs') /\ Excludes(cs')
    BY <1>3 DEF NoAnswer
  <2>2. cs'.box = Empty
    BY <2>1 DEF Answered
  <2>3. answer' = [result |-> "unsat", explanation |-> GenerateExplanation(cs'.witness, cs'.used)]
    BY <2>1, <2>2 DEF Answered
  <2> QED BY <2>1, <2>3 DEF Excludes
<1> QED BY <1>1, <1>2, <1>3, <1>5, <1>6, <1>7, <1>8 DEF SearchIInv

LEMMA AnsweredFacts ==
  ASSUME NEW st, Answered(st)
  PROVE  /\ st.box # Empty => answer'.result # "unsat" /\ answer' = [result |-> "sat", box |-> st.box]
         /\ st.box = Empty => answer'.result = "unsat"
BY DEF Answered

LEMMA OneBox ==
  ASSUME NEW box, NEW st, \A D \in SUBSET Dim, p \in IntegersOf[problem] :
                            Admits(st, D, p) => CoversOn(D, box, p)
  PROVE  OnStack(st, << <<box, -1>> >>)
<1> DEFINE s == << <<box, -1>> >>
<1>1. 1 \in DOMAIN s /\ s[1][1] = box
  OBVIOUS
<1> HIDE DEF s
<1> QED BY <1>1 DEF OnStack, s

LEMMA BuildKeeps ==
  ASSUME CountIInv, SearchIInv, ContractorsSound, Build
  PROVE  SearchIInv'
<1> DEFINE st == InitialStatus(problem)
           l  == IF st.box = Empty THEN "done" ELSE IF Parallel THEN "initial" ELSE "search"
<1>1. /\ pc[0] = "idle" /\ cs' = st
      /\ pc' = [pc EXCEPT ![0] = l]
      /\ stack' = IF st.box = Empty \/ Parallel THEN <<>> ELSE << <<st.box, -1>> >>
      /\ IF st.box = Empty THEN Answered(st) ELSE UNCHANGED answer
      /\ UNCHANGED <<problem, jobs, status>> /\ problem \in Problems
  BY DEF Build, CountIInv, IcpTypeOK
<1>2. Sound(st, problem.box)
  BY <1>1 DEF ContractorsSound
<1> HIDE DEF st
<1>3. \A D \in SUBSET Dim, p \in IntegersOf[problem] : Admits(st, D, p) => CoversOn(D, st.box, p)
  BY <1>1, <1>2, IntegersInt DEF Sound, Accounts
<1>4. st.box = Empty => Excludes(st)
  BY <1>3, EmptyCoversNothing DEF Excludes
<1>5. l \in {"search", "initial", "done"} /\ (l # "done" <=> st.box # Empty)
      /\ (l = "search" => ~Parallel)
  OBVIOUS
<1> HIDE DEF l
<1>6. pc'[0] = l /\ \A w \in Workers : pc'[w] = pc[w]
  BY <1>1 DEF CountIInv, IcpTypeOK, Workers
<1>7. l = "search" => OnStack(cs', stack')
  BY <1>1, <1>3, <1>5, OneBox
<1>8. AllNoted
  <2>1. Noted(cs)' /\ \A w \in Workers : Noted(status[w])'
    BY <1>1, <1>2 DEF Sound, SearchIInv, Statuses, Noted
  <2> QED BY <1>1, <1>6, <2>1, NobodyHolds DEF AllNoted
<1>9. l # "done" => UNCHANGED answer /\ pc[0] # "done"
  BY <1>1, <1>5
<1>10. l = "done" => answer'.result # "unsat" \/ (Answered(cs') /\ Excludes(cs'))
  BY <1>1, <1>4, <1>5
<1>11. l = "initial" => \A D \in SUBSET Dim, p \in IntegersOf[problem] :
                          Admits(cs', D, p) => CoversOn(D, cs'.box, p)
  BY <1>1, <1>3
<1> QED BY <1>1, <1>5, <1>6, <1>7, <1>8, <1>9, <1>10, <1>11, CallerKeeps

(* What the stack and the status of the call have before the launch.       *)
LEMMA SeqReach ==
  ASSUME CountIInv, SearchIInv, pc[0] = "search"
  PROVE  OnStack(cs, stack)
<1>1. Searching /\ \A w \in Workers : ~HasBox(w)
  BY NobodyHolds DEF Searching
<1> SUFFICES ASSUME NEW D \in SUBSET Dim, NEW p \in IntegersOf[problem], Admits(cs, D, p)
             PROVE  \E k \in DOMAIN stack : CoversOn(D, stack[k][1], p)
  BY DEF OnStack
<1>2. Open(D, p)
  BY OnlyTheCall
<1> QED BY <1>1, <1>2 DEF SearchIInv, NothingLeftOut

LEMMA SeqExhaustedKeeps ==
  ASSUME CountIInv, SearchIInv, SeqExhausted
  PROVE  SearchIInv'
<1>1. /\ pc[0] = "search" /\ stack = <<>> /\ pc' = [pc EXCEPT ![0] = "done"]
      /\ UNCHANGED <<problem, jobs, cs, status>> /\ Answered(cs)
  BY DEF SeqExhausted
<1>2. Excludes(cs)
  <2>1. DOMAIN stack = {}
    BY <1>1
  <2> QED BY <1>1, <2>1, SeqReach DEF OnStack, Excludes
<1>3. pc'[0] = "done" /\ \A w \in Workers : pc'[w] = pc[w]
  BY <1>1 DEF CountIInv, IcpTypeOK, Workers
<1>4. AllNoted
  <2>1. Noted(cs)' /\ \A w \in Workers : Noted(status[w])'
    BY <1>1 DEF SearchIInv, Statuses, Noted
  <2> QED BY <1>1, <1>3, <2>1, NobodyHolds DEF AllNoted
<1>5. Answered(cs')
  BY <1>1
<1> QED BY <1>1, <1>2, <1>3, <1>4, <1>5, CallerKeeps

(* The boxes below the top, and the halves of the top's rest.              *)
LEMMA SplitReach ==
  ASSUME NEW S, NEW below \in Seq(S), NEW st, NEW cst, NEW i, NEW a, NEW b,
         \A D \in SUBSET Dim, p \in IntegersOf[problem] : Admits(cst, D, p) =>
           \/ CoversOn(D, st.box, p)
           \/ \E k \in DOMAIN below : CoversOn(D, below[k][1], p),
         \A D \in SUBSET Dim, p \in IntegersOf[problem] :
           CoversOn(D, st.box, p) => CoversOn(D, a, p) \/ CoversOn(D, b, p)
  PROVE  OnStack(cst, below \o << <<a, i>>, <<b, i>> >>)
<1> DEFINE e == <<a, i>>
           f == <<b, i>>
           s == below \o <<e, f>>
<1>1. e[1] = a /\ f[1] = b
  OBVIOUS
<1> HIDE DEF e, f
<1>2. /\ \A k \in DOMAIN below : k \in DOMAIN s /\ s[k] = below[k]
      /\ Len(below) + 1 \in DOMAIN s /\ s[Len(below) + 1] = e
      /\ Len(below) + 2 \in DOMAIN s /\ s[Len(below) + 2] = f
  BY TwoPushed
<1> HIDE DEF s
<1>3. OnStack(cst, s)
  BY <1>1, <1>2 DEF OnStack
<1> QED BY <1>3 DEF s, e, f

LEMMA SeqStepKeeps ==
  ASSUME CountIInv, SearchIInv, ContractorsSound, SeqStep
  PROVE  SearchIInv'
<1> DEFINE top   == stack[Len(stack)]
           below == SubSeq(stack, 1, Len(stack) - 1)
           st    == Processed(cs, top[2], top[1])
           new   == Processed(NewStatus(top[1]), top[2], top[1])
           i     == BranchOn(st.box)
           halves == Bisect(st.box, i)
<1>1. /\ pc[0] = "search" /\ stack # <<>> /\ IcpTypeOK /\ problem \in Problems
      /\ UNCHANGED <<problem, jobs, status>> /\ cs' = st
      /\ \/ st.box = Empty /\ stack' = below /\ UNCHANGED <<pc, answer>>
         \/ st.box # Empty /\ pc' = [pc EXCEPT ![0] = "done"] /\ Answered(st)
         \/ /\ st.box # Empty /\ ~IsFinal(st.box) /\ UNCHANGED <<pc, answer>>
            /\ \E a, b : {a, b} = {halves[1], halves[2]} /\ stack' = below \o << <<a, i>>, <<b, i>> >>
  BY SeqStepFacts DEF CountIInv, IcpTypeOK
<1>2. Sound(new, top[1])
  BY <1>1 DEF ContractorsSound, SoundOn
<1>3. Adds(cs, new, st)
  BY ProcessedAdds
<1>4. Noted(cs)
  BY DEF SearchIInv, Statuses
<1>5. /\ Noted(st)
      /\ \A D \in SUBSET Dim, p \in IntegersOf[problem] : Admits(st, D, p) =>
           Admits(cs, D, p) /\ (CoversOn(D, top[1], p) => CoversOn(D, st.box, p))
      /\ st.box # Empty => (~IsFinal(st.box) => CanSplit(st.box))
  <2> HIDE DEF new, st, top
  <2> QED BY <1>2, <1>3, <1>4, SoundAdds
<1>6. \A w \in Workers : pc[w] = "idle"
  BY <1>1, NobodyHolds
<1>7. /\ below \in Seq({stack[k] : k \in DOMAIN stack})
      /\ \A k \in DOMAIN stack : k # Len(stack) => k \in DOMAIN below /\ below[k] = stack[k]
  BY <1>1, Popped DEF IcpTypeOK
<1>8. \A D \in SUBSET Dim, p \in IntegersOf[problem] : Admits(st, D, p) =>
        \/ CoversOn(D, st.box, p)
        \/ \E k \in DOMAIN below : CoversOn(D, below[k][1], p)
  <2> HIDE DEF st, below
  <2>1. OnStack(cs, stack)
    BY <1>1, SeqReach
  <2> QED BY <1>5, <1>7, <2>1 DEF OnStack
<1>9. ASSUME \A w \in Workers : pc'[w] = pc[w]  PROVE AllNoted
  <2>1. Noted(cs)' /\ \A w \in Workers : Noted(status[w])'
    <3> HIDE DEF st
    <3> QED BY <1>1, <1>5 DEF SearchIInv, Statuses, Noted
  <2> QED BY <1>1, <1>6, <1>9, <2>1 DEF AllNoted
<1>10. CASE st.box = Empty /\ stack' = below /\ UNCHANGED <<pc, answer>>
  <2> HIDE DEF st, below, top
  <2>1. OnStack(cs', stack')
    BY <1>1, <1>8, <1>10, EmptyCoversNothing DEF OnStack
  <2>2. AllNoted
    BY <1>9, <1>10
  <2> QED BY <1>1, <1>10, <2>1, <2>2, CallerKeeps
<1>11. CASE st.box # Empty /\ pc' = [pc EXCEPT ![0] = "done"] /\ Answered(st)
  <2> HIDE DEF st
  <2>1. pc'[0] = "done" /\ \A w \in Workers : pc'[w] = pc[w]
    BY <1>11 DEF CountIInv, IcpTypeOK, Workers
  <2>2. answer'.result # "unsat"
    BY <1>11, AnsweredFacts
  <2>3. AllNoted
    BY <1>9, <2>1
  <2> QED BY <1>1, <2>1, <2>2, <2>3, CallerKeeps
<1>12. CASE /\ st.box # Empty /\ ~IsFinal(st.box) /\ UNCHANGED <<pc, answer>>
            /\ \E a, b : {a, b} = {halves[1], halves[2]} /\ stack' = below \o << <<a, i>>, <<b, i>> >>
  <2>1. PICK a, b : {a, b} = {halves[1], halves[2]} /\ stack' = below \o << <<a, i>>, <<b, i>> >>
    BY <1>12
  <2>2. ASSUME NEW D \in SUBSET Dim, NEW p \in IntegersOf[problem], CoversOn(D, st.box, p)
        PROVE  CoversOn(D, a, p) \/ CoversOn(D, b, p)
    <3>1. CoversOn(D, halves[1], p) \/ CoversOn(D, halves[2], p)
      <4>1. CanSplit(st.box)
        BY <1>5, <1>12
      <4>2. IsBox(st.box) /\ i \in Dim
        BY <4>1 DEF CanSplit
      <4>3. (\A j \in Dim : p[j] \in Int) /\ (\A j \in IntDim : p[j] % Unit = 0)
        BY <1>1, IntegersInt
      <4> HIDE DEF st, i
      <4> QED BY <2>2, <4>2, <4>3, HalvesCover
    <3> HIDE DEF halves, st, i, below
    <3>2. (a = halves[1] /\ b = halves[2]) \/ (a = halves[2] /\ b = halves[1])
      BY <2>1
    <3> QED BY <3>1, <3>2, Zenon
  <2> HIDE DEF i, halves, st, below, top
  <2>3. OnStack(cs', stack')
    <3>1. OnStack(st, below \o << <<a, i>>, <<b, i>> >>)
      BY <1>7, <1>8, <2>2, SplitReach
    <3> QED BY <1>1, <2>1, <3>1
  <2>4. AllNoted
    BY <1>9, <1>12
  <2> QED BY <1>1, <1>12, <2>3, <2>4, CallerKeeps
<1> HIDE DEF st, below, top, i, halves
<1> QED BY <1>1, <1>10, <1>11, <1>12

LEMMA LaunchKeeps ==
  ASSUME CountIInv, SearchIInv, ContractorsSound, Launch
  PROVE  SearchIInv'
<1> DEFINE st  == Contracted(cs, branching_point, cs.box)
           new == Contracted(NewStatus(cs.box), branching_point, cs.box)
<1>1. pc[0] = "initial" /\ UNCHANGED <<problem, jobs>> /\ cs' = st
  BY DEF Launch
<1>2. Sound(new, cs.box)
  BY <1>1 DEF ContractorsSound
<1>3. Adds(cs, new, st)
  BY ContractedAdds
<1>4. Noted(cs)
  BY DEF SearchIInv, Statuses
<1>5. /\ Noted(st)
      /\ \A D \in SUBSET Dim, p \in IntegersOf[problem] : Admits(st, D, p) =>
           Admits(cs, D, p) /\ (CoversOn(D, cs.box, p) => CoversOn(D, st.box, p))
  <2> HIDE DEF new, st
  <2> QED BY <1>2, <1>3, <1>4, SoundAdds
<1>6. \A D \in SUBSET Dim, p \in IntegersOf[problem] : Admits(st, D, p) => CoversOn(D, st.box, p)
  <2> HIDE DEF st
  <2> SUFFICES ASSUME NEW D \in SUBSET Dim, NEW p \in IntegersOf[problem], Admits(st, D, p)
               PROVE  CoversOn(D, st.box, p)
    OBVIOUS
  <2>1. Open(D, p)
    BY <1>1, <1>5, OnlyTheCall
  <2> QED BY <1>1, <1>5, <2>1 DEF SearchIInv
<1>7. \A w \in Workers : pc[w] \notin {"add", "push"}
  BY <1>1, NobodyHolds
<1>8. CASE st.box = Empty
  <2>1. pc' = [pc EXCEPT ![0] = "done"] /\ UNCHANGED status /\ Answered(st)
    BY <1>8 DEF Launch
  <2>2. pc'[0] = "done" /\ \A w \in Workers : pc'[w] = pc[w]
    BY <2>1 DEF CountIInv, IcpTypeOK, Workers
  <2> HIDE DEF st
  <2>3. AllNoted
    <3>1. Noted(cs)' /\ \A w \in Workers : Noted(status[w])'
      BY <1>1, <1>5, <2>1 DEF SearchIInv, Statuses, Noted
    <3> QED BY <1>7, <2>1, <2>2, <3>1 DEF AllNoted
  <2>4. Answered(cs') /\ Excludes(cs')
    BY <1>1, <1>6, <1>8, <2>1, EmptyCoversNothing DEF Excludes
  <2> QED BY <1>1, <2>2, <2>3, <2>4, CallerKeeps
<1>9. CASE st.box # Empty
  <2>1. /\ pc' = [w \in 0 .. jobs |-> IF w = 0 THEN "join" ELSE "check_found"]
        /\ stack' = << <<st.box, -1>> >> /\ UNCHANGED answer
        /\ status' = [w \in 0 .. jobs |-> IF w = 0 THEN status[0] ELSE st]
    BY <1>9 DEF Launch
  <2> HIDE DEF st
  <2>2. pc'[0] = "join" /\ \A w \in Workers : pc'[w] = "check_found" /\ status'[w] = st
    BY <2>1 DEF CountIInv, IcpTypeOK, Workers
  <2>3. OnStack(cs', stack')
    BY <1>1, <1>6, <2>1, OneBox
  <2>4. AllNoted
    BY <1>1, <1>5, <2>2 DEF AllNoted, Noted
  <2> QED BY <1>1, <2>1, <2>2, <2>3, <2>4, CallerKeeps
<1> QED BY <1>8, <1>9

(* What the join collects: everything any status has.                      *)
LEMMA JoinedAll ==
  ASSUME CountIInv
  PROVE  {Joined[k] : k \in DOMAIN Joined} = Statuses
<1> DEFINE ws == [w \in Workers |-> status[w]]
           T  == Statuses
<1>1. jobs \in Nat \ {0} /\ Workers = 1 .. jobs
  BY DEF CountIInv, IcpTypeOK, Workers
<1>2. cs \in T /\ \A w \in 1 .. jobs : status[w] \in T
  BY <1>1 DEF Statuses
<1> HIDE DEF T
<1>3. <<cs>> \in Seq(T) /\ Len(<<cs>>) = 1 /\ <<cs>>[1] = cs
  BY <1>2
<1>4. ws \in Seq(T) /\ Len(ws) = jobs /\ \A w \in 1 .. jobs : ws[w] = status[w]
  <2>1. ws = [w \in 1 .. jobs |-> status[w]]
    BY <1>1
  <2> HIDE DEF ws
  <2> QED BY <1>1, <1>2, <2>1
<1> DEFINE one == <<cs>>
<1> HIDE DEF ws, one
<1>5. /\ one \o ws \in Seq(T) /\ Len(one \o ws) = Len(one) + Len(ws)
      /\ \A k \in 1 .. Len(one) + Len(ws) :
           (one \o ws)[k] = IF k <= Len(one) THEN one[k] ELSE ws[k - Len(one)]
  BY <1>3, <1>4, ConcatProperties DEF one
<1>6. Joined = one \o ws
  BY DEF Joined, one, ws
<1> DEFINE j == Joined
<1> HIDE DEF j
<1>7. /\ j \in Seq(T) /\ DOMAIN j = 1 .. jobs + 1
      /\ \A k \in 1 .. jobs + 1 : j[k] = IF k <= 1 THEN cs ELSE status[k - 1]
  <2>1. j \in Seq(T) /\ Len(j) = jobs + 1 /\ 1 + jobs = jobs + 1
    BY <1>1, <1>3, <1>4, <1>5, <1>6 DEF j, one
  <2>2. DOMAIN j = 1 .. jobs + 1
    BY <2>1, LenProperties
  <2>3. ASSUME NEW k \in 1 .. jobs + 1  PROVE j[k] = IF k <= 1 THEN cs ELSE status[k - 1]
    <3>1. k \in 1 .. Len(one) + Len(ws) /\ Len(one) = 1 /\ one[1] = cs
      BY <1>1, <1>3, <1>4 DEF one
    <3>2. j[k] = IF k <= 1 THEN one[k] ELSE ws[k - 1]
      BY <1>5, <1>6, <3>1 DEF j
    <3>3. k <= 1 => k = 1
      BY <1>1
    <3>4. ~(k <= 1) => k - 1 \in 1 .. jobs
      BY <1>1
    <3> QED BY <1>4, <3>1, <3>2, <3>3, <3>4
  <2> QED BY <2>1, <2>2, <2>3
<1>8. \A st \in T : \E k \in DOMAIN j : j[k] = st
  <2>1. j[1] = cs /\ 1 \in DOMAIN j
    BY <1>1, <1>7
  <2>2. ASSUME NEW w \in Workers  PROVE j[w + 1] = status[w] /\ w + 1 \in DOMAIN j
    <3> DEFINE k == w + 1
    <3>1. k \in 1 .. jobs + 1 /\ ~(k <= 1) /\ k - 1 = w
      BY <1>1
    <3> HIDE DEF k
    <3>2. j[k] = status[w] /\ k \in DOMAIN j
      BY <1>7, <3>1
    <3> QED BY <3>2 DEF k
  <2> QED BY <2>1, <2>2 DEF T, Statuses
<1>9. ASSUME NEW k \in DOMAIN j  PROVE j[k] \in T
  <2>1. k \in 1 .. jobs + 1 /\ (k <= 1 \/ k - 1 \in 1 .. jobs)
    BY <1>1, <1>7
  <2> QED BY <1>2, <1>7, <2>1
<1>10. {j[k] : k \in DOMAIN j} = T
  BY <1>8, <1>9
<1> QED BY <1>10 DEF j, T

LEMMA ResultCollects ==
  ASSUME CountIInv
  PROVE  /\ (\A st \in Statuses : Noted(st)) => Noted(Result)
         /\ \A D, p : Admits(Result, D, p) => Open(D, p)
<1>1. {Joined[k] : k \in DOMAIN Joined} = Statuses
  BY JoinedAll
<1>2. /\ Result.used = UNION {Joined[k].used : k \in DOMAIN Joined}
      /\ Result.witness = UNION {Joined[k].witness : k \in DOMAIN Joined}
  BY DEF Result, JoinOf
<1> DEFINE j == Joined
<1> HIDE DEF j
<1>3. /\ Result.used = UNION {st.used : st \in {j[k] : k \in DOMAIN j}}
      /\ Result.witness = UNION {st.witness : st \in {j[k] : k \in DOMAIN j}}
  BY <1>2 DEF j
<1>4. /\ Result.used = UNION {st.used : st \in Statuses}
      /\ Result.witness = UNION {st.witness : st \in Statuses}
  BY <1>1, <1>3 DEF j
<1>5. (\A st \in Statuses : Noted(st)) => Noted(Result)
  BY <1>4 DEF Noted
<1>6. \A D, p : Admits(Result, D, p) => Open(D, p)
  BY <1>4 DEF Open, Admits
<1> QED BY <1>5, <1>6

(* The workers of a search without a result stop when nothing is left.     *)
LEMMA NothingInReach ==
  ASSUME CountIInv, pc[0] = "join", found_delta_sat = -1, \A w \in Workers : pc[w] = "done"
  PROVE  DOMAIN stack = {} /\ \A w \in Workers : ~HasBox(w)
<1>1. 1 \in Workers /\ jobs \in Nat
  BY DEF CountIInv, IcpTypeOK, Workers
<1>2. number_of_boxes = 0
  BY <1>1 DEF CountIInv, WorkersOK, WorkerOK
<1>3. 0 = Len(stack) + Cardinality(Held) + Cardinality(Pushing)
  BY <1>2, CountedIs DEF CountIInv, Counted
<1>4. IsFiniteSet(Held) /\ IsFiniteSet(Pushing)
  <2>1. IsFiniteSet(1 .. jobs)
    <3>1. 1 \in Int /\ jobs \in Int
      BY <1>1
    <3> QED BY <3>1, FS_Interval
  <2>2. Held \in SUBSET (1 .. jobs) /\ Pushing \in SUBSET (1 .. jobs)
    BY DEF Held, Pushing, Workers
  <2> QED BY <2>1, <2>2, FS_Subset
<1>5. Cardinality(Held) \in Nat /\ Cardinality(Pushing) \in Nat
  BY <1>4, FS_CardinalityType
<1>6. Len(stack) \in Nat
  BY DEF CountIInv, IcpTypeOK
<1>7. Len(stack) = 0 /\ Cardinality(Held) = 0
  BY <1>3, <1>5, <1>6
<1>8. DOMAIN stack = {}
  BY <1>7 DEF CountIInv, IcpTypeOK
<1>9. Held = {}
  BY <1>4, <1>7, FS_EmptySet
<1> QED BY <1>8, <1>9 DEF Held

LEMMA JoinKeeps ==
  ASSUME CountIInv, SearchIInv, JoinWorkers
  PROVE  SearchIInv'
<1>1. /\ pc[0] = "join" /\ \A w \in Workers : pc[w] = "done"
      /\ pc' = [pc EXCEPT ![0] = "done"] /\ cs' = Result
      /\ Answered(Result) /\ UNCHANGED <<problem, jobs, status>>
  BY DEF JoinWorkers
<1>2. pc'[0] = "done" /\ \A w \in Workers : pc'[w] = pc[w]
  BY <1>1 DEF CountIInv, IcpTypeOK, Workers
<1>3. AllNoted
  <2>1. Noted(Result) /\ \A w \in Workers : Noted(status[w])
    BY ResultCollects DEF SearchIInv, Statuses
  <2>2. Noted(cs)' /\ \A w \in Workers : Noted(status[w])'
    BY <1>1, <2>1 DEF Noted
  <2> QED BY <1>1, <1>2, <2>2 DEF AllNoted
<1>4. CASE found_delta_sat = -1
  <2>1. Excludes(Result)
    <3> SUFFICES ASSUME NEW D \in SUBSET Dim, NEW p \in IntegersOf[problem], Open(D, p)
                 PROVE  FALSE
      BY ResultCollects DEF Excludes
    <3>1. DOMAIN stack = {} /\ \A w \in Workers : ~HasBox(w)
      BY <1>1, <1>4, NothingInReach
    <3> QED BY <1>1, <1>4, <3>1 DEF SearchIInv, NothingLeftOut, Searching
  <2>2. Answered(cs') /\ Excludes(cs')
    BY <1>1, <2>1
  <2> QED BY <1>1, <1>2, <1>3, <2>2, CallerKeeps
<1>5. CASE found_delta_sat # -1
  <2>1. Result.box = status[found_delta_sat].box
    BY <1>5 DEF Result, JoinOf
  <2>2. Result.box # Empty
    BY <1>5, <2>1 DEF CountIInv, WorkersOK, FoundOK
  <2>3. answer'.result # "unsat"
    BY <1>1, <2>2, AnsweredFacts
  <2> QED BY <1>1, <1>2, <1>3, <2>3, CallerKeeps
<1> QED BY <1>4, <1>5

LEMMA SearchInit == Init => SearchIInv
<1> SUFFICES ASSUME Init  PROVE SearchIInv
  OBVIOUS
<1>1. \A w \in 0 .. jobs : pc[w] = "idle"
  BY DEF Init
<1>2. 0 \in 0 .. jobs /\ Workers \subseteq 0 .. jobs
  BY IcpAssumption DEF Init, Workers
<1>3. NothingLeftOut
  BY <1>1, <1>2 DEF NothingLeftOut, Searching
<1>4. answer = NoAnswer /\ answer.result = "none"
  BY DEF Init, NoAnswer
<1>5. \A box : NewStatus(box).used = {} /\ NewStatus(box).witness = {}
  BY DEF NewStatus
<1>6. cs.used = {} /\ cs.witness = {} /\ \A w \in Workers : status[w].used = {} /\ status[w].witness = {}
  BY <1>2, <1>5 DEF Init
<1>7. \A st \in Statuses : Noted(st)
  BY <1>6 DEF Statuses, Noted
<1> QED BY <1>1, <1>2, <1>3, <1>4, <1>6, <1>7 DEF SearchIInv, UnsatOK

LEMMA SearchNext ==
  ASSUME CountIInv, SearchIInv, ContractorsSound, [Next]_vars
  PROVE  SearchIInv'
<1>1. CASE Main
  BY <1>1, BuildKeeps, SeqStepKeeps, SeqExhaustedKeeps, LaunchKeeps, JoinKeeps DEF Main
<1>2. ASSUME NEW w \in Workers, Worker(w)
      PROVE  SearchIInv'
  BY <1>2, CheckFoundKeeps, CheckCountKeeps, PopKeeps, PruneBoxKeeps, SubtractKeeps,
     FoundKeeps, AddBoxKeeps, PushKeeps DEF Worker
<1>3. CASE UNCHANGED vars
  <2>1. UNCHANGED <<problem, jobs, cs, branching_point, stack, pc, need_to_pop, status,
                    found_delta_sat, answer>>
    BY <1>3 DEF vars, call, shared
  <2>2. Statuses' = Statuses /\ Workers' = Workers
    BY <2>1 DEF Statuses, Workers
  <2>3. NothingLeftOut'
    BY <2>1, <2>2 DEF SearchIInv, NothingLeftOut, Open, Searching, HasBox
  <2>4. UnsatOK'
    BY <2>1 DEF SearchIInv, UnsatOK
  <2> QED BY <2>1, <2>2, <2>3, <2>4 DEF SearchIInv, Noted, Open, CanSplit, BranchOn
<1> QED BY <1>1, <1>2, <1>3 DEF Next

(* What an explanation is for: it has every constraint used that shares a  *)
(* variable with the witnesses or with one of its own.                     *)
LEMMA ExplanationIsClosed ==
  ASSUME NEW witness, NEW used
  PROVE  LET E == GenerateExplanation(witness, used)
         IN  /\ E \subseteq used
             /\ \A f \in used :
                  VarsOf(f) \cap (witness \cup UNION {VarsOf(g) : g \in E}) # {} => f \in E
<1> DEFINE Closed(E) == \A f \in used :
             VarsOf(f) \cap (witness \cup UNION {VarsOf(g) : g \in E}) # {} => f \in E
           E == GenerateExplanation(witness, used)
<1>1. E = {f \in used : \A F \in SUBSET used : Closed(F) => f \in F}
  BY DEF GenerateExplanation
<1> HIDE DEF E
<1>2. \A F \in SUBSET used : Closed(F) => E \subseteq F
  BY <1>1
<1>3. ASSUME NEW f \in used,
             VarsOf(f) \cap (witness \cup UNION {VarsOf(g) : g \in E}) # {},
             NEW F \in SUBSET used, Closed(F)
      PROVE  f \in F
  <2>1. VarsOf(f) \cap (witness \cup UNION {VarsOf(g) : g \in F}) # {}
    BY <1>2, <1>3
  <2> QED BY <1>3, <2>1
<1> QED BY <1>1, <1>3 DEF E

(* A point in the box that satisfies the explanation would be one, on the  *)
(* variables the explanation and the witnesses have, that the status does  *)
(* not speak against.                                                      *)
LEMMA ExcludedExplained ==
  ASSUME problem \in Problems, Noted(cs), Excludes(cs),
         NEW E, E = GenerateExplanation(cs.witness, cs.used)
  PROVE  E \subseteq ToSet(problem.assertions) /\ Solutions(problem.box, E) = {}
<1>1. /\ E \subseteq cs.used
      /\ \A f \in cs.used :
           VarsOf(f) \cap (cs.witness \cup UNION {VarsOf(g) : g \in E}) # {} => f \in E
  BY ExplanationIsClosed
<1>2. E \subseteq ToSet(problem.assertions)
  BY <1>1 DEF Noted
<1>3. ASSUME NEW p \in Solutions(problem.box, E)  PROVE FALSE
  <2> DEFINE D == cs.witness \cup UNION {VarsOf(g) : g \in E}
  <2>1. D \in SUBSET Dim
    BY DEF Noted, VarsOf
  <2>2. p \in IntegersOf[problem] /\ \A f \in E : Satisfies(p, f)
    BY <1>3 DEF Solutions, IntegersOf
  <2>3. Admits(cs, D, p)
    BY <1>1, <2>2 DEF Admits
  <2> QED BY <2>1, <2>2, <2>3 DEF Excludes
<1> QED BY <1>2, <1>3

-----------------------------------------------------------------------------
(* Every box of the search is part of the box of the call.                 *)

(* What is below the top of the stack, and what there is after two pushes. *)
LEMMA BelowTop ==
  ASSUME NEW S, NEW s \in Seq(S), s # <<>>
  PROVE  \A k \in DOMAIN SubSeq(s, 1, Len(s) - 1) : k \in DOMAIN s /\ SubSeq(s, 1, Len(s) - 1)[k] = s[k]
<1> DEFINE b == SubSeq(s, 1, Len(s) - 1)
<1>1. /\ Len(s) \in Nat \ {0} /\ b \in Seq(S) /\ Len(b) = Len(s) - 1
      /\ \A k \in DOMAIN s : k # Len(s) => k \in DOMAIN b /\ b[k] = s[k]
  BY Popped
<1> HIDE DEF b
<1>2. DOMAIN b = 1 .. Len(s) - 1 /\ DOMAIN s = 1 .. Len(s)
  BY <1>1, LenProperties
<1>3. \A k \in DOMAIN b : k \in DOMAIN s /\ k # Len(s)
  BY <1>1, <1>2
<1> QED BY <1>1, <1>3 DEF b

LEMMA OnlyTwoPushed ==
  ASSUME NEW S, NEW s \in Seq(S), NEW e, NEW f, NEW u, u = s \o <<e, f>>
  PROVE  /\ u # <<>>
         /\ \A k \in DOMAIN u : (k \in DOMAIN s /\ u[k] = s[k]) \/ u[k] = e \/ u[k] = f
<1> DEFINE T == S \cup {e, f}
           t == <<e, f>>
<1>1. s \in Seq(T) /\ t \in Seq(T) /\ Len(t) = 2 /\ t[1] = e /\ t[2] = f
  OBVIOUS
<1> HIDE DEF t, T
<1>2. /\ s \o t \in Seq(T) /\ Len(s \o t) = Len(s) + Len(t)
      /\ \A i \in 1 .. Len(s) + Len(t) : (s \o t)[i] = IF i <= Len(s) THEN s[i] ELSE t[i - Len(s)]
  BY <1>1, ConcatProperties
<1>3. u = s \o t
  BY DEF t
<1>4. /\ Len(s) \in Nat /\ DOMAIN s = 1 .. Len(s) /\ DOMAIN u = 1 .. Len(s) + 2
      /\ \A i \in 1 .. Len(s) + 2 : u[i] = IF i <= Len(s) THEN s[i] ELSE t[i - Len(s)]
  BY <1>1, <1>2, <1>3, LenProperties
<1>5. u # <<>>
  <2>1. 1 \in DOMAIN u
    BY <1>4
  <2> QED BY <2>1
<1>6. ASSUME NEW k \in DOMAIN u
      PROVE  (k \in DOMAIN s /\ u[k] = s[k]) \/ u[k] = e \/ u[k] = f
  <2>1. CASE k <= Len(s)
    BY <1>4, <2>1
  <2>2. CASE ~(k <= Len(s))
    <3>1. k - Len(s) = 1 \/ k - Len(s) = 2
      BY <1>4, <2>2
    <3> QED BY <1>1, <1>4, <2>2, <3>1
  <2> QED BY <2>1, <2>2
<1> QED BY <1>5, <1>6

LEMMA PartOfPart ==
  ASSUME NEW b1, NEW b2, IsBox(b1), Within(b1, b2), PartOfCall(b2)
  PROVE  PartOfCall(b1)
<1> DEFINE whole == InitialStatus(problem).box
<1>1. IsBox(whole) /\ IsBox(b2) /\ Within(b2, whole)
  BY DEF PartOfCall
<1> HIDE DEF whole
<1>2. Within(b1, whole)
  BY <1>1, WithinPart
<1> QED BY <1>1, <1>2 DEF PartOfCall, whole

LEMMA PartOfWhole ==
  ASSUME problem \in Problems, NEW box, PartOfCall(box)
  PROVE  Within(box, problem.box)
<1> DEFINE whole == InitialStatus(problem).box
<1>1. IsProblem(problem) /\ IsBox(problem.box)
  BY IcpAssumption DEF IsProblem
<1>2. IsBox(whole) /\ IsBox(box) /\ Within(box, whole)
  BY DEF PartOfCall
<1>3. Within(whole, problem.box)
  BY <1>1, InitialFollows DEF Follows, NewStatus
<1> HIDE DEF whole
<1> QED BY <1>1, <1>2, <1>3, WithinPart

LEMMA WorkerKeepsParts ==
  ASSUME CountIInv, BoxIInv, NEW w \in Workers, OnlyMoves(w), pc[w] \notin {"idle", "done"},
         found_delta_sat' \in {found_delta_sat, w},
         \A k \in DOMAIN stack' : PartOfCall(stack'[k][1]),
         HasBox(w)' => PartOfCall(status'[w].box),
         pc'[w] = "found" \/ found_delta_sat' = w => PartOfCall(status'[w].box) /\ Near(status'[w].box)
  PROVE  BoxIInv'
<1>1. /\ UNCHANGED <<problem, jobs, cs, answer>> /\ pc'[0] = pc[0] /\ Workers' = Workers
      /\ \A v \in Workers : v # w =>
           pc'[v] = pc[v] /\ need_to_pop'[v] = need_to_pop[v] /\ status'[v] = status[v]
  BY DEF OnlyMoves, call, Workers
<1>2. (\A box : PartOfCall(box)' <=> PartOfCall(box)) /\ (\A box : Near(box)' <=> Near(box))
  BY <1>1 DEF PartOfCall, Near
<1>3. DeltaSat'
  BY <1>1, <1>2 DEF BoxIInv, DeltaSat
<1>4. (pc[0] = "initial" => PartOfCall(cs.box))'
  BY <1>1, <1>2 DEF BoxIInv
<1>5. pc'[0] # "search"
  BY <1>1, NobodyHolds
<1> QED BY <1>1, <1>2, <1>3, <1>4, <1>5 DEF BoxIInv, HasBox

LEMMA WorkerKeepsBox ==
  ASSUME CountIInv, BoxIInv, NEW w \in Workers, OnlyMoves(w), pc[w] \notin {"idle", "done"},
         UNCHANGED <<stack, found_delta_sat>>, HasBox(w)' => HasBox(w),
         pc'[w] # "found", status'[w] = status[w]
  PROVE  BoxIInv'
<1>1. \A k \in DOMAIN stack' : PartOfCall(stack'[k][1])
  BY DEF BoxIInv
<1>2. HasBox(w)' => PartOfCall(status'[w].box)
  BY DEF BoxIInv
<1>3. found_delta_sat' # w
  BY WorkerIndex DEF CountIInv, WorkersOK, FoundOK
<1> QED BY <1>1, <1>2, <1>3, WorkerKeepsParts

LEMMA QuietSteps ==
  ASSUME CountIInv, BoxIInv, NEW w \in Workers,
         CheckFound(w) \/ CheckCount(w) \/ Subtract(w) \/ AddBox(w)
  PROVE  BoxIInv'
<1>1. IcpTypeOK /\ need_to_pop[w] \in BOOLEAN
  BY WorkerIndex DEF CountIInv
<1>2. CASE CheckFound(w)
  <2>1. /\ OnlyMoves(w) /\ UNCHANGED shared /\ pc[w] = "check_found"
        /\ \E l \in {"check_count", "done"} : Moved(w, l, need_to_pop[w], status[w])
    BY <1>2, CheckFoundFacts
  <2> QED BY <2>1, WorkerKeepsBox DEF Moved, shared, HasBox
<1>3. CASE CheckCount(w)
  <2>1. /\ OnlyMoves(w) /\ UNCHANGED shared /\ pc[w] = "check_count"
        /\ \/ number_of_boxes = 0 /\ Moved(w, "done", need_to_pop[w], status[w])
           \/ need_to_pop[w] /\ Moved(w, "pop", TRUE, status[w])
           \/ ~need_to_pop[w] /\ Moved(w, "prune", TRUE, status[w])
    BY <1>3, CheckCountFacts
  <2>2. /\ status'[w] = status[w] /\ (HasBox(w)' => HasBox(w)) /\ pc'[w] # "found"
    BY <2>1 DEF Moved, HasBox
  <2> QED BY <2>1, <2>2, WorkerKeepsBox DEF shared
<1>4. CASE Subtract(w)
  <2>1. /\ OnlyMoves(w) /\ UNCHANGED <<stack, found_delta_sat>> /\ pc[w] = "subtract"
        /\ Moved(w, "check_found", need_to_pop[w], status[w])
    BY <1>4, SubtractFacts
  <2> QED BY <2>1, WorkerKeepsBox DEF Moved, HasBox
<1>5. CASE AddBox(w)
  <2>1. /\ OnlyMoves(w) /\ UNCHANGED <<stack, found_delta_sat>> /\ pc[w] = "add"
        /\ Moved(w, "push", need_to_pop[w], status[w])
    BY <1>5, AddBoxFacts
  <2> QED BY <2>1, WorkerKeepsBox DEF Moved, HasBox
<1> QED BY <1>2, <1>3, <1>4, <1>5

LEMMA FoundParts ==
  ASSUME CountIInv, BoxIInv, NEW w \in Workers, Found(w)  PROVE BoxIInv'
<1>1. /\ OnlyMoves(w) /\ UNCHANGED stack /\ found_delta_sat' = w
      /\ pc[w] = "found" /\ Moved(w, "done", need_to_pop[w], status[w])
  BY FoundFacts
<1>2. PartOfCall(status[w].box) /\ Near(status[w].box) /\ status'[w] = status[w]
  BY <1>1 DEF BoxIInv, Moved
<1>3. \A k \in DOMAIN stack' : PartOfCall(stack'[k][1])
  BY <1>1 DEF BoxIInv
<1> QED BY <1>1, <1>2, <1>3, WorkerKeepsParts

LEMMA NotTheFinder ==
  ASSUME CountIInv, NEW w \in Workers, pc[w] # "done"
  PROVE  found_delta_sat # w
BY WorkerIndex DEF CountIInv, WorkersOK, FoundOK

LEMMA PopParts ==
  ASSUME CountIInv, BoxIInv, NEW w \in Workers, Pop(w)  PROVE BoxIInv'
<1>1. /\ OnlyMoves(w) /\ UNCHANGED <<found_delta_sat, number_of_boxes>> /\ IcpTypeOK
      /\ pc[w] = "pop" /\ IsStatus(status[w])
      /\ \/ stack = <<>> /\ UNCHANGED stack /\ Moved(w, "check_found", need_to_pop[w], status[w])
         \/ /\ stack # <<>> /\ stack' = SubSeq(stack, 1, Len(stack) - 1)
            /\ Moved(w, "prune", need_to_pop[w], [status[w] EXCEPT !.box = stack[Len(stack)][1]])
  BY PopFacts, WorkerIndex DEF CountIInv
<1>2. CASE stack = <<>> /\ UNCHANGED stack /\ Moved(w, "check_found", need_to_pop[w], status[w])
  BY <1>1, <1>2, WorkerKeepsBox DEF Moved, HasBox
<1>3. CASE /\ stack # <<>> /\ stack' = SubSeq(stack, 1, Len(stack) - 1)
           /\ Moved(w, "prune", need_to_pop[w], [status[w] EXCEPT !.box = stack[Len(stack)][1]])
  <2>1. pc'[w] = "prune" /\ status'[w].box = stack[Len(stack)][1]
    BY <1>1, <1>3, SetBox DEF Moved
  <2>2. Len(stack) \in DOMAIN stack
    BY <1>1, <1>3, Popped DEF IcpTypeOK
  <2>3. \A k \in DOMAIN stack' : k \in DOMAIN stack /\ stack'[k] = stack[k]
    BY <1>1, <1>3, BelowTop DEF IcpTypeOK
  <2>4. PartOfCall(status'[w].box) /\ \A k \in DOMAIN stack' : PartOfCall(stack'[k][1])
    BY <2>1, <2>2, <2>3 DEF BoxIInv
  <2>5. found_delta_sat' # w
    BY <1>1, NotTheFinder
  <2> QED BY <1>1, <2>1, <2>4, <2>5, WorkerKeepsParts
<1> QED BY <1>1, <1>2, <1>3

(* What a sound contraction leaves of a part of the box of the call.       *)
LEMMA SoundPart ==
  ASSUME problem \in Problems, NEW st, NEW point, NEW box, NEW result, PartOfCall(box),
         SoundOn(point, box), result = Processed(st, point, box), result.box # Empty
  PROVE  /\ PartOfCall(result.box)
         /\ IsFinal(result.box) => Near(result.box)
         /\ ~IsFinal(result.box) => CanSplit(result.box)
<1> DEFINE new == Processed(NewStatus(box), point, box)
<1>1. Sound(new, box) /\ (new.box # Empty /\ IsFinal(new.box) => Near(new.box))
  BY DEF SoundOn
<1>2. Adds(st, new, result) /\ result.box = new.box
  BY ProcessedAdds DEF Adds
<1> HIDE DEF new
<1>3. /\ IsBox(result.box) /\ Within(result.box, box)
      /\ ~IsFinal(result.box) => CanSplit(result.box)
  BY <1>1, <1>2, SoundAdds
<1>4. PartOfCall(result.box)
  BY <1>3, PartOfPart
<1> QED BY <1>1, <1>2, <1>3, <1>4

LEMMA PruneBoxParts ==
  ASSUME CountIInv, BoxIInv, ContractorsSound, NEW w \in Workers, PruneBox(w)
  PROVE  BoxIInv'
<1> DEFINE st == Processed(status[w], branching_point, status[w].box)
<1>1. /\ OnlyMoves(w) /\ UNCHANGED shared /\ pc[w] = "prune" /\ need_to_pop[w]
      /\ problem \in Problems
      /\ Moved(w, IF st.box = Empty THEN "subtract"
                  ELSE IF IsFinal(st.box) THEN "found" ELSE "add", need_to_pop[w], st)
  BY PruneBoxFacts DEF CountIInv, IcpTypeOK, WorkersOK, WorkerOK, AtWork
<1>2. SoundOn(branching_point, status[w].box)
  BY <1>1 DEF ContractorsSound
<1>3. PartOfCall(status[w].box)
  BY <1>1 DEF BoxIInv, HasBox
<1>4. st.box # Empty => PartOfCall(st.box) /\ (IsFinal(st.box) => Near(st.box))
  BY <1>1, <1>2, <1>3, SoundPart
<1> HIDE DEF st
<1>5. /\ status'[w] = st /\ need_to_pop'[w]
      /\ pc'[w] = IF st.box = Empty THEN "subtract" ELSE IF IsFinal(st.box) THEN "found" ELSE "add"
  BY <1>1 DEF Moved
<1>6. HasBox(w)' => PartOfCall(status'[w].box)
  BY <1>4, <1>5 DEF HasBox
<1>7. pc'[w] = "found" => PartOfCall(status'[w].box) /\ Near(status'[w].box)
  BY <1>4, <1>5
<1>8. \A k \in DOMAIN stack' : PartOfCall(stack'[k][1])
  BY <1>1 DEF BoxIInv, shared
<1>9. found_delta_sat' = found_delta_sat /\ found_delta_sat # w
  BY <1>1, NotTheFinder DEF shared
<1> QED BY <1>1, <1>6, <1>7, <1>8, <1>9, WorkerKeepsParts

LEMMA PushParts ==
  ASSUME CountIInv, SearchIInv, BoxIInv, NEW w \in Workers, Push(w)  PROVE BoxIInv'
<1> DEFINE box    == status[w].box
           halves == Bisect(box, BranchOn(box))
<1>1. /\ OnlyMoves(w) /\ UNCHANGED found_delta_sat /\ pc[w] = "push"
      /\ problem \in Problems /\ pc'[w] = "check_found"
  BY PushFacts DEF Moved, CountIInv, IcpTypeOK
<1>8. PICK a, b : PushesHalf(w, a, b)
  BY PushedHalves
<1>2. /\ (a = halves[1] /\ b = halves[2]) \/ (a = halves[2] /\ b = halves[1])
      /\ status'[w].box = a
      /\ \A k \in DOMAIN stack : k \in DOMAIN stack' /\ stack'[k] = stack[k]
      /\ \A k \in DOMAIN stack' : k \in DOMAIN stack \/ stack'[k][1] = b
  BY <1>8 DEF PushesHalf
<1>3. CanSplit(box) /\ PartOfCall(box)
  BY <1>1 DEF SearchIInv, BoxIInv, HasBox
<1>4. PartOfCall(halves[1]) /\ PartOfCall(halves[2])
  <2> HIDE DEF box
  <2>1. ASSUME NEW k \in {1, 2}  PROVE PartOfCall(halves[k])
    <3>1. IsBox(halves[k]) /\ Within(halves[k], box)
      BY <1>3, HalvesWithin
    <3> HIDE DEF halves
    <3> QED BY <1>1, <1>3, <3>1, PartOfPart
  <2> HIDE DEF halves
  <2> QED BY <2>1
<1> HIDE DEF halves
<1>5. PartOfCall(a) /\ PartOfCall(b)
  BY <1>2, <1>4
<1>6. \A k \in DOMAIN stack' : PartOfCall(stack'[k][1])
  BY <1>2, <1>5 DEF BoxIInv
<1>7. found_delta_sat' # w /\ found_delta_sat' = found_delta_sat
  BY <1>1, NotTheFinder
<1> QED BY <1>1, <1>2, <1>5, <1>6, <1>7, WorkerKeepsParts

(* The caller's steps: the worker that has found a box keeps it.           *)
LEMMA CallerKeepsParts ==
  ASSUME CountIInv, BoxIInv, UNCHANGED <<problem, jobs, found_delta_sat>>,
         pc'[0] = "initial" => PartOfCall(cs'.box),
         pc'[0] = "search" /\ stack' = <<>> => cs'.box = Empty,
         \A k \in DOMAIN stack' : PartOfCall(stack'[k][1]),
         \/ UNCHANGED <<status, need_to_pop>> /\ \A w \in Workers : pc'[w] = pc[w]
         \/ found_delta_sat = -1 /\ \A w \in Workers : ~HasBox(w)' /\ pc'[w] # "found",
         \/ UNCHANGED answer
         \/ answer'.result = "sat" => Within(answer'.box, problem.box) /\ Near(answer'.box)
  PROVE  BoxIInv'
<1>1. (\A box : PartOfCall(box)' <=> PartOfCall(box)) /\ (\A box : Near(box)' <=> Near(box))
  BY DEF PartOfCall, Near
<1>2. DeltaSat'
  BY <1>1 DEF BoxIInv, DeltaSat
<1>3. Workers' = Workers
  BY DEF Workers
<1>4. CASE UNCHANGED <<status, need_to_pop>> /\ \A w \in Workers : pc'[w] = pc[w]
  BY <1>1, <1>2, <1>3, <1>4 DEF BoxIInv, HasBox
<1>5. CASE found_delta_sat = -1 /\ \A w \in Workers : ~HasBox(w)' /\ pc'[w] # "found"
  BY <1>1, <1>2, <1>3, <1>5, WorkerIndex DEF BoxIInv, CountIInv
<1> QED BY <1>4, <1>5

LEMMA OnePart ==
  ASSUME NEW box, PartOfCall(box), NEW s, s = << <<box, -1>> >>
  PROVE  s # <<>> /\ \A k \in DOMAIN s : PartOfCall(s[k][1])
<1> DEFINE e == <<box, -1>>
<1>1. s = <<e>> /\ e[1] = box
  OBVIOUS
<1> HIDE DEF e
<1>2. s # <<>> /\ \A k \in DOMAIN s : s[k] = e
  BY <1>1
<1> QED BY <1>1, <1>2

LEMMA BuildParts ==
  ASSUME CountIInv, BoxIInv, ContractorsSound, Build
  PROVE  BoxIInv'
<1> DEFINE st == InitialStatus(problem)
           l  == IF st.box = Empty THEN "done" ELSE IF Parallel THEN "initial" ELSE "search"
<1>1. /\ pc[0] = "idle" /\ cs' = st
      /\ pc' = [pc EXCEPT ![0] = l]
      /\ stack' = IF st.box = Empty \/ Parallel THEN <<>> ELSE << <<st.box, -1>> >>
      /\ IF st.box = Empty THEN Answered(st) ELSE UNCHANGED answer
      /\ UNCHANGED <<problem, jobs, found_delta_sat, status, need_to_pop>> /\ problem \in Problems
  BY DEF Build, CountIInv, IcpTypeOK
<1>2. Sound(st, problem.box)
  BY <1>1 DEF ContractorsSound
<1> HIDE DEF st
<1>3. st.box # Empty => PartOfCall(st.box)
  BY <1>2, WithinItself DEF Sound, PartOfCall, st
<1>4. (l # "done" <=> st.box # Empty) /\ (l = "search" => ~Parallel)
  OBVIOUS
<1> HIDE DEF l
<1>5. pc'[0] = l /\ \A w \in Workers : pc'[w] = pc[w]
  BY <1>1 DEF CountIInv, IcpTypeOK, Workers
<1>6. CASE stack' = <<>>
  <2>1. l # "search"
    <3> DEFINE e == <<st.box, -1>>
    <3>1. <<e>> # <<>>
      OBVIOUS
    <3> QED BY <1>1, <1>4, <1>6, <3>1
  <2>2. answer'.result = "sat" => UNCHANGED answer
    BY <1>1, AnsweredFacts
  <2> QED BY <1>1, <1>3, <1>4, <1>5, <1>6, <2>1, <2>2, CallerKeepsParts
<1>7. CASE stack' # <<>>
  <2>1. st.box # Empty /\ stack' = << <<st.box, -1>> >>
    BY <1>1, <1>7
  <2>2. \A k \in DOMAIN stack' : PartOfCall(stack'[k][1])
    BY <1>3, <2>1, OnePart
  <2> QED BY <1>1, <1>3, <1>4, <1>5, <1>7, <2>1, <2>2, CallerKeepsParts
<1> QED BY <1>6, <1>7

LEMMA SeqExhaustedParts ==
  ASSUME CountIInv, BoxIInv, SeqExhausted
  PROVE  BoxIInv'
<1>1. /\ pc[0] = "search" /\ stack = <<>> /\ pc' = [pc EXCEPT ![0] = "done"]
      /\ UNCHANGED <<problem, jobs, stack, found_delta_sat, status, need_to_pop>> /\ Answered(cs)
  BY DEF SeqExhausted, shared
<1>2. pc'[0] = "done" /\ \A w \in Workers : pc'[w] = pc[w]
  BY <1>1 DEF CountIInv, IcpTypeOK, Workers
<1>3. answer'.result = "unsat"
  BY <1>1, AnsweredFacts DEF BoxIInv
<1>4. \A k \in DOMAIN stack' : PartOfCall(stack'[k][1])
  BY <1>1 DEF BoxIInv
<1> QED BY <1>1, <1>2, <1>3, <1>4, CallerKeepsParts

LEMMA SeqStepParts ==
  ASSUME CountIInv, SearchIInv, BoxIInv, ContractorsSound, SeqStep
  PROVE  BoxIInv'
<1> DEFINE top   == stack[Len(stack)]
           below == SubSeq(stack, 1, Len(stack) - 1)
           st    == Processed(cs, top[2], top[1])
           i     == BranchOn(st.box)
           halves == Bisect(st.box, i)
<1>1. /\ pc[0] = "search" /\ stack # <<>> /\ problem \in Problems
      /\ stack \in Seq({stack[k] : k \in DOMAIN stack})
      /\ UNCHANGED <<problem, jobs, need_to_pop, status, found_delta_sat>> /\ cs' = st
      /\ \/ st.box = Empty /\ stack' = below /\ UNCHANGED <<pc, answer>>
         \/ /\ st.box # Empty /\ IsFinal(st.box) /\ stack' = below
            /\ pc' = [pc EXCEPT ![0] = "done"] /\ Answered(st)
         \/ /\ st.box # Empty /\ ~IsFinal(st.box) /\ UNCHANGED <<pc, answer>>
            /\ \E a, b : {a, b} = {halves[1], halves[2]} /\ stack' = below \o << <<a, i>>, <<b, i>> >>
  BY SeqStepFacts DEF CountIInv, IcpTypeOK
<1>2. SoundOn(top[2], top[1]) /\ Len(stack) \in DOMAIN stack
  <2>1. SoundOn(top[2], top[1])
    BY <1>1 DEF ContractorsSound
  <2> DEFINE S == {stack[k] : k \in DOMAIN stack}
  <2>2. stack \in Seq(S) /\ stack # <<>>
    BY <1>1
  <2> HIDE DEF S
  <2>3. Len(stack) \in Nat \ {0} /\ DOMAIN stack = 1 .. Len(stack)
    BY <2>2, Popped, LenProperties
  <2> QED BY <2>1, <2>3
<1>3. PartOfCall(top[1])
  BY <1>2 DEF BoxIInv
<1>4. below \in Seq({stack[k] : k \in DOMAIN stack})
  BY <1>1, Popped
<1>5. \A k \in DOMAIN below : PartOfCall(below[k][1])
  <2>1. \A k \in DOMAIN below : k \in DOMAIN stack /\ below[k] = stack[k]
    BY <1>1, BelowTop
  <2> QED BY <2>1 DEF BoxIInv
<1>6. st.box # Empty => /\ PartOfCall(st.box)
                        /\ IsFinal(st.box) => Near(st.box)
                        /\ ~IsFinal(st.box) => CanSplit(st.box)
  <2> DEFINE box == top[1]
             point == top[2]
  <2>1. st = Processed(cs, point, box)
    OBVIOUS
  <2>2. SoundOn(point, box) /\ PartOfCall(box)
    BY <1>2, <1>3
  <2> HIDE DEF st, top, box, point
  <2> QED BY <1>1, <2>1, <2>2, SoundPart
<1> HIDE DEF top, below
<1>7. CASE st.box = Empty /\ stack' = below /\ UNCHANGED <<pc, answer>>
  <2> HIDE DEF st
  <2> QED BY <1>1, <1>5, <1>7, CallerKeepsParts DEF Workers
<1>8. CASE /\ st.box # Empty /\ IsFinal(st.box) /\ stack' = below
           /\ pc' = [pc EXCEPT ![0] = "done"] /\ Answered(st)
  <2> HIDE DEF st
  <2>1. pc'[0] = "done" /\ \A w \in Workers : pc'[w] = pc[w]
    BY <1>8 DEF CountIInv, IcpTypeOK, Workers
  <2>2. answer' = [result |-> "sat", box |-> st.box]
    BY <1>8, AnsweredFacts
  <2>3. answer'.box = st.box
    BY <2>2
  <2>4. Within(answer'.box, problem.box) /\ Near(answer'.box)
    BY <1>1, <1>6, <1>8, <2>3, PartOfWhole
  <2> QED BY <1>1, <1>5, <1>8, <2>1, <2>4, CallerKeepsParts
<1>9. CASE /\ st.box # Empty /\ ~IsFinal(st.box) /\ UNCHANGED <<pc, answer>>
           /\ \E a, b : {a, b} = {halves[1], halves[2]} /\ stack' = below \o << <<a, i>>, <<b, i>> >>
  <2>1. PICK a, b : {a, b} = {halves[1], halves[2]} /\ stack' = below \o << <<a, i>>, <<b, i>> >>
    BY <1>9
  <2>2. PartOfCall(halves[1]) /\ PartOfCall(halves[2])
    <3>1. CanSplit(st.box) /\ PartOfCall(st.box)
      BY <1>6, <1>9
    <3> HIDE DEF st
    <3>2. ASSUME NEW k \in {1, 2}  PROVE PartOfCall(halves[k])
      <4>1. IsBox(halves[k]) /\ Within(halves[k], st.box)
        BY <3>1, HalvesWithin
      <4> HIDE DEF halves
      <4> QED BY <1>1, <3>1, <4>1, PartOfPart
    <3> HIDE DEF halves
    <3> QED BY <3>2
  <2> HIDE DEF halves, i, st
  <2>3. PartOfCall(a) /\ PartOfCall(b)
    <3>1. (a = halves[1] \/ a = halves[2]) /\ (b = halves[1] \/ b = halves[2])
      BY <2>1
    <3> QED BY <2>2, <3>1, Zenon
  <2> DEFINE e == <<a, i>>
             f == <<b, i>>
  <2>4. stack' = below \o <<e, f>> /\ e[1] = a /\ f[1] = b
    BY <2>1
  <2> HIDE DEF e, f
  <2>5. /\ stack' # <<>>
        /\ \A k \in DOMAIN stack' : (k \in DOMAIN below /\ stack'[k] = below[k]) \/ stack'[k] = e \/ stack'[k] = f
    BY <1>4, <2>4, OnlyTwoPushed
  <2>6. \A k \in DOMAIN stack' : PartOfCall(stack'[k][1])
    BY <1>5, <2>3, <2>4, <2>5
  <2> QED BY <1>1, <1>9, <2>5, <2>6, CallerKeepsParts DEF Workers
<1> HIDE DEF st, halves, i
<1> QED BY <1>1, <1>7, <1>8, <1>9

LEMMA LaunchParts ==
  ASSUME CountIInv, BoxIInv, ContractorsSound, Launch
  PROVE  BoxIInv'
<1> DEFINE st  == Contracted(cs, branching_point, cs.box)
           new == Contracted(NewStatus(cs.box), branching_point, cs.box)
<1>1. /\ pc[0] = "initial" /\ UNCHANGED <<problem, jobs, found_delta_sat, need_to_pop>> /\ cs' = st
      /\ problem \in Problems
  BY DEF Launch, CountIInv, IcpTypeOK
<1>2. Sound(new, cs.box)
  BY <1>1 DEF ContractorsSound
<1>3. Adds(cs, new, st)
  BY ContractedAdds
<1>4. PartOfCall(cs.box)
  BY <1>1 DEF BoxIInv
<1>5. st.box # Empty => PartOfCall(st.box)
  <2> HIDE DEF new, st
  <2>1. st.box # Empty => IsBox(st.box) /\ Within(st.box, cs.box)
    BY <1>2, <1>3, SoundAdds
  <2> QED BY <1>1, <1>4, <2>1, PartOfPart
<1>6. found_delta_sat = -1 /\ \A w \in Workers : pc[w] = "idle" /\ need_to_pop[w] /\ ~HasBox(w)
  BY <1>1, NobodyHolds
<1>7. CASE st.box = Empty
  <2>1. pc' = [pc EXCEPT ![0] = "done"] /\ UNCHANGED <<stack, status>> /\ Answered(st)
    BY <1>7 DEF Launch
  <2>2. pc'[0] = "done" /\ \A w \in Workers : pc'[w] = pc[w]
    BY <2>1 DEF CountIInv, IcpTypeOK, Workers
  <2> HIDE DEF st
  <2>3. answer'.result = "unsat"
    BY <1>7, <2>1, AnsweredFacts
  <2>4. \A k \in DOMAIN stack' : PartOfCall(stack'[k][1])
    BY <2>1 DEF BoxIInv
  <2> QED BY <1>1, <2>1, <2>2, <2>3, <2>4, CallerKeepsParts
<1>8. CASE st.box # Empty
  <2>1. /\ pc' = [w \in 0 .. jobs |-> IF w = 0 THEN "join" ELSE "check_found"]
        /\ stack' = << <<st.box, -1>> >> /\ UNCHANGED answer
    BY <1>8 DEF Launch
  <2> HIDE DEF st
  <2>2. pc'[0] = "join" /\ \A w \in Workers : pc'[w] = "check_found" /\ need_to_pop'[w]
    BY <1>1, <1>6, <2>1 DEF CountIInv, IcpTypeOK, Workers
  <2>3. \A k \in DOMAIN stack' : PartOfCall(stack'[k][1])
    BY <1>5, <1>8, <2>1, OnePart
  <2>4. \A w \in Workers : ~HasBox(w)' /\ pc'[w] # "found"
    BY <2>2 DEF HasBox
  <2> QED BY <1>1, <1>6, <2>1, <2>2, <2>3, <2>4, CallerKeepsParts
<1> QED BY <1>7, <1>8

LEMMA JoinParts ==
  ASSUME CountIInv, BoxIInv, JoinWorkers
  PROVE  BoxIInv'
<1>1. /\ pc[0] = "join" /\ pc' = [pc EXCEPT ![0] = "done"] /\ Answered(Result)
      /\ UNCHANGED <<problem, jobs, stack, found_delta_sat, status, need_to_pop>>
  BY DEF JoinWorkers, shared
<1>2. pc'[0] = "done" /\ \A w \in Workers : pc'[w] = pc[w]
  BY <1>1 DEF CountIInv, IcpTypeOK, Workers
<1>3. \A k \in DOMAIN stack' : PartOfCall(stack'[k][1])
  BY <1>1 DEF BoxIInv
<1>5. problem \in Problems
  BY DEF CountIInv, IcpTypeOK
<1>4. answer'.result = "sat" => Within(answer'.box, problem.box) /\ Near(answer'.box)
  <2>1. CASE Result.box = Empty
    BY <1>1, <2>1, AnsweredFacts
  <2>2. CASE Result.box # Empty
    <3>1. Result.box = IF found_delta_sat = -1 THEN Empty ELSE status[found_delta_sat].box
      BY DEF Result, JoinOf
    <3>2. found_delta_sat \in Workers /\ Result.box = status[found_delta_sat].box
      BY <2>2, <3>1 DEF CountIInv, IcpTypeOK
    <3>3. PartOfCall(Result.box) /\ Near(Result.box)
      BY <3>2 DEF BoxIInv
    <3>4. answer' = [result |-> "sat", box |-> Result.box]
      BY <1>1, <2>2, AnsweredFacts
    <3>5. answer'.box = Result.box
      BY <3>4
    <3>6. Within(Result.box, problem.box)
      BY <1>5, <3>3, PartOfWhole
    <3> QED BY <3>3, <3>5, <3>6
  <2> QED BY <2>1, <2>2
<1> QED BY <1>1, <1>2, <1>3, <1>4, CallerKeepsParts

LEMMA BoxInit == Init => BoxIInv
<1> SUFFICES ASSUME Init  PROVE BoxIInv
  OBVIOUS
<1>1. \A w \in 0 .. jobs : pc[w] = "idle" /\ need_to_pop[w]
  BY DEF Init
<1>2. 0 \in 0 .. jobs /\ Workers \subseteq 0 .. jobs /\ 0 \notin Workers /\ -1 \notin Workers
  BY IcpAssumption DEF Init, Workers
<1>3. answer.result = "none" /\ stack = <<>> /\ found_delta_sat = -1
  BY DEF Init, NoAnswer
<1>4. \A w \in Workers : ~HasBox(w) /\ pc[w] # "found" /\ w # found_delta_sat
  BY <1>1, <1>2, <1>3 DEF HasBox
<1>5. pc[0] = "idle" /\ DeltaSat /\ DOMAIN stack = {}
  BY <1>1, <1>2, <1>3 DEF DeltaSat
<1> QED BY <1>4, <1>5 DEF BoxIInv

LEMMA BoxNext ==
  ASSUME CountIInv, SearchIInv, BoxIInv, ContractorsSound, [Next]_vars
  PROVE  BoxIInv'
<1>1. CASE Main
  BY <1>1, BuildParts, SeqStepParts, SeqExhaustedParts, LaunchParts, JoinParts DEF Main
<1>2. ASSUME NEW w \in Workers, Worker(w)
      PROVE  BoxIInv'
  BY <1>2, QuietSteps, FoundParts, PopParts, PruneBoxParts, PushParts DEF Worker
<1>3. CASE UNCHANGED vars
  <2>1. UNCHANGED <<problem, jobs, cs, stack, pc, need_to_pop, status, found_delta_sat, answer>>
    BY <1>3 DEF vars, call, shared
  <2> QED BY <2>1 DEF BoxIInv, PartOfCall, Near, DeltaSat, Workers, HasBox
<1> QED BY <1>1, <1>2, <1>3 DEF Next

-----------------------------------------------------------------------------
(* The contractors and evaluators are sound, on every part of what the     *)
(* bounds have left.                                                       *)
Assertions == ToSet(problem.assertions)

LEMMA IntegersArePoints ==
  ASSUME NEW p \in IntegersOf[problem], problem \in Problems
  PROVE  p \in IntPoints
<1>1. p \in Points(problem.box) /\ \A i \in IntDim : p[i] % Unit = 0
  BY DEF IntegersOf, Solutions
<1>2. \E a, b : p \in [Dim -> a .. b]
  BY <1>1 DEF Points
<1>3. p \in [Dim -> Int]
  BY <1>2
<1> QED BY <1>1, <1>3 DEF IntPoints

LEMMA PointsAre == \A box : \A p \in Points(box) : p \in [Dim -> Int] /\ Covers(box, p)
<1>1. ASSUME NEW box, NEW p \in Points(box)
      PROVE  p \in [Dim -> Int] /\ Covers(box, p)
  <2>1. Covers(box, p) /\ \E a, b : p \in [Dim -> a .. b]
    BY <1>1 DEF Points
  <2> QED BY <2>1
<1> QED BY <1>1

(* A status with the box, the constraints and the witnesses of another.    *)
SameNotes(st, own) == st.box = own.box /\ st.used = own.used /\ st.witness = own.witness

LEMMA FollowsIsSound ==
  ASSUME problem \in Problems, NEW box, IsBox(box), NEW own \in Follows(Assertions, NewStatus(box)),
         NEW st, SameNotes(st, own)
  PROVE  Sound(st, box)
<1>1. own \in StatusesOf(Assertions) /\ NewStatus(box).box = box
  BY DEF Follows, NewStatus
<1>2. Noted(st) /\ (st.box = Empty \/ IsBox(st.box))
  BY <1>1, StatusIs DEF Noted, SameNotes, Assertions
<1>3. Within(st.box, box)
  BY <1>1 DEF Follows, SameNotes
<1>4. ASSUME NEW D \in SUBSET Dim, NEW p \in IntegersOf[problem], Admits(st, D, p), CoversOn(D, box, p)
      PROVE  CoversOn(D, st.box, p)
  <2>1. Admits(own, D, p)
    BY <1>4 DEF Admits, SameNotes
  <2>2. p \in IntPoints
    BY IntegersArePoints
  <2>3. CoversOn(D, own.box, p)
    BY <1>1, <1>4, <2>1, <2>2 DEF Follows
  <2> QED BY <2>3 DEF SameNotes
<1>5. EvaluateBox(problem, st.box).candidates \subseteq Dim
  BY DEF EvaluateBox, Candidates, VarsOf
<1> QED BY <1>2, <1>3, <1>4, <1>5 DEF Sound, Accounts

LEMMA OwnFollows ==
  ASSUME problem \in Problems, NEW point, NEW box, IsBox(box)
  PROVE  Contraction(problem, point, box) \in Follows(Assertions, NewStatus(box))
<1>1. NewStatus(box) \in StatusesOf(Assertions) /\ NewStatus(box).box = box
  BY DEF NewStatus, StatusesOf, Boxes, IsBox
<1>2. IsProblem(problem)
  BY IcpAssumption
<1> QED BY <1>1, <1>2, BoxIsNotEmpty, PruneFollows DEF Contraction, Assertions

LEMMA ContractedNotes ==
  ASSUME NEW point, NEW box
  PROVE  SameNotes(Contracted(NewStatus(box), point, box), Contraction(problem, point, box))
<1> DEFINE own == Contraction(problem, point, box)
           c   == Contracted(NewStatus(box), point, box)
<1>1. c.box = own.box /\ c.used = NewStatus(box).used \cup own.used
      /\ c.witness = NewStatus(box).witness \cup own.witness
  BY ContractedFacts
<1>2. NewStatus(box).used = {} /\ NewStatus(box).witness = {}
  BY DEF NewStatus
<1> HIDE DEF own, c
<1>3. c.used = own.used /\ c.witness = own.witness
  BY <1>1, <1>2
<1> QED BY <1>1, <1>3 DEF SameNotes, own, c

LEMMA ContractedSound ==
  ASSUME problem \in Problems, NEW point, NEW box, IsBox(box)
  PROVE  Sound(Contracted(NewStatus(box), point, box), box)
BY OwnFollows, ContractedNotes, FollowsIsSound

(* Refuted: what the contraction has left has no point either that         *)
(* satisfies the constraint which refutes it.                              *)
LEMMA RefutedSound ==
  ASSUME problem \in Problems, NEW c, NEW box, Sound(c, box), c.box # Empty,
         NEW fs, fs = EvaluateBox(problem, c.box).refuters, fs # {},
         NEW new, new.box = Empty, new.used = c.used \cup fs,
         new.witness = c.witness \cup UNION {VarsOf(f) : f \in fs}
  PROVE  Sound(new, box)
<1>1. IsProblem(problem) /\ fs = Refuters(problem, c.box)
  BY IcpAssumption DEF EvaluateBox
<1>2. fs \subseteq ToSet(problem.assertions) /\ \A f \in fs : Evaluate(f, c.box).type = "UNSAT" /\ IsConstraint(f)
  BY <1>1, RefutersAre DEF IsProblem
<1>3. Noted(new)
  BY <1>2 DEF Sound, Noted, VarsOf
<1>4. ASSUME NEW D \in SUBSET Dim, NEW p \in IntegersOf[problem], Admits(new, D, p), CoversOn(D, box, p)
      PROVE  FALSE
  <2>1. PICK f \in fs : TRUE
    OBVIOUS
  <2>2. Admits(c, D, p)
    BY <1>4 DEF Admits
  <2>3. CoversOn(D, c.box, p) /\ IsBox(c.box)
    BY <1>4, <2>2 DEF Sound, Accounts
  <2>4. VarsOf(f) \subseteq D /\ VarsOf(f) # {} /\ f \in new.used
    BY <1>2, <1>4, VarsOfRelation DEF Admits
  <2>5. Satisfies(p, f)
    BY <1>4, <2>4 DEF Admits
  <2>6. p \in IntPoints
    BY IntegersArePoints
  <2> QED BY <1>2, <2>3, <2>4, <2>5, <2>6, RefutedHasNone
<1> QED BY <1>3, <1>4 DEF Sound, Accounts

(* A point that satisfies a constraint up to what the evaluators allow.    *)
LEMMA NearlyIs ==
  ASSUME NEW p, NEW f, Relation(f).op \in Operators,
         Relation(f).op # "!=" =>
           Nearly(Relation(f).op, At(Relation(f), 0, p),
                  Higher(Precision, diam(Value(Relation(f), 0, UnitBox))))
  PROVE  SatisfiesUpTo(p, f)
<1> DEFINE r == Relation(f)
           v == At(r, 0, p)
           s == Higher(Precision, diam(Value(r, 0, UnitBox)))
           op == r.op
<1>1. SatisfiesUpTo(p, f) =
        CASE op = "!="          -> TRUE
          [] op = "="           -> -s <= v /\ v <= s
          [] op \in {"<=", "<"} -> v <= s
          [] op \in {">=", ">"} -> v >= -s
  BY DEF SatisfiesUpTo, UnitBox
<1>2. op \in Operators /\ (op # "!=" => Nearly(op, v, s))
  OBVIOUS
<1> HIDE DEF v, s, op
<1>3. CASE op = "!="
  BY <1>1, <1>3
<1>4. CASE op = "="
  BY <1>1, <1>2, <1>4 DEF Nearly
<1>5. CASE op \in {"<=", "<"}
  BY <1>1, <1>2, <1>5 DEF Nearly
<1>6. CASE op \in {">=", ">"}
  BY <1>1, <1>2, <1>6 DEF Nearly
<1> QED BY <1>2, <1>3, <1>4, <1>5, <1>6 DEF Operators

LEMMA NotRefutedIsNear ==
  ASSUME problem \in Problems, NEW box, PartOfCall(box), IsFinal(box),
         EvaluateBox(problem, box).refuters = {}
  PROVE  Near(box)
<1>1. IsProblem(problem) /\ Refuters(problem, box) = {} /\ FindMaxDiam(box, Candidates(problem, box)) = 0
  BY IcpAssumption DEF EvaluateBox, IsFinal, BranchOn
<1>2. IsBox(box)
  BY DEF PartOfCall
<1>3. BoundsHold(problem, [box |-> box])
  <2> DEFINE whole == InitialStatus(problem).box
  <2>1. IsBox(whole) /\ Within(box, whole)
    BY DEF PartOfCall
  <2>2. \A f \in ToSet(problem.assertions) : IsFiltered(f) => Bounded(whole, f)
    BY <1>1, InitialFollows DEF BoundsHold
  <2> HIDE DEF whole
  <2>3. \A f \in ToSet(problem.assertions) : IsFiltered(f) => Bounded(box, f)
    BY <1>2, <2>1, <2>2, BoundedPart
  <2> QED BY <2>3 DEF BoundsHold
<1>4. ASSUME NEW p \in Points(box), NEW f \in ToSet(problem.assertions), ~f.forall
      PROVE  SatisfiesUpTo(p, f)
  <2>1. p \in [Dim -> Int] /\ Covers(box, p)
    BY <1>4, PointsAre
  <2>2. IsConstraint(f)
    BY <1>1 DEF IsProblem
  <2>3. Relation(f).op \in Operators
    BY <1>4, <2>2, VarsOfRelation, RelationParts DEF Operators
  <2>4. Relation(f).op # "!=" =>
          Nearly(Relation(f).op, At(Relation(f), 0, p),
                 Higher(Precision, diam(Value(Relation(f), 0, UnitBox))))
    BY <1>1, <1>2, <1>3, <1>4, <2>1, FinalIsNear
  <2> QED BY <2>3, <2>4, NearlyIs
<1> QED BY <1>4 DEF Near

LEMMA ProcessedSound ==
  ASSUME problem \in Problems, NEW point, NEW box, PartOfCall(box)
  PROVE  SoundOn(point, box)
<1> DEFINE left == Contraction(problem, point, box).box
           c    == Contracted(NewStatus(box), point, box)
           fs   == EvaluateBox(problem, left).refuters
           V    == UNION {VarsOf(f) : f \in fs}
           new  == Processed(NewStatus(box), point, box)
<1>1. /\ left = Empty \/ fs = {} => new = c
      /\ ~(left = Empty \/ fs = {}) =>
           new.box = Empty /\ new.used = c.used \cup fs /\ new.witness = c.witness \cup V
  BY ProcessedFacts
<1>2. c.box = left
  BY ContractedFacts
<1>3. IsBox(box)
  BY DEF PartOfCall
<1>4. Sound(c, box)
  BY <1>3, ContractedSound
<1>5. fs = EvaluateBox(problem, c.box).refuters /\ V = UNION {VarsOf(f) : f \in fs}
  BY <1>2
<1>6. SoundOn(point, box) <=> Sound(new, box) /\ (new.box # Empty /\ IsFinal(new.box) => Near(new.box))
  BY DEF SoundOn
<1> HIDE DEF left, c, fs, V, new
<1>7. CASE left = Empty \/ fs = {}
  <2>1. new = c
    BY <1>1, <1>7
  <2>2. ASSUME new.box # Empty, IsFinal(new.box)  PROVE Near(new.box)
    <3>1. fs = {} /\ IsBox(new.box) /\ Within(new.box, box)
      BY <1>2, <1>4, <1>7, <2>1, <2>2 DEF Sound
    <3>2. PartOfCall(new.box)
      BY <3>1, PartOfPart
    <3> QED BY <1>5, <2>1, <2>2, <3>1, <3>2, NotRefutedIsNear
  <2> QED BY <1>4, <1>6, <2>1, <2>2
<1>8. CASE ~(left = Empty \/ fs = {})
  <2>1. Sound(new, box)
    BY <1>1, <1>2, <1>4, <1>5, <1>8, RefutedSound
  <2> QED BY <1>1, <1>6, <1>8, <2>1
<1> QED BY <1>7, <1>8

LEMMA InitialSound ==
  ASSUME problem \in Problems
  PROVE  Sound(InitialStatus(problem), problem.box)
<1>1. IsProblem(problem) /\ IsBox(problem.box)
  BY IcpAssumption DEF IsProblem
<1>2. InitialStatus(problem) \in Follows(Assertions, NewStatus(problem.box))
  BY <1>1, InitialFollows DEF Assertions
<1>3. SameNotes(InitialStatus(problem), InitialStatus(problem))
  BY DEF SameNotes
<1> QED BY <1>1, <1>2, <1>3, FollowsIsSound

LEMMA ContractorsAreSound == CountIInv /\ BoxIInv => ContractorsSound
<1> SUFFICES ASSUME CountIInv, BoxIInv  PROVE ContractorsSound
  OBVIOUS
<1>1. problem \in Problems /\ stack \in Seq({stack[k] : k \in DOMAIN stack})
  BY DEF CountIInv, IcpTypeOK
<1>2. ASSUME stack # <<>>
      PROVE  SoundOn(stack[Len(stack)][2], stack[Len(stack)][1])
  <2>1. Len(stack) \in DOMAIN stack
    BY <1>1, <1>2, Popped
  <2>2. PartOfCall(stack[Len(stack)][1])
    BY <2>1 DEF BoxIInv
  <2> QED BY <1>1, <2>2, ProcessedSound
<1>3. pc[0] = "initial" => Sound(Contracted(NewStatus(cs.box), branching_point, cs.box), cs.box)
  BY <1>1, ContractedSound DEF BoxIInv, PartOfCall
<1>4. ASSUME NEW w \in Workers, pc[w] = "prune"
      PROVE  SoundOn(branching_point, status[w].box)
  BY <1>1, <1>4, ProcessedSound DEF BoxIInv, HasBox
<1> QED BY <1>1, <1>2, <1>3, <1>4, InitialSound DEF ContractorsSound

-----------------------------------------------------------------------------
(* The theorems, for any number of workers, whatever their steps           *)
(* interleave to.                                                          *)

(* The inductive invariants of the search and of its boxes: each step may  *)
(* rely on sound contractors, which sound boxes have.                      *)
THEOREM SearchInductive == Spec => [](SearchIInv /\ BoxIInv)
<1>1. Init => SearchIInv /\ BoxIInv
  BY SearchInit, BoxInit
<1>2. CountIInv /\ SearchIInv /\ BoxIInv /\ [Next]_vars => (SearchIInv /\ BoxIInv)'
  BY ContractorsAreSound, SearchNext, BoxNext
<1> QED BY <1>1, <1>2, CountInductive, PTL DEF Spec

(* Whatever box the search contracts, in whichever order the contractors   *)
(* run: what is taken off is accounted for by the constraints noted as     *)
(* used, and the points of a box that is final satisfy the assertions up   *)
(* to the precision.                                                       *)
THEOREM ContractorsStaySound == Spec => []ContractorsSound
BY ContractorsAreSound, CountInductive, SearchInductive, PTL

(* The search loses no solution of the assertions.                         *)
THEOREM NothingIsLost == Spec => []NoSolutionLost
<1>1. ASSUME SearchIInv, NEW p \in SolutionsOf[problem], problem \in Problems
      PROVE  Open(Dim, p) /\ p \in IntegersOf[problem]
  <2>1. p \in Solutions(problem.box, ToSet(problem.assertions))
    BY <1>1 DEF SolutionsOf
  <2>2. \A f \in ToSet(problem.assertions) : Satisfies(p, f)
    BY <2>1 DEF Solutions
  <2>3. \A f : VarsOf(f) \subseteq Dim
    BY DEF VarsOf
  <2>4. ASSUME NEW st \in Statuses  PROVE Admits(st, Dim, p)
    <3>1. st.used \subseteq ToSet(problem.assertions) /\ st.witness \subseteq Dim
      BY <1>1 DEF SearchIInv, Noted
    <3> QED BY <2>2, <2>3, <3>1 DEF Admits
  <2>5. p \in IntegersOf[problem]
    BY <1>1, <2>1 DEF Solutions, IntegersOf
  <2> QED BY <2>4, <2>5 DEF Open
<1>2. CountIInv /\ SearchIInv => NoSolutionLost
  <2> SUFFICES ASSUME CountIInv, SearchIInv, Searching, NEW p \in SolutionsOf[problem]
               PROVE  \/ \E k \in DOMAIN stack : Covers(stack[k][1], p)
                      \/ \E w \in Workers : HasBox(w) /\ Covers(status[w].box, p)
    BY DEF NoSolutionLost
  <2>1. Open(Dim, p) /\ p \in IntegersOf[problem]
    BY <1>1 DEF CountIInv, IcpTypeOK
  <2> QED BY <2>1 DEF SearchIInv, NothingLeftOut, Covers
<1> QED BY <1>2, CountInductive, SearchInductive, PTL

(* An unsat answer explains itself by assertions without a common solution *)
(* in the box of the call.                                                 *)
THEOREM ExplanationIsSound == Spec => []ExplanationSound
<1>1. CountIInv /\ SearchIInv => ExplanationSound
  <2> SUFFICES ASSUME CountIInv, SearchIInv, answer.result = "unsat"
               PROVE  /\ answer.explanation \subseteq ToSet(problem.assertions)
                      /\ Solutions(problem.box, answer.explanation) = {}
    BY DEF ExplanationSound
  <2>1. problem \in Problems /\ Noted(cs)
    BY DEF CountIInv, IcpTypeOK, SearchIInv, Statuses
  <2>2. answer.explanation = GenerateExplanation(cs.witness, cs.used) /\ Excludes(cs)
    BY DEF SearchIInv, UnsatOK, Excludes
  <2> QED BY <2>1, <2>2, ExcludedExplained
<1> QED BY <1>1, CountInductive, SearchInductive, PTL

(* All the more it is right: the assertions have no solution in the box.   *)
THEOREM UnsatIsRight == Spec => [](answer.result = "unsat" => SolutionsOf[problem] = {})
<1>1. CountIInv /\ ExplanationSound => (answer.result = "unsat" => SolutionsOf[problem] = {})
  <2> SUFFICES ASSUME CountIInv, ExplanationSound, answer.result = "unsat"
               PROVE  SolutionsOf[problem] = {}
    OBVIOUS
  <2>1. /\ answer.explanation \subseteq ToSet(problem.assertions)
        /\ Solutions(problem.box, answer.explanation) = {}
    BY DEF ExplanationSound
  <2>2. Solutions(problem.box, ToSet(problem.assertions)) = {}
    BY <2>1 DEF Solutions
  <2> QED BY <2>2 DEF SolutionsOf, CountIInv, IcpTypeOK
<1> QED BY <1>1, CountInductive, ExplanationIsSound, PTL

(* A delta-sat answer is a part of the box of the call whose points all    *)
(* satisfy the assertions up to the precision, whichever workers found     *)
(* one, in whichever order.                                                *)
THEOREM DeltaSatIsRight == Spec => []DeltaSat
<1>1. BoxIInv => DeltaSat
  BY DEF BoxIInv
<1> QED BY <1>1, SearchInductive, PTL
=============================================================================
