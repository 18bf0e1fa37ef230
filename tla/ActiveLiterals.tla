---------------------------- MODULE ActiveLiterals ----------------------------
(***************************************************************************)
(* The clause store of QsoptexSatSolver and SoplexSatSolver and the scan   *)
(* over it: DoAddClause and UpdateLookup append every main clause to one   *)
(* array of SAT literals, and GetMainActiveLiterals walks through the      *)
(* literals of picosat's model in increasing order, erasing each one that  *)
(* no main clause needs at that moment.                                    *)
(*                                                                         *)
(* AddLinearLiteral may throw in the middle of a clause.  picosat then has *)
(* a clause without its end, the array has a clause without its 0, and     *)
(* what a caller who carries on adds next runs on from there.              *)
(*                                                                         *)
(* SatCore says in one line what the scan yields; the property at the end  *)
(* is that this array, this lookup table and this order of erasing yield   *)
(* it, and how much of it is left once a clause has been broken off.       *)
(***************************************************************************)
EXTENDS Integers, Sequences, FiniteSets

CONSTANTS
  NumVars,   \* SAT variables, numbered from 1 by MakeSatVar
  Clauses,   \* the clauses that may be added, their literals in some order
  Rejected,  \* literals for which AddLinearLiteral throws (see LinearProblem)
  MaxStore   \* bound on the length of the store

(* picosat's literals: a variable's number or its negative.                *)
SatLit == (-NumVars .. NumVars) \ {0}

(* A disjunction is over a set: no literal occurs twice in a clause, and   *)
(* no clause is empty.                                                     *)
ASSUME StoreAssumption ==
  /\ NumVars \in Nat \ {0} /\ MaxStore \in Nat /\ Rejected \subseteq SatLit
  /\ Clauses \subseteq Seq(SatLit) \ {<<>>}
  /\ \A c \in Clauses : \A i, j \in DOMAIN c : i # j => c[i] # c[j]

VARIABLES
  store,    \* main_clauses_copy_: clauses one after the other, 0 after each
  lookup,   \* main_clause_lookup_: where the clauses of a literal start
  given,    \* history: the main clauses picosat has, as sets of literals
  parts,    \* history: the calls of DoAddClause these clauses come from
  open,     \* history: the calls picosat's unfinished clause comes from
  pc,       \* "idle", "aborted", or "scan" from the start of a scan until its
            \* result is used
  lits,     \* lits of GetMainActiveLiterals: what is left of the model
  chosen,   \* history: picosat's model
  todo      \* literals the iterator has yet to reach

storeVars == <<store, lookup, given, parts, open>>
scanVars  == <<pc, lits, chosen, todo>>

Consistent(S) == \A i \in S : -i \notin S
Hits(S, cs)   == \A c \in cs : c \cap S # {}
Models(cs)    == {S \in SUBSET SatLit : Consistent(S) /\ Hits(S, cs)}

-----------------------------------------------------------------------------
Init ==
  /\ store = <<>>
  /\ lookup = [i \in SatLit |-> {}]
  /\ given = {} /\ parts = {} /\ open = {}
  /\ pc = "idle" /\ lits = {} /\ chosen = {} /\ todo = {}

LitsOf(c) == {c[i] : i \in DOMAIN c}

(* A call of DoAddClause: the literals it has added, and those picosat's   *)
(* clause has from its first one on, later calls included.                 *)
Part(L, tail) == [own |-> L, tail |-> tail]

(* The literals L follow what picosat's clause has by now.                 *)
Continued(L) ==
  {Part(e.own, e.tail \cup L) : e \in open} \cup {Part(L, L)}

TailsOf(es) == UNION {e.tail : e \in es}

Idle == pc # "aborted" /\ todo = {}

LookedUp(p, at) ==
  [i \in SatLit |-> IF i \in LitsOf(p) THEN lookup[i] \cup {at} ELSE lookup[i]]

Accepted(c) ==
  /\ Idle /\ Len(store \o c) < MaxStore
  /\ LitsOf(c) \cap Rejected = {}
  /\ store' = store \o c \o <<0>>
  /\ LET es == Continued(LitsOf(c))
     IN  given' = given \cup {TailsOf(es)} /\ parts' = parts \cup es
  /\ open' = {}
  /\ pc' = "idle" /\ lits' = {} /\ chosen' = {}
  /\ UNCHANGED todo

(* Fault: the clause is looked up at its terminator, not at its start.     *)
AddClauseAtEnd(c) == Accepted(c) /\ lookup' = LookedUp(c, Len(store'))

(* DoAddClause: cur_clause_start_ is where the clause begins, literals are *)
(* pushed and looked up one by one, 0 ends the clause, and with it what    *)
(* was left open before.                                                   *)
AddClause(c) == Accepted(c) /\ lookup' = LookedUp(c, Len(store) + 1)

(* AddLinearLiteral throws at the k-th literal, which picosat, the array   *)
(* and the lookup table have by then; no 0 follows.                        *)
BreakOffClause(c, k) ==
  LET p == SubSeq(c, 1, k)
  IN  /\ Idle /\ Len(store \o c) < MaxStore
      /\ c[k] \in Rejected /\ \A j \in 1 .. k - 1 : c[j] \notin Rejected
      /\ store' = store \o p
      /\ lookup' = LookedUp(p, Len(store) + 1)
      /\ open' = Continued(LitsOf(p))
      /\ pc' = "idle" /\ lits' = {} /\ chosen' = {}
      /\ UNCHANGED <<given, parts, todo>>

(* picosat_sat ends the process when a clause is still open.               *)
CheckAborts ==
  /\ Idle /\ open # {}
  /\ pc' = "aborted"
  /\ UNCHANGED <<storeVars, lits, chosen, todo>>

(* picosat_deref_partial: any consistent set of literals that satisfies    *)
(* the main clauses; the learned ones, kept out of the store, only         *)
(* restrict the choice.                                                    *)
StartScan ==
  /\ Idle /\ open = {}
  /\ pc' = "scan"
  /\ \E S \in Models(given) : lits' = S /\ chosen' = S /\ todo' = S
  /\ UNCHANGED storeVars

(* PICOSAT_UNSATISFIABLE: there is nothing to scan.                        *)
FindsNone ==
  /\ Idle /\ open = {} /\ Models(given) = {}
  /\ pc' = "idle" /\ lits' = {} /\ chosen' = {}
  /\ UNCHANGED <<storeVars, todo>>

(* Fault: the walk does not stop at the end of the clause.                 *)
ClauseAtAndBeyond(s) == {j \in s .. Len(store) : store[j] # 0}

(* Positions of the clause that starts at s, up to its terminator.         *)
ClauseAt(s) ==
  {j \in s .. Len(store) : \A k \in s .. j : store[k] # 0}

(* The iterator's next literal: std::set is in increasing order.           *)
Current == CHOOSE i \in todo : \A k \in todo : i <= k

(* Fault: literals already erased are counted, too.                        *)
RequiredOfModel(i) ==
  \E s \in lookup[i] : Cardinality({j \in ClauseAt(s) : store[j] \in chosen}) = 1

(* Fault: a clause needs its literals however many of them are left.       *)
RequiredByAny(i) ==
  \E s \in lookup[i] : Cardinality({j \in ClauseAt(s) : store[j] \in lits}) >= 1

(* Literal i is the only one left in some main clause.                     *)
Required(i) ==
  \E s \in lookup[i] : Cardinality({j \in ClauseAt(s) : store[j] \in lits}) = 1

Step ==
  /\ todo # {}
  /\ lits' = IF Required(Current) THEN lits ELSE lits \ {Current}
  /\ todo' = todo \ {Current}
  /\ UNCHANGED <<storeVars, pc, chosen>>

Next ==
  \/ \E c \in Clauses : AddClause(c)
  \/ \E c \in Clauses : \E k \in DOMAIN c : BreakOffClause(c, k)
  \/ StartScan \/ FindsNone \/ CheckAborts
  \/ Step

vars == <<storeVars, scanVars>>

Spec == Init /\ [][Next]_vars /\ WF_vars(Step)

-----------------------------------------------------------------------------
LitsAt(s) == {store[j] : j \in ClauseAt(s)}

(* The store is well formed, after exceptions in the middle of a clause,   *)
(* too: what the lookup table finds for a literal has it and is what some  *)
(* clause of picosat has from a call of DoAddClause on, and every literal  *)
(* of every call finds just that.                                          *)
StoreOK ==
  /\ \A i \in SatLit : \A s \in lookup[i] :
       /\ s \in DOMAIN store /\ i \in LitsAt(s)
       /\ \E e \in parts \cup open : LitsAt(s) = e.tail
  /\ \A e \in parts \cup open : \A i \in e.own :
       \E s \in lookup[i] : LitsAt(s) = e.tail

(* While literals are erased, what is left always satisfies every main     *)
(* clause picosat has, those that two calls have run into one included:    *)
(* the order of the scan never takes a clause's last literal.              *)
NeverUncovered == pc = "scan" => Hits(lits, given)

(* Literals the scan has passed and kept stay needed, whatever is erased   *)
(* after them: they are what is left of a clause, or of its end when it    *)
(* has been broken off and run on.                                         *)
KeptAreNeeded ==
  \A i \in lits \ todo : \E e \in parts : e.tail \cap lits = {i}

(* The inductive invariant behind the theorems of ActiveLiteralsProofs.    *)
(* What is open is at the end of the array and what is not has its 0, so   *)
(* that the array grows without changing it.  Every literal of a clause    *)
(* has an entry from which on it occurs once, though broken-off clauses    *)
(* may repeat it: positions are counted, not literals.                     *)
ActiveTypeOK ==
  /\ store \in Seq(SatLit \cup {0}) /\ lookup \in [SatLit -> SUBSET Nat]
  /\ given \in SUBSET SUBSET SatLit
  /\ parts \cup open \subseteq [own : SUBSET SatLit, tail : SUBSET SatLit]
  /\ pc \in {"idle", "scan", "aborted"} /\ chosen \subseteq SatLit
  /\ lits \subseteq chosen /\ todo \subseteq lits

Ended(s) == \E j \in s .. Len(store) : store[j] = 0

Once(i, s) == \A j, k \in ClauseAt(s) : store[j] = i /\ store[k] = i => j = k

EntriesOK ==
  /\ \A i \in SatLit : \A s \in lookup[i] :
       /\ s \in DOMAIN store /\ i \in LitsAt(s)
       /\ \E e \in (IF Ended(s) THEN parts ELSE open) : LitsAt(s) = e.tail
  /\ \A e \in parts : \A i \in e.own :
       \E s \in lookup[i] : Ended(s) /\ LitsAt(s) = e.tail
  /\ \A e \in open : \A i \in e.own :
       \E s \in lookup[i] : ~Ended(s) /\ LitsAt(s) = e.tail
  /\ \A c \in given : \A i \in c :
       \E s \in lookup[i] : Ended(s) /\ Once(i, s) /\ LitsAt(s) \subseteq c
  /\ \A i \in TailsOf(open) : \E s \in lookup[i] : ~Ended(s) /\ Once(i, s)

ScanOK == (todo # {} => pc = "scan") /\ (pc = "scan" => open = {})

ActiveIInv ==
  /\ ActiveTypeOK /\ EntriesOK
  /\ ScanOK /\ NeverUncovered /\ KeptAreNeeded

(* The scan comes to an end and yields literals of picosat's model that   *)
(* hit every main clause - and, unless a clause has run on after an        *)
(* exception, what SatCore's MainActiveLiterals says: each of them is      *)
(* needed.                                                                 *)
AsLit(S) == {<<IF i > 0 THEN i ELSE -i, i > 0>> : i \in S}

Core == INSTANCE SatCore
  WITH Point <- {0}, TheoryVar <- 1 .. NumVars, BoolVar <- {}, CnfVar <- {},
       Op <- [v \in 1 .. NumVars |-> "eq"],
       Diff <- [v \in 1 .. NumVars |-> [p \in {0} |-> 0]],
       Delta <- 0, Slack <- 0

NothingRunOn == \A e \in parts : e.tail \in given

Result ==
  LET main == {AsLit(c) : c \in given}
  IN  /\ lits \subseteq chosen /\ Hits(lits, given)
      /\ NothingRunOn => AsLit(lits) \in Core!MainActiveLiterals(AsLit(chosen), main)

ScanYieldsResult == pc = "scan" ~> pc = "scan" /\ todo = {} /\ Result
=============================================================================
