------------------------- MODULE ActiveLiteralsProofs -------------------------
(***************************************************************************)
(* Theorems about ActiveLiterals, for any number of SAT variables, any     *)
(* clauses and a store of any length.                                      *)
(***************************************************************************)
EXTENDS ActiveLiterals, SequenceTheorems, FiniteSetTheorems,
        WellFoundedInduction, TLAPS

-----------------------------------------------------------------------------
(* The literals of a scan.                                                 *)

Below == OpToRel(<, Nat)

LEMMA BelowWellFounded == IsWellFoundedOn(Below, Nat)
BY NatLessThanWellFounded DEF Below

LEMMA BelowIsLess == \A x, y \in Nat : <<y, x>> \in Below <=> y < x
BY DEF Below, OpToRel

(* A set of literals that is not empty has a least one, the iterator's.    *)
LEMMA CurrentFacts ==
  ASSUME todo \subseteq SatLit, todo # {}
  PROVE  Current \in todo
<1> DEFINE up == {i + NumVars : i \in todo}
<1>1. NumVars \in Nat /\ \A i \in todo : i \in Int /\ i + NumVars \in Nat
  BY StoreAssumption DEF SatLit
<1>2. up \in SUBSET Nat /\ up # {}
  BY <1>1
<1>3. \E x \in up : \A y \in up : ~(<<y, x>> \in Below)
  <2> HIDE DEF up
  <2> QED BY <1>2, WFMin, BelowWellFounded, Zenon
<1>4. PICK x \in up : \A y \in up : ~(<<y, x>> \in Below)
  BY <1>3
<1>5. PICK i \in todo : x = i + NumVars
  BY <1>4
<1>6. ASSUME NEW k \in todo  PROVE i <= k
  <2>1. ~(<<k + NumVars, x>> \in Below) /\ k + NumVars \in Nat /\ x \in Nat
    BY <1>1, <1>4, <1>5
  <2>2. ~(k + NumVars < x)
    BY <2>1, BelowIsLess
  <2> QED BY <1>1, <1>5, <2>2
<1> QED BY <1>6 DEF Current

LEMMA LitIsInt == SatLit \subseteq Int /\ 0 \notin SatLit
BY StoreAssumption DEF SatLit

-----------------------------------------------------------------------------
(* The store.  ClauseIn, LitsIn, EndedIn and OnceIn are ClauseAt, LitsAt,  *)
(* Ended and Once for any array.                                           *)

ClauseIn(st, s) == {j \in s .. Len(st) : \A k \in s .. j : st[k] # 0}
LitsIn(st, s)   == {st[j] : j \in ClauseIn(st, s)}
EndedIn(st, s)  == \E j \in s .. Len(st) : st[j] = 0
OnceIn(st, i, s) ==
  \A j, k \in ClauseIn(st, s) : st[j] = i /\ st[k] = i => j = k

LEMMA AtIsIn ==
  /\ \A s : ClauseAt(s) = ClauseIn(store, s) /\ LitsAt(s) = LitsIn(store, s)
  /\ \A s : Ended(s) <=> EndedIn(store, s)
  /\ \A i, s : Once(i, s) <=> OnceIn(store, i, s)
BY DEF ClauseAt, ClauseIn, LitsAt, LitsIn, Ended, EndedIn, Once, OnceIn

(* What is written after a clause that has ended does not belong to it.    *)
LEMMA OldClause ==
  ASSUME NEW S, NEW st \in Seq(S), NEW t \in Seq(S), NEW s \in 1 .. Len(st),
         Len(st) <= Len(t), \A j \in 1 .. Len(st) : t[j] = st[j], EndedIn(st, s)
  PROVE  /\ ClauseIn(t, s) = ClauseIn(st, s) /\ LitsIn(t, s) = LitsIn(st, s)
         /\ EndedIn(t, s)
         /\ \A i : OnceIn(st, i, s) => OnceIn(t, i, s)
<1>1. Len(st) \in Nat /\ Len(t) \in Nat /\ s \in Nat \ {0}
  BY LenProperties
<1>2. PICK m \in s .. Len(st) : st[m] = 0
  BY DEF EndedIn
<1>3. m \in s .. Len(t) /\ t[m] = 0
  BY <1>1, <1>2
<1>4. ASSUME NEW j \in s .. Len(t), \A k \in s .. j : t[k] # 0
      PROVE  j < m
  <2>1. CASE j >= m
    <3>1. m \in s .. j
      BY <1>1, <1>2, <2>1
    <3> QED BY <1>3, <1>4, <3>1
  <2> QED BY <1>1, <2>1
<1>5. \A j \in s .. Len(st) : \A k \in s .. j : t[k] = st[k]
  BY <1>1
<1>6. \A j : j \in s .. Len(st) => j \in s .. Len(t) /\ j \in s .. j
  BY <1>1
<1>7. \A j \in s .. Len(t) : j < m => j \in s .. Len(st)
  BY <1>1, <1>2
<1>8. ClauseIn(t, s) \subseteq ClauseIn(st, s)
  BY <1>4, <1>5, <1>7 DEF ClauseIn
<1>9. ClauseIn(st, s) \subseteq ClauseIn(t, s)
  BY <1>5, <1>6 DEF ClauseIn
<1>10. \A j \in ClauseIn(st, s) : t[j] = st[j]
  BY <1>5, <1>6 DEF ClauseIn
<1>11. EndedIn(t, s)
  BY <1>3 DEF EndedIn
<1> QED BY <1>8, <1>9, <1>10, <1>11 DEF LitsIn, OnceIn

(* A clause that has not ended reaches to the end of the array.            *)
LEMMA OpenClause ==
  ASSUME NEW S, NEW st \in Seq(S), NEW s \in 1 .. Len(st) + 1, ~EndedIn(st, s)
  PROVE  ClauseIn(st, s) = s .. Len(st)
<1>1. Len(st) \in Nat /\ s \in Nat
  BY LenProperties
<1>2. \A j \in s .. Len(st) : \A k \in s .. j : k \in s .. Len(st)
  BY <1>1
<1> QED BY <1>2 DEF ClauseIn, EndedIn

(* Literals p are written at the end: t is the array after them.           *)
LEMMA Written ==
  ASSUME NEW st \in Seq(SatLit \cup {0}), NEW p \in Seq(SatLit), p # <<>>
  PROVE  LET t == st \o p
         IN  /\ t \in Seq(SatLit \cup {0}) /\ Len(t) = Len(st) + Len(p)
             /\ Len(p) \in Nat \ {0}
             /\ \A j \in 1 .. Len(st) : t[j] = st[j]
             /\ \A j \in Len(st) + 1 .. Len(t) :
                  j - Len(st) \in 1 .. Len(p) /\ t[j] = p[j - Len(st)] /\ t[j] # 0
             /\ {t[j] : j \in Len(st) + 1 .. Len(t)} = LitsOf(p)
<1> DEFINE m == Len(st)
           n == Len(p)
           t == st \o p
<1>1. p \in Seq(SatLit \cup {0})
  BY SeqMonotonic
<1>2. m \in Nat /\ n \in Nat /\ n # 0 /\ DOMAIN p = 1 .. n
  BY LenProperties, EmptySeq
<1>3. /\ t \in Seq(SatLit \cup {0}) /\ Len(t) = m + n
      /\ \A i \in 1 .. m + n : t[i] = IF i <= m THEN st[i] ELSE p[i - m]
  BY <1>1, ConcatProperties
<1> HIDE DEF t, m, n
<1>4. \A i \in 1 .. m : i \in 1 .. m + n /\ i <= m
  BY <1>2
<1>5. \A j \in m + 1 .. m + n : j \in 1 .. m + n /\ ~(j <= m) /\ j - m \in 1 .. n
  BY <1>2
<1>6. \A j \in 1 .. m : t[j] = st[j]
  BY <1>3, <1>4
<1>7. \A i \in 1 .. n : p[i] \in SatLit /\ p[i] # 0
  BY <1>2, ElementOfSeq, LitIsInt DEF n
<1>8. \A j \in m + 1 .. m + n : t[j] = p[j - m] /\ t[j] # 0
  BY <1>3, <1>5, <1>7
<1>9. {t[j] : j \in m + 1 .. m + n} = LitsOf(p)
  <2>1. ASSUME NEW i \in 1 .. n  PROVE \E j \in m + 1 .. m + n : t[j] = p[i]
    <3> DEFINE j == i + m
    <3>1. j \in m + 1 .. m + n /\ j - m = i
      BY <1>2
    <3>2. t[j] = p[j - m]
      BY <1>8, <3>1
    <3> QED BY <3>1, <3>2
  <2>2. LitsOf(p) = {p[i] : i \in 1 .. n}
    BY <1>2 DEF LitsOf
  <2>3. {t[j] : j \in m + 1 .. m + n} \subseteq {p[i] : i \in 1 .. n}
    <3>1. \A j \in m + 1 .. m + n : j - m \in 1 .. n /\ t[j] = p[j - m]
      BY <1>5, <1>8
    <3> QED BY <3>1
  <2>4. {p[i] : i \in 1 .. n} \subseteq {t[j] : j \in m + 1 .. m + n}
    BY <2>1
  <2> QED BY <2>2, <2>3, <2>4
<1> QED BY <1>2, <1>3, <1>5, <1>6, <1>8, <1>9 DEF t, m, n

(* An open clause grows by p, and p itself is an open clause.              *)
LEMMA OpenGrows ==
  ASSUME NEW st \in Seq(SatLit \cup {0}), NEW p \in Seq(SatLit), p # <<>>,
         NEW s \in 1 .. Len(st) + 1, ~EndedIn(st, s)
  PROVE  LET t == st \o p
         IN  /\ ~EndedIn(t, s)
             /\ LitsIn(t, s) = LitsIn(st, s) \cup LitsOf(p)
             /\ \A i : i \notin LitsOf(p) /\ OnceIn(st, i, s) => OnceIn(t, i, s)
<1> DEFINE m == Len(st)
           t == st \o p
<1>1. /\ t \in Seq(SatLit \cup {0}) /\ Len(t) \in Nat /\ m \in Nat /\ m <= Len(t)
      /\ \A j \in 1 .. m : t[j] = st[j]
      /\ \A j \in m + 1 .. Len(t) : t[j] # 0
      /\ {t[j] : j \in m + 1 .. Len(t)} = LitsOf(p)
      /\ s \in Nat \ {0} /\ s <= m + 1
  <2>1. Len(st) \in Nat
    BY LenProperties
  <2> QED BY <2>1, Written
<1> HIDE DEF t, m
<1>2. ClauseIn(st, s) = s .. m
  BY OpenClause DEF m
<1>3. \A j \in s .. m : j \in 1 .. m /\ j \in s .. Len(t)
  BY <1>1
<1>4. \A j \in m + 1 .. Len(t) : j \in s .. Len(t)
  BY <1>1
<1>5. \A j \in s .. Len(t) : j \in s .. m \/ j \in m + 1 .. Len(t)
  BY <1>1
<1>6. ~EndedIn(t, s)
  <2>1. \A j \in s .. m : t[j] # 0
    BY <1>1, <1>3 DEF EndedIn, m
  <2> QED BY <1>1, <1>5, <2>1 DEF EndedIn
<1>7. ClauseIn(t, s) = s .. Len(t)
  <2>1. s \in 1 .. Len(t) + 1
    BY <1>1
  <2> QED BY <1>1, <1>6, <2>1, OpenClause
<1>8. LitsIn(t, s) = LitsIn(st, s) \cup LitsOf(p)
  BY <1>1, <1>2, <1>3, <1>4, <1>5, <1>7 DEF LitsIn
<1>9. ASSUME NEW i, i \notin LitsOf(p), OnceIn(st, i, s)  PROVE OnceIn(t, i, s)
  <2>1. \A j \in s .. Len(t) : t[j] = i => j \in s .. m /\ st[j] = i
    BY <1>1, <1>3, <1>5, <1>9
  <2> QED BY <1>2, <1>7, <1>9, <2>1 DEF OnceIn
<1> QED BY <1>6, <1>8, <1>9 DEF t

(* The clause written last, before anything follows it.                    *)
LEMMA NewClause ==
  ASSUME NEW st \in Seq(SatLit \cup {0}), NEW p \in Seq(SatLit), p # <<>>,
         \A i, j \in DOMAIN p : i # j => p[i] # p[j]
  PROVE  LET t == st \o p
             new == Len(st) + 1
         IN  /\ new \in 1 .. Len(t) /\ ~EndedIn(t, new)
             /\ LitsIn(t, new) = LitsOf(p)
             /\ \A i : OnceIn(t, i, new)
<1> DEFINE m == Len(st)
           n == Len(p)
           t == st \o p
<1>1. /\ t \in Seq(SatLit \cup {0}) /\ Len(t) = m + n /\ m \in Nat /\ n \in Nat \ {0}
      /\ \A j \in m + 1 .. m + n : j - m \in 1 .. n /\ t[j] = p[j - m]
      /\ DOMAIN p = 1 .. n
  BY Written, LenProperties
<1>2. m + 1 \in 1 .. m + 1 /\ ~EndedIn(st, m + 1) /\ LitsIn(st, m + 1) = {}
  <2>1. m + 1 .. m = {}
    BY <1>1
  <2> QED BY <1>1, <2>1 DEF EndedIn, LitsIn, ClauseIn
<1>3. ~EndedIn(t, m + 1) /\ LitsIn(t, m + 1) = LitsOf(p)
  <2>1. m + 1 \in 1 .. Len(st) + 1 /\ ~EndedIn(st, m + 1)
    BY <1>2
  <2>2. ~EndedIn(t, m + 1) /\ LitsIn(t, m + 1) = LitsIn(st, m + 1) \cup LitsOf(p)
    <3> HIDE DEF m
    <3> QED BY <2>1, OpenGrows
  <2> QED BY <1>2, <2>2
<1> HIDE DEF t, m, n
<1>4. m + 1 \in 1 .. Len(t) /\ m + 1 \in 1 .. Len(t) + 1
  BY <1>1
<1>5. ClauseIn(t, m + 1) = m + 1 .. m + n
  BY <1>1, <1>3, <1>4, OpenClause
<1>6. ASSUME NEW j \in m + 1 .. m + n, NEW k \in m + 1 .. m + n, t[j] = t[k]
      PROVE  j = k
  <2>1. j - m \in DOMAIN p /\ k - m \in DOMAIN p /\ p[j - m] = p[k - m]
    BY <1>1, <1>6
  <2>2. j - m = k - m
    BY <2>1
  <2> QED BY <1>1, <2>2
<1> QED BY <1>3, <1>4, <1>5, <1>6 DEF OnceIn, t, m

(* The terminator ends every clause and belongs to none.                   *)
LEMMA Terminated ==
  ASSUME NEW st \in Seq(SatLit \cup {0}), NEW s \in 1 .. Len(st)
  PROVE  LET t == st \o <<0>>
         IN  /\ t \in Seq(SatLit \cup {0}) /\ s \in 1 .. Len(t) /\ EndedIn(t, s)
             /\ LitsIn(t, s) = LitsIn(st, s)
             /\ \A i : OnceIn(st, i, s) => OnceIn(t, i, s)
<1> DEFINE m == Len(st)
           z == <<0>>
           t == st \o z
<1>1. z \in Seq(SatLit \cup {0}) /\ Len(z) = 1 /\ z[1] = 0
  OBVIOUS
<1>2. m \in Nat /\ s \in Nat \ {0} /\ s <= m
  BY LenProperties
<1>3. /\ t \in Seq(SatLit \cup {0}) /\ Len(t) = m + 1
      /\ \A i \in 1 .. m + 1 : t[i] = IF i <= m THEN st[i] ELSE z[i - m]
  BY <1>1, ConcatProperties
<1> HIDE DEF t, m, z
<1>4. \A j \in 1 .. m : t[j] = st[j]
  <2>1. \A i \in 1 .. m : i \in 1 .. m + 1 /\ i <= m
    BY <1>2
  <2> QED BY <1>3, <2>1
<1>5. t[m + 1] = 0
  <2> DEFINE i == m + 1
  <2>1. i \in 1 .. m + 1 /\ ~(i <= m) /\ i - m = 1
    BY <1>2
  <2> HIDE DEF i
  <2>2. t[i] = z[i - m]
    BY <1>3, <2>1
  <2>3. t[i] = 0
    BY <1>1, <2>1, <2>2
  <2> QED BY <2>3 DEF i
<1>6. EndedIn(t, s) /\ s \in 1 .. Len(t) /\ m + 1 \in s .. m + 1
  BY <1>2, <1>3, <1>5 DEF EndedIn
<1>7. ASSUME NEW j  PROVE j \in ClauseIn(t, s) <=> j \in ClauseIn(st, s)
  <2>1. j \in s .. m => /\ j \in s .. m + 1
                        /\ \A k \in s .. j : t[k] = st[k]
    BY <1>2, <1>4
  <2>2. j \in s .. m + 1 => j \in s .. m \/ (j = m + 1 /\ m + 1 \in s .. j)
    BY <1>2
  <2> QED BY <1>3, <1>5, <2>1, <2>2 DEF ClauseIn, m
<1>8. \A j \in ClauseIn(st, s) : t[j] = st[j]
  <2>1. \A j \in s .. m : j \in 1 .. m
    BY <1>2
  <2> QED BY <1>4, <2>1 DEF ClauseIn, m
<1> QED BY <1>3, <1>6, <1>7, <1>8 DEF LitsIn, OnceIn, t, z

-----------------------------------------------------------------------------
(* Counting positions of one clause that hold a literal which is left: one *)
(* position means one literal, and a literal that occurs once and is alone *)
(* means one position.                                                     *)
LEMMA CountsOne ==
  ASSUME ActiveTypeOK, NEW s \in Nat, NEW i \in lits, i \in LitsAt(s)
  PROVE  LET n == Cardinality({j \in ClauseAt(s) : store[j] \in lits})
         IN  /\ n = 1 => LitsAt(s) \cap lits = {i}
             /\ LitsAt(s) \cap lits = {i} /\ Once(i, s) => n = 1
<1> DEFINE P == {j \in ClauseAt(s) : store[j] \in lits}
<1>1. PICK j \in ClauseAt(s) : store[j] = i
  BY DEF LitsAt
<1>2. j \in P /\ P \subseteq ClauseAt(s)
  BY <1>1
<1>3. IsFiniteSet(P)
  <2>1. Len(store) \in Int /\ s \in Int
    BY LenProperties DEF ActiveTypeOK
  <2>2. IsFiniteSet(s .. Len(store)) /\ P \in SUBSET (s .. Len(store))
    BY <2>1, FS_Interval DEF ClauseAt
  <2> QED BY <2>2, FS_Subset
<1>4. Cardinality(P) = 1 <=> \E x : P = {x}
  BY <1>3, FS_Singleton
<1>5. ASSUME NEW x, P = {x}  PROVE LitsAt(s) \cap lits = {i}
  BY <1>1, <1>2, <1>5 DEF LitsAt
<1>6. ASSUME LitsAt(s) \cap lits = {i}, Once(i, s)  PROVE P = {j}
  <2>1. \A k \in P : k \in ClauseAt(s) /\ store[k] = i
    BY <1>6 DEF LitsAt
  <2> QED BY <1>1, <1>2, <1>6, <2>1 DEF Once
<1> QED BY <1>4, <1>5, <1>6

(* Required, computed with the lookup table over the array: a literal that *)
(* is required is all that is left of a clause, or of a clause's end, and  *)
(* a literal that is all that is left of a clause is required.             *)
LEMMA RequiredIsNeeded ==
  ASSUME ActiveIInv, open = {}, NEW i \in lits
  PROVE  /\ Required(i) => \E e \in parts : e.tail \cap lits = {i}
         /\ ~Required(i) => \A c \in given : c \cap lits # {i}
<1>1. /\ ActiveTypeOK /\ i \in SatLit /\ lookup[i] \in SUBSET Nat
      /\ \A s \in lookup[i] : i \in LitsAt(s) /\ \E e \in parts : LitsAt(s) = e.tail
      /\ \A c \in given : i \in c =>
           \E s \in lookup[i] : Once(i, s) /\ LitsAt(s) \subseteq c
  BY DEF ActiveIInv, ActiveTypeOK, EntriesOK
<1>2. ASSUME NEW s \in lookup[i],
             Cardinality({j \in ClauseAt(s) : store[j] \in lits}) = 1
      PROVE  \E e \in parts : e.tail \cap lits = {i}
  <2>1. s \in Nat /\ i \in LitsAt(s)
    BY <1>1
  <2>2. LitsAt(s) \cap lits = {i}
    BY <1>1, <1>2, <2>1, CountsOne
  <2> QED BY <1>1, <2>2
<1>3. ASSUME NEW c \in given, c \cap lits = {i}  PROVE Required(i)
  <2>1. i \in c
    BY <1>3
  <2>2. PICK s \in lookup[i] : Once(i, s) /\ LitsAt(s) \subseteq c
    BY <1>1, <2>1
  <2>3. s \in Nat /\ i \in LitsAt(s) /\ LitsAt(s) \cap lits = {i}
    BY <1>1, <1>3, <2>2
  <2>4. Cardinality({j \in ClauseAt(s) : store[j] \in lits}) = 1
    BY <1>1, <2>2, <2>3, CountsOne
  <2> QED BY <2>4 DEF Required
<1> QED BY <1>2, <1>3 DEF Required

-----------------------------------------------------------------------------
(* The invariant and its induction.                                        *)

(* What the invariant says of the store, for any array st, lookup table    *)
(* lk, parts ps of ended clauses, parts os of the open one and clauses gs. *)
EntryOK(st, ps, os, i, s) ==
  /\ s \in 1 .. Len(st) /\ i \in LitsIn(st, s)
  /\ EndedIn(st, s) => \E e \in ps : LitsIn(st, s) = e.tail
  /\ ~EndedIn(st, s) => \E e \in os : LitsIn(st, s) = e.tail

StoreFacts(st, lk, ps, os, gs) ==
  /\ st \in Seq(SatLit \cup {0}) /\ lk \in [SatLit -> SUBSET Nat]
  /\ gs \in SUBSET SUBSET SatLit
  /\ ps \cup os \subseteq [own : SUBSET SatLit, tail : SUBSET SatLit]
  /\ \A i \in SatLit : \A s \in lk[i] : EntryOK(st, ps, os, i, s)
  /\ \A e \in ps : \A i \in e.own :
       \E s \in lk[i] : EndedIn(st, s) /\ LitsIn(st, s) = e.tail
  /\ \A e \in os : \A i \in e.own :
       \E s \in lk[i] : ~EndedIn(st, s) /\ LitsIn(st, s) = e.tail
  /\ \A c \in gs : \A i \in c :
       \E s \in lk[i] : EndedIn(st, s) /\ OnceIn(st, i, s) /\ LitsIn(st, s) \subseteq c
  /\ \A i \in TailsOf(os) : \E s \in lk[i] : ~EndedIn(st, s) /\ OnceIn(st, i, s)

StorePart == StoreFacts(store, lookup, parts, open, given)

ScanPart ==
  /\ pc \in {"idle", "scan", "aborted"} /\ chosen \subseteq SatLit
  /\ lits \subseteq chosen /\ todo \subseteq lits
  /\ ScanOK /\ NeverUncovered /\ KeptAreNeeded

LEMMA TwoParts == ActiveIInv <=> StorePart /\ ScanPart
<1>1. store \in Seq(SatLit \cup {0}) => DOMAIN store = 1 .. Len(store)
  BY LenProperties
<1> DEFINE Entries ==
      \A i \in SatLit : \A s \in lookup[i] :
        /\ s \in DOMAIN store /\ i \in LitsAt(s)
        /\ \E e \in (IF Ended(s) THEN parts ELSE open) : LitsAt(s) = e.tail
    Found ==
      /\ \A e \in parts : \A i \in e.own :
           \E s \in lookup[i] : Ended(s) /\ LitsAt(s) = e.tail
      /\ \A e \in open : \A i \in e.own :
           \E s \in lookup[i] : ~Ended(s) /\ LitsAt(s) = e.tail
      /\ \A c \in given : \A i \in c :
           \E s \in lookup[i] : Ended(s) /\ Once(i, s) /\ LitsAt(s) \subseteq c
      /\ \A i \in TailsOf(open) : \E s \in lookup[i] : ~Ended(s) /\ Once(i, s)
    FoundIn ==
      /\ \A e \in parts : \A i \in e.own :
           \E s \in lookup[i] : EndedIn(store, s) /\ LitsIn(store, s) = e.tail
      /\ \A e \in open : \A i \in e.own :
           \E s \in lookup[i] : ~EndedIn(store, s) /\ LitsIn(store, s) = e.tail
      /\ \A c \in given : \A i \in c :
           \E s \in lookup[i] : /\ EndedIn(store, s) /\ OnceIn(store, i, s)
                                /\ LitsIn(store, s) \subseteq c
      /\ \A i \in TailsOf(open) :
           \E s \in lookup[i] : ~EndedIn(store, s) /\ OnceIn(store, i, s)
<1>2. EntriesOK <=> Entries /\ Found
  BY DEF EntriesOK
<1>3. Found <=> FoundIn
  BY AtIsIn
<1>4. ASSUME store \in Seq(SatLit \cup {0})
      PROVE  Entries <=> \A i \in SatLit : \A s \in lookup[i] :
                           EntryOK(store, parts, open, i, s)
  BY <1>1, <1>4, AtIsIn DEF EntryOK
<1>5. StorePart <=>
        /\ store \in Seq(SatLit \cup {0}) /\ lookup \in [SatLit -> SUBSET Nat]
        /\ given \in SUBSET SUBSET SatLit
        /\ parts \cup open \subseteq [own : SUBSET SatLit, tail : SUBSET SatLit]
        /\ \A i \in SatLit : \A s \in lookup[i] : EntryOK(store, parts, open, i, s)
        /\ FoundIn
  BY DEF StorePart, StoreFacts
<1> HIDE DEF Found, FoundIn, Entries
<1> QED BY <1>2, <1>3, <1>4, <1>5 DEF ActiveIInv, ActiveTypeOK, ScanPart

LEMMA TwoPartsNext == ActiveIInv' <=> StorePart' /\ ScanPart'
BY TwoParts, PTL

LEMMA ActiveInit == Init => ActiveIInv
<1> SUFFICES ASSUME Init  PROVE StorePart /\ ScanPart
  BY TwoParts
<1>1. store \in Seq(SatLit \cup {0}) /\ lookup \in [SatLit -> SUBSET Nat]
  BY DEF Init
<1>2. /\ \A i \in SatLit : lookup[i] = {}
      /\ given = {} /\ parts = {} /\ open = {} /\ TailsOf(open) = {}
  BY DEF Init, TailsOf
<1>3. StorePart
  BY <1>1, <1>2 DEF StorePart, StoreFacts
<1> QED BY <1>2, <1>3 DEF Init, ScanPart, ScanOK, NeverUncovered, KeptAreNeeded

(* Literals L run on from an open clause with the parts os.                *)
ContinuedFrom(os, L) == {Part(e.own, e.tail \cup L) : e \in os} \cup {Part(L, L)}

LEMMA ContinuedFacts ==
  ASSUME NEW os, NEW L
  PROVE  /\ \A e \in os : \E f \in ContinuedFrom(os, L) :
              f.own = e.own /\ f.tail = e.tail \cup L
         /\ \A f \in ContinuedFrom(os, L) :
              \/ f.own = L /\ f.tail = L
              \/ \E e \in os : f.own = e.own /\ f.tail = e.tail \cup L
         /\ \E f \in ContinuedFrom(os, L) : f.own = L /\ f.tail = L
         /\ TailsOf(ContinuedFrom(os, L)) = TailsOf(os) \cup L
<1>1. ASSUME NEW A, NEW B  PROVE Part(A, B).own = A /\ Part(A, B).tail = B
  BY DEF Part
<1>2. \A f : f \in ContinuedFrom(os, L) <=>
              f = Part(L, L) \/ \E e \in os : f = Part(e.own, e.tail \cup L)
  BY DEF ContinuedFrom
<1>3. ASSUME NEW e \in os
      PROVE  \E f \in ContinuedFrom(os, L) : f.own = e.own /\ f.tail = e.tail \cup L
  <2>1. Part(e.own, e.tail \cup L) \in ContinuedFrom(os, L)
    BY <1>2
  <2>2. /\ Part(e.own, e.tail \cup L).own = e.own
        /\ Part(e.own, e.tail \cup L).tail = e.tail \cup L
    BY <1>1
  <2> QED BY <2>1, <2>2
<1>4. ASSUME NEW f \in ContinuedFrom(os, L)
      PROVE  \/ f.own = L /\ f.tail = L
             \/ \E e \in os : f.own = e.own /\ f.tail = e.tail \cup L
  <2>1. CASE f = Part(L, L)
    BY <1>1, <2>1
  <2>2. ASSUME NEW e \in os, f = Part(e.own, e.tail \cup L)
        PROVE  f.own = e.own /\ f.tail = e.tail \cup L
    BY <1>1, <2>2
  <2> QED BY <1>2, <2>1, <2>2
<1>5. \E f \in ContinuedFrom(os, L) : f.own = L /\ f.tail = L
  <2>1. Part(L, L) \in ContinuedFrom(os, L) /\ Part(L, L).own = L /\ Part(L, L).tail = L
    BY <1>1, <1>2
  <2> QED BY <2>1
<1>6. ASSUME NEW x  PROVE x \in TailsOf(ContinuedFrom(os, L)) <=> x \in TailsOf(os) \cup L
  <2>1. x \in TailsOf(ContinuedFrom(os, L)) <=>
          \E f \in ContinuedFrom(os, L) : x \in f.tail
    BY DEF TailsOf
  <2>2. x \in TailsOf(os) <=> \E e \in os : x \in e.tail
    BY DEF TailsOf
  <2>3. ASSUME NEW f \in ContinuedFrom(os, L), x \in f.tail
        PROVE  x \in L \/ \E e \in os : x \in e.tail
    BY <1>4, <2>3
  <2>4. ASSUME NEW e \in os, x \in e.tail
        PROVE  \E f \in ContinuedFrom(os, L) : x \in f.tail
    BY <1>3, <2>4
  <2>5. x \in L => \E f \in ContinuedFrom(os, L) : x \in f.tail
    BY <1>5
  <2> QED BY <2>1, <2>2, <2>3, <2>4, <2>5
<1>7. TailsOf(ContinuedFrom(os, L)) = TailsOf(os) \cup L
  BY <1>6
<1> QED BY <1>3, <1>4, <1>5, <1>7

PartSet == [own : SUBSET SatLit, tail : SUBSET SatLit]

LEMMA ContinuedTyped ==
  ASSUME NEW os, os \subseteq PartSet, NEW L \in SUBSET SatLit
  PROVE  ContinuedFrom(os, L) \subseteq PartSet
<1>1. ASSUME NEW A \in SUBSET SatLit, NEW B \in SUBSET SatLit
      PROVE  Part(A, B) \in PartSet
  BY DEF Part, PartSet
<1>2. \A e \in os : e.own \in SUBSET SatLit /\ e.tail \cup L \in SUBSET SatLit
  BY DEF PartSet
<1> QED BY <1>1, <1>2 DEF ContinuedFrom

(* Writing literals at the end leaves the entries of ended clauses what    *)
(* they are and takes the open one on.                                     *)
LEMMA WritingKeeps ==
  ASSUME NEW st, NEW lk, NEW ps, NEW os, NEW gs, StoreFacts(st, lk, ps, os, gs),
         NEW p \in Seq(SatLit), p # <<>>, \A i, j \in DOMAIN p : i # j => p[i] # p[j],
         NEW lk2, lk2 = [i \in SatLit |-> IF i \in LitsOf(p)
                                           THEN lk[i] \cup {Len(st) + 1} ELSE lk[i]]
  PROVE  StoreFacts(st \o p, lk2, ps, ContinuedFrom(os, LitsOf(p)), gs)
<1> DEFINE A == SatLit \cup {0}
           L == LitsOf(p)
           t == st \o p
           new == Len(st) + 1
           os2 == ContinuedFrom(os, L)
<1>1. /\ t \in Seq(A) /\ st \in Seq(A) /\ Len(st) \in Nat /\ Len(t) \in Nat /\ Len(st) <= Len(t)
      /\ \A j \in 1 .. Len(st) : t[j] = st[j]
      /\ new \in Nat /\ new \in 1 .. Len(t) /\ ~EndedIn(t, new)
      /\ LitsIn(t, new) = L /\ \A i : OnceIn(t, i, new)
  <2>1. st \in Seq(A)
    BY DEF StoreFacts
  <2>2. Len(st) \in Nat
    BY <2>1, LenProperties
  <2> QED BY <2>1, <2>2, Written, NewClause
<1>2. L \in SUBSET SatLit
  <2>1. \A i \in DOMAIN p : p[i] \in SatLit
    BY ElementOfSeq, LenProperties
  <2> QED BY <2>1 DEF LitsOf
<1>3. ASSUME NEW s \in 1 .. Len(st), EndedIn(st, s)
      PROVE  /\ EndedIn(t, s) /\ LitsIn(t, s) = LitsIn(st, s)
             /\ \A i : OnceIn(st, i, s) => OnceIn(t, i, s)
  <2> HIDE DEF t, A
  <2> QED BY <1>1, <1>3, OldClause
<1>4. ASSUME NEW s \in 1 .. Len(st), ~EndedIn(st, s)
      PROVE  /\ ~EndedIn(t, s) /\ LitsIn(t, s) = LitsIn(st, s) \cup L
             /\ \A i : i \notin L /\ OnceIn(st, i, s) => OnceIn(t, i, s)
  <2>1. s \in 1 .. Len(st) + 1
    BY <1>1
  <2> QED BY <1>1, <1>4, <2>1, OpenGrows
<1> HIDE DEF t, L, A, new, os2
<1>5. /\ \A i \in SatLit : lk[i] \subseteq lk2[i]
      /\ \A i \in L : new \in lk2[i]
      /\ \A i \in SatLit : \A s \in lk2[i] : s \in lk[i] \/ (i \in L /\ s = new)
  BY <1>2 DEF L, new
<1>6. /\ \A i \in SatLit : \A s \in lk[i] : EntryOK(st, ps, os, i, s)
      /\ \A i \in SatLit : \A s \in lk[i] : s \in 1 .. Len(st)
      /\ gs \in SUBSET SUBSET SatLit
      /\ ps \cup os \subseteq [own : SUBSET SatLit, tail : SUBSET SatLit]
      /\ lk \in [SatLit -> SUBSET Nat]
  BY DEF StoreFacts, EntryOK
<1>7. /\ \A e \in os : \E f \in os2 : f.own = e.own /\ f.tail = e.tail \cup L
      /\ \A f \in os2 : \/ f.own = L /\ f.tail = L
                       \/ \E e \in os : f.own = e.own /\ f.tail = e.tail \cup L
      /\ \E f \in os2 : f.own = L /\ f.tail = L
      /\ TailsOf(os2) = TailsOf(os) \cup L
  BY ContinuedFacts DEF os2
<1>8. ASSUME NEW i \in SatLit, NEW s \in lk2[i]  PROVE EntryOK(t, ps, os2, i, s)
  <2>1. CASE s \in lk[i] /\ EndedIn(st, s)
    <3>1. EntryOK(st, ps, os, i, s) /\ s \in 1 .. Len(st) /\ s \in 1 .. Len(t)
      BY <1>1, <1>6, <2>1
    <3> QED BY <1>3, <2>1, <3>1 DEF EntryOK
  <2>2. CASE s \in lk[i] /\ ~EndedIn(st, s)
    <3>1. EntryOK(st, ps, os, i, s) /\ s \in 1 .. Len(st) /\ s \in 1 .. Len(t)
      BY <1>1, <1>6, <2>2
    <3>2. PICK e \in os : LitsIn(st, s) = e.tail
      BY <2>2, <3>1 DEF EntryOK
    <3>3. PICK f \in os2 : f.tail = e.tail \cup L
      BY <1>7
    <3>4. ~EndedIn(t, s) /\ LitsIn(t, s) = f.tail /\ i \in LitsIn(t, s)
      BY <1>4, <2>2, <3>1, <3>2, <3>3 DEF EntryOK
    <3> QED BY <3>1, <3>4 DEF EntryOK
  <2>3. CASE i \in L /\ s = new
    BY <1>1, <1>7, <2>3 DEF EntryOK
  <2> QED BY <1>5, <2>1, <2>2, <2>3
<1>9. ASSUME NEW e \in ps, NEW i \in e.own
      PROVE  \E s \in lk2[i] : EndedIn(t, s) /\ LitsIn(t, s) = e.tail
  <2>1. PICK s \in lk[i] : EndedIn(st, s) /\ LitsIn(st, s) = e.tail
    BY DEF StoreFacts
  <2>2. i \in SatLit
    BY <1>6
  <2> QED BY <1>3, <1>5, <1>6, <2>1, <2>2
<1>10. ASSUME NEW f \in os2, NEW i \in f.own
       PROVE  \E s \in lk2[i] : ~EndedIn(t, s) /\ LitsIn(t, s) = f.tail
  <2>1. CASE f.own = L /\ f.tail = L
    BY <1>1, <1>5, <2>1
  <2>2. ASSUME NEW e \in os, f.own = e.own, f.tail = e.tail \cup L
        PROVE  \E s \in lk2[i] : ~EndedIn(t, s) /\ LitsIn(t, s) = f.tail
    <3>1. i \in e.own /\ f.tail = e.tail \cup L
      BY <2>2
    <3>2. PICK s \in lk[i] : ~EndedIn(st, s) /\ LitsIn(st, s) = e.tail
      BY <3>1 DEF StoreFacts
    <3>3. i \in SatLit
      BY <1>6, <3>1
    <3> QED BY <1>4, <1>5, <1>6, <3>1, <3>2, <3>3
  <2> QED BY <1>7, <2>1, <2>2
<1>11. ASSUME NEW c \in gs, NEW i \in c
       PROVE  \E s \in lk2[i] : EndedIn(t, s) /\ OnceIn(t, i, s) /\ LitsIn(t, s) \subseteq c
  <2>1. PICK s \in lk[i] : EndedIn(st, s) /\ OnceIn(st, i, s) /\ LitsIn(st, s) \subseteq c
    BY DEF StoreFacts
  <2>2. i \in SatLit
    BY <1>6
  <2> QED BY <1>3, <1>5, <1>6, <2>1, <2>2
<1>12. ASSUME NEW i \in TailsOf(os2)
       PROVE  \E s \in lk2[i] : ~EndedIn(t, s) /\ OnceIn(t, i, s)
  <2>1. CASE i \in L
    BY <1>1, <1>5, <2>1
  <2>2. CASE i \notin L
    <3>1. i \in TailsOf(os) /\ i \in SatLit
      BY <1>6, <1>7, <2>2 DEF TailsOf
    <3>2. PICK s \in lk[i] : ~EndedIn(st, s) /\ OnceIn(st, i, s)
      BY <3>1 DEF StoreFacts
    <3> QED BY <1>4, <1>5, <1>6, <2>2, <3>1, <3>2
  <2> QED BY <2>1, <2>2
<1>13. ps \cup os2 \subseteq [own : SUBSET SatLit, tail : SUBSET SatLit]
  <2>1. ps \subseteq PartSet /\ os \subseteq PartSet
    BY <1>6 DEF PartSet
  <2>2. os2 \subseteq PartSet
    BY <1>2, <2>1, ContinuedTyped DEF os2
  <2> QED BY <2>1, <2>2 DEF PartSet
<1>14. lk2 \in [SatLit -> SUBSET Nat]
  BY <1>1, <1>6 DEF new
<1>15. t \in Seq(SatLit \cup {0})
  BY <1>1 DEF A
<1>16. StoreFacts(t, lk2, ps, os2, gs)
  BY <1>6, <1>8, <1>9, <1>10, <1>11, <1>12, <1>13, <1>14, <1>15 DEF StoreFacts
<1> QED BY <1>16 DEF t, os2, L

(* The terminator makes the open clause one of the ended ones.             *)
LEMMA TerminatorKeeps ==
  ASSUME NEW st, NEW lk, NEW ps, NEW os, NEW gs, StoreFacts(st, lk, ps, os, gs)
  PROVE  StoreFacts(st \o <<0>>, lk, ps \cup os, {}, gs \cup {TailsOf(os)})
<1> DEFINE t == st \o <<0>>
<1>1. /\ st \in Seq(SatLit \cup {0}) /\ lk \in [SatLit -> SUBSET Nat]
      /\ gs \in SUBSET SUBSET SatLit
      /\ ps \cup os \subseteq [own : SUBSET SatLit, tail : SUBSET SatLit]
      /\ \A i \in SatLit : \A s \in lk[i] : EntryOK(st, ps, os, i, s) /\ s \in 1 .. Len(st)
  BY DEF StoreFacts, EntryOK
<1>2. t \in Seq(SatLit \cup {0})
  <2>1. <<0>> \in Seq(SatLit \cup {0})
    OBVIOUS
  <2> QED BY <1>1, <2>1, ConcatProperties
<1>3. ASSUME NEW s \in 1 .. Len(st)
      PROVE  /\ s \in 1 .. Len(t) /\ EndedIn(t, s) /\ LitsIn(t, s) = LitsIn(st, s)
             /\ \A i : OnceIn(st, i, s) => OnceIn(t, i, s)
  BY <1>1, Terminated
<1> HIDE DEF t
<1>4. ASSUME NEW i \in SatLit, NEW s \in lk[i]  PROVE EntryOK(t, ps \cup os, {}, i, s)
  BY <1>1, <1>3 DEF EntryOK
<1>5. ASSUME NEW e \in ps \cup os, NEW i \in e.own
      PROVE  \E s \in lk[i] : EndedIn(t, s) /\ LitsIn(t, s) = e.tail
  <2>1. i \in SatLit
    BY <1>1
  <2>2. PICK s \in lk[i] : LitsIn(st, s) = e.tail
    BY DEF StoreFacts
  <2> QED BY <1>1, <1>3, <2>1, <2>2
<1>6. \A i \in TailsOf(os) : i \in SatLit
  BY <1>1 DEF TailsOf
<1>7. ASSUME NEW c \in gs, NEW i \in c
      PROVE  \E s \in lk[i] : EndedIn(t, s) /\ OnceIn(t, i, s) /\ LitsIn(t, s) \subseteq c
  <2>1. i \in SatLit
    BY <1>1
  <2>2. PICK s \in lk[i] : OnceIn(st, i, s) /\ LitsIn(st, s) \subseteq c
    BY DEF StoreFacts
  <2> QED BY <1>1, <1>3, <2>1, <2>2
<1>8. ASSUME NEW i \in TailsOf(os)
      PROVE  \E s \in lk[i] : /\ EndedIn(t, s) /\ OnceIn(t, i, s)
                               /\ LitsIn(t, s) \subseteq TailsOf(os)
  <2>1. PICK s \in lk[i] : ~EndedIn(st, s) /\ OnceIn(st, i, s)
    BY DEF StoreFacts
  <2>2. s \in 1 .. Len(st) /\ EntryOK(st, ps, os, i, s)
    BY <1>1, <1>6
  <2>3. PICK e \in os : LitsIn(st, s) = e.tail
    BY <2>1, <2>2 DEF EntryOK
  <2>4. LitsIn(st, s) \subseteq TailsOf(os)
    BY <2>3 DEF TailsOf
  <2> QED BY <1>3, <2>1, <2>2, <2>4
<1>9. gs \cup {TailsOf(os)} \in SUBSET SUBSET SatLit
  BY <1>1, <1>6
<1>10. \A c \in gs \cup {TailsOf(os)} : \A i \in c :
         \E s \in lk[i] : EndedIn(t, s) /\ OnceIn(t, i, s) /\ LitsIn(t, s) \subseteq c
  BY <1>7, <1>8
<1>11. TailsOf({}) = {}
  BY DEF TailsOf
<1>12. StoreFacts(t, lk, ps \cup os, {}, gs \cup {TailsOf(os)})
  BY <1>1, <1>2, <1>4, <1>5, <1>9, <1>10, <1>11 DEF StoreFacts
<1> QED BY <1>12 DEF t

LEMMA ClauseFacts ==
  ASSUME NEW c \in Clauses
  PROVE  /\ c \in Seq(SatLit) /\ c # <<>>
         /\ \A i, j \in DOMAIN c : i # j => c[i] # c[j]
BY StoreAssumption

LEMMA ContinuedIsFrom == \A L : Continued(L) = ContinuedFrom(open, L)
BY DEF Continued, ContinuedFrom

(* A clause is added, an open one before it ended with it.                 *)
LEMMA AddClauseKeeps ==
  ASSUME StorePart, NEW c \in Clauses, AddClause(c)
  PROVE  StorePart' /\ ScanPart'
<1> DEFINE os2 == ContinuedFrom(open, LitsOf(c))
<1>1. /\ store' = (store \o c) \o <<0>>
      /\ given' = given \cup {TailsOf(os2)} /\ parts' = parts \cup os2 /\ open' = {}
      /\ lookup' = [i \in SatLit |-> IF i \in LitsOf(c)
                       THEN lookup[i] \cup {Len(store) + 1} ELSE lookup[i]]
  BY ContinuedIsFrom DEF AddClause, Accepted, LookedUp
<1> HIDE DEF os2
<1>2. StoreFacts(store \o c, lookup', parts, os2, given)
  BY <1>1, ClauseFacts, WritingKeeps DEF StorePart, os2
<1>3. StoreFacts(store', lookup', parts', open', given')
  BY <1>1, <1>2, TerminatorKeeps
<1>4. ScanPart'
  BY DEF AddClause, Accepted, Idle, ScanPart, ScanOK, NeverUncovered, KeptAreNeeded
<1> QED BY <1>3, <1>4 DEF StorePart

(* A clause is broken off at its k-th literal.                             *)
LEMMA BreakOffKeeps ==
  ASSUME StorePart, NEW c \in Clauses, NEW k \in DOMAIN c, BreakOffClause(c, k)
  PROVE  StorePart' /\ ScanPart'
<1> DEFINE p == SubSeq(c, 1, k)
<1>1. /\ store' = store \o p /\ open' = ContinuedFrom(open, LitsOf(p))
      /\ given' = given /\ parts' = parts
      /\ lookup' = [i \in SatLit |-> IF i \in LitsOf(p)
                       THEN lookup[i] \cup {Len(store) + 1} ELSE lookup[i]]
  BY ContinuedIsFrom DEF BreakOffClause, LookedUp
<1>2. /\ p \in Seq(SatLit) /\ p # <<>>
      /\ \A i, j \in DOMAIN p : i # j => p[i] # p[j]
  <2>1. c \in Seq(SatLit) /\ k \in 1 .. Len(c) /\ Len(c) \in Nat
    BY ClauseFacts, LenProperties
  <2>2. /\ p \in Seq(SatLit) /\ Len(p) = k
        /\ \A i \in 1 .. k : p[i] = c[i]
    <3>1. 1 \in 1 .. Len(c) + 1 /\ k \in 1 - 1 .. Len(c)
      BY <2>1
    <3>2. /\ p \in Seq(SatLit) /\ Len(p) = k - 1 + 1
          /\ \A i \in 1 .. k - 1 + 1 : p[i] = c[1 + i - 1]
      BY <2>1, <3>1, SubSeqProperties
    <3>3. k - 1 + 1 = k /\ \A i \in 1 .. k : 1 + i - 1 = i
      BY <2>1
    <3> QED BY <3>2, <3>3
  <2> HIDE DEF p
  <2>3. DOMAIN p = 1 .. k /\ DOMAIN c = 1 .. Len(c)
    BY <2>1, <2>2, LenProperties
  <2>4. \A i \in 1 .. k : i \in DOMAIN c
    BY <2>1, <2>3
  <2>5. p # <<>>
    BY <2>1, <2>2, EmptySeq
  <2> QED BY <2>2, <2>3, <2>4, <2>5, ClauseFacts
<1> HIDE DEF p
<1>3. StoreFacts(store', lookup', parts', open', given')
  BY <1>1, <1>2, WritingKeeps DEF StorePart
<1>4. ScanPart'
  BY DEF BreakOffClause, Idle, ScanPart, ScanOK, NeverUncovered, KeptAreNeeded
<1> QED BY <1>3, <1>4 DEF StorePart

LEMMA ActiveStep == ActiveIInv /\ [Next]_vars => ActiveIInv'
<1> SUFFICES ASSUME ActiveIInv, [Next]_vars  PROVE StorePart' /\ ScanPart'
  BY TwoPartsNext
<1>1. StorePart /\ ScanPart
  BY TwoParts
<1>2. UNCHANGED storeVars => StorePart'
  BY <1>1 DEF storeVars, StorePart
<1>3. ASSUME NEW c \in Clauses, AddClause(c)  PROVE StorePart' /\ ScanPart'
  BY <1>1, <1>3, AddClauseKeeps
<1>4. ASSUME NEW c \in Clauses, NEW k \in DOMAIN c, BreakOffClause(c, k)
      PROVE  StorePart' /\ ScanPart'
  BY <1>1, <1>4, BreakOffKeeps
<1>5. CASE StartScan
  <2>1. /\ lits' = chosen' /\ todo' = chosen' /\ chosen' \subseteq SatLit
        /\ Hits(chosen', given) /\ given' = given /\ pc' = "scan" /\ open' = {}
    BY <1>5 DEF StartScan, Models, storeVars
  <2>2. ScanPart'
    BY <2>1 DEF ScanPart, ScanOK, NeverUncovered, KeptAreNeeded
  <2> QED BY <1>2, <1>5, <2>2 DEF StartScan
<1>6. CASE FindsNone
  <2>1. ScanPart'
    BY <1>6 DEF FindsNone, Idle, ScanPart, ScanOK, NeverUncovered, KeptAreNeeded
  <2> QED BY <1>2, <1>6, <2>1 DEF FindsNone, storeVars
<1>7. CASE CheckAborts
  <2>1. /\ pc' = "aborted" /\ todo' = {} /\ lits' = lits /\ chosen' = chosen
        /\ todo = {} /\ parts' = parts
    BY <1>7 DEF CheckAborts, Idle, storeVars
  <2>2. ScanPart'
    BY <1>1, <2>1 DEF ScanPart, ScanOK, NeverUncovered, KeptAreNeeded
  <2> QED BY <1>2, <1>7, <2>2 DEF CheckAborts
<1>8. CASE Step
  <2> DEFINE i == Current
  <2>1. todo # {} /\ todo' = todo \ {i} /\ UNCHANGED <<storeVars, pc, chosen>>
        /\ lits' = IF Required(i) THEN lits ELSE lits \ {i}
    BY <1>8 DEF Step
  <2>2. i \in todo /\ i \in lits
    <3>1. todo \subseteq SatLit
      BY <1>1 DEF ScanPart
    <3> QED BY <1>1, <2>1, <3>1, CurrentFacts DEF ScanPart
  <2> HIDE DEF i
  <2>3. /\ given' = given /\ parts' = parts /\ open' = open
        /\ pc = "scan" /\ open = {} /\ Hits(lits, given)
    BY <1>1, <2>1 DEF storeVars, ScanPart, ScanOK, NeverUncovered
  <2>4. /\ Required(i) => \E e \in parts : e.tail \cap lits = {i}
        /\ ~Required(i) => \A c \in given : c \cap lits # {i}
    BY <2>2, <2>3, RequiredIsNeeded
  <2>5. Hits(lits', given)
    <3>1. CASE Required(i)
      BY <2>1, <2>3, <3>1
    <3>2. ASSUME ~Required(i), NEW c \in given  PROVE c \cap (lits \ {i}) # {}
      <4>1. c \cap lits # {} /\ c \cap lits # {i}
        BY <2>3, <2>4, <3>2 DEF Hits
      <4> QED BY <4>1
    <3> QED BY <2>1, <3>1, <3>2 DEF Hits
  <2>6. ASSUME NEW k \in lits' \ todo'
        PROVE  \E e \in parts : e.tail \cap lits' = {k}
    <3>1. CASE k = i
      BY <2>1, <2>4, <2>6, <3>1
    <3>2. CASE k # i
      <4>1. PICK e \in parts : e.tail \cap lits = {k}
        BY <1>1, <2>1, <2>6, <3>2 DEF ScanPart, KeptAreNeeded
      <4>2. e.tail \cap lits' = {k}
        BY <2>1, <2>6, <4>1
      <4> QED BY <4>2
    <3> QED BY <3>1, <3>2
  <2>7. ScanPart'
    BY <1>1, <2>1, <2>3, <2>5, <2>6 DEF ScanPart, ScanOK, NeverUncovered, KeptAreNeeded
  <2> QED BY <1>2, <2>1, <2>7
<1>9. CASE UNCHANGED vars
  <2>1. ScanPart'
    BY <1>1, <1>9 DEF vars, storeVars, scanVars, ScanPart, ScanOK, NeverUncovered,
                      KeptAreNeeded
  <2> QED BY <1>2, <1>9, <2>1 DEF vars
<1> QED BY <1>3, <1>4, <1>5, <1>6, <1>7, <1>8, <1>9 DEF Next

(* The invariant is inductive.                                             *)
THEOREM ActiveInductive == Spec => []ActiveIInv
BY ActiveInit, ActiveStep, PTL DEF Spec

(* However many clauses have been appended to the one array, and wherever  *)
(* exceptions have broken some of them off, the lookup table finds what    *)
(* picosat has of each call of DoAddClause from each of its literals, and  *)
(* finds nothing else.                                                     *)
THEOREM StoreIsOK == Spec => []StoreOK
<1>1. ActiveIInv => StoreOK
  <2> SUFFICES ASSUME EntriesOK  PROVE StoreOK
    BY DEF ActiveIInv
  <2>1. ASSUME NEW i \in SatLit, NEW s \in lookup[i]
        PROVE  s \in DOMAIN store /\ i \in LitsAt(s) /\ \E e \in parts \cup open : LitsAt(s) = e.tail
    BY DEF EntriesOK
  <2>2. ASSUME NEW e \in parts \cup open, NEW i \in e.own
        PROVE  \E s \in lookup[i] : LitsAt(s) = e.tail
    BY DEF EntriesOK
  <2> QED BY <2>1, <2>2 DEF StoreOK
<1> QED BY <1>1, ActiveInductive, PTL

(* Erasing literals in the iterator's order never takes the last one that  *)
(* is left of a main clause, run-on clauses included.                      *)
THEOREM NothingUncovered == Spec => []NeverUncovered
BY ActiveInductive, PTL DEF ActiveIInv

(* A literal the scan has kept stays needed, whatever is erased after it,  *)
(* by a clause or by the end of one that was broken off.                   *)
THEOREM KeptStayNeeded == Spec => []KeptAreNeeded
BY ActiveInductive, PTL DEF ActiveIInv

-----------------------------------------------------------------------------
(* The result in the terms of SatCore.                                     *)

LitOf(i) == <<IF i > 0 THEN i ELSE -i, i > 0>>

LEMMA LitOfIsOneToOne == \A i, j \in SatLit : LitOf(i) = LitOf(j) => i = j
<1> SUFFICES ASSUME NEW i \in SatLit, NEW j \in SatLit, LitOf(i) = LitOf(j)
             PROVE  i = j
  OBVIOUS
<1>1. i \in Int /\ j \in Int
  BY LitIsInt
<1>2. /\ (IF i > 0 THEN i ELSE -i) = (IF j > 0 THEN j ELSE -j)
      /\ (i > 0) = (j > 0)
  BY DEF LitOf
<1> QED BY <1>1, <1>2

LEMMA AsLitIsImage == \A S : AsLit(S) = {LitOf(i) : i \in S}
BY DEF AsLit, LitOf

LEMMA MeetsAlike ==
  ASSUME NEW c \in SUBSET SatLit, NEW S \in SUBSET SatLit
  PROVE  AsLit(c) \cap AsLit(S) = AsLit(c \cap S)
<1>1. ASSUME NEW x \in AsLit(c), x \in AsLit(S)  PROVE x \in AsLit(c \cap S)
  <2>1. PICK i \in c : x = LitOf(i)
    BY AsLitIsImage
  <2>2. PICK j \in S : x = LitOf(j)
    BY <1>1, AsLitIsImage
  <2>3. i = j
    BY <2>1, <2>2, LitOfIsOneToOne
  <2> QED BY <2>1, <2>2, <2>3, AsLitIsImage
<1>2. AsLit(c \cap S) \subseteq AsLit(c) /\ AsLit(c \cap S) \subseteq AsLit(S)
  BY AsLitIsImage
<1> QED BY <1>1, <1>2

(* When the iterator has come to its end, what is left satisfies every    *)
(* main clause, and it is a result that SatCore allows - no literal can be *)
(* left out - unless a clause has run on after an exception.               *)
THEOREM ScanYieldsActive == Spec => [](pc = "scan" /\ todo = {} => Result)
<1>1. ActiveIInv => (pc = "scan" /\ todo = {} => Result)
  <2> SUFFICES ASSUME ActiveIInv, pc = "scan", todo = {}  PROVE Result
    OBVIOUS
  <2> DEFINE main == {AsLit(c) : c \in given}
  <2>1. /\ lits \in SUBSET SatLit /\ lits \subseteq chosen /\ given \in SUBSET SUBSET SatLit
        /\ Hits(lits, given) /\ \A i \in lits : \E e \in parts : e.tail \cap lits = {i}
    BY DEF ActiveIInv, ActiveTypeOK, NeverUncovered, KeptAreNeeded
  <2>2. AsLit(lits) \in SUBSET AsLit(chosen)
    BY <2>1, AsLitIsImage
  <2>3. Core!Hits(AsLit(lits), main)
    <3>1. ASSUME NEW c \in given  PROVE AsLit(c) \cap AsLit(lits) # {}
      <4>1. PICK i \in c : i \in lits
        BY <2>1 DEF Hits
      <4> QED BY <4>1, AsLitIsImage
    <3> QED BY <3>1 DEF Core!Hits
  <2>4. ASSUME NothingRunOn, NEW l \in AsLit(lits)
        PROVE  ~Core!Hits(AsLit(lits) \ {l}, main)
    <3>1. PICK i \in lits : l = LitOf(i)
      BY AsLitIsImage
    <3>2. PICK c \in given : c \cap lits = {i}
      BY <2>1, <2>4 DEF NothingRunOn
    <3>3. AsLit(c) \cap AsLit(lits) = {l}
      <4>1. AsLit(c) \cap AsLit(lits) = AsLit({i})
        BY <2>1, <3>2, MeetsAlike
      <4> QED BY <3>1, <4>1, AsLitIsImage
    <3>4. AsLit(c) \in main /\ AsLit(c) \cap (AsLit(lits) \ {l}) = {}
      BY <3>3
    <3> QED BY <3>4 DEF Core!Hits
  <2>5. NothingRunOn => AsLit(lits) \in Core!MainActiveLiterals(AsLit(chosen), main)
    BY <2>2, <2>3, <2>4 DEF Core!MainActiveLiterals
  <2> QED BY <2>1, <2>5 DEF Result
<1> QED BY <1>1, ActiveInductive, PTL
=============================================================================
