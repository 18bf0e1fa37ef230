---------------------------- MODULE SessionProofs ----------------------------
(***************************************************************************)
(* Theorems about Session, for any names, sorts and precisions, any number *)
(* of variables and scopes nested to any depth.                            *)
(*                                                                         *)
(* First come lemmas about the boxes of Context and about ExtractModel,    *)
(* for any variables and boxes of any size.  The invariant has three parts *)
(* that most actions change one at a time: the context (the boxes and the  *)
(* model), the scopes and the option.                                      *)
(***************************************************************************)
EXTENDS Session, SequenceTheorems, FiniteSetTheorems, WellFoundedInduction, TLAPS

-----------------------------------------------------------------------------
(* Boxes.                                                                  *)

LEMMA BoxFacts ==
  ASSUME NEW V, NEW b \in Boxes(V), IsBox(b)
  PROVE  /\ b.vars \in Seq(V) /\ b.vals \in Seq(Interval)
         /\ b = [vars |-> b.vars, vals |-> b.vals]
         /\ Len(b.vars) \in Nat /\ Len(b.vals) \in Nat \ {0}
         /\ DOMAIN b.vars = 1 .. Len(b.vars) /\ DOMAIN b.vals = 1 .. Len(b.vals)
         /\ b.vars # <<>> <=> Len(b.vars) > 0
         /\ Len(b.vals) = IF Len(b.vars) = 0 THEN 1 ELSE Len(b.vars)
         /\ \A i \in 1 .. Len(b.vars) : b.vars[i] \in V
         /\ \A i \in 1 .. Len(b.vals) : b.vals[i] \in Interval
         /\ \A i, j \in 1 .. Len(b.vars) : b.vars[i] = b.vars[j] => i = j
<1>1. /\ b.vars \in Seq(V) /\ b.vals \in Seq(Interval)
      /\ b = [vars |-> b.vars, vals |-> b.vals]
  BY DEF Boxes
<1>2. /\ Len(b.vars) \in Nat /\ Len(b.vals) \in Nat
      /\ DOMAIN b.vars = 1 .. Len(b.vars) /\ DOMAIN b.vals = 1 .. Len(b.vals)
  BY <1>1, LenProperties
<1>3. b.vars = <<>> <=> Len(b.vars) = 0
  BY <1>1, EmptySeq
<1>4. /\ Len(b.vals) = IF b.vars = <<>> THEN 1 ELSE Len(b.vars)
      /\ \A i, j \in DOMAIN b.vars : b.vars[i] = b.vars[j] => i = j
      /\ \A i \in DOMAIN b.vals : b.vals[i] \in Interval
  BY DEF IsBox
<1>5. \A i \in 1 .. Len(b.vars) : b.vars[i] \in V
  BY <1>1, ElementOfSeq
<1> QED BY <1>1, <1>2, <1>3, <1>4, <1>5

LEMMA IndexFacts ==
  ASSUME NEW b, NEW v, Has(b, v)
  PROVE  Index(b, v) \in DOMAIN b.vars /\ b.vars[Index(b, v)] = v
BY DEF Has, Index

LEMMA IndexIsUnique ==
  ASSUME NEW b, \A i, j \in DOMAIN b.vars : b.vars[i] = b.vars[j] => i = j,
         NEW k \in DOMAIN b.vars
  PROVE  Index(b, b.vars[k]) = k /\ Has(b, b.vars[k])
BY DEF Index, Has

(* A function with n values is a sequence of length n.                     *)
LEMMA FcnIsSeq ==
  ASSUME NEW S, NEW n \in Nat, NEW f \in [1 .. n -> S]
  PROVE  f \in Seq(S) /\ Len(f) = n
<1>1. f \in Seq(S)
  BY SeqDef
<1>2. DOMAIN f = 1 .. Len(f) /\ Len(f) \in Nat
  BY <1>1, LenProperties
<1> QED BY <1>1, <1>2

(* Adding a variable that is not there: an empty box with variables stays  *)
(* empty, and no box becomes empty.                                        *)
LEMMA BoxAddFacts ==
  ASSUME NEW V, NEW b \in Boxes(V), IsBox(b), NEW v \in V, ~Has(b, v)
  PROVE  /\ BoxAdd(b, v) \in Boxes(V) /\ IsBox(BoxAdd(b, v))
         /\ Len(BoxAdd(b, v).vars) = Len(b.vars) + 1
         /\ \A i \in 1 .. Len(b.vars) : BoxAdd(b, v).vars[i] = b.vars[i]
         /\ BoxAdd(b, v).vars[Len(b.vars) + 1] = v
         /\ IsEmpty(BoxAdd(b, v)) => IsEmpty(b)
         /\ b.vars # <<>> => \A i \in DOMAIN b.vals : BoxAdd(b, v).vals[i] = b.vals[i]
<1> DEFINE n == Len(b.vars) + 1
           d == BoxAdd(b, v)
           w == IF v.sort = "Bool" THEN "bounded" ELSE Resize(b.vals, n)[n]
<1>1. /\ b.vars \in Seq(V) /\ b.vals \in Seq(Interval)
      /\ Len(b.vars) \in Nat /\ Len(b.vals) \in Nat \ {0}
      /\ DOMAIN b.vars = 1 .. Len(b.vars) /\ DOMAIN b.vals = 1 .. Len(b.vals)
      /\ (b.vars # <<>> <=> Len(b.vars) > 0)
      /\ Len(b.vals) = IF Len(b.vars) = 0 THEN 1 ELSE Len(b.vars)
      /\ \A i \in 1 .. Len(b.vals) : b.vals[i] \in Interval
      /\ \A i, j \in 1 .. Len(b.vars) : b.vars[i] = b.vars[j] => i = j
  BY BoxFacts
<1>2. /\ Append(b.vars, v) \in Seq(V) /\ Len(Append(b.vars, v)) = n
      /\ \A i \in 1 .. Len(b.vars) : Append(b.vars, v)[i] = b.vars[i]
      /\ Append(b.vars, v)[n] = v
  BY <1>1, AppendProperties
<1>3. Resize(b.vals, n) \in [1 .. n -> Interval]
  <2>1. \A i \in 1 .. n : i <= Len(b.vals) => i \in 1 .. Len(b.vals)
    BY <1>1
  <2> QED BY <1>1, <2>1 DEF Resize, Interval
<1>4. n \in Nat /\ n \in 1 .. n /\ w \in Interval
  BY <1>1, <1>3 DEF Interval
<1>5. d.vars = Append(b.vars, v) /\ d.vals = [Resize(b.vals, n) EXCEPT ![n] = w]
      /\ d = [vars |-> d.vars, vals |-> d.vals]
  BY DEF BoxAdd
<1> HIDE DEF w, d, n
<1>6. /\ d.vals \in [1 .. n -> Interval]
      /\ d.vals[n] = w
      /\ \A i \in 1 .. n : i # n => d.vals[i] = Resize(b.vals, n)[i]
  BY <1>3, <1>4, <1>5
<1>7. d.vals \in Seq(Interval) /\ Len(d.vals) = n /\ DOMAIN d.vals = 1 .. n
  BY <1>4, <1>6, FcnIsSeq
<1>8. d \in Boxes(V)
  BY <1>2, <1>5, <1>7 DEF Boxes
<1>9. d.vars \in Seq(V) /\ DOMAIN d.vars = 1 .. n /\ Len(d.vars) = n /\ d.vars # <<>>
  BY <1>2, <1>4, <1>5, <1>1, EmptySeq, LenProperties DEF n
<1>10. ASSUME NEW i \in 1 .. n, NEW j \in 1 .. n, d.vars[i] = d.vars[j]
       PROVE  i = j
  <2>1. \A k \in 1 .. n : k = n \/ k \in 1 .. Len(b.vars)
    BY <1>1 DEF n
  <2>2. \A k \in 1 .. Len(b.vars) : b.vars[k] # v
    BY <1>1 DEF Has
  <2>3. \A k \in 1 .. Len(b.vars) : d.vars[k] = b.vars[k]
    BY <1>2, <1>5
  <2>4. d.vars[n] = v
    BY <1>2, <1>5
  <2> QED BY <1>1, <1>10, <2>1, <2>2, <2>3, <2>4
<1>11. IsBox(d)
  BY <1>6, <1>7, <1>9, <1>10 DEF IsBox
<1>12. ASSUME b.vars # <<>>, NEW i \in DOMAIN b.vals  PROVE d.vals[i] = b.vals[i]
  <2>1. i \in 1 .. n /\ i # n /\ i <= Len(b.vals)
    BY <1>1, <1>12 DEF n
  <2>2. Resize(b.vals, n)[i] = b.vals[i]
    BY <2>1 DEF Resize
  <2> QED BY <1>6, <2>1, <2>2
<1>13. ASSUME NEW i \in DOMAIN d.vals, d.vals[i] = "empty"
       PROVE  IsEmpty(b)
  <2>1. i \in 1 .. n
    BY <1>7
  <2>2. \A k \in 1 .. n : Resize(b.vals, n)[k] = IF k <= Len(b.vals) THEN b.vals[k] ELSE "all"
    BY DEF Resize
  <2>3. Resize(b.vals, n)[i] = "empty"
    BY <1>6, <1>13, <2>1 DEF w
  <2>4. i <= Len(b.vals) /\ b.vals[i] = "empty"
    BY <2>1, <2>2, <2>3
  <2>5. i \in DOMAIN b.vals
    BY <1>1, <1>4, <2>1, <2>4
  <2> QED BY <2>4, <2>5 DEF IsEmpty
<1>14. IsEmpty(d) => IsEmpty(b)
  BY <1>13 DEF IsEmpty
<1>15. /\ Len(d.vars) = Len(b.vars) + 1 /\ d.vars[Len(b.vars) + 1] = v
       /\ \A i \in 1 .. Len(b.vars) : d.vars[i] = b.vars[i]
  BY <1>2, <1>5, <1>9 DEF n
<1> QED BY <1>8, <1>11, <1>12, <1>14, <1>15 DEF d

(* Setting an interval.                                                    *)
LEMMA BoxSetFacts ==
  ASSUME NEW V, NEW b \in Boxes(V), IsBox(b), NEW k,
         NEW d, d = [b EXCEPT !.vals[k] = "bounded"]
  PROVE  /\ d \in Boxes(V) /\ IsBox(d) /\ d.vars = b.vars
         /\ IsEmpty(d) => IsEmpty(b)
         /\ \A i \in DOMAIN b.vals : i # k => d.vals[i] = b.vals[i]
         /\ DOMAIN d.vals = DOMAIN b.vals
<1> DEFINE f == [b.vals EXCEPT ![k] = "bounded"]
<1>1. /\ b.vars \in Seq(V) /\ b.vals \in Seq(Interval)
      /\ b = [vars |-> b.vars, vals |-> b.vals]
      /\ Len(b.vals) \in Nat /\ DOMAIN b.vals = 1 .. Len(b.vals)
      /\ \A i \in 1 .. Len(b.vals) : b.vals[i] \in Interval
  BY BoxFacts
<1>2. d = [vars |-> b.vars, vals |-> f]
  <2>1. d = [b EXCEPT !.vals = f]
    OBVIOUS
  <2> HIDE DEF f
  <2> QED BY <1>1, <2>1
<1>3. f \in [1 .. Len(b.vals) -> Interval]
  BY <1>1 DEF Interval
<1>4. f \in Seq(Interval) /\ Len(f) = Len(b.vals)
  BY <1>1, <1>3, FcnIsSeq
<1>5. \A i \in DOMAIN b.vals : f[i] = IF i = k THEN "bounded" ELSE b.vals[i]
  BY <1>1
<1>6. DOMAIN f = DOMAIN b.vals
  OBVIOUS
<1> HIDE DEF f
<1>7. d \in Boxes(V) /\ d.vars = b.vars /\ d.vals = f
  <2>1. b.vars \in Seq(V)
    BY DEF Boxes
  <2>2. d.vars = b.vars /\ d.vals = f
    BY <1>2
  <2>3. [vars |-> b.vars, vals |-> f] \in [vars : Seq(V), vals : Seq(Interval)]
    BY <1>4, <2>1
  <2> QED BY <1>2, <2>2, <2>3 DEF Boxes
<1>8. IsBox(d)
  <2>1. \A i \in DOMAIN d.vals : d.vals[i] \in Interval
    BY <1>1, <1>3, <1>6, <1>7
  <2> QED BY <1>4, <1>7, <2>1 DEF IsBox
<1>9. IsEmpty(d) => IsEmpty(b)
  BY <1>5, <1>6, <1>7 DEF IsEmpty
<1> QED BY <1>5, <1>6, <1>7, <1>8, <1>9

(* Changing every interval at once.                                        *)
LEMMA NewValsFacts ==
  ASSUME NEW V, NEW b \in Boxes(V), IsBox(b),
         NEW f \in [DOMAIN b.vals -> Interval]
  PROVE  /\ [b EXCEPT !.vals = f] \in Boxes(V) /\ IsBox([b EXCEPT !.vals = f])
         /\ [b EXCEPT !.vals = f].vars = b.vars /\ [b EXCEPT !.vals = f].vals = f
<1>1. /\ b.vars \in Seq(V) /\ b = [vars |-> b.vars, vals |-> b.vals]
      /\ Len(b.vals) \in Nat /\ DOMAIN b.vals = 1 .. Len(b.vals)
  BY BoxFacts
<1>2. f \in Seq(Interval) /\ Len(f) = Len(b.vals)
  BY <1>1, FcnIsSeq
<1> DEFINE d == [b EXCEPT !.vals = f]
<1>3. d = [vars |-> b.vars, vals |-> f]
  BY <1>1
<1> HIDE DEF d
<1>4. d \in Boxes(V) /\ d.vars = b.vars /\ d.vals = f
  BY <1>1, <1>2, <1>3 DEF Boxes
<1>5. IsBox(d)
  BY <1>2, <1>4 DEF IsBox
<1> QED BY <1>4, <1>5 DEF d

LEMMA SetEmptyFacts ==
  ASSUME NEW V, NEW b \in Boxes(V), IsBox(b)
  PROVE  /\ SetEmpty(b) \in Boxes(V) /\ IsBox(SetEmpty(b))
         /\ SetEmpty(b).vars = b.vars /\ IsEmpty(SetEmpty(b))
<1> DEFINE f == [i \in DOMAIN b.vals |-> "empty"]
<1>1. f \in [DOMAIN b.vals -> Interval] /\ DOMAIN f = DOMAIN b.vals
  BY DEF Interval
<1>2. SetEmpty(b) = [b EXCEPT !.vals = f]
  BY DEF SetEmpty
<1>3. 1 \in DOMAIN b.vals /\ f[1] = "empty"
  <2>1. 1 \in DOMAIN b.vals
    BY BoxFacts
  <2> QED BY <2>1
<1> HIDE DEF f
<1>4. /\ SetEmpty(b) \in Boxes(V) /\ IsBox(SetEmpty(b))
      /\ SetEmpty(b).vars = b.vars /\ SetEmpty(b).vals = f
  BY <1>1, <1>2, NewValsFacts
<1> QED BY <1>1, <1>3, <1>4 DEF IsEmpty

LEMMA SolvedFacts ==
  ASSUME NEW V, NEW b \in Boxes(V), IsBox(b), NEW sorts
  PROVE  /\ Solved(b, sorts) \in Boxes(V) /\ IsBox(Solved(b, sorts))
         /\ Solved(b, sorts).vars = b.vars
         /\ IsEmpty(Solved(b, sorts)) => IsEmpty(b)
<1> DEFINE places == {Place(b, b.vars[i]) :
                       i \in {k \in DOMAIN b.vars : b.vars[k].sort \in sorts}}
           f == [i \in DOMAIN b.vals |-> IF i \in places THEN "point" ELSE b.vals[i]]
<1>1. \A i \in DOMAIN b.vals : b.vals[i] \in Interval
  BY DEF IsBox
<1>2. f \in [DOMAIN b.vals -> Interval] /\ DOMAIN f = DOMAIN b.vals
  BY <1>1 DEF Interval
<1>3. Solved(b, sorts) = [b EXCEPT !.vals = f]
  BY DEF Solved
<1> HIDE DEF places
<1>4. \A i \in DOMAIN b.vals : f[i] = "empty" => b.vals[i] = "empty"
  OBVIOUS
<1> HIDE DEF f
<1>5. /\ Solved(b, sorts) \in Boxes(V) /\ IsBox(Solved(b, sorts))
      /\ Solved(b, sorts).vars = b.vars /\ Solved(b, sorts).vals = f
  BY <1>2, <1>3, NewValsFacts
<1> QED BY <1>2, <1>4, <1>5 DEF IsEmpty

-----------------------------------------------------------------------------
(* The i-th number of a finite set.  Upto(K, k) has the numbers of K up to *)
(* k, so that k is the Cardinality(Upto(K, k))-th of them.                 *)

Upto(K, k) == {j \in K : j <= k}

LEMMA RankFacts ==
  ASSUME NEW K \in SUBSET Nat, IsFiniteSet(K), NEW k \in K
  PROVE  /\ Cardinality(K) \in Nat
         /\ Cardinality(Upto(K, k)) \in 1 .. Cardinality(K)
         /\ \A l \in K : k < l => Cardinality(Upto(K, k)) < Cardinality(Upto(K, l))
<1>1. \A l \in K : Upto(K, l) \in SUBSET K
  BY DEF Upto
<1>2. \A l \in K : /\ IsFiniteSet(Upto(K, l)) /\ Cardinality(Upto(K, l)) \in Nat
                   /\ Cardinality(Upto(K, l)) <= Cardinality(K)
  <2> SUFFICES ASSUME NEW l \in K
               PROVE  /\ IsFiniteSet(Upto(K, l)) /\ Cardinality(Upto(K, l)) \in Nat
                      /\ Cardinality(Upto(K, l)) <= Cardinality(K)
    OBVIOUS
  <2>1. IsFiniteSet(Upto(K, l)) /\ Cardinality(Upto(K, l)) <= Cardinality(K)
    BY <1>1, FS_Subset
  <2> QED BY <2>1, FS_CardinalityType
<1>3. Cardinality(K) \in Nat
  BY FS_CardinalityType
<1>4. Cardinality(Upto(K, k)) # 0
  <2>1. k \in Upto(K, k)
    BY DEF Upto
  <2> QED BY <1>2, <2>1, FS_EmptySet
<1>5. ASSUME NEW l \in K, k < l
      PROVE  Cardinality(Upto(K, k)) < Cardinality(Upto(K, l))
  <2>1. Upto(K, k) \in SUBSET Upto(K, l)
    <3>1. \A j \in K : j <= k => j <= l
      BY <1>5
    <3> QED BY <3>1 DEF Upto
  <2>2. l \in Upto(K, l) /\ l \notin Upto(K, k)
    BY <1>5 DEF Upto
  <2>3. /\ Cardinality(Upto(K, k)) <= Cardinality(Upto(K, l))
        /\ Cardinality(Upto(K, l)) = Cardinality(Upto(K, k)) => Upto(K, l) = Upto(K, k)
    BY <1>2, <2>1, FS_Subset
  <2> QED BY <1>2, <2>2, <2>3
<1> QED BY <1>2, <1>3, <1>4, <1>5

LEMMA NthExists ==
  ASSUME NEW K \in SUBSET Nat, IsFiniteSet(K), NEW i \in 1 .. Cardinality(K)
  PROVE  Nth(K, i) \in K /\ Cardinality(Upto(K, Nth(K, i))) = i
<1> DEFINE n == Cardinality(K)
           f == [k \in K |-> Cardinality(Upto(K, k))]
<1>1. n \in Nat /\ \A k \in K : Cardinality(Upto(K, k)) \in 1 .. n
  BY RankFacts, FS_CardinalityType
<1>2. f \in [K -> 1 .. n]
  BY <1>1
<1>3. ASSUME NEW k \in K, NEW l \in K, f[k] = f[l]  PROVE k = l
  <2>1. k < l => Cardinality(Upto(K, k)) < Cardinality(Upto(K, l))
    BY RankFacts
  <2>2. l < k => Cardinality(Upto(K, l)) < Cardinality(Upto(K, k))
    BY RankFacts
  <2>3. Cardinality(Upto(K, k)) = Cardinality(Upto(K, l))
    BY <1>3
  <2>4. k \in Nat /\ l \in Nat
    OBVIOUS
  <2> QED BY <1>1, <2>1, <2>2, <2>3, <2>4
<1> HIDE DEF f, n
<1>4. f \in Injection(K, 1 .. n)
  BY <1>2, <1>3 DEF Injection, IsInjective
<1>5. IsFiniteSet(1 .. n) /\ Cardinality(1 .. n) = n
  BY <1>1, FS_Interval
<1>6. f \in Surjection(K, 1 .. n)
  BY <1>4, <1>5, FS_Injection DEF n
<1>7. PICK k \in K : f[k] = i
  BY <1>6 DEF Surjection, n
<1>8. \E l \in K : Cardinality({j \in K : j <= l}) = i
  BY <1>7 DEF f, Upto
<1> QED BY <1>8 DEF Nth, Upto

LEMMA NthFacts ==
  ASSUME NEW K \in SUBSET Nat, IsFiniteSet(K)
  PROVE  /\ \A i \in 1 .. Cardinality(K) : Nth(K, i) \in K
         /\ \A i, j \in 1 .. Cardinality(K) : i < j => Nth(K, i) < Nth(K, j)
         /\ \A k \in K : \E i \in 1 .. Cardinality(K) : Nth(K, i) = k
<1> DEFINE N == 1 .. Cardinality(K)
<1>1. \A i \in N : Nth(K, i) \in K /\ Cardinality(Upto(K, Nth(K, i))) = i
  BY NthExists
<1>2. Cardinality(K) \in Nat
  BY FS_CardinalityType
<1>3. ASSUME NEW k \in K, NEW l \in K,
             Cardinality(Upto(K, k)) < Cardinality(Upto(K, l))
      PROVE  k < l
  <2>1. /\ l < k => Cardinality(Upto(K, l)) < Cardinality(Upto(K, k))
        /\ Cardinality(Upto(K, l)) \in 1 .. Cardinality(K)
        /\ Cardinality(Upto(K, k)) \in 1 .. Cardinality(K)
    BY RankFacts
  <2>2. ~(l < k) /\ l # k
    BY <1>2, <1>3, <2>1
  <2>3. k \in Nat /\ l \in Nat
    OBVIOUS
  <2> QED BY <2>2, <2>3
<1>4. ASSUME NEW i \in N, NEW j \in N, i < j  PROVE Nth(K, i) < Nth(K, j)
  <2>1. Cardinality(Upto(K, Nth(K, i))) < Cardinality(Upto(K, Nth(K, j)))
    BY <1>1, <1>4
  <2> QED BY <1>1, <1>3, <2>1
<1>5. ASSUME NEW k \in K  PROVE \E i \in N : Nth(K, i) = k
  <2> DEFINE i == Cardinality(Upto(K, k))
  <2>1. i \in N
    BY RankFacts
  <2> HIDE DEF i
  <2>2. Nth(K, i) \in K /\ Cardinality(Upto(K, Nth(K, i))) = i
    BY <1>1, <2>1
  <2>3. ~(Nth(K, i) < k) /\ ~(k < Nth(K, i))
    <3>1. i \in Nat
      BY <1>2, <2>1
    <3>2. ~(i < i)
      BY <3>1
    <3>3. Nth(K, i) < k => Cardinality(Upto(K, Nth(K, i))) < Cardinality(Upto(K, k))
      BY <2>2, RankFacts
    <3>4. k < Nth(K, i) => Cardinality(Upto(K, k)) < Cardinality(Upto(K, Nth(K, i)))
      BY <2>2, RankFacts
    <3> QED BY <2>2, <3>2, <3>3, <3>4 DEF i
  <2>4. Nth(K, i) \in Nat /\ k \in Nat
    BY <2>2
  <2> QED BY <2>1, <2>3, <2>4
<1> QED BY <1>1, <1>4, <1>5

-----------------------------------------------------------------------------
(* ExtractModel.                                                           *)

(* The model variables are some of the box's; when there are as many of    *)
(* them as of the box's, they are the box's.                               *)
LEMMA ModelVarsCounted ==
  ASSUME NEW V, NEW b \in Boxes(V), IsBox(b), \A v \in modelVars : Has(b, v)
  PROVE  /\ modelVars \subseteq {b.vars[i] : i \in DOMAIN b.vars}
         /\ Cardinality(modelVars) = Len(b.vars)
              => modelVars = {b.vars[i] : i \in DOMAIN b.vars}
<1> DEFINE R == {b.vars[i] : i \in DOMAIN b.vars}
           n == Len(b.vars)
           f == [i \in 1 .. n |-> b.vars[i]]
<1>1. /\ n \in Nat /\ DOMAIN b.vars = 1 .. n
      /\ \A i, j \in 1 .. n : b.vars[i] = b.vars[j] => i = j
  BY BoxFacts
<1>2. modelVars \in SUBSET R
  BY DEF Has
<1>3. f \in Bijection(1 .. n, R)
  <2>1. f \in [1 .. n -> R]
    BY <1>1
  <2>2. f \in Injection(1 .. n, R)
    BY <1>1, <2>1 DEF Injection, IsInjective
  <2>3. f \in Surjection(1 .. n, R)
    BY <1>1, <2>1 DEF Surjection
  <2> QED BY <2>2, <2>3 DEF Bijection
<1>4. IsFiniteSet(1 .. n) /\ Cardinality(1 .. n) = n
  BY <1>1, FS_Interval
<1> HIDE DEF R, f, n
<1>5. IsFiniteSet(R) /\ Cardinality(R) = n
  BY <1>3, <1>4, FS_Bijection DEF ExistsBijection
<1>6. Cardinality(R) = Cardinality(modelVars) => R = modelVars
  BY <1>2, <1>5, FS_Subset
<1> QED BY <1>2, <1>5, <1>6 DEF R, n

(* What the walk through the box keeps: the model variables, in order.     *)
LEMMA KeptFacts ==
  ASSUME NEW V, NEW b \in Boxes(V), IsBox(b)
  PROVE  /\ Kept(b) \in Seq(V) /\ DOMAIN Kept(b) = 1 .. Len(Kept(b))
         /\ Len(Kept(b)) \in Nat
         /\ {Kept(b)[i] : i \in DOMAIN Kept(b)} = {v \in modelVars : Has(b, v)}
         /\ \A i \in DOMAIN Kept(b) : Has(b, Kept(b)[i])
         /\ \A i, j \in DOMAIN Kept(b) :
              i < j => Index(b, Kept(b)[i]) < Index(b, Kept(b)[j])
<1> DEFINE K == ModelPositions(b)
           n == Cardinality(K)
           kept == Kept(b)
<1>1. /\ DOMAIN b.vars = 1 .. Len(b.vars) /\ Len(b.vars) \in Nat
      /\ \A i \in 1 .. Len(b.vars) : b.vars[i] \in V
      /\ \A i, j \in DOMAIN b.vars : b.vars[i] = b.vars[j] => i = j
  BY BoxFacts
<1>2. K \in SUBSET Nat /\ K \in SUBSET (1 .. Len(b.vars))
  BY <1>1 DEF ModelPositions
<1>3. IsFiniteSet(K)
  <2>1. IsFiniteSet(1 .. Len(b.vars))
    BY <1>1, FS_Interval
  <2> HIDE DEF K
  <2> QED BY <1>2, <2>1, FS_Subset
<1>4. kept = [i \in 1 .. n |-> b.vars[Nth(K, i)]]
  BY DEF Kept
<1> HIDE DEF K, kept
<1>5. n \in Nat
  BY <1>3, FS_CardinalityType
<1>6. /\ \A i \in 1 .. n : Nth(K, i) \in K
      /\ \A i, j \in 1 .. n : i < j => Nth(K, i) < Nth(K, j)
      /\ \A k \in K : \E i \in 1 .. n : Nth(K, i) = k
  BY <1>2, <1>3, NthFacts
<1> HIDE DEF n
<1>7. kept \in [1 .. n -> V]
  BY <1>1, <1>2, <1>4, <1>6
<1>8. kept \in Seq(V) /\ Len(kept) = n /\ DOMAIN kept = 1 .. n
  BY <1>5, <1>7, FcnIsSeq
<1>9. ASSUME NEW i \in 1 .. n
      PROVE  /\ kept[i] = b.vars[Nth(K, i)] /\ kept[i] \in modelVars
             /\ Has(b, kept[i]) /\ Index(b, kept[i]) = Nth(K, i)
  <2>1. Nth(K, i) \in DOMAIN b.vars /\ b.vars[Nth(K, i)] \in modelVars
    BY <1>6 DEF K, ModelPositions
  <2>2. kept[i] = b.vars[Nth(K, i)]
    BY <1>4
  <2> QED BY <1>1, <2>1, <2>2, IndexIsUnique
<1>10. ASSUME NEW v \in modelVars, Has(b, v)  PROVE \E i \in 1 .. n : kept[i] = v
  <2>1. PICK k \in DOMAIN b.vars : b.vars[k] = v
    BY <1>10 DEF Has
  <2>2. k \in K
    BY <2>1 DEF K, ModelPositions
  <2>3. PICK i \in 1 .. n : Nth(K, i) = k
    BY <1>6, <2>2
  <2> QED BY <1>9, <2>1, <2>3
<1>11. {kept[i] : i \in 1 .. n} = {v \in modelVars : Has(b, v)}
  BY <1>9, <1>10
<1>12. \A i, j \in 1 .. n : i < j => Index(b, kept[i]) < Index(b, kept[j])
  BY <1>6, <1>9
<1> QED BY <1>5, <1>8, <1>9, <1>11, <1>12 DEF kept

(* A model has the model variables, in order, with the intervals of b.     *)
IsModelOf(m, b) ==
  /\ {m.vars[i] : i \in DOMAIN m.vars} = modelVars
  /\ \A i, j \in DOMAIN m.vars : i < j => Index(b, m.vars[i]) < Index(b, m.vars[j])
  /\ \A i \in DOMAIN m.vars :
       m.vars[i] \notin stray => m.vals[i] = b.vals[Index(b, m.vars[i])]
  /\ ~IsEmpty(m)

(* The box itself, when every variable is a model variable.                *)
LEMMA WholeBoxIsModel ==
  ASSUME NEW V, NEW b \in Boxes(V), IsBox(b), \A v \in modelVars : Has(b, v),
         ~IsEmpty(b), Cardinality(modelVars) = Len(b.vars)
  PROVE  IsModelOf([vars |-> b.vars, vals |-> b.vals], b)
<1>1. b = [vars |-> b.vars, vals |-> b.vals]
  BY BoxFacts
<1>2. {b.vars[i] : i \in DOMAIN b.vars} = modelVars
  BY ModelVarsCounted
<1>3. \A i \in DOMAIN b.vars : Index(b, b.vars[i]) = i
  BY IndexIsUnique DEF IsBox
<1> QED BY <1>1, <1>2, <1>3 DEF IsModelOf

(* A new box, otherwise: in order, with the intervals that b has in the    *)
(* places of the variables.                                                *)
LEMMA FilteredFacts ==
  ASSUME NEW V, NEW b \in Boxes(V), IsBox(b), ~IsEmpty(b), NEW m, m = Filtered(b)
  PROVE  /\ m \in Boxes(V) /\ IsBox(m) /\ ~IsEmpty(m)
         /\ m.vars = Kept(b)
         /\ \A i \in DOMAIN Kept(b) : m.vals[i] = b.vals[Place(b, Kept(b)[i])]
<1> DEFINE kept == Kept(b)
           n == Len(kept)
           f == [i \in DOMAIN kept |-> b.vals[Place(b, kept[i])]]
<1>1. /\ kept \in Seq(V) /\ DOMAIN kept = 1 .. n /\ n \in Nat
      /\ \A i \in DOMAIN kept : Has(b, kept[i])
      /\ \A i, j \in DOMAIN kept : i < j => Index(b, kept[i]) < Index(b, kept[j])
  BY KeptFacts
<1>2. CASE kept = <<>>
  <2>1. m = NewBox /\ DOMAIN kept = {}
    BY <1>1, <1>2 DEF Filtered
  <2>2. m.vars = <<>> /\ m.vals = <<"all">> /\ m = [vars |-> <<>>, vals |-> <<"all">>]
    BY <2>1 DEF NewBox
  <2>3. m.vals \in Seq(Interval) /\ Len(m.vals) = 1 /\ DOMAIN m.vals = {1} /\ m.vals[1] = "all"
    <3>1. "all" \in Interval
      BY DEF Interval
    <3>2. <<"all">> \in Seq(Interval) /\ Len(<<"all">>) = 1 /\ <<"all">>[1] = "all"
      BY <3>1
    <3>3. DOMAIN <<"all">> = 1 .. 1 /\ 1 .. 1 = {1}
      BY <3>2, LenProperties
    <3> QED BY <2>2, <3>2, <3>3
  <2>4. m \in Boxes(V) /\ IsBox(m)
    <3>1. DOMAIN <<>> = {} /\ <<>> \in Seq(V)
      BY EmptySeq, LenProperties
    <3> QED BY <2>2, <2>3, <3>1 DEF Boxes, IsBox, Interval
  <2>5. ~IsEmpty(m)
    BY <2>3 DEF IsEmpty
  <2> QED BY <1>2, <2>1, <2>2, <2>4, <2>5
<1>3. CASE kept # <<>>
  <2>1. m = [vars |-> kept, vals |-> f]
    BY <1>3 DEF Filtered
  <2> HIDE DEF kept, f
  <2>2. /\ b.vals \in Seq(Interval) /\ DOMAIN b.vals = 1 .. Len(b.vals)
        /\ \A i \in DOMAIN b.vals : b.vals[i] \in Interval /\ b.vals[i] # "empty"
        /\ \A i \in DOMAIN b.vars : i \in DOMAIN b.vals
        /\ 1 \in DOMAIN b.vals
    <3>1. \A i \in DOMAIN b.vals : b.vals[i] # "empty"
      BY DEF IsEmpty
    <3> QED BY <3>1, BoxFacts
  <2>3. \A i \in DOMAIN kept :
          Index(b, kept[i]) \in DOMAIN b.vals /\ b.vars[Index(b, kept[i])] = kept[i]
    BY <1>1, <2>2, IndexFacts
  <2>4. \A i \in DOMAIN kept : Place(b, kept[i]) \in DOMAIN b.vals
    BY <2>2, <2>3 DEF Place
  <2>5. f \in [1 .. n -> Interval] /\ \A i \in 1 .. n : f[i] = b.vals[Place(b, kept[i])]
    BY <1>1, <2>2, <2>4 DEF f
  <2>6. f \in Seq(Interval) /\ Len(f) = n /\ DOMAIN f = 1 .. n
    BY <1>1, <2>5, FcnIsSeq
  <2> HIDE DEF n
  <2>7. m \in Boxes(V) /\ m.vars = kept /\ m.vals = f
    BY <1>1, <2>1, <2>6 DEF Boxes
  <2>8. ASSUME NEW i \in DOMAIN kept, NEW j \in DOMAIN kept, kept[i] = kept[j]
        PROVE  i = j
    <3>1. ~(i < j) /\ ~(j < i)
      <4>1. \A k \in DOMAIN kept : Index(b, kept[k]) \in Nat
        BY <2>2, <2>3
      <4>2. Index(b, kept[i]) = Index(b, kept[j]) /\ Index(b, kept[i]) \in Nat
        BY <2>8, <4>1
      <4>3. ~(Index(b, kept[i]) < Index(b, kept[j])) /\ ~(Index(b, kept[j]) < Index(b, kept[i]))
        BY <4>2
      <4> QED BY <1>1, <4>3
    <3>2. i \in Nat /\ j \in Nat
      BY <1>1
    <3> QED BY <3>1, <3>2
  <2>9. IsBox(m)
    <3>1. Len(m.vals) = IF m.vars = <<>> THEN 1 ELSE Len(m.vars)
      BY <1>3, <2>6, <2>7 DEF n, kept
    <3>2. \A i \in DOMAIN m.vals : m.vals[i] \in Interval
      BY <2>5, <2>6, <2>7
    <3> QED BY <2>7, <2>8, <3>1, <3>2 DEF IsBox
  <2>10. ~IsEmpty(m)
    <3>1. \A i \in 1 .. n : f[i] # "empty"
      BY <1>1, <2>2, <2>4, <2>5
    <3> QED BY <2>6, <2>7, <3>1 DEF IsEmpty
  <2>11. m.vars = kept /\ \A i \in DOMAIN kept : m.vals[i] = b.vals[Place(b, kept[i])]
    BY <1>1, <2>5, <2>7
  <2> QED BY <2>7, <2>9, <2>10, <2>11 DEF kept
<1> QED BY <1>2, <1>3

(* When the box has every model variable, so has the new one.              *)
LEMMA NewBoxIsModel ==
  ASSUME NEW V, NEW b \in Boxes(V), IsBox(b), \A v \in modelVars : Has(b, v),
         ~IsEmpty(b), NEW m, m = Filtered(b)
  PROVE  m \in Boxes(V) /\ IsBox(m) /\ IsModelOf(m, b)
<1>1. /\ {Kept(b)[i] : i \in DOMAIN Kept(b)} = modelVars
      /\ \A i, j \in DOMAIN Kept(b) : i < j => Index(b, Kept(b)[i]) < Index(b, Kept(b)[j])
  BY KeptFacts
<1>2. /\ m \in Boxes(V) /\ IsBox(m) /\ ~IsEmpty(m) /\ m.vars = Kept(b)
      /\ \A i \in DOMAIN Kept(b) : m.vals[i] = b.vals[Place(b, Kept(b)[i])]
  BY FilteredFacts
<1>3. \A i \in DOMAIN m.vars :
        m.vars[i] \notin stray => m.vals[i] = b.vals[Index(b, m.vars[i])]
  BY <1>2 DEF Place
<1>4. {m.vars[i] : i \in DOMAIN m.vars} = modelVars
  BY <1>1, <1>2, Zenon
<1>5. \A i, j \in DOMAIN m.vars : i < j => Index(b, m.vars[i]) < Index(b, m.vars[j])
  BY <1>1, <1>2, Zenon
<1> QED BY <1>2, <1>3, <1>4, <1>5 DEF IsModelOf

-----------------------------------------------------------------------------
(* The actions of a context.                                               *)

(* The part of ContextOK and of the types that the boxes make up.          *)
BoxesOK(V) ==
  /\ box \in Boxes(V) /\ model \in Boxes(V) /\ shared \in BOOLEAN
  /\ IsBox(box) /\ IsBox(ShownModel)
  /\ \A v \in modelVars : Has(box, v)

LEMMA NewBoxIsBox == \A V : NewBox \in Boxes(V) /\ IsBox(NewBox) /\ ~IsEmpty(NewBox)
<1> SUFFICES ASSUME NEW V
             PROVE  NewBox \in Boxes(V) /\ IsBox(NewBox) /\ ~IsEmpty(NewBox)
  OBVIOUS
<1>1. "all" \in Interval /\ NewBox.vars = <<>> /\ NewBox.vals = <<"all">>
  BY DEF Interval, NewBox
<1>2. <<"all">> \in Seq(Interval) /\ Len(<<"all">>) = 1 /\ <<"all">>[1] = "all"
  BY <1>1
<1>3. DOMAIN <<"all">> = 1 .. 1 /\ 1 .. 1 = {1}
  BY <1>2, LenProperties
<1>4. DOMAIN <<>> = {} /\ <<>> \in Seq(V)
  BY EmptySeq, LenProperties
<1>5. NewBox \in Boxes(V)
  BY <1>2, <1>4 DEF NewBox, Boxes
<1>6. IsBox(NewBox)
  BY <1>1, <1>2, <1>3, <1>4 DEF IsBox
<1>7. ~IsEmpty(NewBox)
  BY <1>1, <1>2, <1>3 DEF IsEmpty
<1> QED BY <1>5, <1>6, <1>7

(* Whatever becomes of the box, get_model() shows what it showed.          *)
LEMMA ChangeBoxKeepsModel ==
  ASSUME NEW V, BoxesOK(V), NEW b \in Boxes(V), ChangeBox(b)
  PROVE  /\ box' = b /\ model' \in Boxes(V) /\ shared' \in BOOLEAN
         /\ ShownModel' = ShownModel
<1>1. model \in Boxes(V) /\ box \in Boxes(V) /\ shared \in BOOLEAN /\ box' = b
  BY DEF BoxesOK, ChangeBox
<1>2. CASE shared /\ b.vars # box.vars
  <2>1. shared' = FALSE /\ model' = [model EXCEPT !.vars = box.vars]
    BY <1>2 DEF ChangeBox
  <2>2. model' = [vars |-> box.vars, vals |-> model.vals] /\ model' \in Boxes(V)
    BY <1>1, <2>1 DEF Boxes
  <2>3. ShownModel = [vars |-> box.vars, vals |-> model.vals]
    BY <1>2 DEF ShownModel
  <2>4. ShownModel' = [vars |-> model'.vars, vals |-> model'.vals]
    BY <2>1 DEF ShownModel
  <2> QED BY <1>1, <2>1, <2>2, <2>3, <2>4
<1>3. CASE ~(shared /\ b.vars # box.vars)
  <2>1. model' = model /\ shared' = shared
    BY <1>3 DEF ChangeBox
  <2>2. ShownModel' = ShownModel
    BY <1>1, <1>3, <2>1 DEF ShownModel
  <2> QED BY <1>1, <2>1, <2>2
<1> QED BY <1>2, <1>3

(* unsat: the model shown has no solution.                                 *)
LEMMA UnsatModel ==
  ASSUME NEW V, BoxesOK(V), CheckUnsat, UNCHANGED <<box, modelVars>>
  PROVE  BoxesOK(V)' /\ IsEmpty(ShownModel')
<1>1. /\ model' = SetEmpty(model) /\ shared' = shared /\ model \in Boxes(V)
      /\ ShownModel \in Boxes(V) /\ IsBox(ShownModel) /\ shared \in BOOLEAN
  BY DEF CheckUnsat, BoxesOK, ShownModel, Boxes
<1> DEFINE f == [i \in DOMAIN model.vals |-> "empty"]
<1>2. ShownModel.vals = model.vals /\ model'.vals = f /\ model'.vars = model.vars
  BY <1>1 DEF ShownModel, SetEmpty, Boxes
<1>3. ShownModel' = [ShownModel EXCEPT !.vals = f]
  BY <1>1, <1>2 DEF ShownModel
<1>4. SetEmpty(ShownModel) = [ShownModel EXCEPT !.vals = f]
  BY <1>2 DEF SetEmpty
<1>5. IsBox(ShownModel') /\ IsEmpty(ShownModel') /\ ShownModel' \in Boxes(V)
  BY <1>1, <1>3, <1>4, SetEmptyFacts
<1>6. model' \in Boxes(V)
  <2>1. model'.vals \in Seq(Interval)
    BY <1>5 DEF ShownModel, Boxes
  <2>2. model' = [vars |-> model'.vars, vals |-> model'.vals]
    BY <1>1 DEF SetEmpty, Boxes
  <2>3. model'.vars \in Seq(V)
    BY <1>1, <1>2 DEF Boxes
  <2> QED BY <2>1, <2>2, <2>3 DEF Boxes
<1> QED BY <1>1, <1>5, <1>6 DEF BoxesOK

(* sat: the model shown is one of the box found.                           *)
LEMMA SatModel ==
  ASSUME NEW V, BoxesOK(V), UNCHANGED <<box, modelVars>>,
         NEW b \in Boxes(V), IsBox(b), b.vars = box.vars, ~IsEmpty(b), CheckSatisfied(b)
  PROVE  BoxesOK(V)' /\ IsModelOf(ShownModel', b)
<1>1. \A v \in modelVars : Has(b, v)
  BY DEF BoxesOK, Has
<1>2. ExtractModel(b)
  BY DEF CheckSatisfied
<1>3. CASE Cardinality(modelVars) = Len(b.vars)
  <2>1. model' = [b EXCEPT !.vars = <<>>] /\ shared' = TRUE
    BY <1>2, <1>3 DEF ExtractModel
  <2>2. /\ model' \in Boxes(V) /\ model'.vals = b.vals
        /\ b = [vars |-> b.vars, vals |-> b.vals]
    BY <2>1, EmptySeq DEF Boxes
  <2>3. ShownModel' = [vars |-> b.vars, vals |-> b.vals]
    BY <2>1, <2>2 DEF ShownModel
  <2>4. IsModelOf(ShownModel', b) /\ IsBox(ShownModel')
    BY <1>1, <1>3, <2>2, <2>3, WholeBoxIsModel
  <2> QED BY <2>1, <2>2, <2>4 DEF BoxesOK
<1>4. CASE Cardinality(modelVars) # Len(b.vars)
  <2>1. shared' = FALSE /\ model' = Filtered(b)
    BY <1>2, <1>4 DEF ExtractModel
  <2>2. model' \in Boxes(V) /\ IsBox(model') /\ IsModelOf(model', b)
    BY <1>1, <2>1, NewBoxIsModel
  <2>3. ShownModel' = model'
    BY <2>1, <2>2 DEF ShownModel, Boxes
  <2> QED BY <2>1, <2>2, <2>3 DEF BoxesOK
<1> QED BY <1>3, <1>4

(* A check keeps the boxes in order, and its model is complete.            *)
LEMMA CheckSatModel ==
  ASSUME NEW V, BoxesOK(V), CheckSat
  PROVE  /\ BoxesOK(V)' /\ ModelComplete' /\ found' \in Boxes(V)
         /\ answer' \in {"sat", "unsat", "throws"}
         /\ answer' = "sat" => ~IsEmpty(box)
         /\ answer' = "throws" => UNCHANGED <<model, shared>>
<1> USE DEF ModelComplete
<1>1. box \in Boxes(V) /\ IsBox(box) /\ UNCHANGED <<box, modelVars, stray>>
  BY DEF BoxesOK, CheckSat
<1>2. CASE CheckUnsat
  <2>1. answer' = "unsat" /\ found' = NewBox
    BY <1>2 DEF CheckUnsat
  <2>2. BoxesOK(V)' /\ IsEmpty(ShownModel')
    BY <1>1, <1>2, UnsatModel
  <2> QED BY <2>1, <2>2, NewBoxIsBox
<1>3. ASSUME NEW b \in Boxes(V), IsBox(b), b.vars = box.vars, ~IsEmpty(b),
             CheckSatisfied(b), ~IsEmpty(box)
      PROVE  /\ BoxesOK(V)' /\ ModelComplete' /\ found' \in Boxes(V)
             /\ answer' = "sat"
  <2>1. answer' = "sat" /\ found' = b
    BY <1>3 DEF CheckSatisfied
  <2>2. BoxesOK(V)' /\ IsModelOf(ShownModel', b)
    BY <1>1, <1>3, SatModel
  <2> QED BY <1>1, <2>1, <2>2 DEF IsModelOf
<1>4. CASE Says("throws") /\ UNCHANGED <<model, shared>>
  <2>1. BoxesOK(V)'
    BY <1>1, <1>4 DEF BoxesOK, ShownModel
  <2> QED BY <1>4, <2>1, NewBoxIsBox DEF Says
<1>5. ASSUME NEW sorts, CheckSatisfied(Solved(box, sorts)), ~IsEmpty(box)
      PROVE  /\ BoxesOK(V)' /\ ModelComplete' /\ found' \in Boxes(V)
             /\ answer' = "sat"
  BY <1>1, <1>3, <1>5, SolvedFacts
<1>6. CheckSat =>
        \/ CheckUnsat
        \/ ~IsEmpty(box) /\ CheckSatisfied(box)
        \/ Says("throws") /\ UNCHANGED <<model, shared>>
        \/ ~IsEmpty(box) /\ \E sorts : CheckSatisfied(Solved(box, sorts))
  BY DEF CheckSat
<1> QED BY <1>1, <1>2, <1>3, <1>4, <1>5, <1>6

(* The columns of the LP are variables, none twice, and a candidate over   *)
(* them is a box that is not empty.                                        *)
LEMMA CandidateFacts ==
  ASSUME NEW V, BoxesOK(V), NEW c \in Columns \cup {<<>>}
  PROVE  Candidate(c) \in Boxes(V) /\ IsBox(Candidate(c)) /\ ~IsEmpty(Candidate(c))
<1>1. CASE c = <<>>
  BY <1>1, NewBoxIsBox DEF Candidate
<1>2. CASE c # <<>>
  <2> DEFINE f == [i \in DOMAIN c |-> "point"]
             real == {v \in {box.vars[i] : i \in DOMAIN box.vars} : v.sort = "Real"}
  <2>1. /\ c \in UNION {[1 .. n -> real] : n \in 0 .. Cardinality(real)}
        /\ \A i, j \in DOMAIN c : c[i] = c[j] => i = j
    BY <1>2 DEF Columns
  <2> HIDE DEF f
  <2>2. real \subseteq V
    BY BoxFacts DEF BoxesOK
  <2> HIDE DEF real
  <2>3. PICK n \in 0 .. Cardinality(real) : c \in [1 .. n -> real]
    BY <2>1
  <2>4. n \in Nat /\ c \in [1 .. n -> V]
    BY <2>2, <2>3
  <2>5. c \in Seq(V) /\ Len(c) = n /\ DOMAIN c = 1 .. n
    BY <2>4, FcnIsSeq
  <2>6. f \in [1 .. n -> Interval] /\ \A i \in DOMAIN f : f[i] = "point"
    BY <2>5 DEF f, Interval
  <2>7. f \in Seq(Interval) /\ Len(f) = n /\ DOMAIN f = 1 .. n
    BY <2>4, <2>6, FcnIsSeq
  <2>8. Candidate(c) = [vars |-> c, vals |-> f]
    BY <1>2 DEF Candidate, f
  <2> DEFINE d == Candidate(c)
  <2>9. d.vars = c /\ d.vals = f /\ d \in Boxes(V)
    BY <2>5, <2>7, <2>8 DEF Boxes
  <2> HIDE DEF d
  <2>10. IsBox(d)
    BY <1>2, <2>1, <2>5, <2>6, <2>7, <2>9 DEF IsBox, Interval
  <2>11. ~IsEmpty(d)
    BY <2>6, <2>9 DEF IsEmpty
  <2> QED BY <2>9, <2>10, <2>11 DEF d
<1> QED BY <1>1, <1>2

(* A check of an objective keeps the boxes in order; without an optimum    *)
(* the model is empty.                                                     *)
LEMMA CheckOptModel ==
  ASSUME NEW V, BoxesOK(V), CheckOpt
  PROVE  /\ BoxesOK(V)' /\ ModelComplete' /\ found' = NewBox
         /\ answer' \in {"optimal", "infeasible", "unbounded", "throws"}
         /\ answer' = "throws" => UNCHANGED <<model, shared>>
<1> USE DEF ModelComplete
<1>1. UNCHANGED <<box, modelVars>> /\ box \in Boxes(V) /\ IsBox(box)
      /\ \A v \in modelVars : Has(box, v)
  BY DEF CheckOpt, BoxesOK
<1>2. ASSUME model' \in Boxes(V), IsBox(model'), shared' = FALSE
      PROVE  BoxesOK(V)' /\ ShownModel' = model'
  <2>1. ShownModel' = model'
    BY <1>2 DEF ShownModel, Boxes
  <2> QED BY <1>1, <1>2, <2>1 DEF BoxesOK
<1>3. CASE Says("throws") /\ UNCHANGED <<model, shared>>
  BY <1>1, <1>3 DEF BoxesOK, ShownModel, Says
<1>4. ASSUME NEW c \in Columns \cup {<<>>}, model' = SetEmpty(Candidate(c)), shared' = FALSE
      PROVE  BoxesOK(V)' /\ IsEmpty(ShownModel')
  <2>1. SetEmpty(Candidate(c)) \in Boxes(V) /\ IsBox(SetEmpty(Candidate(c)))
        /\ IsEmpty(SetEmpty(Candidate(c)))
    BY CandidateFacts, SetEmptyFacts
  <2> QED BY <1>2, <1>4, <2>1
<1>5. CASE Says("infeasible") /\ model' = SetEmpty(NewBox) /\ shared' = FALSE
  <2>1. NewBox = Candidate(<<>>)
    BY DEF Candidate
  <2> QED BY <1>4, <1>5, <2>1 DEF Says
<1>6. ASSUME NEW c \in Columns \cup {<<>>},
             Says("unbounded"), model' = SetEmpty(Candidate(c)), shared' = FALSE
      PROVE  BoxesOK(V)' /\ ModelComplete' /\ found' = NewBox /\ answer' = "unbounded"
  BY <1>4, <1>6 DEF Says
<1>7. ASSUME NEW c \in Columns, Says("optimal"), shared' = FALSE,
             model' = IF Cardinality(modelVars) = Len(c)
                      THEN Candidate(c) ELSE Filtered(Candidate(c))
      PROVE  BoxesOK(V)' /\ ModelComplete' /\ found' = NewBox /\ answer' = "optimal"
  <2>1. model' \in Boxes(V) /\ IsBox(model')
    BY <1>7, CandidateFacts, FilteredFacts
  <2> QED BY <1>2, <1>7, <2>1 DEF Says
<1> QED BY <1>3, <1>5, <1>6, <1>7 DEF CheckOpt, Says

-----------------------------------------------------------------------------
(* The parts of the invariant.                                             *)

CtxPart ==
  /\ BoxesOK(Variable) /\ found \in Boxes(Variable)
  /\ modelVars \subseteq Variable /\ stray \subseteq Variable
  /\ refuted \in {"no", "early", "late"}
  /\ answer \in Answer /\ objective \in BOOLEAN
  /\ mode \in {"start", "smt2", "api", "ended"} /\ created \in Nat
  /\ ModelComplete /\ FileOK

FrameSet ==
  [kind : {"let", "forall"}, phase : {"bindings", "binding", "body"},
   list : Seq(LetBinding), outer : [Name -> Variable], done : SUBSET Nat]

ScopePart ==
  /\ envs \in Seq([Name -> Variable]) /\ envs # <<>> /\ frames \in Seq(FrameSet)
  /\ ScopesNest

LEMMA ThreeParts == SessionIInv <=> CtxPart /\ ScopePart /\ OptionOK
<1>1. ContextOK /\ SessionTypeOK =>
        BoxesOK(Variable) /\ answer \in Answer /\ objective \in BOOLEAN
  BY DEF ContextOK, SessionTypeOK, BoxesOK
<1>2. BoxesOK(Variable) /\ answer \in Answer /\ objective \in BOOLEAN => ContextOK
  BY DEF ContextOK, BoxesOK
<1>3. BoxesOK(Variable) => /\ {box, model} \subseteq Boxes(Variable) /\ shared \in BOOLEAN
  BY DEF BoxesOK
<1> QED
  BY <1>1, <1>2, <1>3 DEF SessionIInv, SessionTypeOK, CtxPart, ScopePart, FrameSet

LEMMA ThreePartsNext == SessionIInv' <=> CtxPart' /\ ScopePart' /\ OptionOK'
BY ThreeParts, PTL

LEMMA VarIsVariable ==
  /\ \A n \in Name, s \in Sort, k \in Nat :
       /\ Var(n, s, k) \in Variable /\ Var(Local, s, k) \in Variable
       /\ Var(n, s, k).nr = k /\ Var(Local, s, k).nr = k
       /\ Var(n, s, k).name = n /\ Var(Local, s, k).name = Local
       /\ Var(n, s, k).sort = s /\ Var(Local, s, k).sort = s
  /\ Constant \in Variable /\ Undeclared \in Variable
  /\ ITEVar \in Variable /\ ITEVar.nr = 0
<1>1. \A n \in Name, s \in Sort, k \in Nat :
       /\ Var(n, s, k) \in Variable /\ Var(Local, s, k) \in Variable
       /\ Var(n, s, k).nr = k /\ Var(Local, s, k).nr = k
       /\ Var(n, s, k).name = n /\ Var(Local, s, k).name = Local
       /\ Var(n, s, k).sort = s /\ Var(Local, s, k).sort = s
  BY DEF Var, Variable
<1>2. Constant \in Variable /\ Undeclared \in Variable
  BY DEF Var, Constant, Undeclared, Variable, Sort
<1>3. ITEVar \in Variable /\ ITEVar.nr = 0
  BY SessionAssumption DEF Variable, Sort
<1> QED BY <1>1, <1>2, <1>3

-----------------------------------------------------------------------------
(* The option.                                                             *)

OptionStep ==
  \/ UNCHANGED ovars
  \/ \E v \in Nat : SetFromCommandLine(v) \/ SetFromFile(v) \/ SetFromCode(v)

LEMMA OptionKept == OptionOK /\ OptionStep => OptionOK'
<1> SUFFICES ASSUME OptionOK, OptionStep  PROVE OptionOK'
  OBVIOUS
<1> USE DEF OptionOK, Precedence, Rank, Unset
<1>1. PICK t \in Type : /\ given[t] # Unset
                        /\ \A u \in Type : given[u] # Unset => Rank[u] <= Rank[t]
                        /\ config = [value |-> given[t], type |-> t]
  OBVIOUS
<1>2. config.type = t /\ given \in [Type -> Int]
  BY <1>1
<1>3. ASSUME NEW s \in Type, NEW v \in Nat,
             given' = [given EXCEPT ![s] = v],
             config' = IF Rank[t] <= Rank[s] THEN [value |-> v, type |-> s] ELSE config
      PROVE  OptionOK'
  <2>1. given' \in [Type -> Int] /\ given'[s] = v /\ v # Unset
        /\ \A u \in Type : u # s => given'[u] = given[u]
    BY <1>2, <1>3
  <2>2. \A u \in Type : Rank[u] \in Nat
    BY DEF Type
  <2>3. CASE Rank[t] <= Rank[s]
    <3>1. config' = [value |-> given'[s], type |-> s] /\ config'.type = s
      BY <1>3, <2>1, <2>3
    <3>2. ASSUME NEW u \in Type, given'[u] # Unset  PROVE Rank[u] <= Rank[s]
      <4>1. CASE u = s
        BY <2>2, <4>1
      <4>2. CASE u # s
        <5>1. Rank[u] <= Rank[t]
          BY <1>1, <2>1, <3>2, <4>2
        <5> QED BY <2>2, <2>3, <5>1
      <4> QED BY <4>1, <4>2
    <3> QED BY <2>1, <3>1, <3>2
  <2>4. CASE ~(Rank[t] <= Rank[s])
    <3>1. s # t /\ config' = config /\ given'[t] = given[t]
      BY <1>3, <2>1, <2>2, <2>4
    <3>2. ASSUME NEW u \in Type, given'[u] # Unset  PROVE Rank[u] <= Rank[t]
      <4>1. CASE u = s
        BY <2>2, <2>4, <4>1
      <4>2. CASE u # s
        BY <1>1, <2>1, <3>2, <4>2
      <4> QED BY <4>1, <4>2
    <3> QED BY <1>1, <1>2, <2>1, <3>1, <3>2
  <2> QED BY <2>3, <2>4
<1>4. CASE UNCHANGED ovars
  BY <1>4 DEF ovars
<1>5. ASSUME NEW v \in Nat, SetFromCommandLine(v)  PROVE OptionOK'
  BY <1>2, <1>3, <1>5 DEF SetFromCommandLine, Type
<1>6. ASSUME NEW v \in Nat, SetFromFile(v)  PROVE OptionOK'
  BY <1>2, <1>3, <1>6 DEF SetFromFile, Type
<1>7. ASSUME NEW v \in Nat, SetFromCode(v)  PROVE OptionOK'
  BY <1>2, <1>3, <1>7 DEF SetFromCode, Type
<1> QED BY <1>4, <1>5, <1>6, <1>7 DEF OptionStep

-----------------------------------------------------------------------------
(* The context.                                                            *)

InFile == mode \in {"start", "smt2"}

(* What is left of a command that throws.                                  *)
ThrownCleanly ==
  /\ UNCHANGED <<stack, saved, objective>>
  /\ \/ UNCHANGED <<box, modelVars>>
     \/ \E v \in modelVars' : box' = WithVar(box, v) /\ modelVars' = modelVars \cup {v}

(* What every command does to the context and to what get_model() shows.   *)
CtxStep ==
  /\ CtxPart'
  /\ answer' \notin Checked => ShownModel' = ShownModel
  /\ answer' = "throws" => ThrownCleanly

(* No command brings a run back into the file.                             *)
ModeStep ==
  /\ mode' \in {"start", "smt2", "api", "ended"}
  /\ InFile' => InFile
  /\ created' \in Nat /\ created <= created'

(* A command that leaves the boxes alone.                                  *)
LEMMA QuietStep ==
  ASSUME CtxPart, ModeStep, answer' \in {"none", "throws", "rejected"}, found' = NewBox,
         UNCHANGED <<box, model, shared, modelVars, stray, saved, refuted>>,
         objective' \in BOOLEAN, answer' = "throws" => UNCHANGED <<stack, objective>>
  PROVE  CtxStep
<1>1. ShownModel' = ShownModel
  BY DEF ShownModel
<1>2. BoxesOK(Variable)'
  BY <1>1 DEF CtxPart, BoxesOK
<1>3. FileOK'
  <2>1. InFile' => /\ \A i \in DOMAIN box'.vars : box'.vars[i].nr <= created'
                   /\ refuted' = "late" => box'.vars # <<>> /\ IsEmpty(box') /\ answer' # "sat"
                   /\ stray' = {}
    <3> SUFFICES ASSUME InFile'
                 PROVE  /\ \A i \in DOMAIN box'.vars : box'.vars[i].nr <= created'
                        /\ refuted' = "late" => box'.vars # <<>> /\ IsEmpty(box') /\ answer' # "sat"
                        /\ stray' = {}
      OBVIOUS
    <3>1. /\ \A i \in DOMAIN box.vars : box.vars[i].nr <= created
          /\ refuted = "late" => box.vars # <<>> /\ IsEmpty(box)
          /\ stray = {}
      BY DEF CtxPart, FileOK, ModeStep, InFile
    <3>2. \A i \in DOMAIN box.vars : box.vars[i].nr \in Nat
      <4>1. box.vars \in Seq(Variable)
        BY DEF CtxPart, BoxesOK, Boxes
      <4>2. \A i \in DOMAIN box.vars : box.vars[i] \in Variable
        BY <4>1, ElementOfSeq, LenProperties
      <4> QED BY <4>2 DEF Variable
    <3>3. \A i \in DOMAIN box.vars : box.vars[i].nr <= created'
      BY <3>1, <3>2 DEF ModeStep, CtxPart
    <3> QED BY <3>1, <3>3
  <2> QED BY <2>1 DEF CtxPart, FileOK, InFile
<1>4. ModelComplete' /\ found' \in Boxes(Variable)
  BY NewBoxIsBox DEF ModelComplete
<1> QED BY <1>1, <1>2, <1>3, <1>4 DEF CtxStep, CtxPart, ModeStep, ThrownCleanly, Answer, Checked

(* A box that has got variables: nothing makes it empty, and in a file     *)
(* nothing makes an empty one with variables anything else.                *)
Grown(b) ==
  /\ b \in Boxes(Variable) /\ IsBox(b) /\ (IsEmpty(b) => IsEmpty(box))
  /\ \A v : Has(box, v) => Has(b, v)

GrownInFile(b) ==
  /\ box.vars # <<>> /\ IsEmpty(box) => b.vars # <<>> /\ IsEmpty(b)
  /\ \A v : Has(b, v) => Has(box, v) \/ v.nr = 0 \/ v.nr = created + 1

(* A command that changes the box to b.                                    *)
LEMMA GrowStep ==
  ASSUME CtxPart, ModeStep, answer' \in {"none", "rejected", "throws"}, found' = NewBox,
         UNCHANGED <<objective, saved, refuted>>, stray' \subseteq Variable,
         InFile' => UNCHANGED stray, answer' = "throws" => ThrownCleanly,
         NEW b, Grown(b), ChangeBox(b), InFile' => GrownInFile(b),
         modelVars' \subseteq Variable, \A v \in modelVars' : Has(b, v),
         \A v : Has(b, v) => Has(box, v) \/ v.nr = 0 \/ v.nr <= created'
  PROVE  CtxStep
<1>1. b \in Boxes(Variable) /\ IsBox(b)
  BY DEF Grown
<1>2. BoxesOK(Variable)
  BY DEF CtxPart
<1>3. /\ box' = b /\ model' \in Boxes(Variable) /\ shared' \in BOOLEAN
      /\ ShownModel' = ShownModel
  BY <1>1, <1>2, ChangeBoxKeepsModel
<1>4. BoxesOK(Variable)'
  BY <1>1, <1>2, <1>3 DEF BoxesOK
<1>5. ModelComplete' /\ found' \in Boxes(Variable)
  BY NewBoxIsBox DEF ModelComplete
<1>6. ASSUME InFile'
      PROVE  /\ \A i \in DOMAIN b.vars : b.vars[i].nr <= created'
             /\ refuted' = "late" => b.vars # <<>> /\ IsEmpty(b) /\ answer' # "sat"
             /\ stray' = {}
  <2>1. /\ \A i \in DOMAIN box.vars : box.vars[i].nr <= created
        /\ refuted = "late" => box.vars # <<>> /\ IsEmpty(box)
        /\ stray = {}
    BY <1>6 DEF CtxPart, FileOK, ModeStep, InFile
  <2>2. ASSUME NEW i \in DOMAIN b.vars  PROVE b.vars[i].nr <= created'
    <3>1. b.vars[i].nr \in Nat
      <4>1. b.vars[i] \in Variable
        BY <1>1, BoxFacts
      <4> QED BY <4>1 DEF Variable
    <3>2. Has(b, b.vars[i])
      BY DEF Has
    <3>3. CASE Has(box, b.vars[i])
      <4>1. b.vars[i].nr <= created
        BY <2>1, <3>3 DEF Has
      <4> QED BY <3>1, <4>1 DEF ModeStep, CtxPart
    <3>4. CASE b.vars[i].nr = 0 \/ b.vars[i].nr <= created'
      BY <3>4 DEF ModeStep
    <3> QED BY <3>2, <3>3, <3>4
  <2> QED BY <1>6, <2>1, <2>2 DEF GrownInFile
<1>7. IsEmpty(b) => refuted' # "no"
  BY DEF Grown, CtxPart, FileOK
<1>8. saved' = <<>>
  BY DEF CtxPart, FileOK
<1>9. FileOK'
  BY <1>3, <1>6, <1>7, <1>8 DEF FileOK, InFile
<1> QED BY <1>3, <1>4, <1>5, <1>9 DEF CtxStep, CtxPart, ModeStep, Answer, Checked

(* A variable that is not in the box enters it.                            *)
LEMMA AddGrows ==
  ASSUME CtxPart, NEW v \in Variable, ~Has(box, v)
  PROVE  /\ Grown(BoxAdd(box, v)) /\ Has(BoxAdd(box, v), v)
         /\ Index(BoxAdd(box, v), v) = Len(box.vars) + 1
         /\ v.nr \in {0, created + 1} => GrownInFile(BoxAdd(box, v))
         /\ \A w : Has(BoxAdd(box, v), w) => Has(box, w) \/ w = v
<1> DEFINE b == BoxAdd(box, v)
           n == Len(box.vars)
<1>1. /\ box \in Boxes(Variable) /\ IsBox(box)
      /\ n \in Nat /\ DOMAIN box.vars = 1 .. n
      /\ \A i \in 1 .. n : box.vars[i] \in Variable
      /\ (box.vars # <<>> <=> n > 0)
  BY BoxFacts DEF CtxPart, BoxesOK
<1>2. /\ b \in Boxes(Variable) /\ IsBox(b) /\ Len(b.vars) = n + 1
      /\ \A i \in 1 .. n : b.vars[i] = box.vars[i]
      /\ b.vars[n + 1] = v /\ (IsEmpty(b) => IsEmpty(box))
      /\ (box.vars # <<>> => \A i \in DOMAIN box.vals : b.vals[i] = box.vals[i])
  BY <1>1, BoxAddFacts
<1>3. /\ DOMAIN b.vars = 1 .. n + 1 /\ DOMAIN b.vals = 1 .. Len(b.vals)
      /\ Len(b.vals) = n + 1 /\ b.vars # <<>>
      /\ \A i, j \in DOMAIN b.vars : b.vars[i] = b.vars[j] => i = j
  <2> HIDE DEF b
  <2>1. /\ DOMAIN b.vars = 1 .. Len(b.vars) /\ Len(b.vals) = Len(b.vars)
        /\ DOMAIN b.vals = 1 .. Len(b.vals) /\ (b.vars # <<>> <=> Len(b.vars) > 0)
        /\ \A i, j \in DOMAIN b.vars : b.vars[i] = b.vars[j] => i = j
    <3>1. b \in Boxes(Variable) /\ IsBox(b) /\ Len(b.vars) # 0
      BY <1>1, <1>2
    <3>2. /\ DOMAIN b.vars = 1 .. Len(b.vars) /\ DOMAIN b.vals = 1 .. Len(b.vals)
          /\ b.vars # <<>> <=> Len(b.vars) > 0
      BY <3>1, BoxFacts
    <3>3. Len(b.vals) = IF Len(b.vars) = 0 THEN 1 ELSE Len(b.vars)
      BY <3>1, BoxFacts
    <3>4. \A i, j \in 1 .. Len(b.vars) : b.vars[i] = b.vars[j] => i = j
      BY <3>1, BoxFacts
    <3> QED BY <3>1, <3>2, <3>3, <3>4
  <2>2. n + 1 > 0
    BY <1>1
  <2> QED BY <1>2, <2>1, <2>2
<1> HIDE DEF b, n
<1>4. \A i \in 1 .. n + 1 : i \in 1 .. n \/ i = n + 1
  BY <1>1
<1>5. \A i \in 1 .. n : i \in 1 .. n + 1
  BY <1>1
<1>6. \A w : Has(b, w) => Has(box, w) \/ w = v
  BY <1>1, <1>2, <1>3, <1>4 DEF Has
<1>7. \A w : Has(box, w) => Has(b, w)
  BY <1>1, <1>2, <1>3, <1>5 DEF Has
<1>8. n + 1 \in DOMAIN b.vars
  BY <1>1, <1>3
<1>9. Index(b, v) = n + 1 /\ Has(b, v)
  BY <1>2, <1>3, <1>8, IndexIsUnique
<1>10. box.vars # <<>> /\ IsEmpty(box) => IsEmpty(b)
  <2> SUFFICES ASSUME box.vars # <<>>, NEW i \in DOMAIN box.vals, box.vals[i] = "empty"
               PROVE  IsEmpty(b)
    BY DEF IsEmpty
  <2>1. i \in 1 .. n
    BY <1>1, BoxFacts DEF n
  <2> QED BY <1>2, <1>3, <1>5, <2>1 DEF IsEmpty
<1>11. Grown(b)
  BY <1>2, <1>7 DEF Grown
<1>12. v.nr \in {0, created + 1} => GrownInFile(b)
  BY <1>3, <1>6, <1>10 DEF GrownInFile
<1> QED BY <1>6, <1>9, <1>11, <1>12 DEF b, n

LEMMA SameGrows == CtxPart => Grown(box) /\ GrownInFile(box)
BY DEF CtxPart, BoxesOK, Grown, GrownInFile

(* AddToBox.                                                               *)
LEMMA WithVarGrows ==
  ASSUME CtxPart, NEW v \in Variable
  PROVE  /\ Grown(WithVar(box, v)) /\ Has(WithVar(box, v), v)
         /\ v.nr \in {0, created + 1} => GrownInFile(WithVar(box, v))
         /\ \A w : Has(WithVar(box, v), w) => Has(box, w) \/ w = v
<1>1. CASE Has(box, v)
  BY <1>1, SameGrows DEF WithVar
<1>2. CASE ~Has(box, v)
  BY <1>2, AddGrows DEF WithVar
<1> QED BY <1>1, <1>2

(* AddToBox and SetDomain.  In a file the variable is new, and its         *)
(* interval the last: those that made the box empty stay.                  *)
LEMMA BoundedGrows ==
  ASSUME CtxPart, NEW v \in Variable
  PROVE  LET b == BoxSet(WithVar(box, v), v)
         IN  /\ Grown(b) /\ Has(b, v)
             /\ v.nr = created + 1 /\ ~Has(box, v) /\ stray = {} => GrownInFile(b)
             /\ \A w : Has(b, w) => Has(box, w) \/ w = v
<1> DEFINE a == WithVar(box, v)
           b == BoxSet(a, v)
<1>1. /\ Grown(a) /\ Has(a, v) /\ a \in Boxes(Variable) /\ IsBox(a)
      /\ \A w : Has(a, w) => Has(box, w) \/ w = v
  BY WithVarGrows DEF Grown
<1>2. /\ b \in Boxes(Variable) /\ IsBox(b) /\ b.vars = a.vars
      /\ (IsEmpty(b) => IsEmpty(a))
      /\ \A i \in DOMAIN a.vals : i # Place(a, v) => b.vals[i] = a.vals[i]
      /\ DOMAIN b.vals = DOMAIN a.vals
  <2>1. b = [a EXCEPT !.vals[Place(a, v)] = "bounded"]
    BY DEF BoxSet
  <2> HIDE DEF a, b
  <2> QED BY <1>1, <2>1, BoxSetFacts
<1> HIDE DEF b
<1>3. \A w : Has(b, w) <=> Has(a, w)
  BY <1>2 DEF Has
<1>4. Grown(b)
  BY <1>1, <1>2, <1>3 DEF Grown
<1>5. ASSUME v.nr = created + 1, ~Has(box, v), stray = {}  PROVE GrownInFile(b)
  <2>1. a = BoxAdd(box, v)
    BY <1>5 DEF WithVar
  <2>2. GrownInFile(a) /\ Place(a, v) = Len(box.vars) + 1
    BY <1>5, <2>1, AddGrows DEF Place
  <2>3. /\ box \in Boxes(Variable) /\ IsBox(box) /\ Len(box.vars) \in Nat
        /\ (box.vars # <<>> => DOMAIN box.vals = 1 .. Len(box.vars))
    BY BoxFacts DEF CtxPart, BoxesOK
  <2>4. box.vars # <<>> =>
          /\ \A i \in DOMAIN box.vals : a.vals[i] = box.vals[i]
          /\ DOMAIN a.vals = 1 .. Len(box.vars) + 1
    <3>1. /\ a.vars # <<>> => Len(a.vals) = Len(a.vars)
          /\ DOMAIN a.vals = 1 .. Len(a.vals)
      <4> HIDE DEF a
      <4> QED BY <1>1, BoxFacts
    <3>2. /\ Len(a.vars) = Len(box.vars) + 1
          /\ box.vars # <<>> => \A i \in DOMAIN box.vals : a.vals[i] = box.vals[i]
      BY <1>5, <2>1, <2>3, BoxAddFacts
    <3>3. a.vars # <<>>
      BY <2>3, <3>2, EmptySeq
    <3> HIDE DEF a
    <3> QED BY <3>1, <3>2, <3>3
  <2> HIDE DEF a
  <2>5. ASSUME box.vars # <<>>, NEW i \in DOMAIN box.vals, box.vals[i] = "empty"
        PROVE  IsEmpty(b)
    <3>1. i \in DOMAIN a.vals /\ i # Place(a, v)
      BY <2>2, <2>3, <2>4, <2>5
    <3>2. b.vals[i] = "empty" /\ i \in DOMAIN b.vals
      BY <1>2, <2>4, <2>5, <3>1
    <3> QED BY <3>2 DEF IsEmpty
  <2>6. box.vars # <<>> /\ IsEmpty(box) => b.vars # <<>> /\ IsEmpty(b)
    BY <1>2, <2>2, <2>5 DEF GrownInFile, IsEmpty
  <2>7. \A w : Has(b, w) => Has(box, w) \/ w.nr = 0 \/ w.nr = created + 1
    BY <1>3, <2>2 DEF GrownInFile
  <2> QED BY <2>6, <2>7 DEF GrownInFile
<1> QED BY <1>1, <1>3, <1>4, <1>5 DEF b

-----------------------------------------------------------------------------
(***************************************************************************)
(* The scopes.  What is nested in a scope stays as it is under what a      *)
(* command does to the context, and a frame changes together with the      *)
(* environment of its scope.                                               *)
(***************************************************************************)

(* The context of a command and of the one after it: nothing asserted is   *)
(* taken back, and only new variables enter the box.                       *)
Grows(S, r, c, b, S2, r2, c2, b2) ==
  /\ S \subseteq S2 /\ (r # "no" => r2 # "no")
  /\ c \in Nat /\ c2 \in Nat /\ c <= c2
  /\ \A v : Has(b2, v) => Has(b, v) \/ v.nr = 0 \/ v.nr > c

LEMMA LetStays ==
  ASSUME NEW f, NEW env, NEW S, NEW r, NEW S2, NEW r2,
         S \subseteq S2, r # "no" => r2 # "no", LetOK(f, env, S, r)
  PROVE  LetOK(f, env, S2, r2)
<1>1. \A v, m : BoundTo(v, m, S, r) => BoundTo(v, m, S2, r2)
  BY DEF BoundTo
<1> QED BY <1>1 DEF LetOK

LEMMA ForallStays ==
  ASSUME NEW f, NEW env, NEW c \in Nat, NEW b, NEW c2 \in Nat, NEW b2, c <= c2,
         \A v : Has(b2, v) => Has(b, v) \/ v.nr = 0 \/ v.nr > c, ForallOK(f, env, c, b)
  PROVE  ForallOK(f, env, c2, b2)
<1>1. ASSUME NEW v, v.nr \in 1 .. c, ~Has(b, v)  PROVE v.nr \in 1 .. c2 /\ ~Has(b2, v)
  <2>1. ~(v.nr = 0 \/ v.nr > c) /\ v.nr \in 1 .. c2
    BY <1>1
  <2> QED BY <1>1, <2>1
<1> QED BY <1>1 DEF ForallOK

LEMMA NestStays ==
  ASSUME NEW F, NEW E, NEW S, NEW r, NEW c, NEW b, NEW S2, NEW r2, NEW c2, NEW b2,
         Nested(F, E, S, r, c, b), Grows(S, r, c, b, S2, r2, c2, b2)
  PROVE  Nested(F, E, S2, r2, c2, b2)
<1>1. ASSUME NEW i \in DOMAIN F, F[i].kind = "let"  PROVE LetOK(F[i], E[i + 1], S2, r2)
  BY <1>1, LetStays DEF Nested, Grows
<1>2. ASSUME NEW i \in DOMAIN F, F[i].kind = "forall"  PROVE ForallOK(F[i], E[i + 1], c2, b2)
  <2>1. ForallOK(F[i], E[i + 1], c, b)
    BY <1>2 DEF Nested
  <2> QED BY <2>1, ForallStays DEF Grows
<1> QED BY <1>1, <1>2 DEF Nested

(* The innermost frame and the environment of its scope change.            *)
LEMMA NestTop ==
  ASSUME NEW F \in Seq(FrameSet), NEW E \in Seq([Name -> Variable]), F # <<>>,
         NEW S, NEW r, NEW c, NEW b, Nested(F, E, S, r, c, b),
         NEW f \in FrameSet, NEW env \in [Name -> Variable],
         f.outer = F[Len(F)].outer,
         f.kind = "let" => LetOK(f, env, S, r),
         f.kind = "forall" => ForallOK(f, env, c, b)
  PROVE  LET G == [F EXCEPT ![Len(F)] = f]
             D == [E EXCEPT ![Len(E)] = env]
         IN  /\ G \in Seq(FrameSet) /\ D \in Seq([Name -> Variable]) /\ D # <<>>
             /\ Nested(G, D, S, r, c, b)
<1> DEFINE n == Len(F)
           G == [F EXCEPT ![n] = f]
           D == [E EXCEPT ![Len(E)] = env]
<1>1. /\ n \in Nat \ {0} /\ DOMAIN F = 1 .. n
      /\ Len(E) \in Nat /\ DOMAIN E = 1 .. Len(E) /\ Len(E) = n + 1
  BY EmptySeq, LenProperties DEF Nested
<1>2. /\ G \in Seq(FrameSet) /\ Len(G) = n /\ DOMAIN G = 1 .. n
      /\ G[n] = f /\ \A i \in 1 .. n : i # n => G[i] = F[i]
  <2>1. n \in 1 .. Len(F)
    BY <1>1
  <2>2. G \in Seq(FrameSet) /\ Len(G) = n
    BY <2>1, ExceptSeq
  <2> QED BY <1>1, <2>1, <2>2
<1>3. /\ D \in Seq([Name -> Variable]) /\ Len(D) = n + 1
      /\ D[n + 1] = env /\ \A i \in 1 .. n : D[i] = E[i]
  <2>1. Len(E) \in 1 .. Len(E)
    BY <1>1
  <2>2. D \in Seq([Name -> Variable]) /\ Len(D) = Len(E)
    BY <2>1, ExceptSeq
  <2>3. \A i \in 1 .. n : i # Len(E) /\ i \in DOMAIN E
    BY <1>1
  <2> QED BY <1>1, <2>1, <2>2, <2>3
<1>4. D # <<>>
  BY <1>1, <1>3, EmptySeq
<1> HIDE DEF G, D
<1>5. ASSUME NEW i \in 1 .. n
      PROVE  /\ D[i] = G[i].outer
             /\ G[i].kind = "let"    => LetOK(G[i], D[i + 1], S, r)
             /\ G[i].kind = "forall" => ForallOK(G[i], D[i + 1], c, b)
  <2>1. CASE i = n
    BY <1>1, <1>2, <1>3, <2>1 DEF Nested, n
  <2>2. CASE i # n
    <3> HIDE DEF n
    <3>1. i + 1 \in 1 .. n
      BY <1>1, <2>2
    <3>2. G[i] = F[i] /\ D[i] = E[i] /\ D[i + 1] = E[i + 1]
      BY <1>2, <1>3, <2>2, <3>1
    <3> QED BY <1>1, <3>2 DEF Nested
  <2> QED BY <2>1, <2>2
<1>6. Nested(G, D, S, r, c, b)
  BY <1>2, <1>3, <1>5 DEF Nested
<1> QED BY <1>2, <1>3, <1>4, <1>6 DEF G, D, n

(* A scope is entered: it is like the one around it.                       *)
LEMMA NestPush ==
  ASSUME NEW F \in Seq(FrameSet), NEW E \in Seq([Name -> Variable]), E # <<>>,
         NEW S, NEW r, NEW c, NEW b, Nested(F, E, S, r, c, b),
         NEW f \in FrameSet, f.outer = E[Len(E)],
         f.kind = "let" => LetOK(f, f.outer, S, r),
         f.kind = "forall" => ForallOK(f, f.outer, c, b)
  PROVE  LET G == Append(F, f)
             D == Append(E, E[Len(E)])
         IN  /\ G \in Seq(FrameSet) /\ D \in Seq([Name -> Variable]) /\ D # <<>>
             /\ Nested(G, D, S, r, c, b)
<1> DEFINE n == Len(F)
           G == Append(F, f)
           D == Append(E, E[Len(E)])
<1>1. /\ n \in Nat /\ DOMAIN F = 1 .. n
      /\ Len(E) = n + 1 /\ E[Len(E)] \in [Name -> Variable]
  <2>1. n \in Nat /\ DOMAIN F = 1 .. n /\ Len(E) = n + 1
    BY LenProperties DEF Nested
  <2>2. Len(E) \in 1 .. Len(E)
    BY <2>1
  <2> QED BY <2>1, <2>2, ElementOfSeq
<1>2. /\ G \in Seq(FrameSet) /\ Len(G) = n + 1
      /\ G[n + 1] = f /\ \A i \in 1 .. n : G[i] = F[i]
  BY AppendProperties
<1>3. /\ D \in Seq([Name -> Variable]) /\ Len(D) = Len(E) + 1 /\ D # <<>>
      /\ D[Len(E) + 1] = f.outer /\ \A i \in 1 .. Len(E) : D[i] = E[i]
  BY <1>1, AppendProperties
<1>4. DOMAIN G = 1 .. n + 1
  BY <1>2, LenProperties
<1> HIDE DEF G, D
<1>5. ASSUME NEW i \in 1 .. n + 1
      PROVE  /\ D[i] = G[i].outer
             /\ G[i].kind = "let"    => LetOK(G[i], D[i + 1], S, r)
             /\ G[i].kind = "forall" => ForallOK(G[i], D[i + 1], c, b)
  <2>1. CASE i = n + 1
    BY <1>1, <1>2, <1>3, <2>1
  <2>2. CASE i # n + 1
    <3>1. i \in 1 .. n /\ i \in 1 .. Len(E) /\ i + 1 \in 1 .. Len(E)
      BY <1>1, <2>2
    <3>2. G[i] = F[i] /\ D[i] = E[i] /\ D[i + 1] = E[i + 1]
      BY <1>2, <1>3, <3>1
    <3> QED BY <1>1, <3>1, <3>2 DEF Nested
  <2> QED BY <2>1, <2>2
<1>6. Nested(G, D, S, r, c, b)
  BY <1>1, <1>2, <1>3, <1>4, <1>5 DEF Nested
<1> QED BY <1>2, <1>3, <1>6 DEF G, D

(* A scope is left.                                                        *)
LEMMA NestPop ==
  ASSUME NEW F \in Seq(FrameSet), NEW E \in Seq([Name -> Variable]), F # <<>>,
         NEW S, NEW r, NEW c, NEW b, Nested(F, E, S, r, c, b)
  PROVE  LET G == SubSeq(F, 1, Len(F) - 1)
             D == SubSeq(E, 1, Len(E) - 1)
         IN  /\ G \in Seq(FrameSet) /\ D \in Seq([Name -> Variable]) /\ D # <<>>
             /\ Nested(G, D, S, r, c, b)
<1> DEFINE n == Len(F)
           G == SubSeq(F, 1, n - 1)
           D == SubSeq(E, 1, Len(E) - 1)
<1>1. /\ n \in Nat \ {0} /\ DOMAIN F = 1 .. n
      /\ Len(E) = n + 1
  BY EmptySeq, LenProperties DEF Nested
<1>2. /\ G \in Seq(FrameSet) /\ Len(G) = n - 1
      /\ \A i \in 1 .. n - 1 : G[i] = F[i]
  <2>1. \A i \in 1 .. n - 1 : F[i] \in FrameSet
    BY <1>1, ElementOfSeq
  <2>2. n - 1 \in Int /\ (1 <= n - 1 \/ n - 1 = 0)
    BY <1>1
  <2>3. /\ G \in Seq(FrameSet) /\ Len(G) = IF 1 <= n - 1 THEN n - 1 - 1 + 1 ELSE 0
        /\ \A i \in 1 .. n - 1 - 1 + 1 : G[i] = F[1 + i - 1]
    BY <2>1, <2>2, SubSeqProperties
  <2> HIDE DEF G, n
  <2>4. n - 1 - 1 + 1 = n - 1 /\ \A i \in 1 .. n - 1 : 1 + i - 1 = i
    BY <1>1
  <2> QED BY <1>1, <2>2, <2>3, <2>4
<1>3. /\ D \in Seq([Name -> Variable]) /\ Len(D) = n
      /\ \A i \in 1 .. n : D[i] = E[i]
  <2>1. \A i \in 1 .. n : E[i] \in [Name -> Variable]
    BY <1>1, ElementOfSeq
  <2>2. Len(E) - 1 = n
    BY <1>1
  <2>3. /\ D \in Seq([Name -> Variable]) /\ Len(D) = IF 1 <= n THEN n - 1 + 1 ELSE 0
        /\ \A i \in 1 .. n - 1 + 1 : D[i] = E[1 + i - 1]
    BY <1>1, <2>1, <2>2, SubSeqProperties
  <2> HIDE DEF D
  <2> QED BY <1>1, <2>3
<1>4. DOMAIN G = 1 .. n - 1 /\ D # <<>>
  BY <1>1, <1>2, <1>3, LenProperties, EmptySeq
<1> HIDE DEF G, D, n
<1>5. ASSUME NEW i \in 1 .. n - 1
      PROVE  G[i] = F[i] /\ D[i] = E[i] /\ D[i + 1] = E[i + 1] /\ i \in DOMAIN F
  <2>1. i \in 1 .. n /\ i + 1 \in 1 .. n
    BY <1>1
  <2>2. D[i] = E[i] /\ D[i + 1] = E[i + 1]
    BY <1>3, <2>1
  <2> QED BY <1>1, <1>2, <2>1, <2>2
<1>6. Nested(G, D, S, r, c, b)
  <2>1. Len(D) = Len(G) + 1
    BY <1>1, <1>2, <1>3
  <2>2. ASSUME NEW i \in DOMAIN G
        PROVE  /\ D[i] = G[i].outer
               /\ G[i].kind = "let"    => LetOK(G[i], D[i + 1], S, r)
               /\ G[i].kind = "forall" => ForallOK(G[i], D[i + 1], c, b)
    <3>1. G[i] = F[i] /\ D[i] = E[i] /\ D[i + 1] = E[i + 1] /\ i \in DOMAIN F
      BY <1>4, <1>5
    <3> QED BY <3>1 DEF Nested
  <2> QED BY <2>1, <2>2 DEF Nested
<1> QED BY <1>2, <1>3, <1>4, <1>6 DEF G, D, n

(* The frame of a scope that has just been entered.                        *)
Opened(kind, phase, o) ==
  [kind |-> kind, phase |-> phase, list |-> <<>>, outer |-> o, done |-> {}]

LEMMA NewScope ==
  ASSUME NEW kind \in {"let", "forall"}, NEW phase \in {"bindings", "body"},
         kind = "let" <=> phase = "bindings", NEW o \in [Name -> Variable],
         NEW S, NEW r, NEW c, NEW b
  PROVE  LET f == Opened(kind, phase, o)
         IN  /\ f \in FrameSet /\ f.outer = o /\ f.kind = kind
             /\ f.kind = "let" => LetOK(f, o, S, r)
             /\ f.kind = "forall" => ForallOK(f, o, c, b)
<1> DEFINE f == Opened(kind, phase, o)
<1>1. /\ f.kind = kind /\ f.phase = phase /\ f.list = <<>> /\ f.outer = o /\ f.done = {}
      /\ <<>> \in Seq(LetBinding) /\ Len(<<>>) = 0 /\ DOMAIN <<>> = {}
  <2>1. <<>> \in Seq(LetBinding) /\ Len(<<>>) = 0 /\ DOMAIN <<>> = {}
    BY EmptySeq, LenProperties
  <2> QED BY <2>1 DEF Opened
<1> HIDE DEF f
<1>2. f \in FrameSet
  BY <1>1 DEF FrameSet, f, Opened
<1>3. ASSUME f.kind = "let"  PROVE LetOK(f, o, S, r)
  <2>1. f.done = 0 + 1 .. Len(f.list) /\ 0 \in 0 .. Len(f.list)
    BY <1>1
  <2>2. f.phase # "body"
    BY <1>1, <1>3
  <2> QED BY <1>1, <2>1, <2>2 DEF LetOK
<1>4. ASSUME f.kind = "forall"  PROVE ForallOK(f, o, c, b)
  BY <1>1, <1>4 DEF ForallOK, Bound
<1> QED BY <1>1, <1>2, <1>3, <1>4 DEF f

(* The list of a frame, longer by one binding.                             *)
LEMMA LongerList ==
  ASSUME NEW f \in FrameSet, NEW x \in LetBinding,
         NEW g, g = [f EXCEPT !.list = Append(@, x)]
  PROVE  /\ g \in FrameSet /\ g.outer = f.outer /\ g.kind = f.kind
         /\ g.phase = f.phase /\ g.done = f.done
         /\ Len(g.list) = Len(f.list) + 1 /\ Len(f.list) \in Nat
         /\ DOMAIN f.list = 1 .. Len(f.list)
         /\ DOMAIN g.list = 1 .. Len(f.list) + 1
         /\ g.list[Len(f.list) + 1] = x
         /\ \A i \in DOMAIN f.list : g.list[i] = f.list[i]
<1>1. f.list \in Seq(LetBinding) /\ Len(f.list) \in Nat /\ DOMAIN f.list = 1 .. Len(f.list)
  BY LenProperties DEF FrameSet
<1> DEFINE l == Append(f.list, x)
<1>2. /\ l \in Seq(LetBinding) /\ Len(l) = Len(f.list) + 1
      /\ \A i \in 1 .. Len(f.list) : l[i] = f.list[i]
      /\ l[Len(f.list) + 1] = x
  BY <1>1, AppendProperties
<1>3. DOMAIN l = 1 .. Len(f.list) + 1
  BY <1>2, LenProperties
<1> HIDE DEF l
<1>4. g = [f EXCEPT !.list = l]
  BY DEF l
<1>5. /\ g \in FrameSet /\ g.list = l /\ g.outer = f.outer /\ g.kind = f.kind
      /\ g.phase = f.phase /\ g.done = f.done
  BY <1>2, <1>4 DEF FrameSet
<1> QED BY <1>1, <1>2, <1>3, <1>5

(* While the bindings are parsed the scope is like the one around it.      *)
LEMMA LetListGrows ==
  ASSUME NEW f \in FrameSet, NEW env, NEW S, NEW r, LetOK(f, env, S, r), f.phase = "bindings",
         NEW x \in LetBinding, x.over \in {Constant, env[x.said]},
         NEW g, g = [f EXCEPT !.list = Append(@, x)]
  PROVE  LetOK(g, env, S, r)
<1>1. /\ g.outer = f.outer /\ g.phase = "bindings" /\ g.done = {} /\ f.done = {}
      /\ Len(g.list) = Len(f.list) + 1 /\ Len(f.list) \in Nat
      /\ DOMAIN f.list = 1 .. Len(f.list)
      /\ DOMAIN g.list = 1 .. Len(f.list) + 1
      /\ g.list[Len(f.list) + 1] = x
      /\ \A i \in DOMAIN f.list : g.list[i] = f.list[i]
  <2>1. f.done = {}
    BY DEF LetOK
  <2>2. /\ g.outer = f.outer /\ g.phase = f.phase /\ g.done = f.done
        /\ Len(g.list) = Len(f.list) + 1 /\ Len(f.list) \in Nat
        /\ DOMAIN f.list = 1 .. Len(f.list)
        /\ DOMAIN g.list = 1 .. Len(f.list) + 1
        /\ g.list[Len(f.list) + 1] = x
        /\ \A i \in DOMAIN f.list : g.list[i] = f.list[i]
    BY LongerList
  <2> QED BY <2>1, <2>2
<1>2. \A n \in Name : env[n] = f.outer[n]
  BY <1>1 DEF LetOK
<1>3. x.said \in Name
  BY DEF LetBinding
<1>4. \A i \in DOMAIN g.list : g.list[i].over \in {Constant, g.outer[g.list[i].said]}
  <2> SUFFICES ASSUME NEW i \in DOMAIN g.list
               PROVE  g.list[i].over \in {Constant, g.outer[g.list[i].said]}
    OBVIOUS
  <2>1. CASE i = Len(f.list) + 1
    BY <1>1, <1>2, <1>3, <2>1
  <2>2. CASE i # Len(f.list) + 1
    <3>1. i \in DOMAIN f.list
      BY <1>1, <2>2
    <3> QED BY <1>1, <3>1 DEF LetOK
  <2> QED BY <2>1, <2>2
<1>5. /\ Len(g.list) \in 0 .. Len(g.list)
      /\ g.done = Len(g.list) + 1 .. Len(g.list)
  <2>1. Len(g.list) \in Nat
    BY <1>1
  <2>2. \A k \in Nat : k \in 0 .. k /\ k + 1 .. k = {}
    OBVIOUS
  <2> QED BY <1>1, <2>1, <2>2
<1> QED BY <1>1, <1>2, <1>4, <1>5 DEF LetOK

(* What is left to bind.                                                   *)
LEMMA DoneFacts ==
  ASSUME NEW f \in FrameSet, NEW env, NEW S, NEW r, LetOK(f, env, S, r)
  PROVE  LET p == Len(f.list) - Cardinality(f.done)
         IN  p \in 0 .. Len(f.list) /\ f.done = p + 1 .. Len(f.list)
<1>1. Len(f.list) \in Nat
  BY LenProperties DEF FrameSet
<1>2. PICK p \in 0 .. Len(f.list) : f.done = p + 1 .. Len(f.list)
  BY DEF LetOK
<1>3. p \in Nat /\ p + 1 \in Int /\ Len(f.list) \in Int
  BY <1>1, <1>2
<1>4. Cardinality(p + 1 .. Len(f.list)) =
        IF p + 1 > Len(f.list) THEN 0 ELSE Len(f.list) - (p + 1) + 1
  BY <1>3, FS_Interval
<1>5. Len(f.list) - Cardinality(f.done) = p
  BY <1>1, <1>2, <1>3, <1>4
<1> QED BY <1>2, <1>5

LEMMA LetEndsBindings ==
  ASSUME NEW f \in FrameSet, NEW env, NEW S, NEW r, LetOK(f, env, S, r),
         NEW phase \in {"binding", "body"},
         phase = "body" => Cardinality(f.done) = Len(f.list),
         NEW g, g = [f EXCEPT !.phase = phase]
  PROVE  g \in FrameSet /\ g.outer = f.outer /\ g.kind = f.kind /\ LetOK(g, env, S, r)
<1>1. /\ g \in FrameSet /\ g.outer = f.outer /\ g.kind = f.kind /\ g.list = f.list
      /\ g.done = f.done /\ g.phase = phase
  BY DEF FrameSet
<1>2. phase = "body" => f.done = 1 .. Len(f.list)
  <2> SUFFICES ASSUME phase = "body"  PROVE f.done = 1 .. Len(f.list)
    OBVIOUS
  <2>1. Len(f.list) \in Nat
    BY LenProperties DEF FrameSet
  <2>2. Len(f.list) - Cardinality(f.done) = 0
    BY <2>1
  <2>3. f.done = 0 + 1 .. Len(f.list)
    BY <2>2, DoneFacts
  <2> QED BY <2>3
<1> QED BY <1>1, <1>2 DEF LetOK

(* One more binding of the list, from its end, is bound.                   *)
BindsNext(f, env, S, r, p, v, g, e, S2, r2) ==
  /\ f \in FrameSet /\ env \in [Name -> Variable] /\ v \in Variable
  /\ LetOK(f, env, S, r) /\ f.phase = "binding" /\ Cardinality(f.done) < Len(f.list)
  /\ S \subseteq S2 /\ (r # "no" => r2 # "no")
  /\ p = Len(f.list) - Cardinality(f.done)
  /\ BoundTo(v, f.list[p].over, S2, r2)
  /\ g = [f EXCEPT !.done = @ \cup {p}]
  /\ e = [env EXCEPT ![f.list[p].name] = v]

LEMMA LetBinds ==
  ASSUME NEW f, NEW env, NEW S, NEW r, NEW p, NEW v, NEW g, NEW e,
         NEW S2, NEW r2,
         BindsNext(f, env, S, r, p, v, g, e, S2, r2)
  PROVE  /\ p \in DOMAIN f.list /\ f.list[p] \in LetBinding
         /\ g \in FrameSet /\ g.outer = f.outer /\ g.kind = f.kind
         /\ e \in [Name -> Variable] /\ LetOK(g, e, S2, r2)
<1> DEFINE n == f.list[p].name
<1> USE DEF BindsNext
<1>1. Len(f.list) \in Nat /\ DOMAIN f.list = 1 .. Len(f.list) /\ f.list \in Seq(LetBinding)
  BY LenProperties DEF FrameSet
<1>2. p \in 0 .. Len(f.list) /\ f.done = p + 1 .. Len(f.list)
  BY DoneFacts
<1>3. p \in 1 .. Len(f.list)
  <2>1. p = 0 => f.done = 1 .. Len(f.list)
    BY <1>2
  <2>2. Cardinality(1 .. Len(f.list)) = Len(f.list)
    <3>1. Cardinality(1 .. Len(f.list)) = IF 1 > Len(f.list) THEN 0 ELSE Len(f.list) - 1 + 1
      <4>1. 1 \in Int /\ Len(f.list) \in Int
        BY <1>1
      <4> QED BY <4>1, FS_Interval
    <3> QED BY <1>1, <3>1
  <2>3. p # 0
    BY <1>1, <2>1, <2>2
  <2> QED BY <1>1, <1>2, <2>3
<1>4. f.list[p] \in LetBinding /\ n \in Name
  <2>1. f.list[p] \in LetBinding
    BY <1>1, <1>3, ElementOfSeq
  <2> QED BY <2>1 DEF LetBinding
<1>5. /\ g \in FrameSet /\ g.outer = f.outer /\ g.kind = f.kind /\ g.list = f.list
      /\ g.phase = f.phase /\ g.done = f.done \cup {p}
  <2>1. f.done \cup {p} \in SUBSET Nat
    BY <1>3 DEF FrameSet
  <2> QED BY <2>1 DEF FrameSet
<1>6. e \in [Name -> Variable] /\ e[n] = v /\ \A m \in Name : m # n => e[m] = env[m]
  BY <1>4
<1>7. p - 1 \in 0 .. Len(g.list) /\ g.done = p - 1 + 1 .. Len(g.list)
  <2>1. p + 1 .. Len(f.list) \cup {p} = p .. Len(f.list)
    BY <1>1, <1>3
  <2>2. p - 1 + 1 = p /\ p - 1 \in 0 .. Len(f.list)
    BY <1>1, <1>3
  <2> QED BY <1>2, <1>5, <2>1, <2>2
<1>8. ASSUME NEW i \in g.done, \A j \in g.done : j < i => g.list[j].name # g.list[i].name
      PROVE  BoundTo(e[g.list[i].name], g.list[i].over, S2, r2)
  <2>1. CASE i = p
    BY <1>5, <1>6, <2>1
  <2>2. CASE i # p
    <3>1. i \in f.done /\ p < i /\ p \in g.done
      <4>1. i \in f.done /\ p \in g.done
        BY <1>5, <1>8, <2>2
      <4>2. i \in p + 1 .. Len(f.list)
        BY <1>2, <4>1
      <4> QED BY <1>3, <4>1, <4>2
    <3>2. f.list[i].name # n
      BY <1>5, <1>8, <3>1
    <3>3. f.list[i].name \in Name
      <4>1. i \in 1 .. Len(f.list)
        BY <1>1, <1>2, <1>3, <3>1
      <4>2. f.list[i] \in LetBinding
        BY <1>1, <4>1, ElementOfSeq
      <4> QED BY <4>2 DEF LetBinding
    <3>4. BoundTo(env[f.list[i].name], f.list[i].over, S, r)
      BY <1>5, <1>8, <3>1 DEF LetOK
    <3>5. e[f.list[i].name] = env[f.list[i].name]
      BY <1>6, <3>2, <3>3
    <3> HIDE DEF n
    <3>6. BoundTo(e[f.list[i].name], f.list[i].over, S2, r2)
      BY <3>4, <3>5 DEF BoundTo
    <3> QED BY <1>5, <3>6
  <2> QED BY <2>1, <2>2
<1>9. ASSUME NEW m \in Name, \A i \in g.done : g.list[i].name # m
      PROVE  e[m] = g.outer[m]
  <2>1. m # n /\ \A i \in f.done : f.list[i].name # m
    BY <1>5, <1>9
  <2> QED BY <1>5, <1>6, <2>1 DEF LetOK
<1>10. \A i \in DOMAIN g.list : g.list[i].over \in {Constant, g.outer[g.list[i].said]}
  BY <1>5 DEF LetOK
<1>11. g.phase = "binding"
  BY <1>5
<1> HIDE DEF n
<1>12. LetOK(g, e, S2, r2)
  BY <1>7, <1>8, <1>9, <1>10, <1>11 DEF LetOK
<1> QED BY <1>1, <1>3, <1>4, <1>5, <1>6, <1>12

(* A quantified variable is new.                                           *)
LEMMA ForallBinds ==
  ASSUME NEW f \in FrameSet, NEW env \in [Name -> Variable], NEW c \in Nat, NEW b,
         ForallOK(f, env, c, b),
         NEW n \in Name, NEW v \in Variable, v.name = n, v.nr = c + 1, ~Has(b, v),
         NEW g, g = [f EXCEPT !.list = Append(@, [name |-> n, over |-> v, said |-> n])]
  PROVE  ForallOK(g, [env EXCEPT ![n] = v], c + 1, b)
<1> DEFINE x == [name |-> n, over |-> v, said |-> n]
           e == [env EXCEPT ![n] = v]
<1>1. x \in LetBinding /\ x.name = n
  BY DEF LetBinding
<1> HIDE DEF x
<1>2. g = [f EXCEPT !.list = Append(@, x)]
  BY DEF x
<1>3. /\ g.outer = f.outer /\ g.phase = f.phase /\ Len(f.list) \in Nat
      /\ DOMAIN f.list = 1 .. Len(f.list)
      /\ DOMAIN g.list = 1 .. Len(f.list) + 1
      /\ g.list[Len(f.list) + 1] = x
      /\ \A i \in DOMAIN f.list : g.list[i] = f.list[i]
  BY <1>1, <1>2, LongerList
<1>4. \A i \in 1 .. Len(f.list) + 1 : i \in 1 .. Len(f.list) \/ i = Len(f.list) + 1
  BY <1>3
<1>5. Len(f.list) + 1 \in 1 .. Len(f.list) + 1 /\ \A i \in 1 .. Len(f.list) : i \in 1 .. Len(f.list) + 1
  BY <1>3
<1>6. \A m : m \in Bound(g) <=> m \in Bound(f) \/ m = n
  BY <1>1, <1>3, <1>4, <1>5, Z3T(30) DEF Bound
<1>7. e[n] = v /\ \A m \in Name : m # n => e[m] = env[m]
  OBVIOUS
<1> HIDE DEF e
<1>8. v.nr \in 1 .. c + 1 /\ \A k \in 1 .. c : k \in 1 .. c + 1
  OBVIOUS
<1>9. ASSUME NEW m \in Name
      PROVE  IF m \in Bound(g)
             THEN e[m].name = m /\ e[m].nr \in 1 .. c + 1 /\ ~Has(b, e[m])
             ELSE e[m] = g.outer[m]
  <2>1. CASE m = n
    BY <1>6, <1>7, <1>8, <2>1
  <2>2. CASE m # n
    BY <1>3, <1>6, <1>7, <1>8, <2>2 DEF ForallOK
  <2> QED BY <2>1, <2>2
<1> QED BY <1>3, <1>9 DEF ForallOK, e

-----------------------------------------------------------------------------
(* What a command does, seen from the scopes.                              *)
GrowsStep == Grows(stack, refuted, created, box, stack', refuted', created', box')

LEMMA ScopesKept ==
  ASSUME ScopePart, UNCHANGED <<envs, frames>>, InFile' => InFile /\ GrowsStep
  PROVE  ScopePart'
<1>1. ASSUME InFile'  PROVE Nested(frames', envs', stack', refuted', created', box')
  <2>1. Nested(frames, envs, stack, refuted, created, box)
    BY <1>1 DEF ScopePart, ScopesNest, InFile
  <2>2. Nested(frames, envs, stack', refuted', created', box')
    BY <1>1, <2>1, NestStays DEF GrowsStep
  <2> QED BY <2>2
<1> QED BY <1>1 DEF ScopePart, ScopesNest, InFile

(* Outside every let and forall a command changes what a name denotes.     *)
LEMMA TopScope ==
  ASSUME ScopePart, frames = <<>>, frames' = frames, NEW e \in [Name -> Variable], SetTop(e),
         InFile' => InFile
  PROVE  ScopePart'
<1> DEFINE D == [envs EXCEPT ![Len(envs)] = e]
<1>1. /\ envs \in Seq([Name -> Variable]) /\ Len(envs) \in Nat \ {0} /\ Len(<<>>) = 0
      /\ DOMAIN <<>> = {}
  <2>1. <<>> \in Seq(FrameSet) /\ Len(<<>>) = 0
    BY EmptySeq
  <2>2. DOMAIN <<>> = {}
    BY <2>1, LenProperties
  <2> QED BY <2>1, <2>2, EmptySeq DEF ScopePart
<1>2. Len(envs) \in 1 .. Len(envs)
  BY <1>1
<1>3. D \in Seq([Name -> Variable]) /\ Len(D) = Len(envs)
  BY <1>1, <1>2, ExceptSeq
<1>4. D # <<>> /\ envs' = D
  BY <1>1, <1>3 DEF SetTop
<1> HIDE DEF D
<1>5. ASSUME InFile'  PROVE Nested(frames', envs', stack', refuted', created', box')
  <2>1. Len(envs) = Len(frames) + 1
    BY <1>5 DEF ScopePart, ScopesNest, InFile, Nested
  <2> QED BY <1>1, <1>3, <1>4, <2>1 DEF Nested
<1> QED BY <1>3, <1>4, <1>5 DEF ScopePart, ScopesNest, InFile

(* The innermost frame changes, and what names denote in it.               *)
LEMMA FrameScope ==
  ASSUME ScopePart, Parsing, NEW f \in FrameSet, NEW env \in [Name -> Variable],
         InFrame(f), SetTop(env), GrowsStep, f.outer = Frame.outer,
         f.kind = "let" => LetOK(f, env, stack', refuted'),
         f.kind = "forall" => ForallOK(f, env, created', box')
  PROVE  ScopePart'
<1>1. /\ frames \in Seq(FrameSet) /\ envs \in Seq([Name -> Variable]) /\ frames # <<>>
      /\ Nested(frames, envs, stack, refuted, created, box)
  BY DEF ScopePart, ScopesNest, Parsing
<1>2. Nested(frames, envs, stack', refuted', created', box')
  BY <1>1, NestStays DEF GrowsStep
<1> DEFINE G == [frames EXCEPT ![Len(frames)] = f]
           D == [envs EXCEPT ![Len(envs)] = env]
<1>3. f.outer = frames[Len(frames)].outer
  BY DEF Frame
<1>4. /\ G \in Seq(FrameSet) /\ D \in Seq([Name -> Variable]) /\ D # <<>>
      /\ Nested(G, D, stack', refuted', created', box')
  BY <1>1, <1>2, <1>3, NestTop
<1>5. frames' = G /\ envs' = D
  BY DEF InFrame, SetTop
<1> HIDE DEF G, D
<1> QED BY <1>4, <1>5 DEF ScopePart, ScopesNest

(* The innermost frame, in a file.                                         *)
LEMMA FrameFacts ==
  ASSUME ScopePart, Parsing
  PROVE  /\ Frame \in FrameSet /\ Top \in [Name -> Variable]
         /\ envs = [envs EXCEPT ![Len(envs)] = Top]
         /\ Frame.kind = "let" => LetOK(Frame, Top, stack, refuted)
         /\ Frame.kind = "forall" => ForallOK(Frame, Top, created, box)
<1>1. /\ frames \in Seq(FrameSet) /\ envs \in Seq([Name -> Variable]) /\ frames # <<>>
      /\ Nested(frames, envs, stack, refuted, created, box)
  BY DEF ScopePart, ScopesNest, Parsing
<1>2. /\ Len(frames) \in Nat \ {0} /\ Len(frames) \in DOMAIN frames
      /\ Len(envs) \in Nat /\ Len(envs) = Len(frames) + 1
  BY <1>1, EmptySeq, LenProperties DEF Nested
<1>3. Len(frames) \in 1 .. Len(frames) /\ Len(envs) \in 1 .. Len(envs)
  BY <1>2
<1>4. Frame \in FrameSet /\ Top \in [Name -> Variable]
  BY <1>1, <1>3, ElementOfSeq DEF Frame, Top
<1>5. envs = [envs EXCEPT ![Len(envs)] = Top]
  <2>1. envs \in [1 .. Len(envs) -> [Name -> Variable]]
    BY <1>1, LenProperties
  <2> QED BY <2>1 DEF Top
<1> QED BY <1>1, <1>2, <1>4, <1>5 DEF Nested, Frame, Top

(* What the outermost environment denotes outside every let and forall.    *)
LEMMA TopIsEnv == ScopePart => Top \in [Name -> Variable]
<1> SUFFICES ASSUME ScopePart  PROVE Top \in [Name -> Variable]
  OBVIOUS
<1>1. envs \in Seq([Name -> Variable]) /\ Len(envs) \in Nat \ {0}
  BY EmptySeq DEF ScopePart
<1>2. Len(envs) \in 1 .. Len(envs)
  BY <1>1
<1> QED BY <1>1, <1>2, ElementOfSeq DEF Top

(* A number that is not yet used.                                          *)
LEMMA Fresh ==
  ASSUME CtxPart, InFile, NEW v, v.nr = created + 1
  PROVE  ~Has(box, v)
<1>1. created \in Nat /\ \A i \in DOMAIN box.vars : box.vars[i].nr <= created
  BY DEF CtxPart, FileOK, InFile
<1>2. ~(created + 1 <= created)
  BY <1>1
<1> QED BY <1>1, <1>2 DEF Has

-----------------------------------------------------------------------------
(* Commands that change the context.                                       *)

LEMMA SameGrowsStep ==
  ASSUME CtxPart, ModeStep, stack \subseteq stack', refuted # "no" => refuted' # "no",
         \A v : Has(box', v) => Has(box, v) \/ v.nr = 0 \/ v.nr = created + 1
  PROVE  GrowsStep
<1>1. created \in Nat /\ created + 1 > created
  BY DEF CtxPart
<1> QED BY <1>1 DEF GrowsStep, Grows, ModeStep

LEMMA ThrowsStep ==
  ASSUME CtxPart, ModeStep, Throws
  PROVE  CtxStep /\ GrowsStep
<1>1. /\ answer' = "throws" /\ found' = NewBox
      /\ UNCHANGED <<box, model, shared, modelVars, stray, objective, stack, saved, refuted>>
  BY DEF Throws, Says
<1>2. CtxStep
  BY <1>1, QuietStep DEF CtxPart
<1>3. GrowsStep
  BY <1>1, SameGrowsStep
<1> QED BY <1>2, <1>3

LEMMA DeclareStep ==
  ASSUME CtxPart, NEW v \in Variable, NEW bounds \in Bounds, Declare(v, bounds), ModeStep,
         v.nr \in {0, created + 1}, v.nr <= created',
         InFile' => v.nr = created + 1 /\ ~Has(box, v)
  PROVE  CtxStep /\ GrowsStep
<1>1. CASE v.sort = "Int"
  BY <1>1, ThrowsStep DEF Declare
<1>2. CASE v.sort # "Int"
  <2> DEFINE b == Declared(v, bounds)
  <2>1. /\ answer' = (IF bounds = "faulty" THEN "throws" ELSE "none") /\ found' = NewBox
        /\ ChangeBox(b) /\ modelVars' = modelVars \cup {v}
        /\ UNCHANGED <<stray, objective, stack, saved, refuted>>
    BY <1>2 DEF Declare, Says
  <2>2. /\ Grown(b) /\ Has(b, v)
        /\ InFile' => GrownInFile(b)
        /\ \A w : Has(b, w) => Has(box, w) \/ w = v
    <3>1. CASE bounds = "given"
      <4>1. InFile' => stray = {}
        BY DEF CtxPart, FileOK, ModeStep, InFile
      <4> QED BY <3>1, <4>1, BoundedGrows DEF Declared
    <3>2. CASE bounds # "given"
      BY <3>2, WithVarGrows DEF Declared
    <3> QED BY <3>1, <3>2
  <2>8. bounds = "faulty" => b = WithVar(box, v)
    BY DEF Declared
  <2> HIDE DEF b
  <2>3. \A w : Has(b, w) => Has(box, w) \/ w.nr = 0 \/ w.nr <= created'
    BY <2>2
  <2>4. modelVars' \subseteq Variable /\ \A w \in modelVars' : Has(b, w)
    BY <2>1, <2>2 DEF CtxPart, BoxesOK, Grown
  <2>6. box' = b
    BY <2>1 DEF ChangeBox
  <2>9. answer' = "throws" => ThrownCleanly
    BY <2>1, <2>6, <2>8 DEF ThrownCleanly
  <2>5. CtxStep
    <3>1. stray' \subseteq Variable
      BY <2>1 DEF CtxPart
    <3> QED BY <2>1, <2>2, <2>3, <2>4, <2>9, <3>1, GrowStep
  <2>7. GrowsStep
    BY <2>1, <2>2, <2>6, SameGrowsStep
  <2> QED BY <2>5, <2>7
<1> QED BY <1>1, <1>2

(* An assertion, when the box has become b, or c with the variable of an   *)
(* if-then-else.                                                           *)
LEMMA AssertStep ==
  ASSUME CtxPart, ModeStep, NEW b, NEW f, NEW ites \in BOOLEAN, AssertIn(b, f, ites),
         NEW c, c = IF ites THEN WithVar(b, ITEVar) ELSE b,
         Grown(b), GrownInFile(b), Grown(c), GrownInFile(c),
         modelVars' \subseteq Variable,
         \A v \in modelVars' : Has(b, v), \A v \in modelVars' : Has(c, v),
         \A v : Has(b, v) => Has(box, v) \/ v.nr = 0 \/ v.nr <= created',
         \A v : Has(c, v) => Has(box, v) \/ v.nr = 0 \/ v.nr <= created',
         UNCHANGED <<stray, objective, saved, refuted>>
  PROVE  CtxStep /\ GrowsStep /\ (f \in stack' \/ refuted' # "no")
<1>3. stray' \subseteq Variable
  BY DEF CtxPart
<1>1. CASE IsEmpty(b)
  <2>1. answer' = "none" /\ found' = NewBox /\ ChangeBox(b) /\ stack' = stack
    BY <1>1 DEF AssertIn, Says
  <2>2. CtxStep
    BY <1>3, <2>1, GrowStep
  <2>3. refuted' # "no"
    BY <1>1 DEF Grown, CtxPart, FileOK
  <2>4. box' = b
    BY <2>1 DEF ChangeBox
  <2>5. GrowsStep
    BY <2>1, <2>4, SameGrowsStep DEF GrownInFile
  <2> QED BY <2>2, <2>3, <2>5
<1>2. CASE ~IsEmpty(b)
  <2>1. /\ answer' \in {"none", "rejected"} /\ found' = NewBox /\ ChangeBox(c)
        /\ stack' = stack \cup {f}
    BY <1>2 DEF AssertIn, Says
  <2>2. CtxStep
    BY <1>3, <2>1, GrowStep
  <2>3. box' = c
    BY <2>1 DEF ChangeBox
  <2>4. GrowsStep
    BY <2>1, <2>3, SameGrowsStep DEF GrownInFile
  <2> QED BY <2>1, <2>2, <2>4
<1> QED BY <1>1, <1>2

(* A variable that is defined: a define-fun, or a binding of a let.        *)
LEMMA DefineStep ==
  ASSUME CtxPart, InFile, ModeStep, created' = created + 1,
         NEW v \in Variable, v.nr = created + 1, NEW m,
         AssertIn(BoxAdd(box, v), [def |-> v, over |-> m], FALSE),
         modelVars' \in {modelVars, modelVars \cup {v}}, UNCHANGED <<stray, objective, saved, refuted>>
  PROVE  CtxStep /\ GrowsStep /\ ([def |-> v, over |-> m] \in stack' \/ refuted' # "no")
<1> DEFINE b == BoxAdd(box, v)
<1>1. ~Has(box, v)
  BY Fresh
<1>2. /\ Grown(b) /\ Has(b, v) /\ GrownInFile(b)
      /\ \A w : Has(b, w) => Has(box, w) \/ w = v
  BY <1>1, AddGrows
<1> HIDE DEF b
<1>3. modelVars' \subseteq Variable /\ \A w \in modelVars' : Has(b, w)
  BY <1>2 DEF CtxPart, BoxesOK, Grown
<1>4. v.nr <= created'
  BY DEF CtxPart
<1>5. \A w : Has(b, w) => Has(box, w) \/ w.nr = 0 \/ w.nr <= created'
  BY <1>2, <1>4
<1>6. AssertIn(b, [def |-> v, over |-> m], FALSE) /\ b = IF FALSE THEN WithVar(b, ITEVar) ELSE b
  BY DEF b
<1> QED BY <1>2, <1>3, <1>5, <1>6, AssertStep

(* A step that leaves the context alone.                                   *)
LEMMA SameContext ==
  ASSUME CtxPart, ModeStep, UNCHANGED cvars
  PROVE  CtxStep /\ GrowsStep
<1> USE DEF cvars
<1>1. ShownModel' = ShownModel
  BY DEF ShownModel
<1>2. BoxesOK(Variable)' /\ ModelComplete' /\ found' \in Boxes(Variable)
  BY <1>1 DEF CtxPart, BoxesOK, ModelComplete
<1>3. FileOK'
  <2>1. InFile' => /\ \A i \in DOMAIN box'.vars : box'.vars[i].nr <= created'
                   /\ refuted' = "late" => box'.vars # <<>> /\ IsEmpty(box') /\ answer' # "sat"
                   /\ stray' = {}
    <3> SUFFICES ASSUME InFile'
                 PROVE  /\ \A i \in DOMAIN box.vars : box.vars[i].nr <= created'
                        /\ refuted = "late" => box.vars # <<>> /\ IsEmpty(box) /\ answer # "sat"
                        /\ stray = {}
      OBVIOUS
    <3>1. /\ \A i \in DOMAIN box.vars : box.vars[i].nr <= created
          /\ refuted = "late" => box.vars # <<>> /\ IsEmpty(box) /\ answer # "sat"
          /\ stray = {}
      BY DEF CtxPart, FileOK, ModeStep, InFile
    <3>2. \A i \in DOMAIN box.vars : box.vars[i].nr \in Nat
      <4>1. \A i \in DOMAIN box.vars : box.vars[i] \in Variable
        BY BoxFacts DEF CtxPart, BoxesOK
      <4> QED BY <4>1 DEF Variable
    <3>3. \A i \in DOMAIN box.vars : box.vars[i].nr <= created'
      BY <3>1, <3>2 DEF ModeStep, CtxPart
    <3> QED BY <3>1, <3>3
  <2> QED BY <2>1 DEF CtxPart, FileOK, InFile
<1>4. CtxStep
  BY <1>1, <1>2, <1>3 DEF CtxStep, CtxPart, ModeStep, ThrownCleanly
<1>5. GrowsStep
  BY SameGrowsStep
<1> QED BY <1>4, <1>5

(* A step of the parser: nothing is declared or asserted.                  *)
LEMMA ParserStep ==
  ASSUME CtxPart, ModeStep, Says("none"),
         UNCHANGED <<box, model, shared, modelVars, stray, objective, stack, saved, refuted>>
  PROVE  CtxStep /\ GrowsStep
<1>1. answer' = "none" /\ found' = NewBox
  BY DEF Says
<1>2. CtxStep
  BY <1>1, QuietStep DEF CtxPart
<1>3. GrowsStep
  BY SameGrowsStep
<1> QED BY <1>2, <1>3

LEMMA CheckStep ==
  ASSUME CtxPart, ModeStep, CheckSat \/ CheckOpt, created' = created
  PROVE  CtxStep /\ GrowsStep
<1>1. /\ BoxesOK(Variable)' /\ ModelComplete' /\ found' \in Boxes(Variable)
      /\ answer' \in Checked \cup {"throws"}
      /\ answer' = "sat" => ~IsEmpty(box)
      /\ answer' = "throws" => UNCHANGED <<model, shared>>
  <2>1. BoxesOK(Variable)
    BY DEF CtxPart
  <2>2. CASE CheckSat
    BY <2>1, <2>2, CheckSatModel DEF Checked
  <2>3. CASE CheckOpt
    BY <2>1, <2>3, CheckOptModel, NewBoxIsBox DEF Checked
  <2> QED BY <2>2, <2>3
<1>2. UNCHANGED <<box, modelVars, stray, objective, stack, saved, refuted>>
  BY DEF CheckSat, CheckOpt
<1>3. answer' = "throws" => ShownModel' = ShownModel
  BY <1>1, <1>2 DEF ShownModel
<1>4. FileOK'
  <2>1. IsEmpty(box') <=> IsEmpty(box)
    BY <1>2
  <2> QED BY <1>1, <1>2, <2>1 DEF CtxPart, FileOK, ModeStep, InFile
<1>5. answer' \in Answer /\ (answer' = "throws" => ThrownCleanly)
  BY <1>1, <1>2 DEF Answer, Checked, ThrownCleanly
<1>6. CtxStep
  BY <1>1, <1>2, <1>3, <1>4, <1>5 DEF CtxStep, CtxPart, ModeStep
<1>7. GrowsStep
  BY <1>2, SameGrowsStep
<1> QED BY <1>6, <1>7

(* The variables stay, with empty intervals.                               *)
LEMMA AssertFalseStep ==
  ASSUME CtxPart, AssertFalse, UNCHANGED <<mode, created>>
  PROVE  CtxStep /\ GrowsStep
<1>1. /\ answer' = "none" /\ found' = NewBox /\ box' = SetEmpty(box)
      /\ refuted' = IF refuted = "no" THEN (IF box.vars = <<>> THEN "early" ELSE "late") ELSE refuted
      /\ UNCHANGED <<model, shared, modelVars, stray, objective, stack, saved>>
  BY DEF AssertFalse, Says
<1>2. /\ box \in Boxes(Variable) /\ IsBox(box)
      /\ SetEmpty(box) \in Boxes(Variable) /\ IsBox(SetEmpty(box))
      /\ SetEmpty(box).vars = box.vars /\ IsEmpty(SetEmpty(box))
  BY SetEmptyFacts DEF CtxPart, BoxesOK
<1>3. box' \in Boxes(Variable) /\ IsBox(box') /\ box'.vars = box.vars /\ IsEmpty(box')
  BY <1>1, <1>2
<1>4. ShownModel' = ShownModel
  BY <1>1, <1>3 DEF ShownModel
<1>5. \A v : Has(box', v) <=> Has(box, v)
  BY <1>3 DEF Has
<1>6. BoxesOK(Variable)'
  BY <1>1, <1>3, <1>4, <1>5 DEF CtxPart, BoxesOK
<1>7. ModelComplete' /\ found' \in Boxes(Variable)
  BY <1>1, NewBoxIsBox DEF ModelComplete
<1>8. /\ refuted' \in {"early", "late"}
      /\ InFile /\ refuted' = "late" => box.vars # <<>>
  BY <1>1 DEF CtxPart, FileOK, InFile
<1>9. FileOK'
  BY <1>1, <1>3, <1>8 DEF CtxPart, FileOK, InFile
<1>10. CtxStep
  BY <1>1, <1>4, <1>6, <1>7, <1>8, <1>9 DEF CtxStep, CtxPart, Answer
<1>11. ModeStep
  BY DEF ModeStep, CtxPart, InFile
<1>12. GrowsStep
  BY <1>1, <1>5, <1>8, <1>11, SameGrowsStep
<1> QED BY <1>10, <1>12

-----------------------------------------------------------------------------
(***************************************************************************)
(* Every action takes the three parts of the invariant one step on.        *)
(***************************************************************************)
Step == CtxStep /\ ScopePart' /\ OptionStep

LEMMA StartMainStep == ASSUME CtxPart, ScopePart, StartMain  PROVE Step
<1>1. /\ InFile /\ ModeStep /\ UNCHANGED <<cvars, envs, frames, created>>
  BY DEF StartMain, InFile, ModeStep, CtxPart
<1>2. CtxStep /\ GrowsStep
  BY <1>1, SameContext
<1>3. ScopePart'
  BY <1>1, <1>2, ScopesKept
<1>4. PICK args \in Args : ExtractOptions(args)
  BY DEF StartMain
<1>5. /\ args.precision \in Precision \cup {Unset} /\ args.exhaustive \in BOOLEAN
      /\ args.precision # 0
  BY DEF Args
<1>6. args.precision # Unset => Pred(args.precision) \in Nat
  <2>1. args.precision # Unset => args.precision \in Nat \ {0}
    BY <1>5, PrecisionAssumption
  <2>2. \A p \in Nat \ {0} : Pred(p) \in Nat
    BY DEF Pred
  <2> QED BY <2>1, <2>2
<1>7. CASE args.exhaustive
  <2>1. SetFromCommandLine(0)
    <3>1. args.exhaustive => ~(args.precision # Unset)
      BY DEF Args
    <3> QED BY <1>4, <1>7, <3>1 DEF ExtractOptions
  <2> QED BY <1>2, <1>3, <2>1 DEF Step, OptionStep
<1>8. CASE ~args.exhaustive /\ args.precision # Unset
  <2>1. SetFromCommandLine(Pred(args.precision))
    BY <1>4, <1>8 DEF ExtractOptions
  <2> QED BY <1>2, <1>3, <1>6, <1>8, <2>1 DEF Step, OptionStep
<1>9. CASE ~args.exhaustive /\ args.precision = Unset
  <2>1. UNCHANGED ovars
    BY <1>4, <1>9 DEF ExtractOptions
  <2> QED BY <1>2, <1>3, <2>1 DEF Step, OptionStep
<1> QED BY <1>7, <1>8, <1>9

LEMMA StartProgramStep == ASSUME CtxPart, ScopePart, StartProgram  PROVE Step
<1>1. /\ ModeStep /\ ~InFile' /\ UNCHANGED <<cvars, ovars, envs, frames, created>>
  BY DEF StartProgram, InFile, ModeStep, CtxPart
<1>2. CtxStep /\ ScopePart'
  BY <1>1, SameContext, ScopesKept
<1> QED BY <1>1, <1>2 DEF Step, OptionStep

(* What AfterCommand does to the run.                                      *)
LEMMA AfterCommandStep ==
  ASSUME CtxPart, AfterCommand, created' \in Nat, created <= created'
  PROVE  ModeStep
BY DEF AfterCommand, ModeStep, CtxPart, InFile

LEMMA DeclareNameStep ==
  ASSUME CtxPart, ScopePart, NEW n \in Name, NEW bounds \in Bounds, DeclareName(n, bounds)
  PROVE  Step
<1> DEFINE v == Var(n, SortOf[n], created + 1)
<1>1. /\ Commands /\ created' = created + 1 /\ SetTop([Top EXCEPT ![n] = v])
      /\ Declare(v, bounds) \/ Throws
      /\ AfterCommand /\ UNCHANGED <<ovars, frames>>
  BY DEF DeclareName
<1>2. InFile /\ frames = <<>> /\ created \in Nat
  BY <1>1 DEF Commands, InFile, CtxPart
<1>3. v \in Variable /\ v.nr = created + 1
  <2>1. SortOf[n] \in Sort /\ created + 1 \in Nat
    BY <1>2, SessionAssumption
  <2> QED BY <2>1, VarIsVariable
<1> HIDE DEF v
<1>4. ModeStep
  BY <1>1, <1>2, AfterCommandStep
<1>5. CtxStep
  <2>1. ~Has(box, v)
    BY <1>2, <1>3, Fresh
  <2>2. v.nr <= created'
    BY <1>1, <1>2, <1>3
  <2>3. CASE Throws
    BY <1>4, <2>3, ThrowsStep
  <2>4. CASE Declare(v, bounds)
    BY <1>3, <1>4, <2>1, <2>2, <2>4, DeclareStep
  <2> QED BY <1>1, <2>3, <2>4
<1>6. [Top EXCEPT ![n] = v] \in [Name -> Variable]
  BY <1>3, TopIsEnv
<1>7. ScopePart'
  BY <1>1, <1>2, <1>4, <1>6, TopScope DEF ModeStep
<1> QED BY <1>1, <1>5, <1>7 DEF Step, OptionStep

LEMMA DefineFunStep ==
  ASSUME CtxPart, ScopePart, NEW n \in Name, NEW m \in Name, DefineFun(n, m)
  PROVE  Step
<1> DEFINE v == Var(n, SortOf[n], created + 1)
<1>1. /\ Commands /\ created' = created + 1 /\ SetTop([Top EXCEPT ![n] = v])
      /\ AssertIn(BoxAdd(box, v), [def |-> v, over |-> Top[m]], FALSE)
      /\ modelVars' = modelVars \cup {v}
      /\ AfterCommand /\ UNCHANGED <<stray, objective, saved, refuted, ovars, frames>>
  BY DEF DefineFun
<1>2. InFile /\ frames = <<>> /\ created \in Nat
  BY <1>1 DEF Commands, InFile, CtxPart
<1>3. v \in Variable /\ v.nr = created + 1
  <2>1. SortOf[n] \in Sort /\ created + 1 \in Nat
    BY <1>2, SessionAssumption
  <2> QED BY <2>1, VarIsVariable
<1> HIDE DEF v
<1>4. ModeStep
  BY <1>1, <1>2, AfterCommandStep
<1>5. CtxStep
  BY <1>1, <1>2, <1>3, <1>4, DefineStep
<1>6. [Top EXCEPT ![n] = v] \in [Name -> Variable]
  BY <1>3, TopIsEnv
<1>7. ScopePart'
  BY <1>1, <1>2, <1>4, <1>6, TopScope DEF ModeStep
<1> QED BY <1>1, <1>5, <1>7 DEF Step, OptionStep

(* Assertions: in a file and in a program.                                 *)
LEMMA AssertSomeStep ==
  ASSUME CtxPart, ScopePart, NEW ites \in BOOLEAN, AssertSome(ites)
  PROVE  Step
<1> DEFINE f == [def |-> NoVar, over |-> NoVar]
           c == IF ites THEN WithVar(box, ITEVar) ELSE box
<1>1. /\ AssertIn(box, f, ites) /\ UNCHANGED <<modelVars, stray, objective, saved, refuted>>
      /\ AfterCommand /\ UNCHANGED <<ovars, envs, frames, created>>
  BY DEF AssertSome, Assert
<1>2. created \in Nat /\ ITEVar \in Variable /\ ITEVar.nr = 0
  BY VarIsVariable DEF CtxPart
<1>3. ModeStep
  BY <1>1, <1>2, AfterCommandStep
<1>4. Grown(box) /\ GrownInFile(box)
  BY SameGrows
<1>5. /\ Grown(c) /\ GrownInFile(c)
      /\ \A w : Has(c, w) => Has(box, w) \/ w.nr = 0
  <2>1. CASE ites
    BY <1>2, <2>1, WithVarGrows
  <2>2. CASE ~ites
    BY <1>4, <2>2
  <2> QED BY <2>1, <2>2
<1> HIDE DEF f
<1>6. c = IF ites THEN WithVar(box, ITEVar) ELSE box
  OBVIOUS
<1> HIDE DEF c
<1>7. /\ modelVars' \subseteq Variable /\ \A v \in modelVars' : Has(box, v)
      /\ \A v \in modelVars' : Has(c, v)
  BY <1>1, <1>5 DEF CtxPart, BoxesOK, Grown
<1>8. /\ \A v : Has(box, v) => Has(box, v) \/ v.nr = 0 \/ v.nr <= created'
      /\ \A v : Has(c, v) => Has(box, v) \/ v.nr = 0 \/ v.nr <= created'
  BY <1>5
<1>9. CtxStep /\ GrowsStep
  BY <1>1, <1>3, <1>4, <1>5, <1>6, <1>7, <1>8, AssertStep
<1>10. ScopePart'
  BY <1>1, <1>3, <1>9, ScopesKept DEF ModeStep
<1> QED BY <1>1, <1>9, <1>10 DEF Step, OptionStep

LEMMA AssertFalseFormulaStep == ASSUME CtxPart, ScopePart, AssertFalseFormula  PROVE Step
<1>1. AssertFalse /\ UNCHANGED <<ovars, mode, envs, frames, created>>
  BY DEF AssertFalseFormula, svars
<1>2. CtxStep /\ GrowsStep
  BY <1>1, AssertFalseStep
<1>3. ScopePart'
  BY <1>1, <1>2, ScopesKept DEF InFile
<1> QED BY <1>1, <1>2, <1>3 DEF Step, OptionStep

LEMMA CheckSatStep == ASSUME CtxPart, ScopePart, Check  PROVE Step
<1>1. (CheckSat \/ CheckOpt) /\ AfterCommand /\ UNCHANGED <<ovars, envs, frames, created>>
  BY DEF Check
<1>2. ModeStep
  BY <1>1, AfterCommandStep DEF CtxPart
<1>3. CtxStep /\ GrowsStep
  BY <1>1, <1>2, CheckStep
<1>4. ScopePart'
  BY <1>1, <1>2, <1>3, ScopesKept DEF ModeStep
<1> QED BY <1>1, <1>3, <1>4 DEF Step, OptionStep

(* A push always throws, and a pop finds nothing to pop.                   *)
LEMMA PushOrPopStep == ASSUME CtxPart, ScopePart, PushOrPop  PROVE Step
<1>1. AfterCommand /\ UNCHANGED <<ovars, envs, frames, created>>
  BY DEF PushOrPop
<1>2. Throws
  BY DEF PushOrPop, Push, Pop, CtxPart, FileOK
<1>3. ModeStep
  BY <1>1, AfterCommandStep DEF CtxPart
<1>4. CtxStep /\ GrowsStep
  BY <1>2, <1>3, ThrowsStep
<1>5. ScopePart'
  BY <1>1, <1>3, <1>4, ScopesKept DEF ModeStep
<1> QED BY <1>1, <1>4, <1>5 DEF Step, OptionStep

(* An objective, in a file and in a program.                               *)
LEMMA SetObjectiveStep == ASSUME CtxPart, ScopePart, SetObjective  PROVE Step
<1>1. Minimize /\ AfterCommand /\ UNCHANGED <<ovars, envs, frames, created>>
  BY DEF SetObjective
<1>2. ModeStep
  BY <1>1, AfterCommandStep DEF CtxPart
<1>3. Throws => CtxStep /\ GrowsStep
  BY <1>2, ThrowsStep
<1>4. Minimize /\ ~Throws => CtxStep /\ GrowsStep
  <2> HAVE Minimize /\ ~Throws
  <2>1. /\ answer' = "none" /\ found' = NewBox /\ objective' = TRUE
        /\ UNCHANGED <<box, model, shared, modelVars, stray, stack, saved, refuted>>
    BY DEF Minimize, Says
  <2>2. CtxStep
    BY <1>2, <2>1, QuietStep
  <2>3. GrowsStep
    BY <1>2, <2>1, SameGrowsStep
  <2> QED BY <2>2, <2>3
<1>5. CtxStep /\ GrowsStep
  BY <1>1, <1>3, <1>4
<1>6. ScopePart'
  BY <1>1, <1>2, <1>5, ScopesKept DEF ModeStep
<1> QED BY <1>1, <1>5, <1>6 DEF Step, OptionStep

LEMMA SetOptionStep ==
  ASSUME CtxPart, ScopePart, NEW v \in Precision, SetOption(v)
  PROVE  Step
<1>1. /\ AfterCommand /\ UNCHANGED <<envs, frames, created>>
      /\ UNCHANGED <<box, model, shared, modelVars, stray, objective, stack, saved, refuted>>
      /\ answer' \in {"none", "throws"} /\ found' = NewBox
      /\ SetFromFile(v) \/ UNCHANGED ovars
  BY DEF SetOption, Says
<1>2. ModeStep
  BY <1>1, AfterCommandStep DEF CtxPart
<1>3. CtxStep
  BY <1>1, <1>2, QuietStep DEF CtxPart
<1>4. GrowsStep
  BY <1>1, <1>2, SameGrowsStep
<1>5. ScopePart'
  BY <1>1, <1>2, <1>4, ScopesKept DEF ModeStep
<1>6. OptionStep
  BY <1>1, PrecisionAssumption DEF OptionStep
<1> QED BY <1>3, <1>5, <1>6 DEF Step

(* What only a program does.                                               *)
LEMMA ApiStep ==
  ASSUME ScopePart, mode = "api", UNCHANGED svars
  PROVE  ScopePart' /\ ~InFile'
<1>1. ~InFile' /\ UNCHANGED <<envs, frames>>
  BY DEF svars, InFile
<1> QED BY <1>1, ScopesKept

LEMMA ApiDeclareStep ==
  ASSUME CtxPart, ScopePart, NEW n \in Name, NEW bounds \in Bounds, ApiDeclare(n, bounds)
  PROVE  Step
<1> DEFINE v == Var(n, SortOf[n], 0)
<1>1. mode = "api" /\ Declare(v, bounds) /\ UNCHANGED <<ovars, svars>>
  BY DEF ApiDeclare
<1>2. v \in Variable /\ v.nr = 0
  <2>1. SortOf[n] \in Sort
    BY SessionAssumption
  <2> QED BY <2>1, VarIsVariable
<1> HIDE DEF v
<1>3. ScopePart' /\ ~InFile'
  BY <1>1, ApiStep
<1>4. ModeStep /\ 0 <= created'
  BY <1>1, <1>3 DEF ModeStep, CtxPart, svars
<1>5. CtxStep
  BY <1>1, <1>2, <1>3, <1>4, DeclareStep
<1> QED BY <1>1, <1>3, <1>5 DEF Step, OptionStep

LEMMA ApiSetIntervalStep ==
  ASSUME CtxPart, ScopePart, NEW n \in Name, ApiSetInterval(n)
  PROVE  Step
<1> DEFINE v == Var(n, SortOf[n], 0)
           k == IF Has(box, v) THEN Place(box, v) ELSE 1
           b == [box EXCEPT !.vals[k] = "bounded"]
<1>1. /\ mode = "api" /\ answer' = "none" /\ found' = NewBox /\ box' = b
      /\ stray' \in {stray, stray \cup {v}}
      /\ UNCHANGED <<model, shared, modelVars, objective, stack, saved, refuted>>
      /\ UNCHANGED <<ovars, svars>>
  BY DEF ApiSetInterval, SetInterval, Says
<1>2. ScopePart' /\ ~InFile'
  BY <1>1, ApiStep
<1>3. ModeStep
  BY <1>1, <1>2 DEF ModeStep, CtxPart, svars
<1>4. /\ b \in Boxes(Variable) /\ IsBox(b) /\ b.vars = box.vars /\ (IsEmpty(b) => IsEmpty(box))
  <2>1. box \in Boxes(Variable) /\ IsBox(box)
    BY DEF CtxPart, BoxesOK
  <2> HIDE DEF k
  <2> QED BY <2>1, BoxSetFacts
<1>10. stray' \subseteq Variable
  <2>1. v \in Variable
    <3>1. SortOf[n] \in Sort
      BY SessionAssumption
    <3> QED BY <3>1, VarIsVariable
  <2> HIDE DEF v
  <2> QED BY <1>1, <2>1 DEF CtxPart
<1> HIDE DEF b, v
<1>5. \A w : Has(b, w) <=> Has(box, w)
  BY <1>4 DEF Has
<1>6. Grown(b)
  BY <1>4, <1>5 DEF Grown
<1>7. ChangeBox(b)
  BY <1>1, <1>4 DEF ChangeBox
<1>8. modelVars' \subseteq Variable /\ \A w \in modelVars' : Has(b, w)
  BY <1>1, <1>5 DEF CtxPart, BoxesOK
<1>9. CtxStep
  BY <1>1, <1>2, <1>3, <1>5, <1>6, <1>7, <1>8, <1>10, GrowStep
<1> QED BY <1>1, <1>2, <1>9 DEF Step, OptionStep

LEMMA AssignOptionStep ==
  ASSUME CtxPart, ScopePart, NEW v \in Precision, AssignOption(v)
  PROVE  Step
<1>1. /\ mode = "api" /\ (SetFromCode(v) \/ SetFromCommandLine(v)) /\ Says("none")
      /\ UNCHANGED <<box, model, shared, modelVars, stray, objective, stack, saved, refuted, svars>>
  BY DEF AssignOption, MaySet
<1>2. ScopePart' /\ ~InFile'
  BY <1>1, ApiStep
<1>3. ModeStep
  BY <1>1, <1>2 DEF ModeStep, CtxPart, svars
<1>4. CtxStep
  BY <1>1, <1>3, ParserStep
<1>5. OptionStep
  BY <1>1, PrecisionAssumption DEF OptionStep
<1> QED BY <1>2, <1>4, <1>5 DEF Step

-----------------------------------------------------------------------------
(* The parser: a command leaves, enters or changes the innermost frame.    *)

LEMMA ParsingFacts ==
  ASSUME CtxPart, Parsing
  PROVE  InFile /\ mode = "smt2" /\ frames # <<>> /\ created \in Nat
BY DEF Parsing, InFile, CtxPart

LEMMA EnterStep ==
  ASSUME CtxPart, ScopePart,
         NEW kind \in {"let", "forall"}, NEW phase \in {"bindings", "body"},
         kind = "let" <=> phase = "bindings", Enter(kind, phase)
  PROVE  Step
<1> DEFINE f == Opened(kind, phase, Top)
           G == Append(frames, f)
           D == Append(envs, Top)
<1>1. /\ envs' = D /\ frames' = G /\ Says("none") /\ InTerm
      /\ UNCHANGED <<mode, box, model, shared, modelVars, stray, objective, stack, saved, refuted, ovars, created>>
  BY DEF Enter, Opened
<1>2. mode = "smt2" /\ InFile
  BY <1>1 DEF InTerm, Commands, Parsing, InFile
<1>3. ModeStep
  BY <1>1 DEF ModeStep, CtxPart, InFile
<1>4. CtxStep
  BY <1>1, <1>3, ParserStep
<1>5. /\ frames \in Seq(FrameSet) /\ envs \in Seq([Name -> Variable]) /\ envs # <<>>
      /\ Nested(frames, envs, stack, refuted, created, box)
  BY <1>2 DEF ScopePart, ScopesNest, InFile
<1>6. /\ f \in FrameSet /\ f.outer = Top /\ f.kind = kind
      /\ f.kind = "let" => LetOK(f, Top, stack, refuted)
      /\ f.kind = "forall" => ForallOK(f, Top, created, box)
  <2>1. Top \in [Name -> Variable]
    BY TopIsEnv
  <2> QED BY <2>1, NewScope
<1> HIDE DEF f
<1>7. /\ f.outer = envs[Len(envs)]
      /\ f.kind = "let" => LetOK(f, f.outer, stack, refuted)
      /\ f.kind = "forall" => ForallOK(f, f.outer, created, box)
      /\ D = Append(envs, envs[Len(envs)])
  BY <1>6 DEF Top
<1>8. /\ G \in Seq(FrameSet) /\ D \in Seq([Name -> Variable]) /\ D # <<>>
      /\ Nested(G, D, stack, refuted, created, box)
  BY <1>5, <1>6, <1>7, NestPush
<1> HIDE DEF G, D
<1>9. ScopePart'
  BY <1>1, <1>8 DEF ScopePart, ScopesNest
<1> QED BY <1>1, <1>4, <1>9 DEF Step, OptionStep

LEMMA ExitScopeStep == ASSUME CtxPart, ScopePart, ExitScope  PROVE Step
<1> DEFINE G == SubSeq(frames, 1, Len(frames) - 1)
           D == SubSeq(envs, 1, Len(envs) - 1)
<1>1. /\ Parsing /\ envs' = D /\ frames' = G /\ Says("none")
      /\ UNCHANGED <<mode, box, model, shared, modelVars, stray, objective, stack, saved, refuted, ovars, created>>
  BY DEF ExitScope
<1>2. ModeStep
  BY <1>1 DEF ModeStep, CtxPart, InFile
<1>3. CtxStep
  BY <1>1, <1>2, ParserStep
<1>4. /\ frames \in Seq(FrameSet) /\ envs \in Seq([Name -> Variable]) /\ frames # <<>>
      /\ Nested(frames, envs, stack, refuted, created, box)
  BY <1>1 DEF ScopePart, ScopesNest, Parsing
<1>5. /\ G \in Seq(FrameSet) /\ D \in Seq([Name -> Variable]) /\ D # <<>>
      /\ Nested(G, D, stack, refuted, created, box)
  BY <1>4, NestPop
<1> HIDE DEF G, D
<1>6. ScopePart'
  BY <1>1, <1>5 DEF ScopePart, ScopesNest
<1> QED BY <1>1, <1>3, <1>6 DEF Step, OptionStep

(* What is parsed changes the frame and, at most, the scope of a forall.   *)
LEMMA ParsedStep ==
  ASSUME CtxPart, ScopePart, Parsing, ModeStep, Says("none"),
         UNCHANGED <<box, model, shared, modelVars, stray, objective, stack, saved, refuted, ovars>>,
         NEW f \in FrameSet, NEW env \in [Name -> Variable], InFrame(f), SetTop(env),
         f.outer = Frame.outer,
         f.kind = "let" => LetOK(f, env, stack, refuted),
         f.kind = "forall" => ForallOK(f, env, created', box)
  PROVE  Step
<1>1. CtxStep /\ GrowsStep
  BY ParserStep
<1>2. /\ f.kind = "let" => LetOK(f, env, stack', refuted')
      /\ f.kind = "forall" => ForallOK(f, env, created', box')
  OBVIOUS
<1>3. ScopePart'
  BY <1>1, <1>2, FrameScope
<1> QED BY <1>1, <1>3 DEF Step, OptionStep

(* The same when no scope changes.                                         *)
LEMMA ParsedQuietly ==
  ASSUME CtxPart, ScopePart, Parsing, Says("none"),
         UNCHANGED <<box, model, shared, modelVars, stray, objective, stack, saved, refuted, ovars>>,
         UNCHANGED <<mode, envs, created>>,
         NEW f \in FrameSet, InFrame(f), f.outer = Frame.outer, f.kind = "let",
         LetOK(f, Top, stack, refuted)
  PROVE  Step
<1>1. ModeStep
  BY DEF ModeStep, CtxPart, InFile
<1>2. Top \in [Name -> Variable] /\ SetTop(Top)
  BY FrameFacts DEF SetTop
<1> QED BY <1>1, <1>2, ParsedStep

(* A binding whose term mentions a name that is not declared ends the run. *)
LEMMA ParseBindingStep ==
  ASSUME CtxPart, ScopePart, NEW n \in Bindable, NEW m \in Bindable, ParseBinding(n, m)
  PROVE  Step
<1>1. /\ Parsing /\ Frame.kind = "let" /\ Frame.phase = "bindings" /\ Says("none")
      /\ UNCHANGED <<box, model, shared, modelVars, stray, objective, stack, saved, refuted, ovars, envs, created>>
  BY DEF ParseBinding
<1>2. CASE Top[m] = Undeclared
  <2>1. mode' = "ended" /\ frames' = frames
    BY <1>2 DEF ParseBinding
  <2>2. ModeStep /\ ~InFile'
    BY <1>1, <2>1 DEF ModeStep, CtxPart, InFile
  <2>3. CtxStep
    BY <1>1, <2>2, ParserStep
  <2>4. ScopePart'
    BY <1>1, <2>1, <2>2, ScopesKept
  <2> QED BY <1>1, <2>3, <2>4 DEF Step, OptionStep
<1>3. CASE Top[m] # Undeclared
  <2> DEFINE x == [name |-> n, over |-> Top[m], said |-> m]
             f == [Frame EXCEPT !.list = Append(@, x)]
  <2>1. mode' = mode /\ InFrame(f)
    BY <1>3 DEF ParseBinding
  <2>2. /\ Frame \in FrameSet /\ Top \in [Name -> Variable]
        /\ LetOK(Frame, Top, stack, refuted)
    BY <1>1, FrameFacts
  <2>3. x \in LetBinding /\ x.over \in {Constant, Top[x.said]}
    BY <2>2, SessionAssumption DEF LetBinding
  <2> HIDE DEF x
  <2>4. f \in FrameSet /\ f.outer = Frame.outer /\ f.kind = "let"
    BY <1>1, <2>2, <2>3, LongerList
  <2>5. LetOK(f, Top, stack, refuted)
    BY <1>1, <2>2, <2>3, LetListGrows
  <2> HIDE DEF f
  <2> QED BY <1>1, <2>1, <2>4, <2>5, ParsedQuietly
<1> QED BY <1>2, <1>3

LEMMA ParseConstantStep ==
  ASSUME CtxPart, ScopePart, NEW n \in Bindable, ParseConstant(n)
  PROVE  Step
<1> DEFINE x == [name |-> n, over |-> Constant, said |-> n]
           f == [Frame EXCEPT !.list = Append(@, x)]
<1>1. /\ Parsing /\ Frame.kind = "let" /\ Frame.phase = "bindings" /\ Says("none")
      /\ UNCHANGED <<box, model, shared, modelVars, stray, objective, stack, saved, refuted, ovars, mode, envs, created>>
      /\ InFrame(f)
  BY DEF ParseConstant
<1>2. Frame \in FrameSet /\ LetOK(Frame, Top, stack, refuted)
  BY <1>1, FrameFacts
<1>3. x \in LetBinding /\ x.over \in {Constant, Top[x.said]}
  BY SessionAssumption, VarIsVariable DEF LetBinding
<1> HIDE DEF x
<1>4. f \in FrameSet /\ f.outer = Frame.outer /\ f.kind = "let"
  BY <1>1, <1>2, <1>3, LongerList
<1>5. LetOK(f, Top, stack, refuted)
  BY <1>1, <1>2, <1>3, LetListGrows
<1> HIDE DEF f
<1> QED BY <1>1, <1>4, <1>5, ParsedQuietly

(* Only a let has bindings to end: a forall starts with its body.          *)
LEMMA IsLet ==
  ASSUME ScopePart, Parsing, Frame.phase # "body"
  PROVE  Frame \in FrameSet /\ Frame.kind = "let" /\ LetOK(Frame, Top, stack, refuted)
<1>1. /\ Frame \in FrameSet
      /\ Frame.kind = "let" => LetOK(Frame, Top, stack, refuted)
      /\ Frame.kind = "forall" => ForallOK(Frame, Top, created, box)
  BY FrameFacts
<1>2. Frame.kind \in {"let", "forall"}
  BY <1>1 DEF FrameSet
<1> QED BY <1>1, <1>2 DEF ForallOK

LEMMA EndBindingsStep == ASSUME CtxPart, ScopePart, EndBindings  PROVE Step
<1> DEFINE f == [Frame EXCEPT !.phase = "binding"]
<1>1. /\ Parsing /\ Frame.phase = "bindings" /\ Says("none") /\ InFrame(f)
      /\ UNCHANGED <<box, model, shared, modelVars, stray, objective, stack, saved, refuted, ovars, mode, envs, created>>
  BY DEF EndBindings
<1>2. Frame \in FrameSet /\ Frame.kind = "let" /\ LetOK(Frame, Top, stack, refuted)
  BY <1>1, IsLet
<1>3. f \in FrameSet /\ f.outer = Frame.outer /\ f.kind = "let" /\ LetOK(f, Top, stack, refuted)
  BY <1>2, LetEndsBindings
<1> HIDE DEF f
<1> QED BY <1>1, <1>3, ParsedQuietly

LEMMA EndBindStep == ASSUME CtxPart, ScopePart, EndBind  PROVE Step
<1> DEFINE f == [Frame EXCEPT !.phase = "body"]
<1>1. /\ Parsing /\ Frame.phase = "binding" /\ Says("none") /\ InFrame(f)
      /\ Cardinality(Frame.done) = Len(Frame.list)
      /\ UNCHANGED <<box, model, shared, modelVars, stray, objective, stack, saved, refuted, ovars, mode, envs, created>>
  BY DEF EndBind
<1>2. Frame \in FrameSet /\ Frame.kind = "let" /\ LetOK(Frame, Top, stack, refuted)
  BY <1>1, IsLet
<1>3. f \in FrameSet /\ f.outer = Frame.outer /\ f.kind = "let" /\ LetOK(f, Top, stack, refuted)
  BY <1>1, <1>2, LetEndsBindings
<1> HIDE DEF f
<1> QED BY <1>1, <1>3, ParsedQuietly

LEMMA RegisterQuantifiedStep ==
  ASSUME CtxPart, ScopePart, NEW n \in Bindable, RegisterQuantified(n)
  PROVE  Step
<1> DEFINE v == Var(n, SortOf[n], created + 1)
           x == [name |-> n, over |-> v, said |-> n]
           f == [Frame EXCEPT !.list = Append(@, x)]
           e == [Top EXCEPT ![n] = v]
<1>1. /\ Parsing /\ Frame.kind = "forall" /\ created' = created + 1
      /\ SetTop(e) /\ InFrame(f) /\ Says("none")
      /\ UNCHANGED <<box, model, shared, modelVars, stray, objective, stack, saved, refuted, ovars, mode>>
  BY DEF RegisterQuantified
<1>2. InFile /\ created \in Nat /\ n \in Name
  BY <1>1, ParsingFacts, SessionAssumption
<1>3. v \in Variable /\ v.nr = created + 1 /\ v.name = n
  <2>1. SortOf[n] \in Sort /\ created + 1 \in Nat
    BY <1>2, SessionAssumption
  <2> QED BY <1>2, <2>1, VarIsVariable
<1> HIDE DEF v
<1>4. x \in LetBinding
  BY <1>2, <1>3 DEF LetBinding
<1>5. ~Has(box, v)
  BY <1>2, <1>3, Fresh
<1>6. /\ Frame \in FrameSet /\ Top \in [Name -> Variable]
      /\ ForallOK(Frame, Top, created, box)
  BY <1>1, FrameFacts
<1>7. ForallOK(f, e, created + 1, box)
  BY <1>2, <1>3, <1>5, <1>6, ForallBinds
<1> HIDE DEF x
<1>8. f \in FrameSet /\ f.outer = Frame.outer /\ f.kind = "forall"
  BY <1>1, <1>4, <1>6, LongerList
<1>9. e \in [Name -> Variable]
  BY <1>2, <1>3, <1>6
<1>10. ModeStep
  BY <1>1, <1>2 DEF ModeStep, CtxPart, InFile
<1> HIDE DEF f, e
<1>11. ForallOK(f, e, created', box) /\ f.kind # "let"
  BY <1>1, <1>7, <1>8
<1> QED BY <1>1, <1>8, <1>9, <1>10, <1>11, ParsedStep

(* The last binding that is left is bound: to a constant, or to a new      *)
(* variable that an assertion defines.                                     *)
LEMMA BindStep == ASSUME CtxPart, ScopePart, Bind  PROVE Step
<1> DEFINE p == Position
           x == Frame.list[p]
           f == [Frame EXCEPT !.done = @ \cup {p}]
           local == Var(Local, x.over.sort, created + 1)
<1>1. /\ Parsing /\ Frame.phase = "binding" /\ Cardinality(Frame.done) < Len(Frame.list)
      /\ InFrame(f) /\ AfterCommand /\ UNCHANGED <<modelVars, stray, objective, saved, refuted, ovars>>
      /\ p = Len(Frame.list) - Cardinality(Frame.done)
  BY DEF Bind, Position
<1>2. Frame \in FrameSet /\ Frame.kind = "let" /\ LetOK(Frame, Top, stack, refuted)
  BY <1>1, IsLet
<1>3. InFile /\ created \in Nat /\ Top \in [Name -> Variable]
  BY <1>1, ParsingFacts, FrameFacts
<1>4. Constant \in Variable
  BY VarIsVariable
<1>5. ASSUME NEW v \in Variable, BoundTo(v, x.over, stack', refuted'),
             CtxStep, GrowsStep, SetTop([Top EXCEPT ![x.name] = v])
      PROVE  Step
  <2>1. stack \subseteq stack' /\ (refuted # "no" => refuted' # "no")
    BY <1>5 DEF GrowsStep, Grows
  <2> DEFINE e == [Top EXCEPT ![x.name] = v]
  <2> HIDE DEF p
  <2>2. /\ f \in FrameSet /\ f.outer = Frame.outer /\ f.kind = Frame.kind
        /\ e \in [Name -> Variable] /\ LetOK(f, e, stack', refuted')
    <3>1. /\ BoundTo(v, Frame.list[p].over, stack', refuted')
          /\ f = [Frame EXCEPT !.done = @ \cup {p}]
          /\ e = [Top EXCEPT ![Frame.list[p].name] = v]
      BY <1>5
    <3>2. /\ Frame \in FrameSet /\ Top \in [Name -> Variable]
          /\ LetOK(Frame, Top, stack, refuted) /\ Frame.phase = "binding"
          /\ Cardinality(Frame.done) < Len(Frame.list)
          /\ p = Len(Frame.list) - Cardinality(Frame.done)
      BY <1>1, <1>2, <1>3
    <3> HIDE DEF e, f, x
    <3>3. BindsNext(Frame, Top, stack, refuted, p, v, f, e, stack', refuted')
      BY <2>1, <3>1, <3>2 DEF BindsNext
    <3> QED BY <3>3, LetBinds
  <2> HIDE DEF e, f
  <2>3. SetTop(e)
    BY <1>5 DEF e
  <2>4. ScopePart'
    BY <1>1, <1>2, <1>5, <2>2, <2>3, FrameScope
  <2> QED BY <1>1, <1>5, <2>4 DEF Step, OptionStep
<1>6. Binding = x /\ Mentioned(Binding) = x.over
  BY DEF Binding, Position, Mentioned
<1>7. CASE x.over = Constant
  <2>1. /\ DefineLocalConstant(x.name) /\ Says("none")
        /\ UNCHANGED <<box, model, shared, stack, created>>
    BY <1>6, <1>7 DEF Bind
  <2>2. ModeStep
    BY <1>1, <1>3, <2>1, AfterCommandStep
  <2>3. CtxStep /\ GrowsStep
    BY <1>1, <2>1, <2>2, ParserStep
  <2>4. BoundTo(Constant, x.over, stack', refuted')
    BY <1>7 DEF BoundTo
  <2>5. SetTop([Top EXCEPT ![x.name] = Constant])
    BY <2>1 DEF DefineLocalConstant
  <2> QED BY <1>4, <1>5, <2>3, <2>4, <2>5
<1>8. CASE x.over # Constant
  <2>1. /\ created' = created + 1 /\ SetTop([Top EXCEPT ![x.name] = local])
        /\ AssertIn(BoxAdd(box, local), [def |-> local, over |-> x.over], FALSE)
    BY <1>6, <1>8 DEF Bind, DeclareLocal
  <2>2. x \in LetBinding /\ x.over.sort \in Sort
    <3>1. p \in 1 .. Len(Frame.list) /\ Frame.list \in Seq(LetBinding)
      <4>1. /\ Len(Frame.list) \in Nat /\ Frame.list \in Seq(LetBinding)
            /\ p \in 0 .. Len(Frame.list)
        BY <1>1, <1>2, DoneFacts, LenProperties DEF FrameSet
      <4>2. p # 0
        <5>1. Cardinality(Frame.done) # Len(Frame.list)
          BY <1>1
        <5>2. p = 0 => Frame.done = 0 + 1 .. Len(Frame.list)
          BY <1>1, <1>2, DoneFacts
        <5>3. Cardinality(1 .. Len(Frame.list)) = Len(Frame.list)
          <6>1. 1 \in Int /\ Len(Frame.list) \in Int
            BY <4>1
          <6>2. Cardinality(1 .. Len(Frame.list)) =
                  IF 1 > Len(Frame.list) THEN 0 ELSE Len(Frame.list) - 1 + 1
            BY <6>1, FS_Interval
          <6> QED BY <4>1, <6>2
        <5> QED BY <5>1, <5>2, <5>3
      <4> QED BY <4>1, <4>2
    <3>2. x \in LetBinding
      BY <3>1, ElementOfSeq
    <3>3. x.over \in Variable
      BY <3>2 DEF LetBinding
    <3> QED BY <3>2, <3>3 DEF Variable
  <2>3. /\ local \in Variable /\ local.nr = created + 1
        /\ local.name = Local /\ local.sort = x.over.sort
    <3>1. created + 1 \in Nat
      BY <1>3
    <3>2. x.name \in Name
      BY <2>2 DEF LetBinding
    <3> QED BY <2>2, <3>1, <3>2, VarIsVariable
  <2> HIDE DEF local
  <2>4. ModeStep
    BY <1>1, <1>3, <2>1, AfterCommandStep
  <2>5. CtxStep /\ GrowsStep /\ ([def |-> local, over |-> x.over] \in stack' \/ refuted' # "no")
    BY <1>1, <1>3, <2>1, <2>3, <2>4, DefineStep
  <2>6. BoundTo(local, x.over, stack', refuted')
    BY <1>8, <2>3, <2>5 DEF BoundTo
  <2> QED BY <1>5, <2>1, <2>3, <2>5, <2>6
<1> QED BY <1>7, <1>8

-----------------------------------------------------------------------------
LEMMA SessionStarts == SessionInit => SessionIInv
<1> SUFFICES ASSUME SessionInit  PROVE SessionIInv
  OBVIOUS
<1>1. /\ ContextInit /\ OptionsInit /\ mode = "start" /\ frames = <<>> /\ created = 0
      /\ envs = <<[n \in Name |-> Undeclared]>>
  BY DEF SessionInit
<1>2. /\ box = NewBox /\ model = NewBox /\ found = NewBox /\ shared = FALSE
      /\ modelVars = {} /\ stray = {} /\ objective = FALSE
      /\ stack = {} /\ saved = <<>> /\ answer = "none" /\ refuted = "no"
  BY <1>1 DEF ContextInit
<1>3. NewBox \in Boxes(Variable) /\ IsBox(NewBox) /\ ~IsEmpty(NewBox)
  BY NewBoxIsBox
<1>4. ShownModel = NewBox
  BY <1>2 DEF ShownModel, NewBox
<1>5. BoxesOK(Variable) /\ found \in Boxes(Variable) /\ ModelComplete
  BY <1>2, <1>3, <1>4 DEF BoxesOK, ModelComplete
<1>6. \A i \in DOMAIN box.vars : box.vars[i].nr <= created
  <2>1. box.vars = <<>> /\ DOMAIN <<>> = {}
    <3>1. <<>> \in Seq(Variable) /\ Len(<<>>) = 0
      BY EmptySeq
    <3>2. DOMAIN <<>> = {}
      BY <3>1, LenProperties
    <3> QED BY <1>2, <3>2 DEF NewBox
  <2> QED BY <2>1
<1>7. CtxPart
  BY <1>1, <1>2, <1>3, <1>5, <1>6 DEF CtxPart, FileOK, Answer
<1>8. ScopePart
  <2> DEFINE e == [n \in Name |-> Undeclared]
  <2>1. e \in [Name -> Variable]
    BY VarIsVariable
  <2> HIDE DEF e
  <2>2. /\ <<e>> \in Seq([Name -> Variable]) /\ Len(<<e>>) = 1
        /\ <<>> \in Seq(FrameSet) /\ Len(<<>>) = 0
    BY <2>1, EmptySeq
  <2>3. DOMAIN <<>> = {} /\ <<e>> # <<>>
    BY <2>2, LenProperties
  <2>4. envs = <<e>>
    BY <1>1 DEF e
  <2>5. Nested(frames, envs, stack, refuted, created, box)
    BY <1>1, <2>2, <2>3, <2>4 DEF Nested
  <2> QED BY <1>1, <2>2, <2>3, <2>4, <2>5 DEF ScopePart, ScopesNest
<1>9. OptionOK
  <2>1. Pred(DefaultPrecision) \in Nat
    BY PrecisionAssumption DEF Pred
  <2>2. /\ config = [value |-> Pred(DefaultPrecision), type |-> "DEFAULT"]
        /\ given = [t \in Type |-> IF t = "DEFAULT" THEN Pred(DefaultPrecision) ELSE Unset]
    BY <1>1 DEF OptionsInit
  <2> HIDE DEF Pred
  <2>3. "DEFAULT" \in Type /\ Unset \in Int /\ Unset # Pred(DefaultPrecision)
    BY <2>1 DEF Type, Unset
  <2>4. config.type \in Type /\ given \in [Type -> Int]
    BY <2>1, <2>2, <2>3
  <2>5. Precedence
    <3>1. given["DEFAULT"] = Pred(DefaultPrecision) /\ given["DEFAULT"] # Unset
      BY <2>2, <2>3
    <3>2. \A u \in Type : given[u] # Unset => Rank[u] <= Rank["DEFAULT"]
      <4>1. \A u \in Type : given[u] # Unset => u = "DEFAULT"
        BY <2>2
      <4>2. Rank["DEFAULT"] <= Rank["DEFAULT"]
        BY DEF Rank
      <4> QED BY <4>1, <4>2
    <3> QED BY <2>2, <2>3, <3>1, <3>2 DEF Precedence
  <2> QED BY <2>4, <2>5 DEF OptionOK
<1> QED BY <1>7, <1>8, <1>9, ThreeParts

LEMMA SessionNext == CtxPart /\ ScopePart /\ [Next]_vars => Step
<1> SUFFICES ASSUME CtxPart, ScopePart, [Next]_vars  PROVE Step
  OBVIOUS
<1>1. CASE UNCHANGED vars
  <2>1. UNCHANGED <<cvars, ovars, mode, envs, frames, created>>
    BY <1>1 DEF vars, svars
  <2>2. ModeStep
    BY <2>1 DEF ModeStep, CtxPart, InFile
  <2>3. CtxStep /\ GrowsStep
    BY <2>1, <2>2, SameContext
  <2>4. ScopePart'
    BY <2>1, <2>2, <2>3, ScopesKept DEF ModeStep
  <2> QED BY <2>1, <2>3, <2>4 DEF Step, OptionStep
<1>2. CASE StartMain
  BY <1>2, StartMainStep
<1>3. CASE StartProgram
  BY <1>3, StartProgramStep
<1>4. CASE \E n \in Name, bounds \in Bounds : DeclareName(n, bounds) \/ ApiDeclare(n, bounds)
  BY <1>4, DeclareNameStep, ApiDeclareStep
<1>5. CASE \E n, m \in Name : DefineFun(n, m)
  BY <1>5, DefineFunStep
<1>6. CASE \E n \in Name : ApiSetInterval(n)
  BY <1>6, ApiSetIntervalStep
<1>7. CASE \E ites \in BOOLEAN : AssertSome(ites)
  BY <1>7, AssertSomeStep
<1>8. CASE AssertFalseFormula
  BY <1>8, AssertFalseFormulaStep
<1>9. CASE Check
  BY <1>9, CheckSatStep
<1>10. CASE PushOrPop
  BY <1>10, PushOrPopStep
<1>11. CASE \E v \in Precision : SetOption(v) \/ AssignOption(v)
  BY <1>11, SetOptionStep, AssignOptionStep
<1>12. CASE Enter("let", "bindings") \/ Enter("forall", "body")
  BY <1>12, EnterStep
<1>13. CASE \E n, m \in Bindable : ParseBinding(n, m)
  BY <1>13, ParseBindingStep
<1>14. CASE \E n \in Bindable : ParseConstant(n) \/ RegisterQuantified(n)
  BY <1>14, ParseConstantStep, RegisterQuantifiedStep
<1>15. CASE EndBindings
  BY <1>15, EndBindingsStep
<1>16. CASE Bind
  BY <1>16, BindStep
<1>17. CASE EndBind
  BY <1>17, EndBindStep
<1>18. CASE ExitScope
  BY <1>18, ExitScopeStep
<1>19. CASE SetObjective
  BY <1>19, SetObjectiveStep
<1> QED
  BY <1>1, <1>2, <1>3, <1>4, <1>5, <1>6, <1>7, <1>8, <1>9, <1>10, <1>11, <1>12, <1>13,
     <1>14, <1>15, <1>16, <1>17, <1>18, <1>19 DEF Next

LEMMA SessionNextInv == SessionIInv /\ [Next]_vars => SessionIInv' /\ CtxStep
<1> SUFFICES ASSUME SessionIInv, [Next]_vars  PROVE SessionIInv' /\ CtxStep
  OBVIOUS
<1>1. CtxPart /\ ScopePart /\ OptionOK
  BY ThreeParts
<1>2. CtxStep /\ ScopePart' /\ OptionStep
  BY <1>1, SessionNext DEF Step
<1>3. OptionOK'
  BY <1>1, <1>2, OptionKept
<1>4. CtxPart'
  BY <1>2 DEF CtxStep
<1> QED BY <1>2, <1>3, <1>4, ThreePartsNext

(* The inductive invariant of a session: see Session.                      *)
THEOREM SessionInductive == Spec => []SessionIInv
BY SessionStarts, SessionNextInv, PTL DEF Spec

(* Every box has an interval for each of its variables, also the model     *)
(* that shares its vector of variables, and model variables are in the box *)
(* (Box::Add, Context::Impl::DeclareVariable).                             *)
THEOREM ContextIsOK == Spec => []ContextOK
<1>1. SessionIInv => ContextOK
  BY DEF SessionIInv
<1> QED BY <1>1, SessionInductive, PTL

(* A model has all the model variables and no other, with the intervals    *)
(* that the check has found (ExtractModel).                                *)
THEOREM ModelIsComplete == Spec => []ModelComplete
<1>1. SessionIInv => ModelComplete
  BY DEF SessionIInv
<1> QED BY <1>1, SessionInductive, PTL

(* Once false is asserted, and something has been declared, a file gets no *)
(* sat any more (Context::Impl::Assert).                                   *)
THEOREM FalseStaysFinal == Spec => []FalseIsFinal
<1>1. SessionIInv => FalseIsFinal
  BY DEF SessionIInv, FileOK, FalseIsFinal
<1> QED BY <1>1, SessionInductive, PTL

(* The option has the value of the strongest that has set it, in a file    *)
(* and in a program that mixes the sources (OptionValue).                  *)
THEOREM PrecedenceHolds == Spec => []Precedence
<1>1. SessionIInv => Precedence
  BY DEF SessionIInv, OptionOK
<1> QED BY <1>1, SessionInductive, PTL

(* get_model() changes in a check only.                                    *)
THEOREM ModelStaysIsolated == Spec => ModelIsolated
<1>1. SessionIInv /\ [Next]_vars =>
        [answer' \notin Checked => ShownModel' = ShownModel]_cvars
  BY SessionNextInv DEF CtxStep
<1> QED BY <1>1, SessionInductive, PTL DEF Spec, ModelIsolated

(* A command that throws changes no assertion and no scope, and leaves at  *)
(* most one variable declared without its bounds, in the box and marked    *)
(* alike (Context::DeclareVariable, Impl::SetDomain).                      *)
THEOREM ThrowsAreClean == Spec => ThrowsCleanly
<1>1. SessionIInv /\ [Next]_vars => [answer' = "throws" => ThrownCleanly]_cvars
  BY SessionNextInv DEF CtxStep
<1> QED BY <1>1, SessionInductive, PTL DEF Spec, ThrowsCleanly, ThrownCleanly

-----------------------------------------------------------------------------
(* The first binding of a name exists.                                     *)
Below == OpToRel(<, Nat)

LEMMA FirstBinding ==
  ASSUME NEW f \in FrameSet, NEW n \in Bound(f)
  PROVE  \E i \in DOMAIN f.list :
           f.list[i].name = n /\ \A j \in 1 .. i - 1 : f.list[j].name # n
<1> DEFINE S == {i \in DOMAIN f.list : f.list[i].name = n}
<1>1. Len(f.list) \in Nat /\ DOMAIN f.list = 1 .. Len(f.list)
  BY LenProperties DEF FrameSet
<1>2. S \subseteq Nat /\ S # {}
  BY <1>1 DEF Bound
<1>3. \A i, j \in Nat : <<i, j>> \in Below <=> i < j
  BY DEF Below, OpToRel
<1> HIDE DEF S
<1>4. \E i \in S : \A j \in S : ~(<<j, i>> \in Below)
  <2>1. IsWellFoundedOn(Below, Nat)
    BY NatLessThanWellFounded, Zenon DEF Below
  <2> QED BY <1>2, <2>1, WFMin, Zenon
<1>5. PICK i \in S : \A j \in S : ~(<<j, i>> \in Below)
  BY <1>4
<1>6. \A j \in S : ~(j < i)
  BY <1>2, <1>3, <1>5
<1>7. i \in 1 .. Len(f.list) /\ f.list[i].name = n
  BY <1>1 DEF S
<1>8. \A j \in 1 .. i - 1 : j < i /\ j \in DOMAIN f.list
  <2>1. i \in Nat /\ i <= Len(f.list)
    BY <1>1, <1>7
  <2>2. \A j \in 1 .. i - 1 : j < i /\ j \in 1 .. Len(f.list)
    BY <1>1, <2>1
  <2> QED BY <1>1, <2>2
<1>9. \A j \in 1 .. i - 1 : f.list[j].name # n
  BY <1>6, <1>8 DEF S
<1> QED BY <1>1, <1>7, <1>9

(* In a body every name means what it should.                              *)
LEMMA BodyScope ==
  ASSUME NEW f \in FrameSet, NEW env, NEW S, NEW r, LetOK(f, env, S, r), f.phase = "body",
         NEW n \in Bound(f)
  PROVE  LET b == FirstOf(f, n)
             m == IF b.over = Constant THEN Constant ELSE f.outer[b.said]
         IN  BoundTo(env[n], m, S, r)
<1> DEFINE P(i) == i \in DOMAIN f.list /\ f.list[i].name = n
                     /\ \A j \in 1 .. i - 1 : f.list[j].name # n
           k == CHOOSE i \in DOMAIN f.list :
                  f.list[i].name = n /\ \A j \in 1 .. i - 1 : f.list[j].name # n
<1>1. P(k) /\ FirstOf(f, n) = f.list[k]
  BY FirstBinding DEF FirstOf
<1> HIDE DEF k
<1>2. Len(f.list) \in Nat /\ DOMAIN f.list = 1 .. Len(f.list) /\ f.done = 1 .. Len(f.list)
  BY LenProperties DEF FrameSet, LetOK
<1>3. k \in f.done /\ \A j \in f.done : j < k => f.list[j].name # f.list[k].name
  <2>1. \A j \in 1 .. Len(f.list) : j < k => j \in 1 .. k - 1
    BY <1>1, <1>2
  <2> QED BY <1>1, <1>2, <2>1
<1>4. BoundTo(env[n], f.list[k].over, S, r)
  BY <1>1, <1>3 DEF LetOK
<1>5. f.list[k].over \in {Constant, f.outer[f.list[k].said]}
  BY <1>1 DEF LetOK
<1>6. f.list[k].over = IF f.list[k].over = Constant THEN Constant ELSE f.outer[f.list[k].said]
  BY <1>5
<1> QED BY <1>1, <1>4, <1>6

LEMMA ScopeLemma == ScopePart => LexicalScoping
<1> SUFFICES ASSUME ScopePart, mode = "smt2"  PROVE LexicalScoping
  BY DEF LexicalScoping
<1>1. Nested(frames, envs, stack, refuted, created, box)
  BY DEF ScopePart, ScopesNest
<1>2. Len(envs) = Len(frames) + 1 /\ \A i \in DOMAIN frames : envs[i] = frames[i].outer
  BY <1>1 DEF Nested
<1>3. ASSUME frames # <<>>, NEW n \in Name
      PROVE  CASE Frame.phase = "bindings" \/ n \notin Bound(Frame) -> Top[n] = Frame.outer[n]
               [] Frame.phase = "body" /\ Frame.kind = "forall" /\ n \in Bound(Frame) ->
                    Top[n].name = n /\ ~Has(box, Top[n])
               [] Frame.phase = "body" /\ Frame.kind = "let" /\ n \in Bound(Frame) ->
                    LET b == FirstOf(Frame, n)
                        m == IF b.over = Constant THEN Constant ELSE Frame.outer[b.said]
                    IN  IF m = Constant THEN Top[n] = Constant
                        ELSE Top[n].name = Local /\ Top[n].sort = m.sort /\ Defines(Top[n], m)
               [] OTHER -> TRUE
  <2>1. Parsing
    BY <1>3 DEF Parsing
  <2>2. /\ Frame \in FrameSet /\ Frame.kind \in {"let", "forall"}
        /\ Frame.kind = "let" => LetOK(Frame, Top, stack, refuted)
        /\ Frame.kind = "forall" => ForallOK(Frame, Top, created, box)
    BY <2>1, FrameFacts DEF FrameSet
  <2>3. CASE Frame.kind = "forall"
    BY <2>2, <2>3 DEF ForallOK
  <2>4. CASE Frame.kind = "let"
    <3>1. LetOK(Frame, Top, stack, refuted)
      BY <2>2, <2>4
    <3>2. CASE Frame.phase = "bindings" \/ n \notin Bound(Frame)
      <4>1. \A i \in Frame.done : Frame.list[i].name # n
        <5>1. Frame.done \subseteq DOMAIN Frame.list
          <6>1. Len(Frame.list) \in Nat /\ DOMAIN Frame.list = 1 .. Len(Frame.list)
            BY <2>2, LenProperties DEF FrameSet
          <6>2. PICK p \in 0 .. Len(Frame.list) : Frame.done = p + 1 .. Len(Frame.list)
            BY <3>1 DEF LetOK
          <6> QED BY <6>1, <6>2
        <5>2. Frame.phase = "bindings" => Frame.done = {}
          BY <3>1 DEF LetOK
        <5> QED BY <3>2, <5>1, <5>2 DEF Bound
      <4>2. Top[n] = Frame.outer[n]
        BY <3>1, <4>1 DEF LetOK
      <4> QED BY <3>2, <4>2
    <3>3. CASE Frame.phase = "body" /\ n \in Bound(Frame)
      <4> DEFINE b == FirstOf(Frame, n)
                 m == IF b.over = Constant THEN Constant ELSE Frame.outer[b.said]
      <4>1. BoundTo(Top[n], m, stack, refuted)
        BY <2>2, <3>1, <3>3, BodyScope
      <4> HIDE DEF m
      <4>2. IF m = Constant THEN Top[n] = Constant
            ELSE Top[n].name = Local /\ Top[n].sort = m.sort /\ Defines(Top[n], m)
        BY <4>1 DEF BoundTo, Defines
      <4> QED BY <2>4, <3>3, <4>2 DEF m
    <3>4. CASE Frame.phase \notin {"bindings", "body"} /\ n \in Bound(Frame)
      BY <3>4
    <3> QED BY <3>2, <3>3, <3>4
  <2> QED BY <2>2, <2>3, <2>4
<1> QED BY <1>2, <1>3 DEF LexicalScoping

(* Lets bind simultaneously, and scopes nest to any depth                  *)
(* (Smt2Driver::LetScope, smt2/parser.yy).                                 *)
THEOREM LexicalScopes == Spec => []LexicalScoping
<1>1. SessionIInv => LexicalScoping
  BY ThreeParts, ScopeLemma
<1> QED BY <1>1, SessionInductive, PTL
=============================================================================
