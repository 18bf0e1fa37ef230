-------------------------- MODULE ContractorsProofs --------------------------
(***************************************************************************)
(* What the contractors and evaluators do to a box, for any constraints:   *)
(* a contraction, in whichever order its contractors run, leaves a part of *)
(* the box and accounts for what it takes off.                             *)
(***************************************************************************)
EXTENDS Contractors, SequenceTheorems, FiniteSetTheorems, WellFoundedInduction, TLAPS

-----------------------------------------------------------------------------
(* Induction, stated of sets.                                              *)

LEMMA DimIsFinite == Cardinality(Dim) \in Nat /\ Dim = 1 .. Cardinality(Dim) /\ Dim \subseteq Nat \ {0}
<1>1. Cardinality(Dim) \in Nat /\ Dim = 1 .. Cardinality(Dim)
  BY ContractorStatusAssumption, FS_CardinalityType
<1> QED BY <1>1

Below == OpToRel(<, Nat)

LEMMA BelowWellFounded == IsWellFoundedOn(Below, Nat)
BY NatLessThanWellFounded DEF Below

LEMMA BelowIsLess == \A x, y \in Nat : <<y, x>> \in Below <=> y < x
BY DEF Below, OpToRel

(* A set of numbers has a least element.                                   *)
LEMMA LeastNumber ==
  ASSUME NEW S \in SUBSET Nat, S # {}
  PROVE  \E j \in S : \A k \in S : j <= k
<1>1. PICK j \in S : \A k \in S : ~(<<k, j>> \in Below)
  BY WFMin, BelowWellFounded, Zenon
<1>2. \A k \in S : ~(k < j)
  BY <1>1, BelowIsLess
<1> QED BY <1>2

(* A set that has 0 and with each number the next one has all of them.     *)
LEMMA UpTo ==
  ASSUME NEW N \in Nat, NEW T, 0 \in T, \A n \in 1 .. N : n - 1 \in T => n \in T
  PROVE  \A n \in 0 .. N : n \in T
<1> DEFINE S == {n \in 0 .. N : n \notin T}
<1> SUFFICES ASSUME S # {}  PROVE FALSE
  OBVIOUS
<1>1. PICK j \in S : \A k \in S : j <= k
  <2>1. S \in SUBSET Nat
    OBVIOUS
  <2> HIDE DEF S
  <2> QED BY <2>1, LeastNumber
<1>2. j \in 1 .. N /\ j - 1 \in 0 .. N
  OBVIOUS
<1>3. j - 1 \notin S
  BY <1>1, <1>2
<1> QED BY <1>2, <1>3

(* A value and a function for each of N steps define a sequence of values. *)
Steps(N, S) == [1 .. N -> [S -> S]]
Runs(f, N, S, a, g) == f \in [0 .. N -> S] /\ f[0] = a /\ \A i \in 1 .. N : f[i] = g[i][f[i - 1]]

LEMMA NatRecursion ==
  ASSUME NEW N \in Nat, NEW S, NEW a \in S, NEW g \in Steps(N, S)
  PROVE  \E f : Runs(f, N, S, a, g)
<1> USE DEF Steps, Runs
<1> DEFINE Upto(n, f) == f \in [0 .. n -> S] /\ f[0] = a /\ \A i \in 1 .. n : f[i] = g[i][f[i - 1]]
           T == {n \in 0 .. N : \E f : Upto(n, f)}
<1>1. 0 \in T
  <2> DEFINE h == [i \in 0 .. 0 |-> a]
  <2>1. h \in [0 .. 0 -> S] /\ h[0] = a /\ 1 .. 0 = {}
    OBVIOUS
  <2> HIDE DEF h
  <2>2. Upto(0, h)
    BY <2>1
  <2> HIDE DEF Upto
  <2>3. \E f : Upto(0, f)
    BY <2>2
  <2> QED BY <2>3
<1>2. ASSUME NEW n \in 1 .. N, n - 1 \in T
      PROVE  n \in T
  <2>1. PICK f : Upto(n - 1, f)
    BY <1>2
  <2> DEFINE h == [i \in 0 .. n |-> IF i = n THEN g[n][f[n - 1]] ELSE f[i]]
  <2>2. n - 1 \in 0 .. n - 1 /\ f[n - 1] \in S /\ g[n][f[n - 1]] \in S
    BY <2>1
  <2>3. h \in [0 .. n -> S]
    BY <2>1, <2>2
  <2>4. h[0] = a
    BY <2>1
  <2>5. ASSUME NEW i \in 1 .. n
        PROVE  h[i] = g[i][h[i - 1]]
    <3>1. i - 1 \in 0 .. n /\ i - 1 # n /\ h[i - 1] = f[i - 1]
      OBVIOUS
    <3>2. CASE i = n
      BY <3>1, <3>2
    <3>3. CASE i # n
      <4>1. i \in 1 .. n - 1 /\ h[i] = f[i]
        BY <3>3
      <4> HIDE DEF h
      <4> QED BY <2>1, <3>1, <4>1
    <3> QED BY <3>2, <3>3
  <2> HIDE DEF h
  <2>6. Upto(n, h)
    BY <2>3, <2>4, <2>5
  <2> HIDE DEF Upto
  <2>7. \E h1 : Upto(n, h1)
    BY <2>6
  <2> QED BY <2>7
<1> HIDE DEF T
<1>3. N \in T
  <2>1. \A n \in 0 .. N : n \in T
    BY <1>1, <1>2, UpTo, Zenon
  <2> QED BY <2>1
<1> QED BY <1>3 DEF T

-----------------------------------------------------------------------------
(* Folds over a finite set A, one element after the other: ch chooses the  *)
(* next.                                                                   *)
Chooser(A) == {ch \in [(SUBSET A) \ {{}} -> A] : \A s \in (SUBSET A) \ {{}} : ch[s] \in s}

LEMMA SmallerSet ==
  ASSUME NEW A, IsFiniteSet(A), NEW s \in SUBSET A, NEW x \in s
  PROVE  /\ Cardinality(s) \in Nat /\ Cardinality(s \ {x}) = Cardinality(s) - 1
         /\ s \ {x} \in SUBSET A /\ Cardinality(s \ {x}) \in Nat
BY FS_Subset, FS_CardinalityType, FS_RemoveElement

(* A set of subsets that has the empty one and those that it has without   *)
(* the chosen element has them all.                                        *)
LEMMA SubsetInduction ==
  ASSUME NEW A, IsFiniteSet(A), NEW ch \in Chooser(A), NEW Q, {} \in Q,
         \A s \in (SUBSET A) \ {{}} : s \ {ch[s]} \in Q => s \in Q
  PROVE  \A s \in SUBSET A : s \in Q
<1> DEFINE N == Cardinality(A)
           T == {n \in Nat : \A s \in SUBSET A : Cardinality(s) <= n => s \in Q}
<1>0. N \in Nat /\ N \in 0 .. N
  BY FS_CardinalityType
<1> HIDE DEF N
<1>1. \A s \in SUBSET A : Cardinality(s) \in Nat /\ (Cardinality(s) = 0 <=> s = {})
  <2>1. \A s \in SUBSET A : IsFiniteSet(s)
    BY FS_Subset
  <2> QED BY <2>1, FS_CardinalityType, FS_EmptySet
<1>2. 0 \in T
  <2>1. ASSUME NEW s \in SUBSET A, Cardinality(s) <= 0
        PROVE  s \in Q
    <3>1. Cardinality(s) = 0
      BY <1>1, <2>1
    <3> QED BY <1>1, <3>1
  <2> QED BY <2>1
<1>3. ASSUME NEW n \in 1 .. N, n - 1 \in T
      PROVE  n \in T
  <2>1. ASSUME NEW s \in SUBSET A, Cardinality(s) <= n
        PROVE  s \in Q
    <3>1. CASE s = {}
      BY <3>1
    <3>2. CASE s # {}
      <4>1. ch[s] \in s
        BY <3>2 DEF Chooser
      <4>2. Cardinality(s \ {ch[s]}) <= n - 1 /\ s \ {ch[s]} \in SUBSET A
        BY <1>1, <2>1, <4>1, SmallerSet
      <4> QED BY <1>3, <3>2, <4>2
    <3> QED BY <3>1, <3>2
  <2> QED BY <2>1
<1> HIDE DEF T
<1>5. N \in T
  <2>1. \A n \in 0 .. N : n \in T
    BY <1>0, <1>2, <1>3, UpTo, Zenon
  <2> QED BY <1>0, <2>1
<1>6. \A s \in SUBSET A : Cardinality(s) <= N
  BY FS_Subset DEF N
<1> QED BY <1>5, <1>6 DEF T

(* A value and a function for each element of A define a fold.             *)
Folds(f, A, ch, S, a, g) ==
  /\ f \in [SUBSET A -> S]
  /\ \A s \in SUBSET A : f[s] = IF s = {} THEN a ELSE g[ch[s]][f[s \ {ch[s]}]]

LEMMA SubsetRecursion ==
  ASSUME NEW A, IsFiniteSet(A), NEW ch \in Chooser(A), NEW S, NEW a \in S,
         NEW g \in [A -> [S -> S]]
  PROVE  \E f : Folds(f, A, ch, S, a, g)
<1> DEFINE N == Cardinality(A)
           next == [F \in [SUBSET A -> S] |->
                      [s \in SUBSET A |-> IF s = {} THEN a ELSE g[ch[s]][F[s \ {ch[s]}]]]]
           G == [n \in 1 .. N + 1 |-> next]
           first == [s \in SUBSET A |-> a]
<1>1. N \in Nat /\ \A s \in SUBSET A : Cardinality(s) \in Nat /\ Cardinality(s) <= N
                                      /\ (Cardinality(s) = 0 <=> s = {})
  BY FS_Subset, FS_CardinalityType, FS_EmptySet
<1>2. \A s \in (SUBSET A) \ {{}} : ch[s] \in s /\ ch[s] \in A /\ s \ {ch[s]} \in SUBSET A
  BY DEF Chooser
<1>3. next \in [[SUBSET A -> S] -> [SUBSET A -> S]]
  <2>1. ASSUME NEW F \in [SUBSET A -> S], NEW s \in SUBSET A
        PROVE  (IF s = {} THEN a ELSE g[ch[s]][F[s \ {ch[s]}]]) \in S
    BY <1>2
  <2> QED BY <2>1
<1> HIDE DEF next
<1>4. G \in [1 .. N + 1 -> [[SUBSET A -> S] -> [SUBSET A -> S]]] /\ first \in [SUBSET A -> S]
  BY <1>3
<1> USE DEF next
<1>5. PICK F \in [0 .. N + 1 -> [SUBSET A -> S]] :
        F[0] = first /\ \A i \in 1 .. N + 1 : F[i] = G[i][F[i - 1]]
  <2> DEFINE M == N + 1
             U == [SUBSET A -> S]
  <2> HIDE DEF G, first, N, next
  <2>1. M \in Nat
    BY <1>1
  <2>2. first \in U /\ G \in [1 .. M -> [U -> U]]
    BY <1>4
  <2> HIDE DEF U, M
  <2>3. \E f \in [0 .. M -> U] : f[0] = first /\ \A i \in 1 .. M : f[i] = G[i][f[i - 1]]
    <3>1. first \in U
      BY <2>2
    <3>2. G \in Steps(M, U)
      BY <2>2 DEF Steps
    <3>3. \E f : Runs(f, M, U, first, G)
      BY <2>1, <3>1, <3>2, NatRecursion, Zenon
    <3> QED BY <3>3 DEF Runs
  <2> QED BY <2>3 DEF U, M
<1>6. ASSUME NEW i \in 0 .. N, NEW s \in SUBSET A
      PROVE  F[i + 1][s] = IF s = {} THEN a ELSE g[ch[s]][F[i][s \ {ch[s]}]]
  <2>1. i + 1 \in 1 .. N + 1 /\ (i + 1) - 1 = i /\ i \in 0 .. N + 1
    BY <1>1
  <2>2. F[i + 1] = next[F[i]] /\ F[i] \in [SUBSET A -> S]
    BY <1>5, <2>1
  <2> QED BY <2>2
(* Once there are as many rounds as elements, nothing changes any more.    *)
<1> DEFINE T == {n \in 0 .. N : \A s \in SUBSET A : Cardinality(s) <= n => F[n + 1][s] = F[n][s]}
<1> HIDE DEF N, next, G
<1> HIDE DEF first
<1>7. 0 \in T
  <2>1. F[0 + 1][{}] = a
    <3>1. 0 \in 0 .. N /\ {} \in SUBSET A
      BY <1>1
    <3>2. F[0 + 1][{}] = IF {} = {} THEN a ELSE g[ch[{}]][F[0][{} \ {ch[{}]}]]
      BY <1>6, <3>1
    <3> QED BY <3>2
  <2>2. F[0][{}] = a
    BY <1>5 DEF first
  <2>3. \A s \in SUBSET A : Cardinality(s) <= 0 => s = {}
    BY <1>1
  <2>4. 0 \in 0 .. N /\ 0 + 1 = 1
    BY <1>1
  <2>5. \A s \in SUBSET A : Cardinality(s) <= 0 => F[0 + 1][s] = F[0][s]
    BY <2>1, <2>2, <2>3
  <2> QED BY <2>4, <2>5
<1>8. ASSUME NEW n \in 1 .. N, n - 1 \in T
      PROVE  n \in T
  <2>1. ASSUME NEW s \in SUBSET A, Cardinality(s) <= n
        PROVE  F[n + 1][s] = F[n][s]
    <3>1. n - 1 \in 0 .. N /\ n \in 0 .. N /\ (n - 1) + 1 = n
      BY <1>1
    <3>2. F[n][s] = IF s = {} THEN a ELSE g[ch[s]][F[n - 1][s \ {ch[s]}]]
      <4>1. F[(n - 1) + 1][s] = IF s = {} THEN a ELSE g[ch[s]][F[n - 1][s \ {ch[s]}]]
        BY <1>6, <3>1
      <4> QED BY <3>1, <4>1
    <3>3. F[n + 1][s] = IF s = {} THEN a ELSE g[ch[s]][F[n][s \ {ch[s]}]]
      BY <1>6, <3>1
    <3>4. CASE s # {}
      <4>0. ch[s] \in s /\ Cardinality(s) \in Nat
        BY <1>1, <1>2, <3>4
      <4>1. Cardinality(s \ {ch[s]}) = Cardinality(s) - 1 /\ s \ {ch[s]} \in SUBSET A
        BY <4>0, SmallerSet
      <4>3. Cardinality(s \ {ch[s]}) <= (n - 1)
        BY <1>1, <2>1, <4>0, <4>1
      <4>2. F[n][s \ {ch[s]}] = F[n - 1][s \ {ch[s]}]
        BY <1>8, <3>1, <4>1, <4>3
      <4> QED BY <3>2, <3>3, <4>2
    <3> QED BY <3>2, <3>3, <3>4
  <2>2. n \in 0 .. N
    BY <1>1
  <2> QED BY <2>1, <2>2
<1> HIDE DEF T
<1>9. N \in T
  <2>1. N \in Nat /\ N \in 0 .. N
    BY <1>1
  <2>2. \A n \in 0 .. N : n \in T
    BY <1>7, <1>8, <2>1, UpTo, Zenon
  <2> QED BY <2>1, <2>2
<1>10. ASSUME NEW s \in SUBSET A
       PROVE  F[N][s] = IF s = {} THEN a ELSE g[ch[s]][F[N][s \ {ch[s]}]]
  <2>1. F[N + 1][s] = F[N][s]
    BY <1>1, <1>9 DEF T
  <2>2. N \in 0 .. N
    BY <1>1
  <2> QED BY <1>6, <2>1, <2>2
<1>11. F[N] \in [SUBSET A -> S]
  <2>1. N \in 0 .. N + 1
    BY <1>1
  <2> QED BY <1>5, <2>1
<1> QED BY <1>10, <1>11 DEF Folds

-----------------------------------------------------------------------------
(* Choosers there are.                                                     *)
LEMMA SomeChooser ==
  ASSUME NEW A
  PROVE  [s \in (SUBSET A) \ {{}} |-> CHOOSE x \in s : TRUE] \in Chooser(A)
<1>1. ASSUME NEW s \in (SUBSET A) \ {{}}
      PROVE  (CHOOSE x \in s : TRUE) \in s
  <2>1. \E x : x \in s
    OBVIOUS
  <2> QED BY <2>1
<1> QED BY <1>1 DEF Chooser

LEMMA Extremes ==
  ASSUME NEW A, IsFiniteSet(A), A \in SUBSET Int, A # {}
  PROVE  (\E m \in A : \A k \in A : m <= k) /\ (\E m \in A : \A k \in A : k <= m)
<1> DEFINE ch == [s \in (SUBSET A) \ {{}} |-> CHOOSE x \in s : TRUE]
           Q  == {s \in SUBSET A : s = {} \/ ((\E m \in s : \A k \in s : m <= k)
                                              /\ (\E m \in s : \A k \in s : k <= m))}
<1>1. ch \in Chooser(A)
  BY SomeChooser
<1> HIDE DEF ch
<1>2. ASSUME NEW s \in (SUBSET A) \ {{}}, s \ {ch[s]} \in Q
      PROVE  s \in Q
  <2>1. ch[s] \in s /\ ch[s] \in Int
    BY <1>1 DEF Chooser
  <2> DEFINE x == ch[s]
             t == s \ {x}
  <2> HIDE DEF x
  <2>2. \A k \in s : k \in Int /\ (k = x \/ k \in t)
    OBVIOUS
  <2>3. CASE t = {}
    <3>1. \A k \in s : x <= k /\ k <= x
      BY <2>1, <2>2, <2>3 DEF x
    <3> QED BY <2>1, <3>1 DEF x
  <2>4. CASE t # {}
    <3>1. PICK l \in t, h \in t : (\A k \in t : l <= k) /\ (\A k \in t : k <= h)
      BY <1>2, <2>4 DEF x
    <3>2. \E m \in s : \A k \in s : m <= k
      <4>1. CASE x <= l
        BY <2>1, <2>2, <3>1, <4>1 DEF x
      <4>2. CASE ~(x <= l)
        BY <2>1, <2>2, <3>1, <4>2 DEF x
      <4> QED BY <4>1, <4>2
    <3>3. \E m \in s : \A k \in s : k <= m
      <4>1. CASE h <= x
        BY <2>1, <2>2, <3>1, <4>1 DEF x
      <4>2. CASE ~(h <= x)
        BY <2>1, <2>2, <3>1, <4>2 DEF x
      <4> QED BY <4>1, <4>2
    <3> QED BY <3>2, <3>3
  <2> QED BY <2>3, <2>4
<1>3. {} \in Q
  OBVIOUS
<1> HIDE DEF Q
<1>4. \A s \in SUBSET A : s \in Q
  BY <1>1, <1>2, <1>3, SubsetInduction
<1>5. A \in Q
  BY <1>4
<1> QED BY <1>5 DEF Q

LEMMA LeastIs ==
  ASSUME NEW ys, IsFiniteSet(ys), ys \in SUBSET Int, ys # {}
  PROVE  Least(ys) \in ys /\ \A z \in ys : Least(ys) <= z
<1>1. \E m \in ys : \A k \in ys : m <= k
  BY Extremes
<1> QED BY <1>1 DEF Least

-----------------------------------------------------------------------------
(* The value of a relation.                                                *)
Dims == Cardinality(Dim)
Constant(r, y) == r.ycoef * y - r.rhs

(* Partial sums: of intervals, and at a point.                             *)
SumOf(s, dims, r, y, box) ==
  /\ s \in [0 .. Dims -> Int \X Int]
  /\ s[0] = <<Constant(r, y), Constant(r, y)>>
  /\ \A n \in 1 .. Dims :
       s[n] = IF n \in dims THEN Plus(s[n - 1], Scaled(r.coef[n], box[n])) ELSE s[n - 1]
SumAt(s, r, y, p) ==
  /\ s \in [0 .. Dims -> Int]
  /\ s[0] = Constant(r, y)
  /\ \A n \in 1 .. Dims : s[n] = s[n - 1] + r.coef[n] * p[n]

LEMMA RelationParts ==
  ASSUME NEW r \in Relations, NEW y \in Int
  PROVE  /\ r.coef \in [Dim -> Int] /\ r.ycoef \in Int /\ r.rhs \in Int /\ Constant(r, y) \in Int
         /\ r.op \in {"=", "!=", "<=", "<", ">=", ">"}
         /\ \A n \in 1 .. Dims : n \in Dim /\ r.coef[n] \in Int
         /\ Dims \in Nat /\ Dim = 1 .. Dims
<1>1. r.coef \in [Dim -> Int] /\ r.ycoef \in Int /\ r.rhs \in Int
      /\ r.op \in {"=", "!=", "<=", "<", ">=", ">"}
  BY DEF Relations
<1>2. Dims \in Nat /\ Dim = 1 .. Dims
  BY DimIsFinite DEF Dims
<1> QED BY <1>1, <1>2 DEF Constant

LEMMA IntervalSums ==
  ASSUME NEW iv \in Int \X Int, NEW jv \in Int \X Int, NEW c \in Int
  PROVE  /\ Plus(iv, jv) \in Int \X Int /\ Scaled(c, iv) \in Int \X Int
<1>1. c * lb(iv) \in Int /\ c * ub(iv) \in Int
  BY DEF lb, ub
<1> QED BY <1>1 DEF Plus, Scaled, lb, ub

LEMMA ValueIsSum ==
  ASSUME NEW dims, NEW r \in Relations, NEW y \in Int, NEW box, IsBox(box)
  PROVE  \E s : SumOf(s, dims, r, y, box) /\ ValueOver(dims, r, y, box) = s[Dims]
<1> DEFINE a == <<Constant(r, y), Constant(r, y)>>
           Next(n, v) == IF n \in dims THEN Plus(v, Scaled(r.coef[n], box[n])) ELSE v
           g == [n \in 1 .. Dims |-> [v \in Int \X Int |-> Next(n, v)]]
           IsSum(h) == h = [n \in 0 .. Dims |-> IF n = 0 THEN a ELSE Next(n, h[n - 1])]
<1>1. Dims \in Nat /\ a \in Int \X Int
  BY RelationParts
<1>2. \A n \in 1 .. Dims, v \in Int \X Int : Next(n, v) \in Int \X Int
  BY RelationParts, IntervalSums DEF IsBox
<1> HIDE DEF Next, a
<1>3. g \in Steps(Dims, Int \X Int)
  BY <1>2 DEF Steps
<1>4. PICK f : Runs(f, Dims, Int \X Int, a, g)
  <2> HIDE DEF g
  <2> QED BY <1>1, <1>3, NatRecursion
<1>5. IsSum(f)
  <2>1. \A n \in 1 .. Dims : n - 1 \in 0 .. Dims /\ f[n - 1] \in Int \X Int
    BY <1>1, <1>4 DEF Runs
  <2>2. \A n \in 1 .. Dims : f[n] = Next(n, f[n - 1])
    BY <1>4, <2>1 DEF Runs
  <2>3. \A n \in 0 .. Dims : f[n] = IF n = 0 THEN a ELSE Next(n, f[n - 1])
    BY <1>1, <1>4, <2>2 DEF Runs
  <2>4. f = [n \in 0 .. Dims |-> f[n]]
    BY <1>4 DEF Runs
  <2> QED BY <2>3, <2>4
<1> DEFINE s == CHOOSE h : IsSum(h)
<1>6. IsSum(s)
  <2> HIDE DEF IsSum
  <2> QED BY <1>5
<1>7. ValueOver(dims, r, y, box) = s[Dims]
  BY DEF ValueOver, Next, a, Constant, Dims
<1> HIDE DEF s
<1>8. s[0] = a /\ \A n \in 1 .. Dims : s[n] = Next(n, s[n - 1])
  <2>1. 0 \in 0 .. Dims /\ \A n \in 1 .. Dims : n \in 0 .. Dims /\ n # 0
    BY <1>1
  <2> QED BY <1>6, <2>1
<1>9. \A n \in 0 .. Dims : s[n] \in Int \X Int
  <2> DEFINE T == {n \in 0 .. Dims : s[n] \in Int \X Int}
  <2>1. 0 \in T /\ \A n \in 1 .. Dims : n - 1 \in T => n \in T
    BY <1>1, <1>2, <1>8
  <2> HIDE DEF T
  <2>2. \A n \in 0 .. Dims : n \in T
    BY <1>1, <2>1, UpTo
  <2> QED BY <2>2 DEF T
<1>10. s \in [0 .. Dims -> Int \X Int]
  BY <1>6, <1>9
<1>11. SumOf(s, dims, r, y, box)
  BY <1>8, <1>10 DEF SumOf, a, Next
<1> QED BY <1>7, <1>11

LEMMA AtIsSum ==
  ASSUME NEW r \in Relations, NEW y \in Int, NEW p \in [Dim -> Int]
  PROVE  \E s : SumAt(s, r, y, p) /\ At(r, y, p) = s[Dims]
<1> DEFINE a == Constant(r, y)
           Next(n, v) == v + r.coef[n] * p[n]
           g == [n \in 1 .. Dims |-> [v \in Int |-> Next(n, v)]]
           IsSum(h) == h = [n \in 0 .. Dims |-> IF n = 0 THEN a ELSE Next(n, h[n - 1])]
<1>1. Dims \in Nat /\ a \in Int
  BY RelationParts
<1>2. \A n \in 1 .. Dims, v \in Int : Next(n, v) \in Int
  <2>1. ASSUME NEW n \in 1 .. Dims, NEW v \in Int  PROVE Next(n, v) \in Int
    <3>1. r.coef[n] \in Int /\ p[n] \in Int
      BY RelationParts
    <3>2. r.coef[n] * p[n] \in Int
      BY <3>1
    <3> QED BY <3>2
  <2> QED BY <2>1
<1> HIDE DEF Next, a
<1>3. g \in Steps(Dims, Int)
  BY <1>2 DEF Steps
<1>4. PICK f : Runs(f, Dims, Int, a, g)
  <2> HIDE DEF g
  <2> QED BY <1>1, <1>3, NatRecursion
<1>5. IsSum(f)
  <2>1. \A n \in 1 .. Dims : n - 1 \in 0 .. Dims /\ f[n - 1] \in Int
    BY <1>1, <1>4 DEF Runs
  <2>2. \A n \in 1 .. Dims : f[n] = Next(n, f[n - 1])
    BY <1>4, <2>1 DEF Runs
  <2>3. \A n \in 0 .. Dims : f[n] = IF n = 0 THEN a ELSE Next(n, f[n - 1])
    BY <1>1, <1>4, <2>2 DEF Runs
  <2>4. f = [n \in 0 .. Dims |-> f[n]]
    BY <1>4 DEF Runs
  <2> QED BY <2>3, <2>4
<1> DEFINE s == CHOOSE h : IsSum(h)
<1>6. IsSum(s)
  <2> HIDE DEF IsSum
  <2> QED BY <1>5
<1>7. At(r, y, p) = s[Dims]
  BY DEF At, Next, a, Constant, Dims
<1> HIDE DEF s
<1>8. s[0] = a /\ \A n \in 1 .. Dims : s[n] = Next(n, s[n - 1])
  <2>1. 0 \in 0 .. Dims /\ \A n \in 1 .. Dims : n \in 0 .. Dims /\ n # 0
    BY <1>1
  <2> QED BY <1>6, <2>1
<1>9. \A n \in 0 .. Dims : s[n] \in Int
  <2> DEFINE T == {n \in 0 .. Dims : s[n] \in Int}
  <2>1. 0 \in T /\ \A n \in 1 .. Dims : n - 1 \in T => n \in T
    BY <1>1, <1>2, <1>8
  <2> HIDE DEF T
  <2>2. \A n \in 0 .. Dims : n \in T
    BY <1>1, <2>1, UpTo
  <2> QED BY <2>2 DEF T
<1>10. s \in [0 .. Dims -> Int]
  BY <1>6, <1>9
<1>11. SumAt(s, r, y, p)
  BY <1>8, <1>10 DEF SumAt, a, Next
<1> QED BY <1>7, <1>11

-----------------------------------------------------------------------------
(* What the value of a relation over a box says of its values at points.   *)
LEMMA Times ==
  ASSUME NEW c \in Int, NEW a \in Int, NEW b \in Int, a <= b
  PROVE  /\ c >= 0 => c * a <= c * b
         /\ c <= 0 => c * b <= c * a
<1>1. c * a \in Int /\ c * b \in Int /\ c * (b - a) = c * b - c * a
  OBVIOUS
<1>2. CASE c >= 0
  <2>1. c * (b - a) >= 0
    BY <1>2
  <2>2. c <= 0 => c = 0
    BY <1>2
  <2> QED BY <1>1, <2>1, <2>2
<1>3. CASE c <= 0
  <2>1. (-c) * (b - a) >= 0 /\ (-c) * (b - a) = -(c * (b - a))
    BY <1>3
  <2>2. c >= 0 => c = 0
    BY <1>3
  <2> QED BY <1>1, <2>1, <2>2
<1> QED BY <1>2, <1>3

LEMMA ScaledContains ==
  ASSUME NEW c \in Int, NEW iv \in Int \X Int, NEW x \in Int, c # 0 => contains(iv, x)
  PROVE  contains(Scaled(c, iv), c * x)
<1> DEFINE l == lb(iv)
           h == ub(iv)
<1>1. l \in Int /\ h \in Int
  BY DEF lb, ub
<1>2. c # 0 => l <= x /\ x <= h
  BY DEF contains
<1>3. /\ c >= 0 => lb(Scaled(c, iv)) = c * l /\ ub(Scaled(c, iv)) = c * h
      /\ ~(c >= 0) => lb(Scaled(c, iv)) = c * h /\ ub(Scaled(c, iv)) = c * l
  BY DEF Scaled, lb, ub
<1> HIDE DEF l, h
<1>4. CASE c = 0
  <2>1. c * l = 0 /\ c * h = 0 /\ c * x = 0
    BY <1>1, <1>4
  <2> QED BY <1>3, <1>4, <2>1 DEF contains
<1>5. CASE c > 0
  <2>1. c * l <= c * x /\ c * x <= c * h
    BY <1>1, <1>2, <1>5, Times
  <2> QED BY <1>3, <1>5, <2>1 DEF contains
<1>6. CASE c < 0
  <2>1. c * h <= c * x /\ c * x <= c * l
    BY <1>1, <1>2, <1>6, Times
  <2> QED BY <1>3, <1>6, <2>1 DEF contains
<1> QED BY <1>4, <1>5, <1>6

LEMMA PlusContains ==
  ASSUME NEW iv \in Int \X Int, NEW jv \in Int \X Int, NEW x \in Int, NEW y \in Int,
         contains(iv, x), contains(jv, y)
  PROVE  contains(Plus(iv, jv), x + y)
BY DEF Plus, contains, lb, ub

(* Without the term of the variable i (none, for i = 0).                   *)
LEMMA ValueContains ==
  ASSUME NEW r \in Relations, NEW y \in Int, NEW box, IsBox(box), NEW p \in [Dim -> Int],
         NEW i \in Dim \cup {0},
         \A j \in Dim \ {i} : r.coef[j] # 0 => contains(box[j], p[j])
  PROVE  contains(ValueOver(Dim \ {i}, r, y, box),
                  At(r, y, p) - IF i = 0 THEN 0 ELSE r.coef[i] * p[i])
<1> DEFINE term == IF i = 0 THEN 0 ELSE r.coef[i] * p[i]
           off(n) == IF i # 0 /\ n >= i THEN term ELSE 0
<1>1. PICK s : SumOf(s, Dim \ {i}, r, y, box) /\ ValueOver(Dim \ {i}, r, y, box) = s[Dims]
  BY ValueIsSum, SMTT(20)
<1>2. PICK t : SumAt(t, r, y, p) /\ At(r, y, p) = t[Dims]
  BY AtIsSum, SMTT(20)
<1>3. Dims \in Nat /\ Dim = 1 .. Dims /\ i \in Int /\ (i # 0 => i \in 1 .. Dims)
  <2>1. Dims \in Nat /\ Dim = 1 .. Dims
    BY RelationParts
  <2>2. i \in 1 .. Dims \/ i = 0
    BY <2>1
  <2> HIDE DEF Dims
  <2> QED BY <2>1, <2>2
<1>4. term \in Int
  <2>1. CASE i # 0
    <3>1. r.coef[i] \in Int /\ p[i] \in Int
      BY <2>1, RelationParts
    <3> QED BY <2>1, <3>1
  <2> QED BY <2>1
<1> DEFINE T == {n \in 0 .. Dims : contains(s[n], t[n] - off(n))}
<1>5. 0 \in T
  <2>1. s[0] = <<Constant(r, y), Constant(r, y)>> /\ t[0] = Constant(r, y) /\ Constant(r, y) \in Int
    BY <1>1, <1>2, RelationParts DEF SumOf, SumAt
  <2>2. off(0) = 0
    BY <1>3
  <2> HIDE DEF off
  <2>3. contains(s[0], t[0] - off(0))
    BY <2>1, <2>2 DEF contains, lb, ub
  <2> QED BY <1>3, <2>3
<1>6. ASSUME NEW n \in 1 .. Dims, n - 1 \in T
      PROVE  n \in T
  <2> DEFINE x == r.coef[n] * p[n]
             v == t[n - 1] - off(n - 1)
  <2>1. n \in Dim /\ n - 1 \in 0 .. Dims /\ n \in 0 .. Dims /\ r.coef[n] \in Int /\ p[n] \in Int
        /\ x \in Int /\ box[n] \in Int \X Int
    <3>1. n \in Dim /\ n - 1 \in 0 .. Dims /\ n \in 0 .. Dims
      BY <1>3
    <3>2. r.coef[n] \in Int /\ p[n] \in Int /\ box[n] \in Int \X Int
      BY <3>1, RelationParts DEF IsBox
    <3> QED BY <3>1, <3>2
  <2>2. /\ s[n - 1] \in Int \X Int /\ t[n - 1] \in Int /\ t[n] = t[n - 1] + x
        /\ s[n] = IF n \in Dim \ {i} THEN Plus(s[n - 1], Scaled(r.coef[n], box[n])) ELSE s[n - 1]
    BY <1>1, <1>2, <2>1 DEF SumOf, SumAt
  <2>3. contains(s[n - 1], v) /\ v \in Int
    BY <1>4, <1>6, <2>2
  <2>4. CASE n = i
    <3>1. off(n) = x /\ off(n - 1) = 0
      BY <1>3, <2>1, <2>4
    <3> HIDE DEF off, x
    <3>2. t[n] - off(n) = v
      BY <2>1, <2>2, <3>1
    <3> QED BY <2>1, <2>2, <2>3, <2>4, <3>2
  <2>5. CASE n # i
    <3>1. off(n) = off(n - 1) /\ off(n) \in Int
      BY <1>3, <1>4, <2>1, <2>5
    <3>2. contains(Scaled(r.coef[n], box[n]), x) /\ Scaled(r.coef[n], box[n]) \in Int \X Int
      BY <2>1, <2>5, ScaledContains, IntervalSums
    <3> HIDE DEF x, off
    <3>3. t[n] - off(n) = v + x
      BY <2>1, <2>2, <3>1
    <3> HIDE DEF v
    <3>4. contains(s[n], v + x)
      BY <2>1, <2>2, <2>3, <2>5, <3>2, PlusContains
    <3> QED BY <2>1, <3>3, <3>4
  <2> QED BY <2>4, <2>5
<1> HIDE DEF T
<1>7. Dims \in T
  <2>1. \A n \in 0 .. Dims : n \in T
    BY <1>3, <1>5, <1>6, UpTo
  <2> QED BY <1>3, <2>1
<1>8. off(Dims) = term
  BY <1>3
<1> QED BY <1>1, <1>2, <1>7, <1>8 DEF T

LEMMA ValueType ==
  ASSUME NEW dims, NEW r \in Relations, NEW y \in Int, NEW box, IsBox(box)
  PROVE  ValueOver(dims, r, y, box) \in Int \X Int
<1>1. PICK s : SumOf(s, dims, r, y, box) /\ ValueOver(dims, r, y, box) = s[Dims]
  BY ValueIsSum, SMTT(20)
<1>2. Dims \in Nat /\ Dims \in 0 .. Dims
  BY RelationParts
<1> QED BY <1>1, <1>2 DEF SumOf

LEMMA AtType ==
  ASSUME NEW r \in Relations, NEW y \in Int, NEW p \in [Dim -> Int]
  PROVE  At(r, y, p) \in Int
<1>1. PICK s : SumAt(s, r, y, p) /\ At(r, y, p) = s[Dims]
  BY AtIsSum, SMTT(20)
<1>2. Dims \in Nat /\ Dims \in 0 .. Dims
  BY RelationParts
<1> QED BY <1>1, <1>2 DEF SumAt

(* All of it.                                                              *)
LEMMA ValueOfPoint ==
  ASSUME NEW r \in Relations, NEW y \in Int, NEW box, IsBox(box), NEW p \in [Dim -> Int],
         \A j \in Dim : r.coef[j] # 0 => contains(box[j], p[j])
  PROVE  contains(Value(r, y, box), At(r, y, p))
<1>1. 0 \notin Dim /\ Dim \ {0} = Dim
  BY DimIsFinite
<1>2. contains(ValueOver(Dim \ {0}, r, y, box), At(r, y, p) - IF 0 = 0 THEN 0 ELSE r.coef[0] * p[0])
  BY ValueContains
<1>3. At(r, y, p) - 0 = At(r, y, p)
  BY AtType
<1> QED BY <1>1, <1>2, <1>3 DEF Value

-----------------------------------------------------------------------------
(* The widths of values.                                                   *)
LEMMA ScaledWidth ==
  ASSUME NEW c \in Int, NEW iv \in Int \X Int, NEW jv \in Int \X Int,
         c # 0 => diam(iv) <= diam(jv)
  PROVE  diam(Scaled(c, iv)) <= diam(Scaled(c, jv))
<1> DEFINE a == lb(iv)
           b == ub(iv)
           d == lb(jv)
           e == ub(jv)
<1>1. a \in Int /\ b \in Int /\ d \in Int /\ e \in Int
  BY DEF lb, ub
<1>2. c # 0 => b - a <= e - d
  BY DEF diam
<1>3. /\ c >= 0 => diam(Scaled(c, iv)) = c * b - c * a /\ diam(Scaled(c, jv)) = c * e - c * d
      /\ ~(c >= 0) => diam(Scaled(c, iv)) = c * a - c * b /\ diam(Scaled(c, jv)) = c * d - c * e
  BY DEF Scaled, diam, lb, ub
<1> HIDE DEF a, b, d, e
<1>4. /\ c * (b - a) = c * b - c * a /\ c * (e - d) = c * e - c * d
      /\ c * a \in Int /\ c * b \in Int /\ c * d \in Int /\ c * e \in Int
  BY <1>1
<1>5. CASE c = 0
  <2>1. c * a = 0 /\ c * b = 0 /\ c * d = 0 /\ c * e = 0
    BY <1>1, <1>5
  <2> QED BY <1>3, <1>5, <2>1
<1>6. CASE c > 0
  <2>1. b - a \in Int /\ e - d \in Int /\ b - a <= e - d
    BY <1>1, <1>2, <1>6
  <2>2. c * (b - a) <= c * (e - d)
    BY <1>6, <2>1, Times
  <2> QED BY <1>3, <1>4, <1>6, <2>2
<1>7. CASE c < 0
  <2>1. b - a \in Int /\ e - d \in Int /\ b - a <= e - d
    BY <1>1, <1>2, <1>7
  <2>2. c * (e - d) <= c * (b - a)
    BY <1>7, <2>1, Times
  <2> QED BY <1>3, <1>4, <1>7, <2>2
<1> QED BY <1>5, <1>6, <1>7

LEMMA PlusWidth ==
  ASSUME NEW iv \in Int \X Int, NEW jv \in Int \X Int
  PROVE  diam(Plus(iv, jv)) = diam(iv) + diam(jv)
BY DEF Plus, diam, lb, ub

(* A value over narrower intervals is narrower.                            *)
LEMMA ValueWidth ==
  ASSUME NEW r \in Relations, NEW y \in Int, NEW box, IsBox(box), NEW wide, IsBox(wide),
         \A j \in Dim : r.coef[j] # 0 => diam(box[j]) <= diam(wide[j])
  PROVE  diam(Value(r, y, box)) <= diam(Value(r, y, wide))
<1>1. PICK s : SumOf(s, Dim, r, y, box) /\ ValueOver(Dim, r, y, box) = s[Dims]
  BY ValueIsSum, SMTT(20)
<1>2. PICK t : SumOf(t, Dim, r, y, wide) /\ ValueOver(Dim, r, y, wide) = t[Dims]
  BY ValueIsSum, SMTT(20)
<1>3. Dims \in Nat /\ Dim = 1 .. Dims
  BY RelationParts
<1> DEFINE T == {n \in 0 .. Dims : diam(s[n]) <= diam(t[n])}
<1>4. 0 \in T
  <2>1. s[0] = t[0] /\ s[0] \in Int \X Int
    BY <1>1, <1>2, <1>3 DEF SumOf
  <2>2. diam(s[0]) <= diam(t[0])
    BY <2>1 DEF diam, lb, ub
  <2> QED BY <1>3, <2>2
<1>5. ASSUME NEW n \in 1 .. Dims, n - 1 \in T
      PROVE  n \in T
  <2>1. n \in Dim /\ n - 1 \in 0 .. Dims /\ n \in 0 .. Dims /\ r.coef[n] \in Int
        /\ box[n] \in Int \X Int /\ wide[n] \in Int \X Int
    BY <1>3, RelationParts DEF IsBox
  <2> DEFINE u == Scaled(r.coef[n], box[n])
             v == Scaled(r.coef[n], wide[n])
  <2>2. s[n - 1] \in Int \X Int /\ s[n] = Plus(s[n - 1], u)
    BY <1>1, <2>1 DEF SumOf
  <2>3. t[n - 1] \in Int \X Int /\ t[n] = Plus(t[n - 1], v)
    BY <1>2, <2>1 DEF SumOf
  <2>4. u \in Int \X Int /\ v \in Int \X Int
    BY <2>1, IntervalSums
  <2>5. diam(u) <= diam(v)
    BY <2>1, ScaledWidth
  <2> HIDE DEF u, v
  <2>6. diam(s[n]) = diam(s[n - 1]) + diam(u) /\ diam(t[n]) = diam(t[n - 1]) + diam(v)
    BY <2>2, <2>3, <2>4, PlusWidth
  <2>7. diam(u) \in Int /\ diam(v) \in Int /\ diam(s[n - 1]) \in Int /\ diam(t[n - 1]) \in Int
    BY <2>2, <2>3, <2>4 DEF diam, lb, ub
  <2>8. diam(s[n]) <= diam(t[n])
    BY <1>5, <2>5, <2>6, <2>7
  <2> QED BY <2>1, <2>8
<1> HIDE DEF T
<1>6. Dims \in T
  <2>1. \A n \in 0 .. Dims : n \in T
    BY <1>3, <1>4, <1>5, UpTo
  <2> QED BY <1>3, <2>1
<1> QED BY <1>1, <1>2, <1>6 DEF T, Value

(* One variable against a constant.                                        *)
LEMMA UnitAt ==
  ASSUME NEW r \in Relations, NEW i \in Dim, r.coef = [j \in Dim |-> IF i = j THEN 1 ELSE 0],
         NEW p \in [Dim -> Int]
  PROVE  At(r, 0, p) = p[i] - r.rhs
<1>1. PICK t : SumAt(t, r, 0, p) /\ At(r, 0, p) = t[Dims]
  BY AtIsSum, SMTT(20)
<1>2. Dims \in Nat /\ Dim = 1 .. Dims /\ r.rhs \in Int /\ r.ycoef \in Int /\ p[i] \in Int /\ i \in 1 .. Dims
  BY RelationParts
<1> DEFINE T == {n \in 0 .. Dims : t[n] = (IF n >= i THEN p[i] ELSE 0) - r.rhs}
<1>3. 0 \in T
  <2>1. t[0] = r.ycoef * 0 - r.rhs /\ r.ycoef * 0 = 0
    BY <1>1, <1>2 DEF SumAt, Constant
  <2> QED BY <1>2, <2>1
<1>4. ASSUME NEW n \in 1 .. Dims, n - 1 \in T
      PROVE  n \in T
  <2>1. n \in Dim /\ n \in 0 .. Dims /\ n - 1 \in 0 .. Dims /\ p[n] \in Int
    BY <1>2
  <2>2. t[n] = t[n - 1] + r.coef[n] * p[n]
    BY <1>1 DEF SumAt
  <2>3. CASE n = i
    <3>1. r.coef[n] * p[n] = p[i]
      BY <2>1, <2>3
    <3> QED BY <1>2, <1>4, <2>1, <2>2, <2>3, <3>1
  <2>4. CASE n # i
    <3>1. r.coef[n] * p[n] = 0
      BY <2>1, <2>4
    <3> QED BY <1>2, <1>4, <2>1, <2>2, <2>4, <3>1
  <2> QED BY <2>3, <2>4
<1> HIDE DEF T
<1>5. Dims \in T
  <2>1. \A n \in 0 .. Dims : n \in T
    BY <1>2, <1>3, <1>4, UpTo
  <2> QED BY <1>2, <2>1
<1> QED BY <1>1, <1>2, <1>5 DEF T

LEMMA UnitWidth ==
  ASSUME NEW r \in Relations, NEW i \in Dim, r.coef = [j \in Dim |-> IF i = j THEN 1 ELSE 0]
  PROVE  diam(Value(r, 0, [j \in Dim |-> <<0, 1>>])) >= 1
<1> DEFINE unit == [j \in Dim |-> <<0, 1>>]
           p == [j \in Dim |-> 0]
           q == [j \in Dim |-> 1]
<1>1. IsBox(unit) /\ p \in [Dim -> Int] /\ q \in [Dim -> Int] /\ p[i] = 0 /\ q[i] = 1
  BY DEF IsBox
<1>2. \A j \in Dim : contains(unit[j], p[j]) /\ contains(unit[j], q[j])
  BY DEF contains, lb, ub
<1> HIDE DEF unit, p, q
<1>3. contains(Value(r, 0, unit), At(r, 0, p)) /\ contains(Value(r, 0, unit), At(r, 0, q))
  BY <1>1, <1>2, ValueOfPoint
<1>4. At(r, 0, p) = p[i] - r.rhs /\ At(r, 0, q) = q[i] - r.rhs
  BY <1>1, UnitAt
<1>5. Value(r, 0, unit) \in Int \X Int /\ r.rhs \in Int
  BY <1>1, ValueType, RelationParts DEF Value
<1>6. diam(Value(r, 0, unit)) >= 1
  BY <1>1, <1>3, <1>4, <1>5 DEF contains, diam, lb, ub
<1> QED BY <1>6 DEF unit

(* Without the quantified variable its value does not matter.              *)
LEMMA AtAnyY ==
  ASSUME NEW r \in Relations, r.ycoef = 0, NEW y \in Int, NEW p
  PROVE  At(r, y, p) = At(r, 0, p)
<1>1. r.ycoef * y - r.rhs = r.ycoef * 0 - r.rhs
  <2>1. r.ycoef * y = 0 /\ r.ycoef * 0 = 0
    OBVIOUS
  <2> QED BY <2>1
<1> QED BY <1>1 DEF At
-----------------------------------------------------------------------------
(* Boxes.                                                                  *)
Boxes == [Dim -> Int \X Int]

LEMMA BoxIsNotEmpty == \A box : IsBox(box) => box # Empty
<1>1. DOMAIN Empty = {} /\ Dim # {}
  BY ContractorStatusAssumption DEF Empty
<1> QED BY <1>1 DEF IsBox

LEMMA WithinItself == \A box : IsBox(box) => Within(box, box)
BY DEF IsBox, Within, lb, ub

LEMMA EmptyCoversNothing == \A D, p : ~CoversOn(D, Empty, p)
BY DEF CoversOn

(* Multiples of the unit that are below a bound are below its quotient.    *)
LEMMA Multiples ==
  ASSUME NEW u \in Nat \ {0}, NEW q \in Int, NEW b \in Int, q % u = 0
  PROVE  /\ b \div u \in Int
         /\ q <= b => q <= (b \div u) * u
         /\ b < q => (b \div u) * u + u <= q
         /\ b <= q => DivUp(b, u) * u <= q
<1> DEFINE k == q \div u
           d == b \div u
           e == (-b) \div u
<1>1. k \in Int /\ q = k * u
  OBVIOUS
<1>2. d \in Int /\ d * u <= b /\ b < d * u + u
  OBVIOUS
<1>3. e \in Int /\ e * u <= -b /\ -b < e * u + u
  OBVIOUS
<1> HIDE DEF k, d, e
<1>4. q <= b => q <= d * u
  <2>1. ASSUME q <= b, k > d  PROVE FALSE
    <3>1. (k - d - 1) * u >= 0
      BY <1>1, <1>2, <2>1
    <3>2. (k - d - 1) * u = k * u - d * u - u
      BY <1>1, <1>2
    <3> QED BY <1>1, <1>2, <2>1, <3>1, <3>2
  <2>2. ASSUME k <= d  PROVE k * u <= d * u
    <3>1. (d - k) * u >= 0 /\ (d - k) * u = d * u - k * u
      BY <1>1, <1>2, <2>2
    <3> QED BY <1>1, <1>2, <3>1
  <2> QED BY <1>1, <1>2, <2>1, <2>2
<1>5. b < q => d * u + u <= q
  <2>1. ASSUME b < q, k <= d  PROVE FALSE
    <3>1. (d - k) * u >= 0 /\ (d - k) * u = d * u - k * u
      BY <1>1, <1>2, <2>1
    <3> QED BY <1>1, <1>2, <2>1, <3>1
  <2>2. ASSUME k > d  PROVE d * u + u <= q
    <3>1. (k - d - 1) * u >= 0 /\ (k - d - 1) * u = k * u - d * u - u
      BY <1>1, <1>2, <2>2
    <3> QED BY <1>1, <1>2, <3>1
  <2> QED BY <1>1, <1>2, <2>1, <2>2
<1>6. b <= q => (-e) * u <= q
  <2>1. ASSUME b <= q, k < -e  PROVE FALSE
    <3>1. (-e - k - 1) * u >= 0 /\ (-e - k - 1) * u = -(e * u) - k * u - u
      BY <1>1, <1>3, <2>1
    <3> QED BY <1>1, <1>3, <2>1, <3>1
  <2>2. ASSUME k >= -e  PROVE (-e) * u <= q
    <3>1. (k + e) * u >= 0 /\ (k + e) * u = k * u + e * u /\ (-e) * u = -(e * u)
      BY <1>1, <1>3, <2>2
    <3> QED BY <1>1, <1>3, <3>1
  <2> QED BY <1>1, <1>3, <2>1, <2>2
<1>7. DivUp(b, u) = -e
  BY DEF DivUp, e
<1> QED BY <1>2, <1>4, <1>5, <1>6, <1>7 DEF d

LEMMA Quotients ==
  ASSUME NEW u \in Nat \ {0}, NEW b \in Int
  PROVE  /\ (b \div u) * u \in Int /\ (b \div u) * u <= b /\ b < (b \div u) * u + u
         /\ DivUp(b, u) * u \in Int /\ b <= DivUp(b, u) * u
<1> DEFINE d == b \div u
           e == (-b) \div u
<1>1. d \in Int /\ d * u <= b /\ b < d * u + u
  OBVIOUS
<1>2. e \in Int /\ e * u <= -b
  OBVIOUS
<1>3. DivUp(b, u) = -e
  BY DEF DivUp
<1> HIDE DEF d, e
<1>4. e * u \in Int /\ (-e) * u = -(e * u) /\ d * u \in Int
  BY <1>1, <1>2
<1>5. b <= (-e) * u /\ (-e) * u \in Int
  BY <1>2, <1>4
<1> QED BY <1>1, <1>3, <1>4, <1>5 DEF d

LEMMA Floors ==
  ASSUME NEW d \in Nat \ {0}, NEW a \in Int, NEW x \in Int
  PROVE  /\ a \div d \in Int /\ DivUp(a, d) \in Int
         /\ a <= d * x => a \div d <= x
         /\ d * x <= a => x <= DivUp(a, d)
<1> DEFINE k == a \div d
           e == (-a) \div d
<1>1. k \in Int /\ k * d <= a /\ e \in Int /\ e * d <= -a /\ DivUp(a, d) = -e
  BY DEF DivUp
<1> HIDE DEF k, e
<1>2. ASSUME a <= d * x, k > x  PROVE FALSE
  <2>1. (k - x - 1) * d >= 0 /\ (k - x - 1) * d = k * d - d * x - d
    BY <1>1, <1>2
  <2>2. k * d \in Int /\ d * x \in Int
    BY <1>1
  <2> QED BY <1>1, <1>2, <2>1, <2>2
<1>3. ASSUME d * x <= a, x > -e  PROVE FALSE
  <2>1. (x + e - 1) * d >= 0 /\ (x + e - 1) * d = d * x + e * d - d
    BY <1>1, <1>3
  <2>2. e * d \in Int /\ d * x \in Int
    BY <1>1
  <2> QED BY <1>1, <1>3, <2>1, <2>2
<1>4. (a <= d * x => k <= x) /\ (d * x <= a => x <= -e)
  BY <1>1, <1>2, <1>3
<1> QED BY <1>1, <1>4 DEF k

-----------------------------------------------------------------------------
(* One relation against a box.                                             *)
Operators == {"=", "!=", "<=", "<", ">=", ">"}

LEMMA CompareIs ==
  ASSUME NEW v \in Int, NEW op \in Operators, Compare(v, op)
  PROVE  /\ op = "="           => v = 0
         /\ op = "!="          => v # 0
         /\ op = "<"           => v < 0
         /\ op = ">"           => v > 0
         /\ op \in {"<=", "<"} => v <= 0
         /\ op \in {">=", ">"} => v >= 0
<1>1. CASE op = "="
  BY <1>1 DEF Compare
<1>2. CASE op = "!="
  BY <1>2 DEF Compare
<1>3. CASE op = "<="
  BY <1>3 DEF Compare
<1>4. CASE op = "<"
  BY <1>4 DEF Compare
<1>5. CASE op = ">="
  BY <1>5 DEF Compare
<1>6. CASE op = ">"
  BY <1>6 DEF Compare
<1> QED BY <1>1, <1>2, <1>3, <1>4, <1>5, <1>6 DEF Operators

(* The bounds that Narrowed takes over: the lower one when the terms with  *)
(* the variable cannot be below zero, the upper one likewise.              *)
LEMMA NarrowedParts ==
  ASSUME NEW iv \in Int \X Int, NEW c \in Int, c # 0, NEW op, NEW rest \in Int \X Int
  PROVE  LET n == Narrowed(iv, c, op, rest)
         IN  /\ n \in Int \X Int /\ lb(iv) <= lb(n) /\ ub(n) <= ub(iv)
<1> DEFINE low   == IF c > 0 THEN (-ub(rest)) \div c ELSE lb(rest) \div (-c)
           high  == IF c > 0 THEN DivUp(-lb(rest), c) ELSE DivUp(ub(rest), -c)
<1>1. lb(rest) \in Int /\ ub(rest) \in Int /\ -lb(rest) \in Int /\ -ub(rest) \in Int
      /\ lb(iv) \in Int /\ ub(iv) \in Int
  BY DEF lb, ub
<1>2. low \in Int /\ high \in Int
  <2>1. CASE c > 0
    BY <1>1, <2>1, Floors
  <2>2. CASE ~(c > 0)
    <3>1. -c \in Nat \ {0}
      BY <2>2
    <3> QED BY <1>1, <2>2, <3>1, Floors
  <2> QED BY <2>1, <2>2
<1> DEFINE n == Narrowed(iv, c, op, rest)
<1>3. /\ lb(n) = lb(iv) \/ lb(n) = Higher(lb(iv), low)
      /\ ub(n) = ub(iv) \/ ub(n) = Lower(ub(iv), high)
      /\ n = <<lb(n), ub(n)>>
  BY DEF Narrowed, lb, ub
<1> HIDE DEF low, high, n
<1>4. /\ Higher(lb(iv), low) \in Int /\ lb(iv) <= Higher(lb(iv), low)
      /\ Lower(ub(iv), high) \in Int /\ Lower(ub(iv), high) <= ub(iv)
  BY <1>1, <1>2 DEF Higher, Lower
<1>5. lb(n) \in Int /\ ub(n) \in Int /\ lb(iv) <= lb(n) /\ ub(n) <= ub(iv)
  BY <1>1, <1>3, <1>4
<1>6. n \in Int \X Int
  BY <1>3, <1>5
<1> QED BY <1>5, <1>6 DEF n

LEMMA NarrowedContains ==
  ASSUME NEW iv \in Int \X Int, NEW c \in Int, c # 0, NEW op \in Operators, op # "!=",
         NEW rest \in Int \X Int, NEW x \in Int, NEW v \in Int,
         contains(iv, x), contains(rest, v), Compare(v + c * x, op)
  PROVE  contains(Narrowed(iv, c, op, rest), x)
<1> DEFINE low   == IF c > 0 THEN (-ub(rest)) \div c ELSE lb(rest) \div (-c)
           high  == IF c > 0 THEN DivUp(-lb(rest), c) ELSE DivUp(ub(rest), -c)
           below == op \in (IF c > 0 THEN {"<=", "<"} ELSE {">=", ">"})
           above == op \in (IF c > 0 THEN {">=", ">"} ELSE {"<=", "<"})
           l == lb(rest)
           h == ub(rest)
           cx == c * x
<1>1. l \in Int /\ h \in Int /\ -l \in Int /\ -h \in Int /\ cx \in Int /\ l <= v /\ v <= h
      /\ lb(iv) \in Int /\ ub(iv) \in Int /\ lb(iv) <= x /\ x <= ub(iv)
  BY DEF lb, ub, contains
<1>2. (op \in {"=", ">=", ">"} => v + cx >= 0) /\ (op \in {"=", "<=", "<"} => v + cx <= 0)
  <2> HIDE DEF cx
  <2>1. v + cx \in Int
    BY <1>1
  <2> QED BY <2>1, CompareIs DEF cx
<1>3. (~below => low <= x /\ low \in Int) /\ (~above => x <= high /\ high \in Int)
  <2>1. CASE c > 0
    <3>1. ~below => v + cx >= 0
      BY <1>2, <2>1 DEF Operators
    <3>2. ~above => v + cx <= 0
      BY <1>2, <2>1 DEF Operators
    <3> HIDE DEF below, above, l, h
    <3>3. (~below => -h <= cx) /\ (~above => cx <= -l)
      <4> HIDE DEF cx
      <4> QED BY <1>1, <3>1, <3>2
    <3>4. (~below => (-h) \div c <= x) /\ (~above => x <= DivUp(-l, c))
          /\ (-h) \div c \in Int /\ DivUp(-l, c) \in Int
      BY <1>1, <2>1, <3>3, Floors
    <3> QED BY <2>1, <3>4 DEF l, h
  <2>2. CASE ~(c > 0)
    <3>0. -c \in Nat \ {0} /\ (-c) * x = -cx
      BY <2>2
    <3>1. ~below => v + cx <= 0
      BY <1>2, <2>2 DEF Operators
    <3>2. ~above => v + cx >= 0
      BY <1>2, <2>2 DEF Operators
    <3> HIDE DEF below, above, l, h
    <3>3. (~below => l <= -cx) /\ (~above => -cx <= h)
      <4> HIDE DEF cx
      <4> QED BY <1>1, <3>1, <3>2
    <3> DEFINE d == -c
    <3>4. (~below => l <= d * x) /\ (~above => d * x <= h)
      BY <3>0, <3>3
    <3>5. d \in Nat \ {0}
      BY <3>0
    <3> HIDE DEF d
    <3>6. (~below => l \div d <= x) /\ (~above => x <= DivUp(h, d))
          /\ l \div d \in Int /\ DivUp(h, d) \in Int
      BY <1>1, <3>4, <3>5, Floors
    <3> QED BY <2>2, <3>6 DEF l, h, d
  <2> QED BY <2>1, <2>2
<1> DEFINE n == Narrowed(iv, c, op, rest)
<1>4. /\ lb(n) = IF below THEN lb(iv) ELSE Higher(lb(iv), low)
      /\ ub(n) = IF above THEN ub(iv) ELSE Lower(ub(iv), high)
  BY DEF Narrowed, lb, ub
<1> HIDE DEF low, high, below, above, n
<1>5. (~below => Higher(lb(iv), low) <= x) /\ (~above => x <= Lower(ub(iv), high))
  BY <1>1, <1>3 DEF Higher, Lower
<1>6. lb(n) <= x /\ x <= ub(n)
  BY <1>1, <1>4, <1>5
<1> QED BY <1>6 DEF contains, n
LEMMA ContractParts ==
  ASSUME NEW narrow, NEW r \in Relations, NEW y \in Int, NEW box, IsBox(box)
  PROVE  LET new == Contract(narrow, r, y, box)
         IN  new # Empty => /\ IsBox(new) /\ Within(new, box)
                            /\ \A i \in Dim : r.coef[i] = 0 => new[i] = box[i]
<1> DEFINE new == Contract(narrow, r, y, box)
           all == [i \in Dim |-> Projection(r, y, box, i)]
<1>1. new = box \/ new = Empty \/ new = all
  BY DEF Contract
<1>2. CASE new = box
  BY <1>2, WithinItself
<1>3. CASE new = all
  <2>1. ASSUME NEW i \in Dim
        PROVE  /\ all[i] \in Int \X Int /\ lb(box[i]) <= lb(all[i]) /\ ub(all[i]) <= ub(box[i])
               /\ r.coef[i] = 0 => all[i] = box[i]
    <3>1. all[i] = Projection(r, y, box, i) /\ box[i] \in Int \X Int /\ r.coef[i] \in Int
      BY RelationParts DEF IsBox
    <3>2. CASE r.coef[i] = 0
      <4>1. all[i] = box[i]
        BY <3>1, <3>2 DEF Projection
      <4> HIDE DEF all
      <4> QED BY <3>1, <4>1 DEF lb, ub
    <3>3. CASE r.coef[i] # 0
      <4> DEFINE rest == ValueOver(Dim \ {i}, r, y, box)
      <4>1. rest \in Int \X Int
        BY ValueType
      <4>2. all[i] = Narrowed(box[i], r.coef[i], r.op, rest)
        BY <3>1, <3>3 DEF Projection
      <4> HIDE DEF all, rest
      <4> QED BY <3>1, <3>3, <4>1, <4>2, NarrowedParts
    <3> QED BY <3>2, <3>3
  <2>2. IsBox(all) /\ Within(all, box)
    <3>1. all \in [Dim -> Int \X Int]
      BY <2>1
    <3> HIDE DEF all
    <3> QED BY <2>1, <3>1 DEF IsBox, Within
  <2> HIDE DEF all, new
  <2> QED BY <1>3, <2>1, <2>2 DEF new
<1> HIDE DEF new, all
<1> QED BY <1>1, <1>2, <1>3 DEF new

LEMMA NotImpossible ==
  ASSUME NEW iv \in Int \X Int, NEW op \in Operators, NEW v \in Int, contains(iv, v), Compare(v, op)
  PROVE  ~Impossible(iv, op)
<1>1. lb(iv) \in Int /\ ub(iv) \in Int /\ lb(iv) <= v /\ v <= ub(iv)
  BY DEF lb, ub, contains
<1>2. CASE op = "="
  <2>1. v = 0 /\ contains(iv, v)
    BY <1>2, CompareIs
  <2> QED BY <1>2, <2>1 DEF Impossible
<1>3. CASE op \in {"<=", "<"}
  <2>1. ~(lb(iv) > 0)
    BY <1>1, <1>3, CompareIs
  <2>2. op # "=" /\ Impossible(iv, op) = (lb(iv) > 0)
    BY <1>3 DEF Impossible
  <2> QED BY <2>1, <2>2
<1>4. CASE op \in {">=", ">"}
  <2>1. ~(ub(iv) < 0)
    BY <1>1, <1>4, CompareIs
  <2>2. Impossible(iv, op) = (ub(iv) < 0)
    BY <1>4 DEF Impossible
  <2> QED BY <2>1, <2>2
<1>5. CASE op = "!="
  <2>1. Impossible(iv, op) = FALSE
    BY <1>5 DEF Impossible
  <2> QED BY <2>1
<1> QED BY <1>2, <1>3, <1>4, <1>5 DEF Operators

(* What satisfies the relation is kept.                                    *)
LEMMA ContractKeeps ==
  ASSUME NEW narrow, NEW r \in Relations, NEW y \in Int, NEW box, IsBox(box), NEW p \in [Dim -> Int],
         \A j \in Dim : r.coef[j] # 0 => contains(box[j], p[j]), Compare(At(r, y, p), r.op)
  PROVE  LET new == Contract(narrow, r, y, box)
         IN  new # Empty /\ \A i \in Dim : contains(box[i], p[i]) => contains(new[i], p[i])
<1> DEFINE new == Contract(narrow, r, y, box)
           all == [i \in Dim |-> Projection(r, y, box, i)]
           v   == At(r, y, p)
<1>1. v \in Int /\ r.op \in Operators /\ Value(r, y, box) \in Int \X Int
  BY AtType, RelationParts, ValueType DEF Value, Operators
<1>2. contains(Value(r, y, box), v)
  BY ValueOfPoint
<1>3. ~Impossible(Value(r, y, box), r.op)
  <2> HIDE DEF v
  <2> QED BY <1>1, <1>2, NotImpossible DEF v
<1>4. new = box \/ (new = all /\ r.op # "!=")
  BY <1>3 DEF Contract
<1>5. CASE new = box
  BY <1>5, BoxIsNotEmpty
<1>6. CASE new = all /\ r.op # "!="
  <2>1. ASSUME NEW i \in Dim, contains(box[i], p[i])
        PROVE  contains(all[i], p[i])
    <3>1. all[i] = Projection(r, y, box, i)
      OBVIOUS
    <3>2. CASE r.coef[i] = 0
      <4>1. all[i] = box[i]
        BY <3>1, <3>2 DEF Projection
      <4> QED BY <2>1, <4>1
    <3>3. CASE r.coef[i] # 0
      <4> DEFINE c    == r.coef[i]
                 x    == p[i]
                 rest == ValueOver(Dim \ {i}, r, y, box)
      <4>1. c \in Int /\ x \in Int /\ box[i] \in Int \X Int /\ rest \in Int \X Int
        BY RelationParts, ValueType DEF IsBox
      <4>2. all[i] = Narrowed(box[i], c, r.op, rest)
        BY <3>1, <3>3 DEF Projection
      <4>3. contains(rest, v - c * x)
        <5>1. i # 0 /\ i \in Dim \cup {0}
          BY DimIsFinite
        <5>2. contains(rest, v - IF i = 0 THEN 0 ELSE c * x)
          BY <5>1, ValueContains
        <5> QED BY <5>1, <5>2
      <4>4. v - c * x \in Int /\ (v - c * x) + c * x = v
        <5> HIDE DEF c, x, v
        <5>1. c * x \in Int
          BY <4>1
        <5> QED BY <1>1, <5>1
      <4>5. Compare((v - c * x) + c * x, r.op)
        BY <4>4
      <4> DEFINE u == v - c * x
      <4> HIDE DEF all, v
      <4>6. c # 0 /\ contains(box[i], x) /\ contains(rest, u) /\ u \in Int /\ Compare(u + c * x, r.op)
        BY <2>1, <3>3, <4>3, <4>4, <4>5
      <4> HIDE DEF c, x, rest, u
      <4>7. contains(Narrowed(box[i], c, r.op, rest), x)
        BY <1>1, <1>6, <4>1, <4>6, NarrowedContains
      <4> QED BY <4>2, <4>7 DEF x
    <3> QED BY <3>2, <3>3
  <2>2. all # Empty
    <3>1. DOMAIN all = Dim /\ Dim # {} /\ DOMAIN Empty = {}
      BY ContractorStatusAssumption DEF Empty
    <3> QED BY <3>1
  <2> HIDE DEF all, new
  <2> QED BY <1>6, <2>1, <2>2 DEF new
<1> HIDE DEF new, all
<1> QED BY <1>4, <1>5, <1>6 DEF new

-----------------------------------------------------------------------------
(* What a box may lose by some constraints.  The points that matter are    *)
(* integer where their variables are.  They are lost only where they       *)
(* violate one of the constraints, and not at all on variables that the    *)
(* constraints do not mention, unless the whole box goes.                  *)
IntPoints == {p \in [Dim -> Int] : \A i \in IntDim : p[i] % Unit = 0}

Obeys(D, p, fs) == \A f \in fs : VarsOf(f) \cap D # {} => VarsOf(f) \subseteq D /\ Satisfies(p, f)

Due(box, new, fs) ==
  /\ new = Empty \/ (IsBox(new) /\ Within(new, box))
  /\ \A D \in SUBSET Dim, p \in IntPoints :
       CoversOn(D, box, p) /\ Obeys(D, p, fs) /\ (new = Empty => \A f \in fs : VarsOf(f) \subseteq D)
         => CoversOn(D, new, p)

LEMMA VarsOfRelation ==
  ASSUME NEW f, IsConstraint(f)
  PROVE  /\ VarsOf(f) \subseteq Dim /\ VarsOf(f) # {} /\ f.body \subseteq Relations /\ IsFiniteSet(f.body)
         /\ \A r \in f.body, i \in Dim : r.coef[i] # 0 => i \in VarsOf(f)
         /\ ~f.forall => Relation(f) \in f.body /\ f.body = {Relation(f)} /\ Relation(f).ycoef = 0
         /\ f.body # {}
<1>1. VarsOf(f) \subseteq Dim /\ VarsOf(f) # {} /\ f.body \subseteq Relations /\ IsFiniteSet(f.body)
  BY DEF IsConstraint, VarsOf
<1>2. \A r \in f.body, i \in Dim : r.coef[i] # 0 => i \in VarsOf(f)
  BY DEF VarsOf
<1>3. ~f.forall => Relation(f) \in f.body /\ f.body = {Relation(f)} /\ Relation(f).ycoef = 0
  BY DEF IsConstraint, Relation
<1>4. f.body # {}
  BY <1>1 DEF VarsOf
<1> QED BY <1>1, <1>2, <1>3, <1>4

(* One disjunct of a constraint.                                           *)
LEMMA DisjunctDue ==
  ASSUME NEW narrow, NEW f, IsConstraint(f), NEW r \in f.body, NEW y \in Int, NEW box, IsBox(box),
         NEW D \in SUBSET Dim, NEW p \in IntPoints, CoversOn(D, box, p),
         \/ VarsOf(f) \cap D = {} /\ Contract(narrow, r, y, box) # Empty
         \/ VarsOf(f) \subseteq D /\ Compare(At(r, y, p), r.op)
  PROVE  CoversOn(D, Contract(narrow, r, y, box), p)
<1> DEFINE new == Contract(narrow, r, y, box)
<1>1. r \in Relations /\ p \in [Dim -> Int] /\ \A i \in D : contains(box[i], p[i])
  BY VarsOfRelation DEF IntPoints, CoversOn
<1>2. CASE VarsOf(f) \cap D = {} /\ new # Empty
  <2>1. \A i \in D : new[i] = box[i]
    BY <1>1, <1>2, ContractParts, VarsOfRelation
  <2> HIDE DEF new
  <2> QED BY <1>1, <1>2, <2>1 DEF CoversOn, new
<1>3. CASE VarsOf(f) \subseteq D /\ Compare(At(r, y, p), r.op)
  <2>1. \A j \in Dim : r.coef[j] # 0 => contains(box[j], p[j])
    BY <1>1, <1>3, VarsOfRelation
  <2>2. new # Empty /\ \A i \in Dim : contains(box[i], p[i]) => contains(new[i], p[i])
    BY <1>1, <1>3, <2>1, ContractKeeps
  <2> HIDE DEF new
  <2> QED BY <1>1, <2>2 DEF CoversOn, new
<1> QED BY <1>2, <1>3

(* A constraint without quantifier.                                        *)
LEMMA ContractDue ==
  ASSUME NEW narrow, NEW f, IsConstraint(f), ~f.forall, NEW box, IsBox(box)
  PROVE  Due(box, Contract(narrow, Relation(f), 0, box), {f})
<1> DEFINE r   == Relation(f)
           new == Contract(narrow, r, 0, box)
<1>1. r \in f.body /\ r \in Relations /\ r.ycoef = 0 /\ f.body = {r} /\ VarsOf(f) # {}
  BY VarsOfRelation
<1>2. new = Empty \/ (IsBox(new) /\ Within(new, box))
  BY <1>1, ContractParts
<1>3. ASSUME NEW D \in SUBSET Dim, NEW p \in IntPoints, CoversOn(D, box, p), Obeys(D, p, {f}),
             new = Empty => VarsOf(f) \subseteq D
      PROVE  CoversOn(D, new, p)
  <2>1. CASE VarsOf(f) \cap D = {}
    <3>1. new # Empty
      BY <1>1, <1>3, <2>1
    <3> QED BY <1>1, <1>3, <2>1, <3>1, DisjunctDue
  <2>2. CASE VarsOf(f) \cap D # {}
    <3>1. VarsOf(f) \subseteq D /\ Satisfies(p, f)
      BY <1>3, <2>2 DEF Obeys
    <3>2. PICK y \in YDomain : y \in Int
      BY ContractorStatusAssumption
    <3>3. Compare(At(r, y, p), r.op)
      BY <1>1, <3>1 DEF Satisfies
    <3>4. At(r, y, p) = At(r, 0, p)
      BY <1>1, <3>2, AtAnyY
    <3>5. Compare(At(r, 0, p), r.op)
      BY <3>3, <3>4
    <3> HIDE DEF r, new
    <3> QED BY <1>1, <1>3, <3>1, <3>5, DisjunctDue DEF new
  <2> QED BY <2>1, <2>2
<1> HIDE DEF new
<1>4. Due(box, new, {f})
  BY <1>2, <1>3 DEF Due
<1> QED BY <1>4 DEF new
-----------------------------------------------------------------------------
(* Loops and folds: what each step keeps, all of them keep.                *)
LEMMA LoopStays ==
  ASSUME NEW N \in Nat, NEW U, NEW h, h[0] \in U, \A n \in 1 .. N : h[n - 1] \in U => h[n] \in U
  PROVE  h[N] \in U
<1> DEFINE T == {n \in 0 .. N : h[n] \in U}
<1>1. 0 \in T /\ \A n \in 1 .. N : n - 1 \in T => n \in T
  OBVIOUS
<1> HIDE DEF T
<1>2. \A n \in 0 .. N : n \in T
  BY <1>1, UpTo, Zenon
<1>3. N \in 0 .. N
  OBVIOUS
<1> QED BY <1>2, <1>3 DEF T

LEMMA FoldStays ==
  ASSUME NEW A, IsFiniteSet(A), NEW ch \in Chooser(A), NEW U, NEW h, h[{}] \in U,
         \A s \in (SUBSET A) \ {{}} : h[s \ {ch[s]}] \in U => h[s] \in U
  PROVE  h[A] \in U
<1> DEFINE Q == {s \in SUBSET A : h[s] \in U}
<1>1. {} \in Q
  OBVIOUS
<1>2. \A s \in (SUBSET A) \ {{}} : s \ {ch[s]} \in Q => s \in Q
  OBVIOUS
<1> HIDE DEF Q
<1>3. \A s \in SUBSET A : s \in Q
  BY <1>1, <1>2, SubsetInduction
<1>4. A \in Q
  BY <1>3
<1> QED BY <1>4 DEF Q

(* The number of rounds.                                                   *)
LEMMA RoundsIsNat ==
  ASSUME NEW box, IsBox(box)
  PROVE  Rounds(box) \in Nat
<1> DEFINE Width(i) == Higher(0, diam(box[i]))
           ch == [s \in (SUBSET Dim) \ {{}} |-> CHOOSE x \in s : TRUE]
           g  == [i \in Dim |-> [v \in Nat |-> Width(i) + v]]
           IsSum(h) == h = [s \in SUBSET Dim |->
             IF s = {} THEN 0 ELSE Width(CHOOSE x \in s : TRUE) + h[s \ {CHOOSE x \in s : TRUE}]]
<1>1. ch \in Chooser(Dim) /\ IsFiniteSet(Dim)
  BY SomeChooser, ContractorStatusAssumption
<1>2. \A i \in Dim : Width(i) \in Nat
  BY DEF IsBox, Higher, diam, lb, ub
<1> HIDE DEF Width
<1>3. g \in [Dim -> [Nat -> Nat]]
  BY <1>2
<1>4. \A s \in (SUBSET Dim) \ {{}} :
        /\ ch[s] = (CHOOSE x \in s : TRUE) /\ ch[s] \in s /\ ch[s] \in Dim /\ s \ {ch[s]} \in SUBSET Dim
  BY <1>1 DEF Chooser
<1>5. PICK f : Folds(f, Dim, ch, Nat, 0, g)
  <2> HIDE DEF ch, g
  <2>1. 0 \in Nat
    OBVIOUS
  <2> QED BY <1>1, <1>3, <2>1, SubsetRecursion, Zenon
<1>6. IsSum(f)
  <2>1. f \in [SUBSET Dim -> Nat]
    BY <1>5 DEF Folds
  <2>2. ASSUME NEW s \in SUBSET Dim, s # {}
        PROVE  f[s] = Width(CHOOSE x \in s : TRUE) + f[s \ {CHOOSE x \in s : TRUE}]
    <3>1. f[s] = g[ch[s]][f[s \ {ch[s]}]]
      BY <1>5, <2>2 DEF Folds
    <3>2. ch[s] \in Dim /\ f[s \ {ch[s]}] \in Nat
      BY <1>4, <2>1, <2>2
    <3>3. f[s] = Width(ch[s]) + f[s \ {ch[s]}]
      BY <3>1, <3>2
    <3> QED BY <1>4, <2>2, <3>3
  <2>3. f[{}] = 0
    BY <1>5 DEF Folds
  <2> HIDE DEF ch, g
  <2> QED BY <2>1, <2>2, <2>3
<1> DEFINE h == CHOOSE k : IsSum(k)
<1>7. IsSum(h)
  <2> HIDE DEF IsSum
  <2> QED BY <1>6
<1>8. Rounds(box) = h[Dim]
  BY DEF Rounds, MapThenSumSet, MapThenFoldSet, Width
<1> HIDE DEF h
<1>9. h[{}] \in Nat
  BY <1>7
<1>10. ASSUME NEW s \in (SUBSET Dim) \ {{}}, h[s \ {ch[s]}] \in Nat
       PROVE  h[s] \in Nat
  <2>1. h[s] = Width(ch[s]) + h[s \ {ch[s]}]
    BY <1>4, <1>7
  <2>2. Width(ch[s]) \in Nat
    BY <1>2, <1>4
  <2> HIDE DEF ch
  <2> QED BY <1>10, <2>1, <2>2
<1> HIDE DEF ch
<1>11. h[Dim] \in Nat
  BY <1>1, <1>9, <1>10, FoldStays
<1> QED BY <1>8, <1>11

-----------------------------------------------------------------------------
(* From box to box.                                                        *)
LEMMA WithinPart ==
  ASSUME NEW b1, NEW b2, NEW b3, b1 = Empty \/ IsBox(b1), IsBox(b2), IsBox(b3),
         Within(b1, b2), Within(b2, b3)
  PROVE  Within(b1, b3)
<1>1. CASE b1 = Empty
  BY <1>1 DEF Within
<1>2. CASE b1 # Empty
  <2>1. ASSUME NEW i \in Dim
        PROVE  lb(b3[i]) <= lb(b1[i]) /\ ub(b1[i]) <= ub(b3[i])
    <3>1. /\ lb(b1[i]) \in Int /\ lb(b2[i]) \in Int /\ lb(b3[i]) \in Int
          /\ ub(b1[i]) \in Int /\ ub(b2[i]) \in Int /\ ub(b3[i]) \in Int
      BY <1>2 DEF IsBox, lb, ub
    <3>2. lb(b3[i]) <= lb(b2[i]) /\ ub(b2[i]) <= ub(b3[i])
      BY BoxIsNotEmpty DEF Within
    <3>3. lb(b2[i]) <= lb(b1[i]) /\ ub(b1[i]) <= ub(b2[i])
      BY <1>2 DEF Within
    <3> QED BY <3>1, <3>2, <3>3
  <2> QED BY <2>1 DEF Within
<1> QED BY <1>1, <1>2

LEMMA DueItself ==
  ASSUME NEW box, IsBox(box), NEW fs
  PROVE  Due(box, box, fs)
BY WithinItself DEF Due

LEMMA DueStep ==
  ASSUME NEW box, IsBox(box), NEW fs, NEW b, Due(box, b, fs), b # Empty,
         NEW gs \in SUBSET fs, NEW c, Due(b, c, gs)
  PROVE  Due(box, c, fs)
<1>1. IsBox(b) /\ Within(b, box) /\ (c = Empty \/ (IsBox(c) /\ Within(c, b)))
  BY DEF Due
<1>2. c = Empty \/ (IsBox(c) /\ Within(c, box))
  BY <1>1, WithinPart
<1>3. ASSUME NEW D \in SUBSET Dim, NEW p \in IntPoints, CoversOn(D, box, p), Obeys(D, p, fs),
             c = Empty => \A f \in fs : VarsOf(f) \subseteq D
      PROVE  CoversOn(D, c, p)
  <2>1. CoversOn(D, b, p)
    BY <1>3 DEF Due
  <2>2. Obeys(D, p, gs)
    BY <1>3 DEF Obeys
  <2>3. c = Empty => \A f \in gs : VarsOf(f) \subseteq D
    BY <1>3
  <2> QED BY <2>1, <2>2, <2>3 DEF Due
<1> QED BY <1>2, <1>3 DEF Due

(* The union of two parts of a box.                                        *)
LEMMA UnionParts ==
  ASSUME NEW box, IsBox(box), NEW b1, b1 = Empty \/ (IsBox(b1) /\ Within(b1, box)),
         NEW b2, b2 = Empty \/ (IsBox(b2) /\ Within(b2, box))
  PROVE  LET b == InplaceUnion(b1, b2)
         IN  /\ b = Empty \/ (IsBox(b) /\ Within(b, box))
             /\ b = Empty <=> b1 = Empty /\ b2 = Empty
             /\ \A D \in SUBSET Dim, p \in IntPoints :
                  CoversOn(D, b1, p) \/ CoversOn(D, b2, p) => CoversOn(D, b, p)
<1> DEFINE b   == InplaceUnion(b1, b2)
           all == [i \in Dim |-> <<Lower(lb(b1[i]), lb(b2[i])), Higher(ub(b1[i]), ub(b2[i]))>>]
<1>1. CASE b1 = Empty
  <2>1. b = b2
    BY <1>1 DEF InplaceUnion
  <2> QED BY <1>1, <2>1, EmptyCoversNothing
<1>2. CASE b1 # Empty /\ b2 = Empty
  <2>1. b = b1
    BY <1>2 DEF InplaceUnion
  <2> QED BY <1>2, <2>1, EmptyCoversNothing
<1>3. CASE b1 # Empty /\ b2 # Empty
  <2>1. b = all
    BY <1>3 DEF InplaceUnion
  <2>2. ASSUME NEW i \in Dim
        PROVE  /\ all[i] \in Int \X Int
               /\ lb(all[i]) <= lb(b1[i]) /\ ub(b1[i]) <= ub(all[i])
               /\ lb(all[i]) <= lb(b2[i]) /\ ub(b2[i]) <= ub(all[i])
               /\ lb(box[i]) <= lb(all[i]) /\ ub(all[i]) <= ub(box[i])
               /\ lb(all[i]) \in Int /\ ub(all[i]) \in Int
    <3>1. /\ lb(b1[i]) \in Int /\ ub(b1[i]) \in Int /\ lb(b2[i]) \in Int /\ ub(b2[i]) \in Int
          /\ lb(box[i]) \in Int /\ ub(box[i]) \in Int
      BY <1>3 DEF IsBox, lb, ub
    <3>2. /\ lb(box[i]) <= lb(b1[i]) /\ ub(b1[i]) <= ub(box[i])
          /\ lb(box[i]) <= lb(b2[i]) /\ ub(b2[i]) <= ub(box[i])
      BY <1>3 DEF Within
    <3>3. all[i] = <<Lower(lb(b1[i]), lb(b2[i])), Higher(ub(b1[i]), ub(b2[i]))>>
      OBVIOUS
    <3>4. lb(all[i]) = Lower(lb(b1[i]), lb(b2[i])) /\ ub(all[i]) = Higher(ub(b1[i]), ub(b2[i]))
          /\ all[i] = <<lb(all[i]), ub(all[i])>>
      BY <3>3 DEF lb, ub
    <3> HIDE DEF all
    <3>5. /\ lb(all[i]) \in Int /\ ub(all[i]) \in Int
          /\ lb(all[i]) <= lb(b1[i]) /\ lb(all[i]) <= lb(b2[i])
          /\ ub(b1[i]) <= ub(all[i]) /\ ub(b2[i]) <= ub(all[i])
          /\ lb(box[i]) <= lb(all[i]) /\ ub(all[i]) <= ub(box[i])
      BY <3>1, <3>2, <3>4 DEF Lower, Higher
    <3>6. all[i] \in Int \X Int
      BY <3>4, <3>5
    <3> QED BY <3>5, <3>6
  <2>3. IsBox(all)
    <3>1. all = [i \in Dim |-> all[i]]
      OBVIOUS
    <3> HIDE DEF all
    <3> QED BY <2>2, <3>1 DEF IsBox
  <2> HIDE DEF all, b
  <2>4. all # Empty /\ Within(all, box)
    BY <2>2, <2>3, BoxIsNotEmpty DEF Within
  <2>5. ASSUME NEW D \in SUBSET Dim, NEW p \in IntPoints, CoversOn(D, b1, p) \/ CoversOn(D, b2, p)
        PROVE  CoversOn(D, all, p)
    <3>1. ASSUME NEW i \in D  PROVE contains(all[i], p[i])
      <4>1. i \in Dim /\ p[i] \in Int
        BY DEF IntPoints
      <4>2. /\ lb(b1[i]) \in Int /\ ub(b1[i]) \in Int /\ lb(b2[i]) \in Int /\ ub(b2[i]) \in Int
        BY <1>3, <4>1 DEF IsBox, lb, ub
      <4>3. \/ lb(b1[i]) <= p[i] /\ p[i] <= ub(b1[i])
            \/ lb(b2[i]) <= p[i] /\ p[i] <= ub(b2[i])
        BY <2>5 DEF CoversOn, contains
      <4>4. lb(all[i]) <= p[i] /\ p[i] <= ub(all[i])
        BY <2>2, <4>1, <4>2, <4>3
      <4> QED BY <4>4 DEF contains
    <3> QED BY <2>4, <3>1 DEF CoversOn
  <2> QED BY <1>3, <2>1, <2>3, <2>4, <2>5 DEF b
<1> QED BY <1>1, <1>2, <1>3
-----------------------------------------------------------------------------
(* The join over some disjuncts of a constraint: it has what one of them   *)
(* leaves.                                                                 *)
Joins(box, f, y, s, b) ==
  /\ b = Empty \/ (IsBox(b) /\ Within(b, box))
  /\ \A D \in SUBSET Dim, p \in IntPoints :
       /\ CoversOn(D, box, p)
       /\ \/ VarsOf(f) \cap D = {} /\ b # Empty
          \/ VarsOf(f) \subseteq D /\ \E r \in s : Compare(At(r, y, p), r.op)
       => CoversOn(D, b, p)

LEMMA JoinStep ==
  ASSUME NEW narrow, NEW f, IsConstraint(f), NEW y \in Int, NEW box, IsBox(box),
         NEW s \in SUBSET f.body, NEW r \in s, NEW b, Joins(box, f, y, s \ {r}, b)
  PROVE  Joins(box, f, y, s, InplaceUnion(b, Contract(narrow, r, y, box)))
<1> DEFINE c == Contract(narrow, r, y, box)
           u == InplaceUnion(b, c)
<1>1. r \in f.body /\ r \in Relations
  BY VarsOfRelation
<1>2. c = Empty \/ (IsBox(c) /\ Within(c, box))
  BY <1>1, ContractParts
<1>3. b = Empty \/ (IsBox(b) /\ Within(b, box))
  BY DEF Joins
<1>4. /\ u = Empty \/ (IsBox(u) /\ Within(u, box))
      /\ u = Empty <=> b = Empty /\ c = Empty
      /\ \A D \in SUBSET Dim, p \in IntPoints : CoversOn(D, b, p) \/ CoversOn(D, c, p) => CoversOn(D, u, p)
  <2> HIDE DEF c
  <2> QED BY <1>2, <1>3, UnionParts
<1>5. ASSUME NEW D \in SUBSET Dim, NEW p \in IntPoints, CoversOn(D, box, p),
             \/ VarsOf(f) \cap D = {} /\ u # Empty
             \/ VarsOf(f) \subseteq D /\ \E q \in s : Compare(At(q, y, p), q.op)
      PROVE  CoversOn(D, b, p) \/ CoversOn(D, c, p)
  <2>1. CASE VarsOf(f) \cap D = {} /\ b # Empty
    BY <1>5, <2>1 DEF Joins
  <2>2. CASE VarsOf(f) \cap D = {} /\ c # Empty
    BY <1>1, <1>5, <2>2, DisjunctDue
  <2>3. CASE VarsOf(f) \subseteq D /\ Compare(At(r, y, p), r.op)
    BY <1>1, <1>5, <2>3, DisjunctDue
  <2>4. CASE VarsOf(f) \subseteq D /\ \E q \in s \ {r} : Compare(At(q, y, p), q.op)
    BY <1>5, <2>4 DEF Joins
  <2> QED BY <1>4, <1>5, <2>1, <2>2, <2>3, <2>4
<1> HIDE DEF u, c
<1>6. Joins(box, f, y, s, u)
  BY <1>4, <1>5 DEF Joins
<1> QED BY <1>6 DEF u, c

LEMMA JoinJoins ==
  ASSUME NEW narrow, NEW f, IsConstraint(f), NEW y \in Int, NEW box, IsBox(box)
  PROVE  Joins(box, f, y, f.body, PruneJoin(narrow, f.body, y, box))
<1> DEFINE A == f.body
           ch == [s \in (SUBSET A) \ {{}} |-> CHOOSE x \in s : TRUE]
           S == Boxes \cup {Empty}
           Next(r, b) == InplaceUnion(b, Contract(narrow, r, y, box))
           g == [r \in A |-> [b \in {e \in S : e = Empty \/ Within(e, box)} |-> Next(r, b)]]
           P == {e \in S : e = Empty \/ Within(e, box)}
           IsFold(h) == h = [s \in SUBSET A |->
             IF s = {} THEN Empty
             ELSE Next(CHOOSE x \in s : TRUE, h[s \ {CHOOSE x \in s : TRUE}])]
<1>0. IsFiniteSet(A) /\ A \subseteq Relations
  BY VarsOfRelation
<1>1. ch \in Chooser(A)
  BY SomeChooser
<1>2. ASSUME NEW r \in A, NEW b \in P
      PROVE  Next(r, b) \in P
  <2>1. b = Empty \/ (IsBox(b) /\ Within(b, box))
    BY DEF Boxes, IsBox
  <2> DEFINE c == Contract(narrow, r, y, box)
  <2>2. c = Empty \/ (IsBox(c) /\ Within(c, box))
    BY <1>0, ContractParts
  <2>3. Next(r, b) = InplaceUnion(b, c)
    OBVIOUS
  <2> HIDE DEF c, Next
  <2>4. Next(r, b) = Empty \/ (IsBox(Next(r, b)) /\ Within(Next(r, b), box))
    BY <2>1, <2>2, <2>3, UnionParts
  <2> QED BY <2>4 DEF Boxes, IsBox
<1> HIDE DEF Next
<1>3. g \in [A -> [P -> P]] /\ Empty \in P
  BY <1>2
<1>4. \A s \in (SUBSET A) \ {{}} :
        /\ ch[s] = (CHOOSE x \in s : TRUE) /\ ch[s] \in s /\ ch[s] \in A /\ s \ {ch[s]} \in SUBSET A
  BY <1>1 DEF Chooser
<1> HIDE DEF P, A
<1>5. PICK fold : Folds(fold, A, ch, P, Empty, g)
  <2> HIDE DEF ch, g
  <2> QED BY <1>0, <1>1, <1>3, SubsetRecursion
<1>6. IsFold(fold)
  <2>1. fold \in [SUBSET A -> P]
    BY <1>5 DEF Folds
  <2>2. ASSUME NEW s \in SUBSET A, s # {}
        PROVE  fold[s] = Next(CHOOSE x \in s : TRUE, fold[s \ {CHOOSE x \in s : TRUE}])
    <3>1. fold[s] = g[ch[s]][fold[s \ {ch[s]}]]
      BY <1>5, <2>2 DEF Folds
    <3>2. ch[s] \in A /\ fold[s \ {ch[s]}] \in P
      BY <1>4, <2>1, <2>2
    <3>3. fold[s] = Next(ch[s], fold[s \ {ch[s]}])
      BY <3>1, <3>2 DEF P
    <3> QED BY <1>4, <2>2, <3>3
  <2>3. fold[{}] = Empty
    BY <1>5 DEF Folds
  <2> HIDE DEF ch, g
  <2> QED BY <2>1, <2>2, <2>3
<1> DEFINE h == CHOOSE j : IsFold(j)
<1>7. IsFold(h)
  <2> HIDE DEF IsFold
  <2> QED BY <1>6
<1>8. PruneJoin(narrow, f.body, y, box) = h[A]
  BY DEF PruneJoin, FoldSet, MapThenFoldSet, Next, A
<1> HIDE DEF h
<1> DEFINE Q == {s \in SUBSET A : Joins(box, f, y, s, h[s])}
<1>9. {} \in Q
  <2>1. h[{}] = Empty
    BY <1>7
  <2>2. Joins(box, f, y, {}, Empty)
    BY VarsOfRelation DEF Joins
  <2> QED BY <2>1, <2>2
<1>10. ASSUME NEW s \in (SUBSET A) \ {{}}, s \ {ch[s]} \in Q
       PROVE  s \in Q
  <2> DEFINE r == ch[s]
             b == h[s \ {r}]
  <2>1. r \in s /\ h[s] = Next(r, b)
    BY <1>4, <1>7
  <2>2. Joins(box, f, y, s \ {r}, b) /\ s \in SUBSET f.body
    BY <1>10 DEF A
  <2> HIDE DEF r, b
  <2>3. Joins(box, f, y, s, Next(r, b))
    BY <2>1, <2>2, JoinStep DEF Next
  <2> QED BY <2>1, <2>3
<1> HIDE DEF Q, ch
<1>11. \A s \in SUBSET A : s \in Q
  BY <1>0, <1>1, <1>9, <1>10, SubsetInduction
<1>12. A \in Q
  BY <1>11
<1> QED BY <1>8, <1>12 DEF Q, A

(* A quantified constraint, at one value of its variable.                  *)
LEMMA GeneratedDue ==
  ASSUME NEW narrow, NEW f, IsConstraint(f), NEW y \in YDomain, NEW box, IsBox(box)
  PROVE  Due(box, PruneGenerated(narrow, f.body, y, box), {f})
<1> DEFINE new == PruneGenerated(narrow, f.body, y, box)
<1>1. y \in Int
  BY ContractorStatusAssumption
<1>2. Joins(box, f, y, f.body, new)
  <2>1. CASE Cardinality(f.body) = 1
    <3> DEFINE r == CHOOSE r \in f.body : TRUE
    <3>1. r \in f.body
      BY VarsOfRelation
    <3>2. f.body = {r}
      <4>1. PICK q : f.body = {q}
        BY <2>1, VarsOfRelation, FS_Singleton
      <4> QED BY <4>1
    <3>3. new = Contract(narrow, r, y, box)
      BY <2>1 DEF PruneGenerated
    <3> HIDE DEF r, new
    <3>4. r \in Relations
      BY <3>1, VarsOfRelation
    <3>5. new = Empty \/ (IsBox(new) /\ Within(new, box))
      BY <1>1, <3>3, <3>4, ContractParts
    <3>6. ASSUME NEW D \in SUBSET Dim, NEW p \in IntPoints, CoversOn(D, box, p),
                 \/ VarsOf(f) \cap D = {} /\ new # Empty
                 \/ VarsOf(f) \subseteq D /\ \E q \in f.body : Compare(At(q, y, p), q.op)
          PROVE  CoversOn(D, new, p)
      <4>1. \/ VarsOf(f) \cap D = {} /\ new # Empty
            \/ VarsOf(f) \subseteq D /\ Compare(At(r, y, p), r.op)
        BY <3>2, <3>6
      <4> QED BY <1>1, <3>1, <3>3, <3>6, <4>1, DisjunctDue
    <3> QED BY <3>5, <3>6 DEF Joins
  <2>2. CASE Cardinality(f.body) # 1
    <3>1. new = PruneJoin(narrow, f.body, y, box)
      BY <2>2 DEF PruneGenerated
    <3> HIDE DEF new
    <3> QED BY <1>1, <3>1, JoinJoins
  <2> QED BY <2>1, <2>2
<1> HIDE DEF new
<1>3. ASSUME NEW D \in SUBSET Dim, NEW p \in IntPoints, CoversOn(D, box, p), Obeys(D, p, {f}),
             new = Empty => VarsOf(f) \subseteq D
      PROVE  CoversOn(D, new, p)
  <2>1. CASE VarsOf(f) \cap D = {}
    <3>1. new # Empty
      BY <1>3, <2>1, VarsOfRelation
    <3> QED BY <1>2, <1>3, <2>1, <3>1 DEF Joins
  <2>2. CASE VarsOf(f) \cap D # {}
    <3>1. VarsOf(f) \subseteq D /\ \E r \in f.body : Compare(At(r, y, p), r.op)
      BY <1>3, <2>2 DEF Obeys, Satisfies
    <3> QED BY <1>2, <1>3, <3>1 DEF Joins
  <2> QED BY <2>1, <2>2
<1>4. Due(box, new, {f})
  BY <1>2, <1>3 DEF Due, Joins
<1> QED BY <1>4 DEF new

LEMMA CounterexampleDue ==
  ASSUME NEW narrow, NEW f, IsConstraint(f), NEW box, IsBox(box)
  PROVE  Due(box, PruneWithCounterexample(narrow, f, box), {f})
<1> DEFINE ys == Counterexamples(f, box)
<1>1. ys \subseteq YDomain
  BY DEF Counterexamples
<1>2. PruneWithCounterexample(narrow, f, box) =
        IF ys = {} THEN box ELSE PruneGenerated(narrow, f.body, Least(ys), box)
  BY DEF PruneWithCounterexample
<1> HIDE DEF ys
<1>3. CASE ys = {}
  BY <1>2, <1>3, DueItself
<1>4. CASE ys # {}
  <2>1. IsFiniteSet(ys) /\ ys \in SUBSET Int
    BY <1>1, FS_Subset, ContractorStatusAssumption
  <2>2. Least(ys) \in YDomain
    BY <1>1, <1>4, <2>1, LeastIs
  <2> QED BY <1>2, <1>4, <2>2, GeneratedDue
<1> QED BY <1>3, <1>4

LEMMA ByCounterexamplesDue ==
  ASSUME NEW narrow, NEW f, IsConstraint(f), NEW box, IsBox(box)
  PROVE  Due(box, PruneByCounterexamples(narrow, f, box), {f})
<1> DEFINE S == {b \in Boxes \cup {Empty} : Due(box, b, {f})}
           U == {v \in S \X S : v[1] # Empty}
           Step(b) == PruneWithCounterexample(narrow, f, b)
           Next(v) == IF v[2] \in {Empty, v[1]} THEN v ELSE <<v[2], Step(v[2])>>
           N == Rounds(box)
           g == [n \in 1 .. N |-> [v \in U |-> Next(v)]]
           a == <<box, Step(box)>>
           IsRun(h) == h = [n \in 0 .. N |-> IF n = 0 THEN a ELSE Next(h[n - 1])]
<1>1. N \in Nat
  BY RoundsIsNat
<1>2. ASSUME NEW b \in S, b # Empty
      PROVE  Step(b) \in S
  <2>1. IsBox(b) /\ Due(box, b, {f})
    BY <1>2 DEF Boxes, IsBox
  <2>2. Due(b, Step(b), {f})
    BY <2>1, CounterexampleDue
  <2> HIDE DEF Step
  <2>3. Due(box, Step(b), {f})
    BY <1>2, <2>1, <2>2, DueStep
  <2>4. Step(b) \in Boxes \cup {Empty}
    BY <2>3 DEF Due, Boxes, IsBox
  <2> QED BY <2>3, <2>4
<1>3. box \in S /\ box # Empty
  BY DueItself, BoxIsNotEmpty DEF Boxes, IsBox
<1> HIDE DEF S, Step
<1>4. a \in U
  BY <1>2, <1>3
<1>5. ASSUME NEW v \in U
      PROVE  Next(v) \in U
  BY <1>2
<1> HIDE DEF N, U, Next, a
<1>6. g \in Steps(N, U)
  BY <1>5 DEF Steps
<1>7. PICK k : Runs(k, N, U, a, g)
  <2> HIDE DEF g
  <2> QED BY <1>1, <1>4, <1>6, NatRecursion
<1>8. IsRun(k)
  <2>1. \A n \in 1 .. N : n - 1 \in 0 .. N /\ k[n - 1] \in U
    BY <1>1, <1>7 DEF Runs
  <2>2. \A n \in 1 .. N : k[n] = Next(k[n - 1])
    BY <1>7, <2>1 DEF Runs
  <2>3. \A n \in 0 .. N : k[n] = IF n = 0 THEN a ELSE Next(k[n - 1])
    BY <1>1, <1>7, <2>2 DEF Runs
  <2>4. k = [n \in 0 .. N |-> k[n]]
    BY <1>7 DEF Runs
  <2> QED BY <2>3, <2>4
<1> DEFINE h == CHOOSE j : IsRun(j)
<1>9. IsRun(h)
  <2> HIDE DEF IsRun
  <2> QED BY <1>8
<1>10. PruneByCounterexamples(narrow, f, box) = h[N][2]
  BY DEF PruneByCounterexamples, RepeatUntil, Next, Step, a, N
<1> HIDE DEF h
<1>11. h[0] \in U /\ \A n \in 1 .. N : h[n - 1] \in U => h[n] \in U
  BY <1>1, <1>4, <1>5, <1>9
<1>12. h[N] \in U
  BY <1>1, <1>11, LoopStays
<1>13. h[N][2] \in S
  BY <1>12 DEF U
<1> QED BY <1>10, <1>13 DEF S
-----------------------------------------------------------------------------
(* Statuses over some constraints fs.  What may follow on one: a status    *)
(* that has used no less, whose box is part of its box, and that accounts  *)
(* for what has been taken off.                                            *)
StatusesOf(fs) == [box : Boxes \cup {Empty}, output : SUBSET Dim, used : SUBSET fs, witness : SUBSET Dim]

Follows(fs, st) ==
  {new \in StatusesOf(fs) :
     /\ st.used \subseteq new.used /\ st.witness \subseteq new.witness
     /\ Within(new.box, st.box)
     /\ \A D \in SUBSET Dim, p \in IntPoints :
          Admits(new, D, p) /\ CoversOn(D, st.box, p) => CoversOn(D, new.box, p)}

LEMMA StatusIs ==
  ASSUME NEW fs, NEW st \in StatusesOf(fs)
  PROVE  /\ st.box = Empty \/ IsBox(st.box)
         /\ st.output \subseteq Dim /\ st.used \subseteq fs /\ st.witness \subseteq Dim
         /\ st = [box |-> st.box, output |-> st.output, used |-> st.used, witness |-> st.witness]
BY DEF StatusesOf, Boxes, IsBox

LEMMA FollowsItself ==
  ASSUME NEW fs, NEW st \in StatusesOf(fs)
  PROVE  st \in Follows(fs, st)
<1>1. Within(st.box, st.box)
  BY StatusIs, WithinItself DEF Within
<1> QED BY <1>1 DEF Follows

LEMMA FollowsStep ==
  ASSUME NEW fs, NEW st \in StatusesOf(fs), st.box # Empty,
         NEW new \in Follows(fs, st), new.box # Empty, NEW newer \in Follows(fs, new)
  PROVE  newer \in Follows(fs, st)
<1>1. new \in StatusesOf(fs) /\ newer \in StatusesOf(fs)
  BY DEF Follows
<1>2. IsBox(st.box) /\ IsBox(new.box) /\ (newer.box = Empty \/ IsBox(newer.box))
  BY <1>1, StatusIs
<1>3. Within(newer.box, st.box)
  BY <1>2, WithinPart DEF Follows
<1>4. st.used \subseteq newer.used /\ st.witness \subseteq newer.witness
  BY DEF Follows
<1>5. ASSUME NEW D \in SUBSET Dim, NEW p \in IntPoints, Admits(newer, D, p), CoversOn(D, st.box, p)
      PROVE  CoversOn(D, newer.box, p)
  <2>1. Admits(new, D, p)
    BY <1>5 DEF Admits, Follows
  <2>2. CoversOn(D, new.box, p)
    BY <1>5, <2>1 DEF Follows
  <2> QED BY <1>5, <2>2 DEF Follows
<1> QED BY <1>1, <1>3, <1>4, <1>5 DEF Follows

(* The fields after the box was replaced and constraints were used.        *)
LEMMA PrunedTo ==
  ASSUME NEW fs, NEW st \in StatusesOf(fs), NEW box \in Boxes \cup {Empty}
  PROVE  /\ PruneTo(st, box) \in StatusesOf(fs)
         /\ PruneTo(st, box).box = box
         /\ PruneTo(st, box).used = st.used /\ PruneTo(st, box).witness = st.witness
<1> DEFINE o == st.output \cup Changed(st.box, box)
           u == st.used
           w == st.witness
           ob == st.box
           oo == st.output
<1>1. o \subseteq Dim /\ u \subseteq fs /\ w \subseteq Dim
  BY StatusIs DEF Changed
<1>2. st = [box |-> ob, output |-> oo, used |-> u, witness |-> w]
  BY StatusIs
<1>3. PruneTo(st, box) = [st EXCEPT !.box = box, !.output = o]
  BY DEF PruneTo
<1> HIDE DEF o, u, w, ob, oo
<1>4. PruneTo(st, box) = [box |-> box, output |-> o, used |-> u, witness |-> w]
  BY <1>2, <1>3
<1> QED BY <1>1, <1>4 DEF StatusesOf, u, w

MentionedBy(fs) == UNION {VarsOf(f) : f \in fs}

IsUsing(fs, st, gs, new) ==
  /\ new \in StatusesOf(fs) /\ new.box = st.box /\ new.used = st.used \cup gs
  /\ new.witness = IF st.box = Empty THEN st.witness \cup MentionedBy(gs) ELSE st.witness

LEMMA UsedConstraints ==
  ASSUME NEW fs, NEW st \in StatusesOf(fs), NEW gs \in SUBSET fs
  PROVE  IsUsing(fs, st, gs, AddUsedConstraints(st, gs))
<1> DEFINE new == AddUsedConstraints(st, gs)
           b == st.box
           o == st.output
           u == st.used \cup gs
           V == MentionedBy(gs)
           w == IF b = Empty THEN st.witness \cup V ELSE st.witness
<1>1. b \in Boxes \cup {Empty} /\ o \subseteq Dim /\ u \subseteq fs
  BY DEF StatusesOf
<1>2. w \subseteq Dim
  <2>1. V \subseteq Dim
    BY DEF VarsOf, MentionedBy
  <2> HIDE DEF V
  <2> QED BY <2>1, StatusIs
<1>3. st = [box |-> b, output |-> o, used |-> st.used, witness |-> st.witness]
  BY StatusIs
<1>4. new = [st EXCEPT !.used = u, !.witness = w]
  <2>1. new = [st EXCEPT !.used = @ \cup gs, !.witness = IF b = Empty THEN @ \cup V ELSE @]
    BY DEF AddUsedConstraints, MentionedBy
  <2> DEFINE su == st.used
             sw == st.witness
  <2>2. st = [box |-> b, output |-> o, used |-> su, witness |-> sw]
    BY <1>3
  <2> HIDE DEF new, V, b, o, su, sw
  <2> QED BY <2>1, <2>2 DEF su, sw
<1> DEFINE su == st.used
           sw == st.witness
<1>5. st = [box |-> b, output |-> o, used |-> su, witness |-> sw]
  BY <1>3
<1> HIDE DEF new, b, o, u, w, su, sw
<1>6. new = [box |-> b, output |-> o, used |-> u, witness |-> w]
  BY <1>4, <1>5
<1>7. new \in StatusesOf(fs) /\ new.box = b /\ new.used = u /\ new.witness = w
  BY <1>1, <1>2, <1>6 DEF StatusesOf
<1> QED BY <1>7 DEF new, b, u, w, IsUsing

(* A box that some constraints are due to.                                 *)
LEMMA UsedFollows ==
  ASSUME NEW fs, NEW st, NEW gs \in SUBSET fs, NEW mid \in StatusesOf(fs),
         Due(st.box, mid.box, gs), mid.used = st.used, mid.witness = st.witness
  PROVE  AddUsedConstraints(mid, gs) \in Follows(fs, st)
<1> DEFINE new == AddUsedConstraints(mid, gs)
           box == mid.box
<1>1. IsUsing(fs, mid, gs, new)
  BY UsedConstraints, Zenon
<1> HIDE DEF new
<1>3. /\ new \in StatusesOf(fs) /\ new.box = box /\ new.used = st.used \cup gs
      /\ new.witness = IF box = Empty THEN st.witness \cup MentionedBy(gs) ELSE st.witness
  BY <1>1 DEF IsUsing
<1> HIDE DEF box
<1>4. Due(st.box, box, gs)
  BY DEF box
<1>5. Within(new.box, st.box) /\ st.used \subseteq new.used /\ st.witness \subseteq new.witness
  BY <1>3, <1>4 DEF Due, Within
<1>6. ASSUME NEW D \in SUBSET Dim, NEW p \in IntPoints, Admits(new, D, p), CoversOn(D, st.box, p)
      PROVE  CoversOn(D, new.box, p)
  <2>1. Obeys(D, p, gs)
    BY <1>3, <1>6 DEF Admits, Obeys
  <2>2. box = Empty => \A f \in gs : VarsOf(f) \subseteq D
    BY <1>3, <1>6 DEF Admits, MentionedBy
  <2> QED BY <1>3, <1>4, <1>6, <2>1, <2>2 DEF Due
<1>7. new \in Follows(fs, st)
  BY <1>3, <1>5, <1>6 DEF Follows
<1> QED BY <1>7 DEF new

LEMMA UsingFollows ==
  ASSUME NEW fs, NEW st \in StatusesOf(fs), NEW gs \in SUBSET fs, NEW box, Due(st.box, box, gs)
  PROVE  AddUsedConstraints(PruneTo(st, box), gs) \in Follows(fs, st)
<1> DEFINE mid == PruneTo(st, box)
<1>1. box \in Boxes \cup {Empty}
  BY DEF Due, Boxes, IsBox
<1>2. mid \in StatusesOf(fs) /\ mid.box = box /\ mid.used = st.used /\ mid.witness = st.witness
  BY <1>1, PrunedTo
<1> HIDE DEF mid
<1>3. Due(st.box, mid.box, gs)
  BY <1>2
<1>4. AddUsedConstraints(mid, gs) \in Follows(fs, st)
  BY <1>2, <1>3, UsedFollows
<1> QED BY <1>4 DEF mid

LEMMA PruneUsingFollows ==
  ASSUME NEW fs, NEW st \in StatusesOf(fs), NEW gs \in SUBSET fs, NEW box, Due(st.box, box, gs)
  PROVE  PruneUsing(st, box, gs) \in Follows(fs, st)
BY FollowsItself, UsingFollows DEF PruneUsing

-----------------------------------------------------------------------------
(* The contractors, over the constraints of a problem.                     *)
AllConstraints(fs) == \A f \in fs : IsConstraint(f)

LEMMA FwdbwdFollows ==
  ASSUME NEW fs, AllConstraints(fs), NEW st \in StatusesOf(fs), st.box # Empty,
         NEW narrow, NEW f \in fs, ~f.forall
  PROVE  PruneIbexFwdbwd(narrow, f, st) \in Follows(fs, st)
<1>1. IsBox(st.box) /\ IsConstraint(f)
  BY StatusIs DEF AllConstraints
<1>2. Due(st.box, Contract(narrow, Relation(f), 0, st.box), {f})
  BY <1>1, ContractDue
<1> QED BY <1>2, PruneUsingFollows DEF PruneIbexFwdbwd

LEMMA PolytopeFollows ==
  ASSUME NEW fs, IsFiniteSet(fs), AllConstraints(fs), NEW st \in StatusesOf(fs), st.box # Empty, NEW narrow
  PROVE  PruneIbexPolytope(narrow, fs, st) \in Follows(fs, st)
<1>0. IsBox(st.box)
  BY StatusIs
<1> DEFINE box == st.box
           A == fs
           ch == [s \in (SUBSET A) \ {{}} |-> CHOOSE x \in s : TRUE]
           P == {b \in Boxes \cup {Empty} : Due(box, b, fs)}
           Next(f, b) == IF b = Empty \/ f.forall THEN b ELSE Contract(narrow, Relation(f), 0, b)
           g == [f \in A |-> [b \in P |-> Next(f, b)]]
           IsFold(h) == h = [s \in SUBSET A |->
             IF s = {} THEN box
             ELSE Next(CHOOSE x \in s : TRUE, h[s \ {CHOOSE x \in s : TRUE}])]
<1>1. ch \in Chooser(A)
  BY SomeChooser
<1>2. ASSUME NEW f \in A, NEW b \in P
      PROVE  Next(f, b) \in P
  <2>1. CASE b = Empty \/ f.forall
    BY <2>1
  <2>2. CASE ~(b = Empty \/ f.forall)
    <3> DEFINE c == Contract(narrow, Relation(f), 0, b)
    <3>1. Next(f, b) = c /\ IsBox(b) /\ IsConstraint(f)
      BY <2>2 DEF Boxes, IsBox, AllConstraints
    <3>2. Due(b, c, {f})
      BY <2>2, <3>1, ContractDue
    <3> HIDE DEF c
    <3>3. Due(box, c, fs)
      BY <1>0, <2>2, <3>1, <3>2, DueStep
    <3>4. c \in Boxes \cup {Empty}
      BY <3>3 DEF Due, Boxes, IsBox
    <3> QED BY <3>1, <3>3, <3>4
  <2> QED BY <2>1, <2>2
<1>3. box \in P
  BY <1>0, DueItself DEF Boxes, IsBox
<1> HIDE DEF Next, P
<1>4. g \in [A -> [P -> P]]
  BY <1>2
<1>5. \A s \in (SUBSET A) \ {{}} :
        /\ ch[s] = (CHOOSE x \in s : TRUE) /\ ch[s] \in s /\ ch[s] \in A /\ s \ {ch[s]} \in SUBSET A
  BY <1>1 DEF Chooser
<1> HIDE DEF A, box
<1>6. IsFiniteSet(A)
  BY DEF A
<1>7. PICK fold : Folds(fold, A, ch, P, box, g)
  <2> HIDE DEF ch, g
  <2> QED BY <1>1, <1>3, <1>4, <1>6, SubsetRecursion
<1>8. IsFold(fold)
  <2>1. fold \in [SUBSET A -> P]
    BY <1>7 DEF Folds
  <2>2. ASSUME NEW s \in SUBSET A, s # {}
        PROVE  fold[s] = Next(CHOOSE x \in s : TRUE, fold[s \ {CHOOSE x \in s : TRUE}])
    <3>1. fold[s] = g[ch[s]][fold[s \ {ch[s]}]]
      BY <1>7, <2>2 DEF Folds
    <3>2. ch[s] \in A /\ fold[s \ {ch[s]}] \in P
      BY <1>5, <2>1, <2>2
    <3>3. fold[s] = Next(ch[s], fold[s \ {ch[s]}])
      BY <3>1, <3>2
    <3> QED BY <1>5, <2>2, <3>3
  <2>3. fold[{}] = box
    BY <1>7 DEF Folds
  <2> HIDE DEF ch, g
  <2> QED BY <2>1, <2>2, <2>3
<1> DEFINE h == CHOOSE j : IsFold(j)
<1>9. IsFold(h)
  <2> HIDE DEF IsFold
  <2> QED BY <1>8
<1>10. PruneIbexPolytope(narrow, fs, st) = PruneUsing(st, h[A], fs)
  BY DEF PruneIbexPolytope, FoldSet, MapThenFoldSet, Next, A, box
<1> HIDE DEF h
<1>11. h[{}] \in P
  BY <1>3, <1>9
<1>12. ASSUME NEW s \in (SUBSET A) \ {{}}, h[s \ {ch[s]}] \in P
       PROVE  h[s] \in P
  <2>0. s \in SUBSET A /\ s # {} /\ ch[s] = (CHOOSE x \in s : TRUE) /\ ch[s] \in A
    BY <1>5
  <2>a. h[s] = IF s = {} THEN h[{}] ELSE Next(CHOOSE x \in s : TRUE, h[s \ {CHOOSE x \in s : TRUE}])
    BY <1>9, <2>0
  <2>1. h[s] = Next(ch[s], h[s \ {ch[s]}]) /\ ch[s] \in A
    BY <2>0, <2>a
  <2> HIDE DEF ch
  <2> QED BY <1>2, <1>12, <2>1
<1> HIDE DEF ch
<1>13. h[A] \in P
  BY <1>1, <1>6, <1>11, <1>12, FoldStays
<1>14. Due(st.box, h[A], fs)
  BY <1>13 DEF P, box
<1> QED BY <1>10, <1>14, PruneUsingFollows
LEMMA IntegerFollows ==
  ASSUME NEW fs, NEW st \in StatusesOf(fs), st.box # Empty
  PROVE  PruneInteger(st) \in Follows(fs, st)
<1> DEFINE box == st.box
           Rounded(iv) == <<DivUp(lb(iv), Unit) * Unit, (ub(iv) \div Unit) * Unit>>
           todo == {i \in IntDim : ~is_degenerated(box[i])}
           none == {i \in todo : lb(Rounded(box[i])) > ub(Rounded(box[i]))}
           all  == [i \in Dim |-> IF i \in todo THEN Rounded(box[i]) ELSE box[i]]
           least == CHOOSE i \in none : \A j \in none : i <= j
<1>1. box \in [Dim -> Int \X Int] /\ IsBox(box) /\ IntDim \subseteq Dim
      /\ Unit \in Nat \ {0} /\ Dim \subseteq Nat
  BY StatusIs, ContractorStatusAssumption, DimIsFinite DEF IsBox
<1>2. PruneInteger(st) = IF none = {} THEN PruneTo(st, all)
                         ELSE [PruneTo(st, Empty) EXCEPT !.witness = @ \cup {least}]
  BY DEF PruneInteger
<1>3. todo \subseteq Dim /\ none \subseteq todo
  BY <1>1
<1>4. ASSUME NEW i \in Dim
      PROVE  /\ Rounded(box[i]) \in Int \X Int
             /\ lb(box[i]) <= lb(Rounded(box[i])) /\ ub(Rounded(box[i])) <= ub(box[i])
             /\ \A q \in Int : q % Unit = 0 /\ contains(box[i], q) => contains(Rounded(box[i]), q)
  <2> DEFINE l == lb(box[i])
             h == ub(box[i])
  <2>1. l \in Int /\ h \in Int
    BY <1>1 DEF lb, ub
  <2>2. lb(Rounded(box[i])) = DivUp(l, Unit) * Unit /\ ub(Rounded(box[i])) = (h \div Unit) * Unit
    BY DEF lb, ub
  <2>3. Rounded(box[i]) = <<DivUp(l, Unit) * Unit, (h \div Unit) * Unit>>
    OBVIOUS
  <2> HIDE DEF Rounded, l, h, box
  <2>4. DivUp(l, Unit) * Unit \in Int /\ l <= DivUp(l, Unit) * Unit
        /\ (h \div Unit) * Unit \in Int /\ (h \div Unit) * Unit <= h
    BY <1>1, <2>1, Quotients
  <2>5. ASSUME NEW q \in Int, q % Unit = 0, contains(box[i], q)
        PROVE  contains(Rounded(box[i]), q)
    <3>1. l <= q /\ q <= h
      BY <2>5 DEF contains, l, h
    <3>2. DivUp(l, Unit) * Unit <= q /\ q <= (h \div Unit) * Unit
      BY <1>1, <2>1, <2>5, <3>1, Multiples
    <3> QED BY <2>2, <3>2 DEF contains
  <2> QED BY <2>2, <2>3, <2>4, <2>5 DEF l, h
<1>5. CASE none = {}
  <2>1. ASSUME NEW i \in Dim
        PROVE  /\ all[i] \in Int \X Int
               /\ lb(box[i]) <= lb(all[i]) /\ ub(all[i]) <= ub(box[i])
               /\ \A p \in IntPoints : contains(box[i], p[i]) => contains(all[i], p[i])
    <3>1. CASE i \in todo
      <4>1. all[i] = Rounded(box[i]) /\ i \in IntDim
        BY <3>1
      <4>2. \A p \in IntPoints : p[i] \in Int /\ p[i] % Unit = 0
        BY <4>1 DEF IntPoints
      <4> HIDE DEF all, Rounded, box
      <4> QED BY <1>4, <4>1, <4>2
    <3>2. CASE i \notin todo
      <4>1. all[i] = box[i]
        BY <3>2
      <4>2. lb(box[i]) <= lb(box[i]) /\ ub(box[i]) <= ub(box[i])
        BY <1>1 DEF lb, ub
      <4> HIDE DEF all, box
      <4> QED BY <1>1, <4>1, <4>2
    <3> QED BY <3>1, <3>2
  <2>2. all = [i \in Dim |-> all[i]]
    OBVIOUS
  <2> HIDE DEF all, Rounded, box, todo, none, least
  <2>3. IsBox(all) /\ Within(all, box) /\ all \in Boxes \cup {Empty} /\ all # Empty
    <3>1. IsBox(all)
      BY <2>1, <2>2 DEF IsBox
    <3> QED BY <2>1, <3>1, BoxIsNotEmpty DEF Within, IsBox, Boxes
  <2> DEFINE new == PruneTo(st, all)
  <2>4. new \in StatusesOf(fs) /\ new.box = all /\ new.used = st.used /\ new.witness = st.witness
    BY <2>3, PrunedTo
  <2> HIDE DEF new
  <2>5. ASSUME NEW D \in SUBSET Dim, NEW p \in IntPoints, CoversOn(D, box, p)
        PROVE  CoversOn(D, all, p)
    BY <2>1, <2>3, <2>5 DEF CoversOn
  <2>6. new \in Follows(fs, st)
    BY <2>3, <2>4, <2>5 DEF Follows, box
  <2> QED BY <1>2, <1>5, <2>6 DEF new
<1>6. CASE none # {}
  <2>1. least \in none
    <3>1. none \in SUBSET Nat
      BY <1>1, <1>3
    <3> HIDE DEF none
    <3>2. \E i \in none : \A j \in none : i <= j
      BY <1>6, <3>1, LeastNumber
    <3> QED BY <3>2
  <2>2. least \in IntDim /\ lb(Rounded(box[least])) > ub(Rounded(box[least]))
    BY <2>1
  <2> HIDE DEF Rounded, box, todo, none, least, all
  <2>3. ~\E p \in IntPoints : contains(box[least], p[least])
    <3>1. ASSUME NEW p \in IntPoints, contains(box[least], p[least])  PROVE FALSE
      <4>1. p[least] \in Int /\ p[least] % Unit = 0 /\ least \in Dim
        BY <1>1, <2>2 DEF IntPoints
      <4>2. contains(Rounded(box[least]), p[least])
        BY <1>4, <3>1, <4>1
      <4>3. lb(Rounded(box[least])) \in Int /\ ub(Rounded(box[least])) \in Int
        BY <1>4, <4>1 DEF lb, ub
      <4> QED BY <2>2, <4>1, <4>2, <4>3 DEF contains
    <3> QED BY <3>1
  <2> DEFINE mid == PruneTo(st, Empty)
             new == [mid EXCEPT !.witness = @ \cup {least}]
  <2>4. mid \in StatusesOf(fs) /\ mid.box = Empty /\ mid.used = st.used /\ mid.witness = st.witness
    BY PrunedTo
  <2>5. new \in StatusesOf(fs) /\ new.box = Empty /\ new.used = st.used
        /\ new.witness = st.witness \cup {least}
    <3> DEFINE o == mid.output
               u == mid.used
               w == mid.witness
               x == w \cup {least}
    <3>1. mid = [box |-> Empty, output |-> o, used |-> u, witness |-> w]
      <4> HIDE DEF mid
      <4> QED BY <2>4, StatusIs
    <3>2. o \subseteq Dim /\ u \subseteq fs /\ x \subseteq Dim
      <4> HIDE DEF mid
      <4> QED BY <1>1, <2>2, <2>4, StatusIs
    <3>3. new = [mid EXCEPT !.witness = x]
      OBVIOUS
    <3> HIDE DEF mid, new, o, u, x, w
    <3>4. new = [box |-> Empty, output |-> o, used |-> u, witness |-> x]
      BY <3>1, <3>3
    <3>5. new \in StatusesOf(fs) /\ new.box = Empty /\ new.used = u /\ new.witness = x
      BY <3>2, <3>4 DEF StatusesOf
    <3> QED BY <2>4, <3>5 DEF u, x, w
  <2> HIDE DEF new, mid
  <2>6. ASSUME NEW D \in SUBSET Dim, NEW p \in IntPoints, Admits(new, D, p), CoversOn(D, box, p)
        PROVE  FALSE
    <3>1. least \in D
      BY <2>5, <2>6 DEF Admits
    <3> QED BY <2>3, <2>6, <3>1 DEF CoversOn
  <2>7. new \in Follows(fs, st)
    BY <2>5, <2>6 DEF Follows, Within, box
  <2> QED BY <1>2, <1>6, <2>7 DEF new, mid
<1> QED BY <1>5, <1>6

LEMMA ForallFollows ==
  ASSUME NEW fs, AllConstraints(fs), NEW st \in StatusesOf(fs), st.box # Empty,
         NEW narrow, NEW f \in fs
  PROVE  PruneForall(narrow, f, st) \in Follows(fs, st)
<1>1. IsBox(st.box) /\ IsConstraint(f)
  BY StatusIs DEF AllConstraints
<1> DEFINE box == PruneByCounterexamples(narrow, f, st.box)
<1>2. Due(st.box, box, {f})
  BY <1>1, ByCounterexamplesDue
<1>3. PruneForall(narrow, f, st) = AddUsedConstraints(PruneTo(st, box), {f})
  BY DEF PruneForall, AddUsedConstraint
<1> HIDE DEF box
<1> QED BY <1>2, <1>3, UsingFollows

LEMMA ForallFixpointFollows ==
  ASSUME NEW fs, AllConstraints(fs), NEW st \in StatusesOf(fs), st.box # Empty,
         NEW narrow, NEW f \in fs
  PROVE  PruneForallFixpoint(narrow, f, st) \in Follows(fs, st)
<1> DEFINE S == Follows(fs, st)
           U == {v \in S \X S : v[1].box # Empty}
           Step(s) == PruneForall(narrow, f, s)
           Next(v) == IF Stops(v[1], v[2]) THEN v ELSE <<v[2], Step(v[2])>>
           N == Rounds(st.box)
           g == [n \in 1 .. N |-> [v \in U |-> Next(v)]]
           a == <<st, Step(st)>>
           IsRun(h) == h = [n \in 0 .. N |-> IF n = 0 THEN a ELSE Next(h[n - 1])]
<1>1. N \in Nat
  BY StatusIs, RoundsIsNat
<1>2. ASSUME NEW s \in S, s.box # Empty
      PROVE  Step(s) \in S
  <2>1. s \in StatusesOf(fs)
    BY DEF Follows
  <2>2. Step(s) \in Follows(fs, s)
    BY <1>2, <2>1, ForallFollows
  <2> HIDE DEF Step
  <2> QED BY <1>2, <2>2, FollowsStep
<1>3. st \in S
  BY FollowsItself
<1> HIDE DEF S, Step
<1>4. a \in U
  BY <1>2, <1>3
<1>5. ASSUME NEW v \in U
      PROVE  Next(v) \in U
  <2>1. CASE Stops(v[1], v[2])
    BY <2>1
  <2>2. CASE ~Stops(v[1], v[2])
    <3>1. v[2] \in S /\ v[2].box # Empty
      BY <2>2 DEF Stops
    <3> QED BY <1>2, <2>2, <3>1
  <2> QED BY <2>1, <2>2
<1> HIDE DEF N, U, Next, a
<1>6. g \in Steps(N, U)
  BY <1>5 DEF Steps
<1>7. PICK k : Runs(k, N, U, a, g)
  <2> HIDE DEF g
  <2> QED BY <1>1, <1>4, <1>6, NatRecursion
<1>8. IsRun(k)
  <2>1. \A n \in 1 .. N : n - 1 \in 0 .. N /\ k[n - 1] \in U
    BY <1>1, <1>7 DEF Runs
  <2>2. \A n \in 1 .. N : k[n] = Next(k[n - 1])
    BY <1>7, <2>1 DEF Runs
  <2>3. \A n \in 0 .. N : k[n] = IF n = 0 THEN a ELSE Next(k[n - 1])
    BY <1>1, <1>7, <2>2 DEF Runs
  <2>4. k = [n \in 0 .. N |-> k[n]]
    BY <1>7 DEF Runs
  <2> QED BY <2>3, <2>4
<1> DEFINE h == CHOOSE j : IsRun(j)
<1>9. IsRun(h)
  <2> HIDE DEF IsRun
  <2> QED BY <1>8
<1>10. PruneForallFixpoint(narrow, f, st) = h[N][2]
  BY DEF PruneForallFixpoint, RepeatUntil, Next, Step, a, N
<1> HIDE DEF h
<1>11. h[0] \in U /\ \A n \in 1 .. N : h[n - 1] \in U => h[n] \in U
  BY <1>1, <1>4, <1>5, <1>9
<1>12. h[N] \in U
  BY <1>1, <1>11, LoopStays
<1>13. h[N][2] \in S
  BY <1>12 DEF U
<1> QED BY <1>10, <1>13 DEF S
-----------------------------------------------------------------------------
(* The contractors built for some constraints fs, and any sequence of them.*)
IsCell(fs, c) ==
  \/ c.kind = "fwdbwd" /\ c.f \in fs /\ ~c.f.forall
  \/ c.kind = "forall" /\ c.f \in fs
  \/ c.kind = "integer"
  \/ c.kind = "polytope" /\ c.fs = fs

AreCells(fs, ctcs) == \E C : ctcs \in Seq(C) /\ \A c \in C : IsCell(fs, c)

LEMMA CellFollows ==
  ASSUME NEW fs, IsFiniteSet(fs), AllConstraints(fs), NEW c, IsCell(fs, c),
         NEW st \in StatusesOf(fs), st.box # Empty, NEW narrow
  PROVE  Cell(narrow, c, st) \in Follows(fs, st)
<1>1. CASE c.kind = "fwdbwd" /\ c.f \in fs /\ ~c.f.forall
  <2>1. Cell(narrow, c, st) = PruneIbexFwdbwd(narrow, c.f, st)
    BY <1>1 DEF Cell
  <2> QED BY <1>1, <2>1, FwdbwdFollows
<1>2. CASE c.kind = "forall" /\ c.f \in fs
  <2>1. Cell(narrow, c, st) = PruneForallFixpoint(narrow, c.f, st)
    BY <1>2 DEF Cell
  <2> QED BY <1>2, <2>1, ForallFixpointFollows
<1>3. CASE c.kind = "integer"
  <2>1. Cell(narrow, c, st) = PruneInteger(st)
    BY <1>3 DEF Cell
  <2> QED BY <2>1, IntegerFollows
<1>4. CASE c.kind = "polytope" /\ c.fs = fs
  <2>1. Cell(narrow, c, st) = PruneIbexPolytope(narrow, fs, st)
    BY <1>4 DEF Cell
  <2> QED BY <2>1, PolytopeFollows
<1> QED BY <1>1, <1>2, <1>3, <1>4 DEF IsCell

LEMMA MaxChooser ==
  ASSUME NEW A, IsFiniteSet(A), A \subseteq Int
  PROVE  [s \in (SUBSET A) \ {{}} |-> Max(s)] \in Chooser(A)
<1>1. ASSUME NEW s \in (SUBSET A) \ {{}}
      PROVE  Max(s) \in s
  <2>1. IsFiniteSet(s) /\ s \in SUBSET Int /\ s # {}
    BY FS_Subset
  <2>2. PICK m \in s : \A k \in s : k <= m
    BY <2>1, Extremes
  <2>3. \A k \in s : m >= k
    BY <2>1, <2>2
  <2> QED BY <2>3 DEF Max
<1> QED BY <1>1 DEF Chooser

LEMMA CellsAre ==
  ASSUME NEW fs, NEW ctcs, AreCells(fs, ctcs)
  PROVE  /\ DOMAIN ctcs = 1 .. Len(ctcs) /\ Len(ctcs) \in Nat /\ IsFiniteSet(DOMAIN ctcs)
         /\ DOMAIN ctcs \subseteq Int /\ DOMAIN ctcs \subseteq Nat
         /\ \A k \in DOMAIN ctcs : IsCell(fs, ctcs[k])
<1>0. PICK C : ctcs \in Seq(C) /\ \A c \in C : IsCell(fs, c)
  BY DEF AreCells
<1>1. DOMAIN ctcs = 1 .. Len(ctcs) /\ Len(ctcs) \in Nat /\ \A k \in DOMAIN ctcs : ctcs[k] \in C
  BY <1>0, LenProperties
<1>2. 1 \in Int /\ Len(ctcs) \in Int
  BY <1>1
<1>3. IsFiniteSet(1 .. Len(ctcs))
  BY <1>2, FS_Interval
<1> QED BY <1>0, <1>1, <1>3

LEMMA SeqFollows ==
  ASSUME NEW fs, IsFiniteSet(fs), AllConstraints(fs), NEW ctcs, AreCells(fs, ctcs),
         NEW st \in StatusesOf(fs), st.box # Empty, NEW narrow
  PROVE  PruneSeq(narrow, ctcs, st) \in Follows(fs, st)
<1> DEFINE A == DOMAIN ctcs
           ch == [s \in (SUBSET A) \ {{}} |-> Max(s)]
           P == Follows(fs, st)
           Next(k, s) == IF s.box = Empty THEN s ELSE Cell(narrow, ctcs[k], s)
           g == [k \in A |-> [s \in P |-> Next(k, s)]]
           IsFold(h) == h = [s \in SUBSET A |-> IF s = {} THEN st ELSE Next(Max(s), h[s \ {Max(s)}])]
<1>0. IsFiniteSet(A) /\ A \subseteq Int /\ \A k \in A : IsCell(fs, ctcs[k])
  BY CellsAre
<1>1. ch \in Chooser(A)
  BY <1>0, MaxChooser
<1>2. ASSUME NEW k \in A, NEW s \in P
      PROVE  Next(k, s) \in P
  <2>1. CASE s.box = Empty
    BY <2>1
  <2>2. CASE s.box # Empty
    <3>1. s \in StatusesOf(fs) /\ IsCell(fs, ctcs[k]) /\ Next(k, s) = Cell(narrow, ctcs[k], s)
      BY <1>0, <2>2 DEF Follows
    <3>2. Cell(narrow, ctcs[k], s) \in Follows(fs, s)
      BY <2>2, <3>1, CellFollows
    <3> QED BY <2>2, <3>1, <3>2, FollowsStep
  <2> QED BY <2>1, <2>2
<1>3. st \in P
  BY FollowsItself
<1> HIDE DEF Next, P
<1>4. g \in [A -> [P -> P]]
  BY <1>2
<1>5. \A s \in (SUBSET A) \ {{}} :
        /\ ch[s] = Max(s) /\ ch[s] \in s /\ ch[s] \in A /\ s \ {ch[s]} \in SUBSET A
  BY <1>1 DEF Chooser
<1> HIDE DEF A
<1>7. PICK fold : Folds(fold, A, ch, P, st, g)
  <2> HIDE DEF ch, g
  <2> QED BY <1>0, <1>1, <1>3, <1>4, SubsetRecursion
<1>8. IsFold(fold)
  <2>1. fold \in [SUBSET A -> P]
    BY <1>7 DEF Folds
  <2>2. ASSUME NEW s \in SUBSET A, s # {}
        PROVE  fold[s] = Next(Max(s), fold[s \ {Max(s)}])
    <3>1. fold[s] = g[ch[s]][fold[s \ {ch[s]}]]
      BY <1>7, <2>2 DEF Folds
    <3>2. ch[s] \in A /\ fold[s \ {ch[s]}] \in P
      BY <1>5, <2>1, <2>2
    <3>3. fold[s] = Next(ch[s], fold[s \ {ch[s]}])
      BY <3>1, <3>2
    <3> QED BY <1>5, <2>2, <3>3
  <2>3. fold[{}] = st
    BY <1>7 DEF Folds
  <2> HIDE DEF ch, g
  <2> QED BY <2>1, <2>2, <2>3
<1> DEFINE h == CHOOSE j : IsFold(j)
<1>9. IsFold(h)
  <2> HIDE DEF IsFold
  <2> QED BY <1>8
<1>10. PruneSeq(narrow, ctcs, st) = h[A]
  BY DEF PruneSeq, FoldLeft, MapThenFoldSet, Next, A
<1> HIDE DEF h
<1>11. h[{}] \in P
  BY <1>3, <1>9
<1>12. ASSUME NEW s \in (SUBSET A) \ {{}}, h[s \ {ch[s]}] \in P
       PROVE  h[s] \in P
  <2>0. s \in SUBSET A /\ s # {} /\ ch[s] = Max(s) /\ ch[s] \in A
    BY <1>5
  <2>a. h[s] = IF s = {} THEN h[{}] ELSE Next(Max(s), h[s \ {Max(s)}])
    BY <1>9, <2>0
  <2>1. h[s] = Next(ch[s], h[s \ {ch[s]}]) /\ ch[s] \in A
    BY <2>0, <2>a
  <2> HIDE DEF ch
  <2> QED BY <1>2, <1>12, <2>1
<1> HIDE DEF ch
<1>13. h[A] \in P
  BY <1>0, <1>1, <1>11, <1>12, FoldStays
<1> QED BY <1>10, <1>13 DEF P

LEMMA FixpointFollows ==
  ASSUME NEW fs, IsFiniteSet(fs), AllConstraints(fs), NEW ctcs, AreCells(fs, ctcs),
         NEW st \in StatusesOf(fs), st.box # Empty, NEW narrow
  PROVE  PruneFixpoint(narrow, ctcs, st) \in Follows(fs, st)
<1> DEFINE S == Follows(fs, st)
           U == {v \in S \X S : v[1].box # Empty}
           Step(s) == PruneSeq(narrow, ctcs, s)
           Next(v) == IF Stops(v[1], v[2]) THEN v ELSE <<v[2], Step(v[2])>>
           N == Rounds(st.box)
           g == [n \in 1 .. N |-> [v \in U |-> Next(v)]]
           a == <<st, Step(st)>>
           IsRun(h) == h = [n \in 0 .. N |-> IF n = 0 THEN a ELSE Next(h[n - 1])]
<1>1. N \in Nat
  BY StatusIs, RoundsIsNat
<1>2. ASSUME NEW s \in S, s.box # Empty
      PROVE  Step(s) \in S
  <2>1. s \in StatusesOf(fs)
    BY DEF Follows
  <2>2. Step(s) \in Follows(fs, s)
    BY <1>2, <2>1, SeqFollows
  <2> HIDE DEF Step
  <2> QED BY <1>2, <2>2, FollowsStep
<1>3. st \in S
  BY FollowsItself
<1> HIDE DEF S, Step
<1>4. a \in U
  BY <1>2, <1>3
<1>5. ASSUME NEW v \in U
      PROVE  Next(v) \in U
  <2>1. CASE Stops(v[1], v[2])
    BY <2>1
  <2>2. CASE ~Stops(v[1], v[2])
    <3>1. v[2] \in S /\ v[2].box # Empty
      BY <2>2 DEF Stops
    <3> QED BY <1>2, <2>2, <3>1
  <2> QED BY <2>1, <2>2
<1> HIDE DEF N, U, Next, a
<1>6. g \in Steps(N, U)
  BY <1>5 DEF Steps
<1>7. PICK k : Runs(k, N, U, a, g)
  <2> HIDE DEF g
  <2> QED BY <1>1, <1>4, <1>6, NatRecursion
<1>8. IsRun(k)
  <2>1. \A n \in 1 .. N : n - 1 \in 0 .. N /\ k[n - 1] \in U
    BY <1>1, <1>7 DEF Runs
  <2>2. \A n \in 1 .. N : k[n] = Next(k[n - 1])
    BY <1>7, <2>1 DEF Runs
  <2>3. \A n \in 0 .. N : k[n] = IF n = 0 THEN a ELSE Next(k[n - 1])
    BY <1>1, <1>7, <2>2 DEF Runs
  <2>4. k = [n \in 0 .. N |-> k[n]]
    BY <1>7 DEF Runs
  <2> QED BY <2>3, <2>4
<1> DEFINE h == CHOOSE j : IsRun(j)
<1>9. IsRun(h)
  <2> HIDE DEF IsRun
  <2> QED BY <1>8
<1>10. PruneFixpoint(narrow, ctcs, st) = h[N][2]
  BY DEF PruneFixpoint, RepeatUntil, Next, Step, a, N
<1> HIDE DEF h
<1>11. h[0] \in U /\ \A n \in 1 .. N : h[n - 1] \in U => h[n] \in U
  BY <1>1, <1>4, <1>5, <1>9
<1>12. h[N] \in U
  BY <1>1, <1>11, LoopStays
<1>13. h[N][2] \in S
  BY <1>12 DEF U
<1> QED BY <1>10, <1>13 DEF S
-----------------------------------------------------------------------------
(* The worklist.                                                           *)
Worklists(fs, st, ctcs) == [st : Follows(fs, st), last : Int, list : SUBSET (DOMAIN ctcs)]

LEMMA OutputCleared ==
  ASSUME NEW fs, NEW st, NEW s \in Follows(fs, st)
  PROVE  [s EXCEPT !.output = {}] \in Follows(fs, st) /\ [s EXCEPT !.output = {}].box = s.box
<1> DEFINE b == s.box
           o == s.output
           u == s.used
           w == s.witness
           new == [s EXCEPT !.output = {}]
<1>1. s \in StatusesOf(fs)
  BY DEF Follows
<1>2. s = [box |-> b, output |-> o, used |-> u, witness |-> w]
  BY <1>1, StatusIs
<1>3. b \in Boxes \cup {Empty} /\ u \subseteq fs /\ w \subseteq Dim
  BY <1>1 DEF StatusesOf
<1>4. /\ st.used \subseteq u /\ st.witness \subseteq w /\ Within(b, st.box)
      /\ \A D \in SUBSET Dim, p \in IntPoints :
           Admits(s, D, p) /\ CoversOn(D, st.box, p) => CoversOn(D, b, p)
  BY DEF Follows
<1> HIDE DEF b, o
<1>5. new = [box |-> b, output |-> {}, used |-> u, witness |-> w]
  <2> HIDE DEF u, w
  <2> QED BY <1>2
<1> HIDE DEF new
<1>6. new \in StatusesOf(fs) /\ new.box = b /\ new.used = u /\ new.witness = w
  <2> HIDE DEF u, w
  <2> QED BY <1>3, <1>5 DEF StatusesOf
<1>7. ASSUME NEW D \in SUBSET Dim, NEW p \in IntPoints, Admits(new, D, p), CoversOn(D, st.box, p)
      PROVE  CoversOn(D, b, p)
  <2>1. Admits(s, D, p)
    BY <1>6, <1>7 DEF Admits
  <2> QED BY <1>4, <1>7, <2>1
<1>8. new \in Follows(fs, st)
  BY <1>4, <1>6, <1>7 DEF Follows
<1> QED BY <1>6, <1>8 DEF new, b

LEMMA VisitFollows ==
  ASSUME NEW fs, IsFiniteSet(fs), AllConstraints(fs), NEW ctcs, AreCells(fs, ctcs),
         NEW st \in StatusesOf(fs), st.box # Empty, NEW narrow,
         NEW w \in Worklists(fs, st, ctcs), w.st.box # Empty, NEW k \in DOMAIN ctcs,
         NEW left \in SUBSET (DOMAIN ctcs)
  PROVE  Visit(narrow, ctcs, left, k, w) \in Worklists(fs, st, ctcs)
<1> DEFINE s == [w.st EXCEPT !.output = {}]
           new == Cell(narrow, ctcs[k], s)
           list == left \cup {j \in DOMAIN ctcs : Input(ctcs[j]) \cap new.output # {}}
<1>1. w.st \in Follows(fs, st) /\ k \in Int
  BY CellsAre DEF Worklists
<1>2. s \in Follows(fs, st) /\ s.box # Empty
  BY <1>1, OutputCleared
<1> HIDE DEF s
<1>3. s \in StatusesOf(fs) /\ IsCell(fs, ctcs[k])
  BY <1>2, CellsAre DEF Follows
<1>4. new \in Follows(fs, s)
  BY <1>2, <1>3, CellFollows
<1> HIDE DEF new
<1>5. new \in Follows(fs, st)
  BY <1>2, <1>4, FollowsStep
<1>6. list \in SUBSET (DOMAIN ctcs)
  BY <1>1
<1>7. Visit(narrow, ctcs, left, k, w) = [st |-> new, last |-> k, list |-> list]
  BY DEF Visit, Listed, s, new
<1> HIDE DEF list
<1> QED BY <1>1, <1>5, <1>6, <1>7 DEF Worklists

LEMMA ApplyFollows ==
  ASSUME NEW fs, IsFiniteSet(fs), AllConstraints(fs), NEW ctcs, AreCells(fs, ctcs),
         NEW st \in StatusesOf(fs), st.box # Empty, NEW narrow,
         NEW w \in Worklists(fs, st, ctcs), w.st.box # Empty, NEW k \in DOMAIN ctcs
  PROVE  Apply(narrow, ctcs, k, w) \in Worklists(fs, st, ctcs)
<1>1. w.list \ {k} \in SUBSET (DOMAIN ctcs)
  BY DEF Worklists
<1>2. Visit(narrow, ctcs, w.list \ {k}, k, w) \in Worklists(fs, st, ctcs)
  BY <1>1, VisitFollows
<1> QED BY <1>2 DEF Apply

LEMMA FirstPassFollows ==
  ASSUME NEW fs, IsFiniteSet(fs), AllConstraints(fs), NEW ctcs, AreCells(fs, ctcs),
         NEW st \in StatusesOf(fs), st.box # Empty, NEW narrow, NEW point
  PROVE  FirstPass(narrow, ctcs, point, st) \in Worklists(fs, st, ctcs)
<1> DEFINE A == DOMAIN ctcs
           ch == [s \in (SUBSET A) \ {{}} |-> Max(s)]
           P == Worklists(fs, st, ctcs)
           base == [st |-> st, last |-> 0, list |-> {}]
           Next(k, w) == IF w.st.box # Empty /\ (point = -1 \/ point \in Input(ctcs[k]))
                         THEN Visit(narrow, ctcs, w.list, k, w) ELSE w
           g == [k \in A |-> [w \in P |-> Next(k, w)]]
           IsFold(h) == h = [s \in SUBSET A |-> IF s = {} THEN base ELSE Next(Max(s), h[s \ {Max(s)}])]
<1>0. IsFiniteSet(A) /\ A \subseteq Int
  BY CellsAre
<1>1. ch \in Chooser(A)
  BY <1>0, MaxChooser
<1>2. ASSUME NEW k \in A, NEW w \in P
      PROVE  Next(k, w) \in P
  <2>1. CASE w.st.box = Empty
    BY <2>1
  <2>2. CASE w.st.box # Empty
    <3>1. w.list \in SUBSET (DOMAIN ctcs)
      BY DEF Worklists
    <3>2. Visit(narrow, ctcs, w.list, k, w) \in P
      BY <2>2, <3>1, VisitFollows
    <3> QED BY <3>2
  <2> QED BY <2>1, <2>2
<1>3. base \in P
  BY FollowsItself DEF Worklists
<1> HIDE DEF Next, P, base
<1>4. g \in [A -> [P -> P]]
  BY <1>2
<1>5. \A s \in (SUBSET A) \ {{}} :
        /\ ch[s] = Max(s) /\ ch[s] \in s /\ ch[s] \in A /\ s \ {ch[s]} \in SUBSET A
  BY <1>1 DEF Chooser
<1> HIDE DEF A
<1>7. PICK fold : Folds(fold, A, ch, P, base, g)
  <2> HIDE DEF ch, g
  <2> QED BY <1>0, <1>1, <1>3, <1>4, SubsetRecursion
<1>8. IsFold(fold)
  <2>1. fold \in [SUBSET A -> P]
    BY <1>7 DEF Folds
  <2>2. ASSUME NEW s \in SUBSET A, s # {}
        PROVE  fold[s] = Next(Max(s), fold[s \ {Max(s)}])
    <3>1. fold[s] = g[ch[s]][fold[s \ {ch[s]}]]
      BY <1>7, <2>2 DEF Folds
    <3>2. ch[s] \in A /\ fold[s \ {ch[s]}] \in P
      BY <1>5, <2>1, <2>2
    <3>3. fold[s] = Next(ch[s], fold[s \ {ch[s]}])
      BY <3>1, <3>2
    <3> QED BY <1>5, <2>2, <3>3
  <2>3. fold[{}] = base
    BY <1>7 DEF Folds
  <2> HIDE DEF ch, g
  <2> QED BY <2>1, <2>2, <2>3
<1> DEFINE h == CHOOSE j : IsFold(j)
           Index(x) == [i \in DOMAIN ctcs |-> i][x]
           Raw(j) == j = [s \in SUBSET (DOMAIN [i \in DOMAIN ctcs |-> i]) |->
                            IF s = {} THEN base ELSE Next(Index(Max(s)), j[s \ {Max(s)}])]
<1>9. IsFold(h)
  <2> HIDE DEF IsFold
  <2> QED BY <1>8
<1>10. FirstPass(narrow, ctcs, point, st) = h[A]
  <2>1. FirstPass(narrow, ctcs, point, st) = (CHOOSE j : Raw(j))[DOMAIN [i \in DOMAIN ctcs |-> i]]
    BY DEF FirstPass, FoldLeftDomain, FoldLeft, MapThenFoldSet, Next, base
  <2>2. DOMAIN [i \in DOMAIN ctcs |-> i] = A
    BY DEF A
  <2>3. \A s \in SUBSET A : s # {} => Index(Max(s)) = Max(s)
    <3>1. \A s \in SUBSET A : s # {} => Max(s) \in A
      BY <1>5
    <3> QED BY <3>1 DEF A
  <2> HIDE DEF Index
  <2>4. \A j : Raw(j) <=> IsFold(j)
    <3> SUFFICES ASSUME NEW j  PROVE Raw(j) <=> IsFold(j)
      OBVIOUS
    <3>1. [s \in SUBSET A |-> IF s = {} THEN base ELSE Next(Index(Max(s)), j[s \ {Max(s)}])]
          = [s \in SUBSET A |-> IF s = {} THEN base ELSE Next(Max(s), j[s \ {Max(s)}])]
      BY <2>3
    <3> QED BY <2>2, <3>1
  <2> HIDE DEF Raw, IsFold
  <2>5. (CHOOSE j : Raw(j)) = (CHOOSE j : IsFold(j))
    BY <2>4
  <2> QED BY <2>1, <2>2, <2>5
<1> HIDE DEF h
<1>11. h[{}] \in P
  BY <1>3, <1>9
<1>12. ASSUME NEW s \in (SUBSET A) \ {{}}, h[s \ {ch[s]}] \in P
       PROVE  h[s] \in P
  <2>0. s \in SUBSET A /\ s # {} /\ ch[s] = Max(s) /\ ch[s] \in A
    BY <1>5
  <2>a. h[s] = IF s = {} THEN h[{}] ELSE Next(Max(s), h[s \ {Max(s)}])
    BY <1>9, <2>0
  <2>1. h[s] = Next(ch[s], h[s \ {ch[s]}]) /\ ch[s] \in A
    BY <2>0, <2>a
  <2> HIDE DEF ch
  <2> QED BY <1>2, <1>12, <2>1
<1> HIDE DEF ch
<1>13. h[A] \in P
  BY <1>0, <1>1, <1>11, <1>12, FoldStays
<1> QED BY <1>10, <1>13 DEF P

LEMMA ListedIs ==
  ASSUME NEW w, w.list # {}, w.list \subseteq Nat, IsFiniteSet(w.list), w.last \in Int
  PROVE  NextListed(w) \in w.list
<1> DEFINE later == {j \in w.list : j > w.last}
<1>1. IsFiniteSet(later) /\ later \in SUBSET Int /\ w.list \in SUBSET Int
  BY FS_Subset
<1>2. NextListed(w) = IF later = {} THEN Least(w.list) ELSE Least(later)
  BY DEF NextListed
<1>3. Least(w.list) \in w.list
  BY <1>1, LeastIs
<1>4. later # {} => Least(later) \in later
  <2> HIDE DEF later
  <2> QED BY <1>1, LeastIs
<1> QED BY <1>2, <1>3, <1>4

LEMMA RunFollows ==
  ASSUME NEW fs, IsFiniteSet(fs), AllConstraints(fs), NEW ctcs, AreCells(fs, ctcs),
         NEW st \in StatusesOf(fs), st.box # Empty, NEW narrow,
         NEW w \in Worklists(fs, st, ctcs), w.st.box # Empty, w.list # {}
  PROVE  RunWorklist(narrow, ctcs, w) \in Worklists(fs, st, ctcs)
<1> DEFINE S == Worklists(fs, st, ctcs)
           Ends(v) == v.st.box = Empty \/ v.list = {}
           U == {v \in S \X S : ~Ends(v[1])}
           Step(v) == Apply(narrow, ctcs, NextListed(v), v)
           Next(v) == IF Ends(v[2]) THEN v ELSE <<v[2], Step(v[2])>>
           N == (Rounds(w.st.box) + 1) * Len(ctcs)
           first == [w EXCEPT !.last = 0]
           g == [n \in 1 .. N |-> [v \in U |-> Next(v)]]
           a == <<first, Step(first)>>
           IsRun(h) == h = [n \in 0 .. N |-> IF n = 0 THEN a ELSE Next(h[n - 1])]
<1>1. N \in Nat
  <2>1. w.st \in StatusesOf(fs) /\ Len(ctcs) \in Nat
    BY CellsAre DEF Worklists, Follows
  <2>2. Rounds(w.st.box) \in Nat
    BY <2>1, StatusIs, RoundsIsNat
  <2> DEFINE r == Rounds(w.st.box) + 1
             l == Len(ctcs)
  <2>3. r \in Nat /\ l \in Nat
    BY <2>1, <2>2
  <2> HIDE DEF r, l
  <2>4. r * l \in Nat
    BY <2>3
  <2> QED BY <2>4 DEF r, l
<1>2. ASSUME NEW v \in S, ~Ends(v)
      PROVE  Step(v) \in S
  <2>1. v.list \in SUBSET (DOMAIN ctcs) /\ v.last \in Int /\ v.list # {} /\ v.st.box # Empty
    BY <1>2 DEF Worklists
  <2>2. IsFiniteSet(v.list) /\ v.list \subseteq Nat
    BY <2>1, FS_Subset, CellsAre
  <2>3. NextListed(v) \in DOMAIN ctcs
    BY <2>1, <2>2, ListedIs
  <2> QED BY <2>1, <2>3, ApplyFollows
<1>3. first \in S /\ ~Ends(first)
  <2> DEFINE s == w.st
             l == w.list
  <2>1. s \in Follows(fs, st) /\ l \in SUBSET (DOMAIN ctcs) /\ s.box # Empty /\ l # {}
        /\ w = [st |-> s, last |-> w.last, list |-> l]
    BY DEF Worklists
  <2> HIDE DEF s, l
  <2>2. first = [st |-> s, last |-> 0, list |-> l]
    BY <2>1
  <2> HIDE DEF first
  <2> QED BY <2>1, <2>2 DEF Worklists
<1> HIDE DEF S, Step, first
<1>4. a \in U
  BY <1>2, <1>3
<1>5. ASSUME NEW v \in U
      PROVE  Next(v) \in U
  <2>1. CASE Ends(v[2])
    BY <2>1
  <2>2. CASE ~Ends(v[2])
    BY <1>2, <2>2
  <2> QED BY <2>1, <2>2
<1> HIDE DEF N, U, Next, a
<1>6. g \in Steps(N, U)
  BY <1>5 DEF Steps
<1>7. PICK k : Runs(k, N, U, a, g)
  <2> HIDE DEF g
  <2> QED BY <1>1, <1>4, <1>6, NatRecursion
<1>8. IsRun(k)
  <2>1. \A n \in 1 .. N : n - 1 \in 0 .. N /\ k[n - 1] \in U
    BY <1>1, <1>7 DEF Runs
  <2>2. \A n \in 1 .. N : k[n] = Next(k[n - 1])
    BY <1>7, <2>1 DEF Runs
  <2>3. \A n \in 0 .. N : k[n] = IF n = 0 THEN a ELSE Next(k[n - 1])
    BY <1>1, <1>7, <2>2 DEF Runs
  <2>4. k = [n \in 0 .. N |-> k[n]]
    BY <1>7 DEF Runs
  <2> QED BY <2>3, <2>4
<1> DEFINE h == CHOOSE j : IsRun(j)
<1>9. IsRun(h)
  <2> HIDE DEF IsRun
  <2> QED BY <1>8
<1>10. RunWorklist(narrow, ctcs, w) = h[N][2]
  BY DEF RunWorklist, RepeatUntil, Next, Step, a, N, first
<1> HIDE DEF h
<1>11. h[0] \in U /\ \A n \in 1 .. N : h[n - 1] \in U => h[n] \in U
  BY <1>1, <1>4, <1>5, <1>9
<1>12. h[N] \in U
  BY <1>1, <1>11, LoopStays
<1>13. h[N][2] \in S
  BY <1>12 DEF U
<1> QED BY <1>10, <1>13 DEF S

LEMMA WorklistFollows ==
  ASSUME NEW fs, IsFiniteSet(fs), AllConstraints(fs), NEW ctcs, AreCells(fs, ctcs),
         NEW st \in StatusesOf(fs), st.box # Empty, NEW narrow, NEW point
  PROVE  PruneWorklistFixpoint(narrow, ctcs, point, st) \in Follows(fs, st)
<1> DEFINE w == FirstPass(narrow, ctcs, point, st)
           v == RunUnlessStopped(narrow, ctcs, st, w)
<1>1. w \in Worklists(fs, st, ctcs)
  BY FirstPassFollows
<1> HIDE DEF w
<1>2. v \in Worklists(fs, st, ctcs)
  <2>1. CASE w.list = {} \/ Stops(st, w.st)
    BY <1>1, <2>1 DEF RunUnlessStopped
  <2>2. CASE ~(w.list = {} \/ Stops(st, w.st))
    <3>1. w.st.box # Empty /\ w.list # {} /\ v = RunWorklist(narrow, ctcs, w)
      BY <2>2 DEF RunUnlessStopped, Stops
    <3> QED BY <1>1, <3>1, RunFollows
  <2> QED BY <2>1, <2>2
<1> HIDE DEF v
<1>3. v.st \in Follows(fs, st)
  BY <1>2 DEF Worklists
<1> QED BY <1>3 DEF PruneWorklistFixpoint, v, w
-----------------------------------------------------------------------------
(* TheorySolver: the contractor built from the assertions.                 *)
LEMMA AssertionsAre ==
  ASSUME NEW problem, IsProblem(problem)
  PROVE  LET fs == ToSet(problem.assertions)
             A  == DOMAIN problem.assertions
         IN  /\ IsFiniteSet(fs) /\ AllConstraints(fs)
             /\ IsFiniteSet(A) /\ A \subseteq Int /\ \A k \in A : problem.assertions[k] \in fs
<1> DEFINE s == problem.assertions
           fs == ToSet(s)
<1>1. fs = {s[k] : k \in DOMAIN s}
  BY DEF ToSet
<1>2. DOMAIN s = 1 .. Len(s) /\ Len(s) \in Nat
  BY LenProperties DEF IsProblem
<1>3. IsFiniteSet(1 .. Len(s))
  <2>1. 1 \in Int /\ Len(s) \in Int
    BY <1>2
  <2> QED BY <2>1, FS_Interval
<1>4. IsFiniteSet({s[k] : k \in DOMAIN s})
  <2> DEFINE S == DOMAIN s
             T == {s[k] : k \in DOMAIN s}
             m == [k \in S |-> s[k]]
  <2>1. IsFiniteSet(S)
    BY <1>2, <1>3
  <2>2. m \in Surjection(S, T)
    BY DEF Surjection
  <2> HIDE DEF S, T, m
  <2>3. IsFiniteSet(T)
    BY <2>1, <2>2, FS_Surjection
  <2> QED BY <2>3 DEF T
<1>5. AllConstraints(fs)
  BY DEF IsProblem, AllConstraints
<1> QED BY <1>1, <1>2, <1>3, <1>4, <1>5

LEMMA AssertionCellsAre ==
  ASSUME NEW problem, IsProblem(problem), NEW C,
         \A f \in ToSet(problem.assertions), kind \in {"forall", "fwdbwd"} :
           (kind = "fwdbwd" => ~f.forall) => [kind |-> kind, f |-> f] \in C
  PROVE  AssertionCells(problem.assertions) \in Seq(C)
<1> DEFINE fs == ToSet(problem.assertions)
           sq == problem.assertions
           A == DOMAIN problem.assertions
           ch == [s \in (SUBSET A) \ {{}} |-> Max(s)]
           P == Seq(C)
           Kind(k) == IF sq[k].forall THEN "forall" ELSE "fwdbwd"
           Next(k, cs) == IF IsFiltered(sq[k]) \/ is_neq(sq[k]) THEN cs
                          ELSE Append(cs, [kind |-> Kind(k), f |-> sq[k]])
           g == [k \in A |-> [cs \in P |-> Next(k, cs)]]
           IsFold(h) == h = [s \in SUBSET A |-> IF s = {} THEN <<>> ELSE Next(Max(s), h[s \ {Max(s)}])]
<1>0. IsFiniteSet(A) /\ A \subseteq Int /\ \A k \in A : sq[k] \in fs
  BY AssertionsAre
<1>1. ch \in Chooser(A)
  BY <1>0, MaxChooser
<1>2. ASSUME NEW k \in A, NEW cs \in P
      PROVE  Next(k, cs) \in P
  <2> DEFINE kind == Kind(k)
             c == [kind |-> kind, f |-> sq[k]]
  <2>1. kind \in {"forall", "fwdbwd"} /\ (kind = "fwdbwd" => ~sq[k].forall) /\ sq[k] \in fs
    BY <1>0
  <2> HIDE DEF kind
  <2>2. c \in C
    BY <2>1
  <2> HIDE DEF c
  <2>3. Append(cs, c) \in P
    BY <2>2
  <2> QED BY <2>3 DEF c, kind
<1>3. <<>> \in P
  OBVIOUS
<1> HIDE DEF Next, P
<1>4. g \in [A -> [P -> P]]
  BY <1>2
<1>5. \A s \in (SUBSET A) \ {{}} :
        /\ ch[s] = Max(s) /\ ch[s] \in s /\ ch[s] \in A /\ s \ {ch[s]} \in SUBSET A
  BY <1>1 DEF Chooser
<1> HIDE DEF A
<1>7. PICK fold : Folds(fold, A, ch, P, <<>>, g)
  <2> HIDE DEF ch, g
  <2> QED BY <1>0, <1>1, <1>3, <1>4, SubsetRecursion
<1>8. IsFold(fold)
  <2>1. fold \in [SUBSET A -> P]
    BY <1>7 DEF Folds
  <2>2. ASSUME NEW s \in SUBSET A, s # {}
        PROVE  fold[s] = Next(Max(s), fold[s \ {Max(s)}])
    <3>1. fold[s] = g[ch[s]][fold[s \ {ch[s]}]]
      BY <1>7, <2>2 DEF Folds
    <3>2. ch[s] \in A /\ fold[s \ {ch[s]}] \in P
      BY <1>5, <2>1, <2>2
    <3>3. fold[s] = Next(ch[s], fold[s \ {ch[s]}])
      BY <3>1, <3>2
    <3> QED BY <1>5, <2>2, <3>3
  <2>3. fold[{}] = <<>>
    BY <1>7 DEF Folds
  <2> HIDE DEF ch, g
  <2> QED BY <2>1, <2>2, <2>3
<1> DEFINE h == CHOOSE j : IsFold(j)
<1>9. IsFold(h)
  <2> HIDE DEF IsFold
  <2> QED BY <1>8
<1>10. AssertionCells(sq) = h[A]
  BY DEF AssertionCells, FoldLeft, MapThenFoldSet, Next, A
<1> HIDE DEF h
<1>11. h[{}] \in P
  BY <1>3, <1>9
<1>12. ASSUME NEW s \in (SUBSET A) \ {{}}, h[s \ {ch[s]}] \in P
       PROVE  h[s] \in P
  <2>0. s \in SUBSET A /\ s # {} /\ ch[s] = Max(s) /\ ch[s] \in A
    BY <1>5
  <2>a. h[s] = IF s = {} THEN h[{}] ELSE Next(Max(s), h[s \ {Max(s)}])
    BY <1>9, <2>0
  <2>1. h[s] = Next(ch[s], h[s \ {ch[s]}]) /\ ch[s] \in A
    BY <2>0, <2>a
  <2> HIDE DEF ch
  <2> QED BY <1>2, <1>12, <2>1
<1> HIDE DEF ch
<1>13. h[A] \in P
  BY <1>0, <1>1, <1>11, <1>12, FoldStays
<1> QED BY <1>10, <1>13 DEF P

LEMMA BuiltCells ==
  ASSUME NEW problem, IsProblem(problem)
  PROVE  AreCells(ToSet(problem.assertions), BuildContractor(problem))
<1> DEFINE fs == ToSet(problem.assertions)
           kinds == {"forall", "fwdbwd"}
           Built == {[kind |-> k, f |-> f] : k \in kinds, f \in fs}
           C == {c \in Built : IsCell(fs, c)} \cup {[kind |-> "integer"], [kind |-> "polytope", fs |-> fs]}
           one == AssertionCells(problem.assertions)
           two == IF IntDim # {} THEN <<[kind |-> "integer"]>> ELSE <<>>
           three == IF problem.polytope /\ \E f \in fs : ~f.forall /\ ~is_neq(f)
                    THEN <<[kind |-> "polytope", fs |-> fs]>> ELSE <<>>
<1>1. \A f \in fs, k \in kinds : (k = "fwdbwd" => ~f.forall) => [kind |-> k, f |-> f] \in C
  <2>1. ASSUME NEW f \in fs, NEW k \in kinds, k = "fwdbwd" => ~f.forall
        PROVE  [kind |-> k, f |-> f] \in C
    <3>1. [kind |-> k, f |-> f] \in Built
      OBVIOUS
    <3>2. IsCell(fs, [kind |-> k, f |-> f])
      BY <2>1 DEF IsCell
    <3> HIDE DEF Built
    <3> QED BY <3>1, <3>2
  <2> HIDE DEF C, kinds, fs
  <2> QED BY <2>1
<1>2. one \in Seq(C)
  <2> HIDE DEF C
  <2> QED BY <1>1, AssertionCellsAre
<1>3. two \in Seq(C) /\ three \in Seq(C)
  <2>1. [kind |-> "integer"] \in C /\ [kind |-> "polytope", fs |-> fs] \in C
    OBVIOUS
  <2> DEFINE x == [kind |-> "integer"]
             y == [kind |-> "polytope", fs |-> fs]
  <2>2. <<x>> \in Seq(C) /\ <<y>> \in Seq(C) /\ <<>> \in Seq(C)
    <3>1. x \in C /\ y \in C
      BY <2>1
    <3> HIDE DEF x, y, C
    <3> QED BY <3>1
  <2> HIDE DEF C
  <2> QED BY <2>2
<1>4. \A c \in C : IsCell(fs, c)
  <2>1. IsCell(fs, [kind |-> "integer"]) /\ IsCell(fs, [kind |-> "polytope", fs |-> fs])
    BY DEF IsCell
  <2> QED BY <2>1
<1>5. BuildContractor(problem) = one \o two \o three
  BY DEF BuildContractor
<1> HIDE DEF one, two, three, C
<1>6. one \o two \o three \in Seq(C)
  <2>1. one \o two \in Seq(C)
    BY <1>2, <1>3
  <2> QED BY <1>3, <2>1
<1> QED BY <1>4, <1>5, <1>6 DEF AreCells

(* ContractorFixpoint::Prune and ContractorWorklistFixpoint::Prune, around *)
(* the contractors that TheorySolver::BuildContractor makes, whichever the *)
(* problem and its options: a contraction leaves a part of the box, and    *)
(* the constraints and witnesses it adds to the status account for every   *)
(* integer point taken off.                                                *)
THEOREM PruneFollows ==
  ASSUME NEW problem, IsProblem(problem), NEW st \in StatusesOf(ToSet(problem.assertions)),
         st.box # Empty, NEW point
  PROVE  Prune(problem, point, st) \in Follows(ToSet(problem.assertions), st)
<1> DEFINE fs == ToSet(problem.assertions)
           ctcs == BuildContractor(problem)
<1>1. IsFiniteSet(fs) /\ AllConstraints(fs)
  BY AssertionsAre
<1>2. AreCells(fs, ctcs)
  BY BuiltCells
<1>3. \/ Prune(problem, point, st) = st
      \/ Prune(problem, point, st) = PruneInteger(st)
      \/ Prune(problem, point, st) = PruneWorklistFixpoint(problem.narrow, ctcs, point, st)
      \/ Prune(problem, point, st) = PruneFixpoint(problem.narrow, ctcs, st)
  BY DEF Prune
<1> HIDE DEF fs, ctcs
<1>4. st \in StatusesOf(fs)
  BY DEF fs
<1>5. st \in Follows(fs, st) /\ PruneInteger(st) \in Follows(fs, st)
  BY <1>4, FollowsItself, IntegerFollows
<1>6. PruneWorklistFixpoint(problem.narrow, ctcs, point, st) \in Follows(fs, st)
  BY <1>1, <1>2, <1>4, WorklistFollows
<1>7. PruneFixpoint(problem.narrow, ctcs, st) \in Follows(fs, st)
  BY <1>1, <1>2, <1>4, FixpointFollows
<1> QED BY <1>3, <1>5, <1>6, <1>7 DEF fs
-----------------------------------------------------------------------------
(* The bounds among the assertions.  A box is updated to the values V of   *)
(* one variable: it keeps those it has, and no others.                     *)
Updates(b, i, V, new) ==
  /\ new = Empty \/ (IsBox(new) /\ Within(new, b))
  /\ new # Empty => \A j \in Dim \ {i} : new[j] = b[j]
  /\ new # Empty => \A x \in Int : contains(new[i], x) => x \in V
  /\ \A x \in V : contains(b[i], x) => new # Empty /\ contains(new[i], x)

LEMMA ReplacedInterval ==
  ASSUME NEW b, IsBox(b), NEW i \in Dim, NEW l \in Int, NEW h \in Int, NEW V \in SUBSET Int,
         lb(b[i]) <= l, h <= ub(b[i]), \A x \in Int : l <= x /\ x <= h => x \in V,
         \A x \in V : contains(b[i], x) => l <= x /\ x <= h
  PROVE  Updates(b, i, V, With(b, i, <<l, h>>))
<1> DEFINE new == With(b, i, <<l, h>>)
           put == [b EXCEPT ![i] = <<l, h>>]
<1>0. lb(<<l, h>>) = l /\ ub(<<l, h>>) = h
  BY DEF lb, ub
<1>1. CASE l > h
  <2>1. new = Empty
    BY <1>0, <1>1 DEF With
  <2>2. \A x \in V : ~contains(b[i], x)
    BY <1>1
  <2> HIDE DEF new
  <2>3. Updates(b, i, V, new)
    BY <2>1, <2>2 DEF Updates
  <2> QED BY <2>3 DEF new
<1>2. CASE ~(l > h)
  <2>1. new = put
    BY <1>0, <1>2 DEF With
  <2>2. put[i] = <<l, h>> /\ (\A j \in Dim \ {i} : put[j] = b[j]) /\ IsBox(put)
    BY DEF IsBox
  <2> HIDE DEF new, put
  <2>3. ASSUME NEW j \in Dim
        PROVE  lb(b[j]) <= lb(put[j]) /\ ub(put[j]) <= ub(b[j])
    <3>1. CASE j = i
      BY <1>0, <2>2, <3>1
    <3>2. CASE j # i
      <4>1. put[j] = b[j] /\ lb(b[j]) \in Int /\ ub(b[j]) \in Int
        BY <2>2, <3>2 DEF IsBox, lb, ub
      <4> QED BY <4>1
    <3> QED BY <3>1, <3>2
  <2>4. Within(put, b) /\ put # Empty
    BY <2>2, <2>3, BoxIsNotEmpty DEF Within
  <2>5. \A x \in Int : contains(put[i], x) <=> l <= x /\ x <= h
    BY <1>0, <2>2 DEF contains
  <2>6. Updates(b, i, V, put)
    BY <2>2, <2>4, <2>5 DEF Updates
  <2> QED BY <2>1, <2>6 DEF new
<1> QED BY <1>1, <1>2

LEMMA SameInterval ==
  ASSUME NEW b, IsBox(b), NEW i \in Dim, NEW V \in SUBSET Int,
         \A x \in Int : contains(b[i], x) => x \in V
  PROVE  Updates(b, i, V, b)
BY WithinItself, BoxIsNotEmpty DEF Updates

LEMMA BoundsUpdate ==
  ASSUME NEW b, IsBox(b), NEW i \in Dim, NEW v \in Int
  PROVE  /\ Updates(b, i, {v}, UpdateBoundsViaEquality(b, i, v))
         /\ Updates(b, i, {x \in Int : v <= x}, UpdateLowerBound(b, i, v))
         /\ Updates(b, i, {x \in Int : x <= v}, UpdateUpperBound(b, i, v))
<1> DEFINE l == lb(b[i])
           h == ub(b[i])
<1>1. l \in Int /\ h \in Int /\ \A x : contains(b[i], x) <=> l <= x /\ x <= h
  BY DEF IsBox, lb, ub, contains
<1> HIDE DEF l, h
<1>2. Updates(b, i, {v}, UpdateBoundsViaEquality(b, i, v))
  <2>1. CASE contains(b[i], v)
    <3>1. UpdateBoundsViaEquality(b, i, v) = With(b, i, <<v, v>>)
      BY <2>1 DEF UpdateBoundsViaEquality
    <3> DEFINE V == {v}
    <3>2. V \in SUBSET Int /\ lb(b[i]) <= v /\ v <= ub(b[i]) /\ (\A x \in Int : v <= x /\ x <= v => x \in V)
          /\ \A x \in V : contains(b[i], x) => v <= x /\ x <= v
      BY <1>1, <2>1 DEF l, h
    <3> HIDE DEF V
    <3>3. Updates(b, i, V, With(b, i, <<v, v>>))
      BY <3>2, ReplacedInterval
    <3> QED BY <3>1, <3>3 DEF V
  <2>2. CASE ~contains(b[i], v)
    <3>1. UpdateBoundsViaEquality(b, i, v) = Empty
      BY <2>2 DEF UpdateBoundsViaEquality
    <3> QED BY <2>2, <3>1 DEF Updates
  <2> QED BY <2>1, <2>2
<1>3. Updates(b, i, {x \in Int : v <= x}, UpdateLowerBound(b, i, v))
  <2> DEFINE V == {x \in Int : v <= x}
  <2>1. V \in SUBSET Int /\ \A x \in Int : x \in V <=> v <= x
    OBVIOUS
  <2> HIDE DEF V
  <2>2. CASE v <= l
    <3>1. UpdateLowerBound(b, i, v) = b
      BY <2>2 DEF UpdateLowerBound, l
    <3>2. \A x \in Int : contains(b[i], x) => x \in V
      BY <1>1, <2>1, <2>2
    <3> QED BY <2>1, <3>1, <3>2, SameInterval DEF V
  <2>3. CASE ~(v <= l)
    <3>1. UpdateLowerBound(b, i, v) = With(b, i, <<v, h>>)
      BY <2>3 DEF UpdateLowerBound, l, h
    <3>2. /\ lb(b[i]) <= v /\ h <= ub(b[i]) /\ (\A x \in Int : v <= x /\ x <= h => x \in V)
          /\ \A x \in V : contains(b[i], x) => v <= x /\ x <= h
      BY <1>1, <2>1, <2>3 DEF l, h
    <3>3. Updates(b, i, V, With(b, i, <<v, h>>))
      BY <1>1, <2>1, <3>2, ReplacedInterval
    <3> QED BY <3>1, <3>3 DEF V
  <2> QED BY <2>2, <2>3
<1>4. Updates(b, i, {x \in Int : x <= v}, UpdateUpperBound(b, i, v))
  <2> DEFINE V == {x \in Int : x <= v}
  <2>1. V \in SUBSET Int /\ \A x \in Int : x \in V <=> x <= v
    OBVIOUS
  <2> HIDE DEF V
  <2>2. CASE v >= h
    <3>1. UpdateUpperBound(b, i, v) = b
      BY <2>2 DEF UpdateUpperBound, h
    <3>2. \A x \in Int : contains(b[i], x) => x \in V
      BY <1>1, <2>1, <2>2
    <3> QED BY <2>1, <3>1, <3>2, SameInterval DEF V
  <2>3. CASE ~(v >= h)
    <3>1. UpdateUpperBound(b, i, v) = With(b, i, <<l, v>>)
      BY <2>3 DEF UpdateUpperBound, l, h
    <3>2. /\ lb(b[i]) <= l /\ v <= ub(b[i]) /\ (\A x \in Int : l <= x /\ x <= v => x \in V)
          /\ \A x \in V : contains(b[i], x) => l <= x /\ x <= v
      BY <1>1, <2>1, <2>3 DEF l, h
    <3>3. Updates(b, i, V, With(b, i, <<l, v>>))
      BY <1>1, <2>1, <3>2, ReplacedInterval
    <3> QED BY <3>1, <3>3 DEF V
  <2> QED BY <2>2, <2>3
<1> QED BY <1>2, <1>3, <1>4

(* The values a bound allows, strict ones moved to the next number.        *)
Allowed(i, op, v) ==
  CASE op = "="  -> {v}
    [] op = ">=" -> {x \in Int : v <= x}
    [] op = ">"  -> {x \in Int : (v + IF i \in IntDim THEN Unit ELSE 1) <= x}
    [] op = "<=" -> {x \in Int : x <= v}
    [] op = "<"  -> {x \in Int : x <= IF i \in IntDim THEN v - Unit ELSE IF v > 0 THEN v - 1 ELSE v + 1}

(* The variable and the constant of a bound.                               *)
IsBound(f, i) ==
  /\ i \in Dim /\ Relation(f).coef = [j \in Dim |-> IF i = j THEN 1 ELSE 0]
  /\ VarsOf(f) = {i} /\ i = CHOOSE j \in Dim : Relation(f).coef[j] # 0
  /\ Relation(f) \in Relations /\ Relation(f).ycoef = 0 /\ f.body = {Relation(f)}
  /\ Relation(f).op \in {"=", "<=", "<", ">=", ">"}

LEMMA FilteredIsBound ==
  ASSUME NEW f, IsConstraint(f), is_simple_relational(f), ~is_neq(f)
  PROVE  \E i \in Dim : IsBound(f, i)
<1> DEFINE r == Relation(f)
<1>1. ~f.forall /\ r \in f.body /\ f.body = {r} /\ r.ycoef = 0 /\ r \in Relations
  BY VarsOfRelation DEF is_simple_relational
<1>2. PICK i \in Dim : r.coef = [j \in Dim |-> IF i = j THEN 1 ELSE 0]
  BY DEF is_simple_relational
<1> HIDE DEF r
<1>3. \A j \in Dim : r.coef[j] # 0 <=> j = i
  BY <1>2
<1>4. VarsOf(f) = {i}
  BY <1>1, <1>3 DEF VarsOf
<1>5. i = CHOOSE j \in Dim : r.coef[j] # 0
  BY <1>3
<1>6. r.op \in {"=", "<=", "<", ">=", ">"}
  BY <1>1, RelationParts DEF is_neq, r, Relations
<1>7. IsBound(f, i)
  BY <1>1, <1>2, <1>4, <1>5, <1>6 DEF IsBound, r
<1> QED BY <1>7

LEMMA FilterUpdates ==
  ASSUME NEW f, NEW i, IsBound(f, i), NEW b, IsBox(b)
  PROVE  Updates(b, i, Allowed(i, Relation(f).op, Relation(f).rhs), FilterAssertion(f, b))
<1> DEFINE r == Relation(f)
           v == r.rhs
           c == CHOOSE j \in Dim : r.coef[j] # 0
<1>1. i \in Dim /\ v \in Int /\ i = c /\ Unit \in Int
      /\ r.op \in {"=", "<=", "<", ">=", ">"}
  BY ContractorStatusAssumption DEF IsBound, Relations
<1> HIDE DEF c
<1>2. FilterAssertion(f, b) =
        CASE r.op = "="  -> UpdateBoundsViaEquality(b, i, v)
          [] r.op = ">=" -> UpdateLowerBound(b, i, v)
          [] r.op = ">"  -> UpdateStrictLowerBound(b, i, v)
          [] r.op = "<=" -> UpdateUpperBound(b, i, v)
          [] r.op = "<"  -> UpdateStrictUpperBound(b, i, v)
  BY <1>1 DEF FilterAssertion, c
<1> HIDE DEF v
<1> DEFINE op == r.op
           new == FilterAssertion(f, b)
<1>3. CASE op = "="
  BY <1>1, <1>2, <1>3, BoundsUpdate DEF Allowed, v
<1>4. CASE op = ">="
  <2>1. new = UpdateLowerBound(b, i, v) /\ Allowed(i, op, v) = {x \in Int : v <= x}
    BY <1>2, <1>4 DEF Allowed
  <2> HIDE DEF op, new, r
  <2>2. Updates(b, i, Allowed(i, op, v), new)
    BY <1>1, <2>1, BoundsUpdate
  <2> QED BY <2>2 DEF op, new, r, v
<1>5. CASE op = ">"
  <2> DEFINE w == v + IF i \in IntDim THEN Unit ELSE 1
  <2>1. new = UpdateLowerBound(b, i, w) /\ Allowed(i, op, v) = {x \in Int : w <= x}
    BY <1>2, <1>5 DEF Allowed, UpdateStrictLowerBound
  <2>2. w \in Int
    BY <1>1
  <2> HIDE DEF op, new, r, w
  <2>3. Updates(b, i, Allowed(i, op, v), new)
    BY <1>1, <2>1, <2>2, BoundsUpdate
  <2> QED BY <2>3 DEF op, new, r, v
<1>6. CASE op = "<="
  <2>1. new = UpdateUpperBound(b, i, v) /\ Allowed(i, op, v) = {x \in Int : x <= v}
    BY <1>2, <1>6 DEF Allowed
  <2> HIDE DEF op, new, r
  <2>2. Updates(b, i, Allowed(i, op, v), new)
    BY <1>1, <2>1, BoundsUpdate
  <2> QED BY <2>2 DEF op, new, r, v
<1>7. CASE op = "<"
  <2> DEFINE w == IF i \in IntDim THEN v - Unit ELSE IF v > 0 THEN v - 1 ELSE v + 1
  <2>1. new = UpdateUpperBound(b, i, w) /\ Allowed(i, op, v) = {x \in Int : x <= w}
    BY <1>2, <1>7 DEF Allowed, UpdateStrictUpperBound
  <2>2. w \in Int
    BY <1>1
  <2> HIDE DEF op, new, r, w
  <2>3. Updates(b, i, Allowed(i, op, v), new)
    BY <1>1, <2>1, <2>2, BoundsUpdate
  <2> QED BY <2>3 DEF op, new, r, v
<1> QED BY <1>1, <1>3, <1>4, <1>5, <1>6, <1>7

(* What satisfies a bound is allowed, and what is allowed satisfies it up  *)
(* to 1.                                                                   *)
LEMMA MultipleApart ==
  ASSUME NEW u \in Nat \ {0}, NEW q \in Int, NEW b \in Int, q % u = 0, b % u = 0, b < q
  PROVE  b + u <= q
<1>1. (b \div u) * u + u <= q
  BY Multiples
<1>2. b <= (b \div u) * u
  BY Multiples
<1>3. (b \div u) * u \in Int
  BY Quotients
<1> QED BY <1>1, <1>2, <1>3

LEMMA SatisfyingIsAllowed ==
  ASSUME NEW f, IsConstraint(f), NEW i, IsBound(f, i), IntegerBound(f), NEW p \in IntPoints, Satisfies(p, f),
         is_simple_relational(f)
  PROVE  p[i] \in Allowed(i, Relation(f).op, Relation(f).rhs)
<1> DEFINE r == Relation(f)
           v == r.rhs
           x == p[i]
           op == r.op
<1>1. /\ r \in Relations /\ r.ycoef = 0 /\ f.body = {r} /\ p \in [Dim -> Int] /\ i \in Dim
      /\ r.coef = [j \in Dim |-> IF i = j THEN 1 ELSE 0] /\ VarsOf(f) = {i}
      /\ op \in {"=", "<=", "<", ">=", ">"}
  BY DEF IsBound, IntPoints
<1>2. x \in Int /\ v \in Int /\ Unit \in Nat \ {0}
  BY <1>1, ContractorStatusAssumption DEF Relations
<1>3. Compare(x - v, op)
  <2>1. PICK y \in YDomain : y \in Int
    BY ContractorStatusAssumption
  <2>2. Compare(At(r, y, p), op)
    BY <1>1 DEF Satisfies
  <2>3. At(r, y, p) = At(r, 0, p)
    BY <1>1, <2>1, AtAnyY
  <2>4. At(r, 0, p) = x - v
    BY <1>1, UnitAt
  <2> HIDE DEF r, x, v, op
  <2> QED BY <2>2, <2>3, <2>4
<1>4. i \in IntDim => x % Unit = 0 /\ (op \in {"<", ">"} => v % Unit = 0)
  BY <1>1 DEF IntPoints, IntegerBound
<1> HIDE DEF r, x, v, op
<1>5. /\ op = "="           => x - v = 0
      /\ op = "<"           => x - v < 0
      /\ op = ">"           => x - v > 0
      /\ op \in {"<=", "<"} => x - v <= 0
      /\ op \in {">=", ">"} => x - v >= 0
  <2>1. x - v \in Int /\ op \in Operators
    BY <1>1, <1>2 DEF Operators
  <2> QED BY <1>3, <2>1, CompareIs
<1>6. /\ i \in IntDim /\ op = ">" => v + Unit <= x
      /\ i \in IntDim /\ op = "<" => x + Unit <= v
  <2>1. ASSUME i \in IntDim, op = ">"  PROVE v + Unit <= x
    <3>1. x % Unit = 0 /\ v % Unit = 0
      BY <1>4, <2>1
    <3>2. v < x
      BY <1>2, <1>5, <2>1
    <3> QED BY <1>2, <3>1, <3>2, MultipleApart
  <2>2. ASSUME i \in IntDim, op = "<"  PROVE x + Unit <= v
    <3>1. x % Unit = 0 /\ v % Unit = 0
      BY <1>4, <2>2
    <3>2. x < v
      BY <1>2, <1>5, <2>2
    <3> QED BY <1>2, <3>1, <3>2, MultipleApart
  <2> QED BY <2>1, <2>2
<1>7. x \in Allowed(i, op, v)
  <2>1. CASE op = "="
    BY <1>2, <1>5, <2>1 DEF Allowed
  <2>2. CASE op = ">="
    BY <1>2, <1>5, <2>2 DEF Allowed
  <2>3. CASE op = ">"
    BY <1>2, <1>5, <1>6, <2>3 DEF Allowed
  <2>4. CASE op = "<="
    BY <1>2, <1>5, <2>4 DEF Allowed
  <2>5. CASE op = "<"
    BY <1>2, <1>5, <1>6, <2>5 DEF Allowed
  <2> QED BY <1>1, <2>1, <2>2, <2>3, <2>4, <2>5
<1> QED BY <1>7 DEF x, op, v, r

(* A value that the operator puts on this side of 0, up to s.  Once a      *)
(* bound went into a box, its points satisfy the bound up to 1.            *)
Nearly(op, v, s) ==
  /\ op = "=" => -s <= v /\ v <= s
  /\ op \in {"<=", "<"} => v <= s
  /\ op \in {">=", ">"} => -s <= v

Bounded(box, f) ==
  box # Empty => \A p \in [Dim -> Int] : Covers(box, p) => Nearly(Relation(f).op, At(Relation(f), 0, p), 1)

LEMMA AllowedIsNear ==
  ASSUME NEW i, NEW op \in {"=", "<=", "<", ">=", ">"}, NEW v \in Int, NEW x \in Int,
         x \in Allowed(i, op, v)
  PROVE  Nearly(op, x - v, 1)
<1>0. Unit \in Nat \ {0}
  BY ContractorStatusAssumption
<1>1. CASE op = "="
  BY <1>1 DEF Allowed, Nearly
<1>2. CASE op = ">="
  BY <1>2 DEF Allowed, Nearly
<1>3. CASE op = ">"
  BY <1>0, <1>3 DEF Allowed, Nearly
<1>4. CASE op = "<="
  BY <1>4 DEF Allowed, Nearly
<1>5. CASE op = "<"
  <2>1. x <= v + 1
    BY <1>0, <1>5 DEF Allowed
  <2> QED BY <1>5, <2>1 DEF Nearly
<1> QED BY <1>1, <1>2, <1>3, <1>4, <1>5

LEMMA UpdatesBound ==
  ASSUME NEW f, NEW i, IsBound(f, i), NEW b, NEW new,
         Updates(b, i, Allowed(i, Relation(f).op, Relation(f).rhs), new)
  PROVE  Bounded(new, f)
<1> DEFINE r == Relation(f)
<1>1. /\ i \in Dim /\ r \in Relations /\ r.op \in {"=", "<=", "<", ">=", ">"} /\ r.rhs \in Int
      /\ r.coef = [j \in Dim |-> IF i = j THEN 1 ELSE 0]
  BY DEF IsBound, Relations
<1>2. ASSUME new # Empty, NEW p \in [Dim -> Int], Covers(new, p)
      PROVE  Nearly(r.op, At(r, 0, p), 1)
  <2>1. p[i] \in Int /\ contains(new[i], p[i])
    BY <1>1, <1>2 DEF Covers, CoversOn
  <2>2. p[i] \in Allowed(i, r.op, r.rhs)
    BY <1>2, <2>1 DEF Updates
  <2>3. At(r, 0, p) = p[i] - r.rhs
    BY <1>1, UnitAt
  <2>4. r.op \in {"=", "<=", "<", ">=", ">"} /\ r.rhs \in Int
    BY <1>1
  <2> HIDE DEF r
  <2>5. Nearly(r.op, p[i] - r.rhs, 1)
    BY <2>1, <2>2, <2>4, AllowedIsNear
  <2> QED BY <2>3, <2>5
<1> QED BY <1>2 DEF Bounded

LEMMA FilterDue ==
  ASSUME NEW f, IsConstraint(f), IntegerBound(f), IsFiltered(f), NEW b, IsBox(b)
  PROVE  Due(b, FilterAssertion(f, b), {f}) /\ Bounded(FilterAssertion(f, b), f)
<1> DEFINE new == FilterAssertion(f, b)
           V(i) == Allowed(i, Relation(f).op, Relation(f).rhs)
<1>0. is_simple_relational(f) /\ ~is_neq(f)
  BY DEF IsFiltered
<1>1. PICK i \in Dim : IsBound(f, i)
  BY <1>0, FilteredIsBound
<1>2. VarsOf(f) = {i}
  BY <1>1 DEF IsBound
<1>3. Updates(b, i, V(i), new)
  BY <1>1, FilterUpdates
<1>4. Bounded(new, f)
  BY <1>1, <1>3, UpdatesBound
<1>5. \A p \in IntPoints : Satisfies(p, f) => p[i] \in V(i)
  BY <1>0, <1>1, SatisfyingIsAllowed
<1> HIDE DEF new, V
<1>6. ASSUME NEW D \in SUBSET Dim, NEW p \in IntPoints, CoversOn(D, b, p), Obeys(D, p, {f}),
             new = Empty => VarsOf(f) \subseteq D
      PROVE  CoversOn(D, new, p)
  <2>1. CASE i \notin D
    <3>1. new # Empty /\ \A j \in D : new[j] = b[j]
      BY <1>2, <1>3, <1>6, <2>1 DEF Updates
    <3> QED BY <1>6, <3>1 DEF CoversOn
  <2>2. CASE i \in D
    <3>1. Satisfies(p, f)
      BY <1>2, <1>6, <2>2 DEF Obeys
    <3>2. contains(b[i], p[i])
      BY <1>6, <2>2 DEF CoversOn
    <3>3. new # Empty /\ contains(new[i], p[i])
      BY <1>3, <1>5, <3>1, <3>2 DEF Updates
    <3>4. \A j \in D \ {i} : new[j] = b[j]
      BY <1>3, <3>3 DEF Updates
    <3> QED BY <1>6, <3>3, <3>4 DEF CoversOn
  <2> QED BY <2>1, <2>2
<1>7. Due(b, new, {f})
  BY <1>3, <1>6 DEF Due, Updates
<1> QED BY <1>4, <1>7 DEF new

LEMMA WithinCovers ==
  ASSUME NEW b1, IsBox(b1), NEW b2, IsBox(b2), Within(b1, b2), NEW p \in [Dim -> Int], Covers(b1, p)
  PROVE  Covers(b2, p)
<1>1. b1 # Empty /\ b2 # Empty
  BY BoxIsNotEmpty
<1>2. ASSUME NEW i \in Dim
      PROVE  contains(b2[i], p[i])
  <2>1. lb(b2[i]) <= lb(b1[i]) /\ ub(b1[i]) <= ub(b2[i]) /\ contains(b1[i], p[i])
    BY <1>1 DEF Within, Covers, CoversOn
  <2>2. p[i] \in Int /\ lb(b1[i]) \in Int /\ lb(b2[i]) \in Int /\ ub(b1[i]) \in Int /\ ub(b2[i]) \in Int
    BY DEF IsBox, lb, ub
  <2> QED BY <2>1, <2>2 DEF contains
<1> QED BY <1>1, <1>2 DEF Covers, CoversOn

LEMMA BoundedPart ==
  ASSUME NEW f, NEW b1, b1 = Empty \/ IsBox(b1), NEW b2, IsBox(b2), Within(b1, b2), Bounded(b2, f)
  PROVE  Bounded(b1, f)
BY WithinCovers, BoxIsNotEmpty DEF Bounded

-----------------------------------------------------------------------------
(* The bounds of a problem, one after the other.                           *)
LEMMA FilterStep ==
  ASSUME NEW fs, NEW f \in fs, IsConstraint(f), IntegerBound(f), IsFiltered(f),
         NEW st \in StatusesOf(fs), st.box # Empty
  PROVE  LET new == AddUsedConstraint([st EXCEPT !.box = FilterAssertion(f, st.box)], f)
         IN  new \in Follows(fs, st) /\ Bounded(new.box, f)
<1> DEFINE box == FilterAssertion(f, st.box)
           mid == [st EXCEPT !.box = box]
           new == AddUsedConstraints(mid, {f})
<1>1. IsBox(st.box)
  BY StatusIs
<1>2. Due(st.box, box, {f}) /\ Bounded(box, f)
  BY <1>1, FilterDue
<1>3. mid \in StatusesOf(fs) /\ mid.box = box /\ mid.used = st.used /\ mid.witness = st.witness
  <2> DEFINE ob == st.box
             o == st.output
             u == st.used
             w == st.witness
  <2>1. st = [box |-> ob, output |-> o, used |-> u, witness |-> w]
        /\ o \subseteq Dim /\ u \subseteq fs /\ w \subseteq Dim
    BY StatusIs
  <2>2. box \in Boxes \cup {Empty}
    BY <1>2 DEF Due, Boxes, IsBox
  <2>3. mid = [st EXCEPT !.box = box]
    OBVIOUS
  <2> HIDE DEF ob, o, u, w, box, mid
  <2>4. mid = [box |-> box, output |-> o, used |-> u, witness |-> w]
    BY <2>1, <2>3
  <2>5. mid \in StatusesOf(fs) /\ mid.box = box /\ mid.used = u /\ mid.witness = w
    BY <2>1, <2>2, <2>4 DEF StatusesOf
  <2> QED BY <2>5 DEF u, w
<1> HIDE DEF mid, box
<1>4. Due(st.box, mid.box, {f})
  BY <1>2, <1>3
<1>5. new \in Follows(fs, st)
  BY <1>3, <1>4, UsedFollows
<1>6. IsUsing(fs, mid, {f}, new)
  <2> DEFINE gs == {f}
  <2>1. gs \in SUBSET fs
    OBVIOUS
  <2> HIDE DEF gs
  <2>2. IsUsing(fs, mid, gs, AddUsedConstraints(mid, gs))
    BY <1>3, <2>1, UsedConstraints, Zenon
  <2> QED BY <2>2 DEF gs
<1> HIDE DEF new
<1>7. new.box = box
  BY <1>3, <1>6 DEF IsUsing
<1>8. new \in Follows(fs, st) /\ Bounded(new.box, f)
  BY <1>2, <1>5, <1>7
<1> QED BY <1>8 DEF new, mid, box, AddUsedConstraint

BoundsHold(problem, st) ==
  \A f \in ToSet(problem.assertions) : IsFiltered(f) => Bounded(st.box, f)

(* The same of the bounds that BuildContractor puts into the box: they     *)
(* hold in what is left of it, where nobody evaluates them later.          *)
THEOREM InitialFollows ==
  ASSUME NEW problem, IsProblem(problem)
  PROVE  /\ InitialStatus(problem) \in Follows(ToSet(problem.assertions), NewStatus(problem.box))
         /\ BoundsHold(problem, InitialStatus(problem))
<1> DEFINE fs == ToSet(problem.assertions)
           sq == problem.assertions
           st == NewStatus(problem.box)
           A == DOMAIN problem.assertions
           ch == [s \in (SUBSET A) \ {{}} |-> Max(s)]
           P == Follows(fs, st)
           Next(k, s) ==
             IF s.box = Empty \/ ~IsFiltered(sq[k]) \/ FilterAssertion(sq[k], s.box) = s.box THEN s
             ELSE AddUsedConstraint([s EXCEPT !.box = FilterAssertion(sq[k], @)], sq[k])
           g == [k \in A |-> [s \in P |-> Next(k, s)]]
           IsFold(h) == h = [s \in SUBSET A |-> IF s = {} THEN st ELSE Next(Max(s), h[s \ {Max(s)}])]
<1>0. /\ IsFiniteSet(A) /\ A \subseteq Int /\ \A k \in A : sq[k] \in fs
      /\ \A f \in fs : IsConstraint(f) /\ IntegerBound(f)
      /\ \A f \in fs : \E k \in A : f = sq[k]
  BY AssertionsAre DEF IsProblem, ToSet
<1>1. ch \in Chooser(A)
  BY <1>0, MaxChooser
<1>3. st \in P /\ st \in StatusesOf(fs) /\ IsBox(st.box) /\ st.box # Empty
  <2>1. IsBox(problem.box) /\ problem.box \in Boxes
    BY DEF IsProblem, Boxes, IsBox
  <2>2. st \in StatusesOf(fs) /\ st.box = problem.box
    BY <2>1 DEF NewStatus, StatusesOf
  <2> HIDE DEF st, fs
  <2>3. st \in P
    BY <2>2, FollowsItself
  <2> QED BY <2>1, <2>2, <2>3, BoxIsNotEmpty
<1>2. ASSUME NEW k \in A, NEW s \in P
      PROVE  /\ Next(k, s) \in P
             /\ Next(k, s).box = Empty \/ IsBox(Next(k, s).box)
             /\ s.box = Empty => Next(k, s).box = Empty
             /\ s.box # Empty => Within(Next(k, s).box, s.box)
             /\ IsFiltered(sq[k]) => Bounded(Next(k, s).box, sq[k])
  <2>1. s \in StatusesOf(fs) /\ (s.box = Empty \/ IsBox(s.box))
    <3>1. s \in StatusesOf(fs)
      BY DEF Follows
    <3> QED BY <3>1, StatusIs
  <2>2. sq[k] \in fs /\ IsConstraint(sq[k]) /\ IntegerBound(sq[k])
    BY <1>0
  <2>3. CASE s.box = Empty \/ ~IsFiltered(sq[k]) \/ FilterAssertion(sq[k], s.box) = s.box
    <3>1. Next(k, s) = s
      BY <2>3
    <3>2. IsFiltered(sq[k]) => Bounded(s.box, sq[k])
      <4>1. CASE s.box = Empty
        BY <4>1 DEF Bounded
      <4>2. CASE s.box # Empty
        BY <2>1, <2>2, <2>3, <4>2, FilterDue
      <4> QED BY <4>1, <4>2
    <3> HIDE DEF Next, fs, P
    <3> QED BY <2>1, <3>1, <3>2, WithinItself
  <2>4. CASE ~(s.box = Empty \/ ~IsFiltered(sq[k]) \/ FilterAssertion(sq[k], s.box) = s.box)
    <3> DEFINE new == AddUsedConstraint([s EXCEPT !.box = FilterAssertion(sq[k], s.box)], sq[k])
    <3>1. Next(k, s) = new
      BY <2>4
    <3>2. new \in Follows(fs, s) /\ Bounded(new.box, sq[k])
      BY <2>1, <2>2, <2>4, FilterStep
    <3> HIDE DEF new, Next
    <3>3. new \in P
      BY <1>3, <2>4, <3>2, FollowsStep
    <3>4. Within(new.box, s.box) /\ new \in StatusesOf(fs)
      BY <3>2 DEF Follows
    <3>5. new.box = Empty \/ IsBox(new.box)
      BY <3>4, StatusIs
    <3> QED BY <2>4, <3>1, <3>2, <3>3, <3>4, <3>5
  <2> QED BY <2>3, <2>4
<1> HIDE DEF Next, P, st
<1>4. g \in [A -> [P -> P]]
  BY <1>2
<1>5. \A s \in (SUBSET A) \ {{}} :
        /\ ch[s] = Max(s) /\ ch[s] \in s /\ ch[s] \in A /\ s \ {ch[s]} \in SUBSET A
  BY <1>1 DEF Chooser
<1> HIDE DEF A
<1>7. PICK fold : Folds(fold, A, ch, P, st, g)
  <2> HIDE DEF ch, g
  <2> QED BY <1>0, <1>1, <1>3, <1>4, SubsetRecursion
<1>8. IsFold(fold)
  <2>1. fold \in [SUBSET A -> P]
    BY <1>7 DEF Folds
  <2>2. ASSUME NEW s \in SUBSET A, s # {}
        PROVE  fold[s] = Next(Max(s), fold[s \ {Max(s)}])
    <3>1. fold[s] = g[ch[s]][fold[s \ {ch[s]}]]
      BY <1>7, <2>2 DEF Folds
    <3>2. ch[s] \in A /\ fold[s \ {ch[s]}] \in P
      BY <1>5, <2>1, <2>2
    <3>3. fold[s] = Next(ch[s], fold[s \ {ch[s]}])
      BY <3>1, <3>2
    <3> QED BY <1>5, <2>2, <3>3
  <2>3. fold[{}] = st
    BY <1>7 DEF Folds
  <2> HIDE DEF ch, g
  <2> QED BY <2>1, <2>2, <2>3
<1> DEFINE h == CHOOSE j : IsFold(j)
<1>9. IsFold(h)
  <2> HIDE DEF IsFold
  <2> QED BY <1>8
<1>10. InitialStatus(problem) = h[A]
  BY DEF InitialStatus, FoldLeft, MapThenFoldSet, Next, A, st
<1> HIDE DEF h
<1> DEFINE Holds(s) == /\ h[s] \in P /\ (h[s].box = Empty \/ IsBox(h[s].box))
                       /\ \A k \in s : IsFiltered(sq[k]) => Bounded(h[s].box, sq[k])
           Q == {s \in SUBSET A : Holds(s)}
<1>11. {} \in Q
  BY <1>3, <1>9
<1>12. ASSUME NEW s \in (SUBSET A) \ {{}}, s \ {ch[s]} \in Q
       PROVE  s \in Q
  <2> DEFINE m == ch[s]
             t == s \ {m}
             before == h[t]
             after == h[s]
  <2>1. after = Next(m, before) /\ m \in A /\ m \in s
    BY <1>5, <1>9
  <2>2. Holds(t)
    BY <1>12
  <2> HIDE DEF ch, m
  <2>3. before \in P
    BY <2>2
  <2>4. /\ after \in P /\ (after.box = Empty \/ IsBox(after.box))
        /\ before.box = Empty => after.box = Empty
        /\ before.box # Empty => Within(after.box, before.box)
        /\ IsFiltered(sq[m]) => Bounded(after.box, sq[m])
    <3> HIDE DEF before, after
    <3> QED BY <1>2, <2>1, <2>3
  <2>5. ASSUME NEW k \in s, IsFiltered(sq[k])
        PROVE  Bounded(after.box, sq[k])
    <3>1. CASE k = m
      BY <2>4, <2>5, <3>1
    <3>2. CASE k # m
      <4>1. Bounded(before.box, sq[k]) /\ (before.box = Empty \/ IsBox(before.box))
        BY <2>2, <2>5, <3>2
      <4>2. CASE after.box = Empty
        BY <4>2 DEF Bounded
      <4>3. CASE after.box # Empty
        <5> HIDE DEF before, after
        <5> QED BY <2>4, <4>1, <4>3, BoundedPart
      <4> QED BY <4>2, <4>3
    <3> QED BY <3>1, <3>2
  <2>6. Holds(s)
    BY <2>4, <2>5
  <2> QED BY <2>6
<1> HIDE DEF Q, ch
<1>13. \A s \in SUBSET A : s \in Q
  <2>1. IsFiniteSet(A)
    BY <1>0
  <2>2. \A s \in (SUBSET A) \ {{}} : s \ {ch[s]} \in Q => s \in Q
    BY <1>12
  <2> QED BY <1>1, <1>11, <2>1, <2>2, SubsetInduction
<1>14. Holds(A)
  BY <1>13 DEF Q
<1>15. BoundsHold(problem, InitialStatus(problem))
  BY <1>0, <1>10, <1>14 DEF BoundsHold
<1> QED BY <1>10, <1>14, <1>15 DEF P, st
-----------------------------------------------------------------------------
(* Evaluation.  A box that a constraint refutes has no point that          *)
(* satisfies it; otherwise its points do up to the width of the value.     *)
LEMMA ExactlyOne ==
  ASSUME NEW valid \in BOOLEAN, NEW unsat \in BOOLEAN, ~(valid /\ unsat), NEW a, NEW b, NEW c, NEW e,
         e = CASE valid -> a [] unsat -> b [] OTHER -> c
  PROVE  (valid /\ e = a) \/ (unsat /\ e = b) \/ (~valid /\ ~unsat /\ e = c)
<1>1. CASE valid
  BY <1>1
<1>2. CASE unsat
  BY <1>2
<1>3. CASE ~valid /\ ~unsat
  BY <1>3
<1> QED BY <1>1, <1>2, <1>3

(* The width, of a value that is neither.                                  *)
IsEvaluation(e, op, v, w) ==
  \/ e.type = "VALID" /\ (op # "!=" => Nearly(op, v, 0))
  \/ e.type = "UNSAT" /\ ~Compare(v, op)
  \/ e.type = "UNKNOWN" /\ e.diam = w /\ (op # "!=" => Nearly(op, v, w))

LEMMA EvaluationIs ==
  ASSUME NEW r \in Relations, NEW box, IsBox(box), NEW v \in Int, contains(Value(r, 0, box), v)
  PROVE  IsEvaluation(EvaluateRelation(r, 0, box), r.op, v, diam(Value(r, 0, box)))
<1> DEFINE iv == Value(r, 0, box)
           l == lb(iv)
           h == ub(iv)
           op == r.op
           unsat == CASE op = "="  -> ~contains(iv, 0)
                      [] op = "!=" -> iv = <<0, 0>>
                      [] op = ">"  -> h <= 0
                      [] op = ">=" -> h < 0
                      [] op = "<"  -> l >= 0
                      [] op = "<=" -> l > 0
           valid == CASE op = "="  -> iv = <<0, 0>>
                      [] op = "!=" -> ~contains(iv, 0)
                      [] op = ">"  -> l > 0
                      [] op = ">=" -> l >= 0
                      [] op = "<"  -> h < 0
                      [] op = "<=" -> h <= 0
           a == [type |-> "VALID", diam |-> diam(iv)]
           b == [type |-> "UNSAT", diam |-> Higher(h, -l)]
           c == [type |-> "UNKNOWN", diam |-> diam(iv)]
           e == EvaluateRelation(r, 0, box)
<1>1. e = CASE valid -> a [] unsat -> b [] OTHER -> c
  BY DEF EvaluateRelation
<1>2. /\ a.type = "VALID" /\ b.type = "UNSAT" /\ c.type = "UNKNOWN" /\ c.diam = diam(iv)
  OBVIOUS
<1>3. iv \in Int \X Int /\ op \in Operators
  BY ValueType, RelationParts DEF Value, Operators
<1>4. l \in Int /\ h \in Int /\ diam(iv) = h - l /\ l <= v /\ v <= h
      /\ (contains(iv, 0) <=> l <= 0 /\ 0 <= h) /\ (iv = <<0, 0>> <=> l = 0 /\ h = 0)
  <2> HIDE DEF iv
  <2>1. iv = <<iv[1], iv[2]>>
    BY <1>3
  <2> QED BY <1>3, <2>1 DEF lb, ub, contains, diam, iv
<1>5. IsEvaluation(e, op, v, diam(iv)) <=>
        \/ e.type = "VALID" /\ (op # "!=" => Nearly(op, v, 0))
        \/ e.type = "UNSAT" /\ ~Compare(v, op)
        \/ e.type = "UNKNOWN" /\ e.diam = diam(iv) /\ (op # "!=" => Nearly(op, v, diam(iv)))
  BY DEF IsEvaluation
<1> DEFINE w == diam(iv)
<1>6. ASSUME valid  PROVE ~unsat /\ (op # "!=" => Nearly(op, v, 0))
  <2> HIDE DEF iv, l, h, op
  <2>1. CASE op = "="
    BY <1>4, <1>6, <2>1 DEF Nearly
  <2>2. CASE op = "!="
    BY <1>4, <1>6, <2>2 DEF Nearly
  <2>3. CASE op = ">"
    BY <1>4, <1>6, <2>3 DEF Nearly
  <2>4. CASE op = ">="
    BY <1>4, <1>6, <2>4 DEF Nearly
  <2>5. CASE op = "<"
    BY <1>4, <1>6, <2>5 DEF Nearly
  <2>6. CASE op = "<="
    BY <1>4, <1>6, <2>6 DEF Nearly
  <2> QED BY <1>3, <2>1, <2>2, <2>3, <2>4, <2>5, <2>6 DEF Operators
<1>7. ASSUME unsat  PROVE ~Compare(v, op)
  <2> HIDE DEF iv, l, h, op
  <2>1. CASE op = "="
    BY <1>4, <1>7, <2>1 DEF Compare
  <2>2. CASE op = "!="
    BY <1>4, <1>7, <2>2 DEF Compare
  <2>3. CASE op = ">"
    BY <1>4, <1>7, <2>3 DEF Compare
  <2>4. CASE op = ">="
    BY <1>4, <1>7, <2>4 DEF Compare
  <2>5. CASE op = "<"
    BY <1>4, <1>7, <2>5 DEF Compare
  <2>6. CASE op = "<="
    BY <1>4, <1>7, <2>6 DEF Compare
  <2> QED BY <1>3, <2>1, <2>2, <2>3, <2>4, <2>5, <2>6 DEF Operators
<1>8. ASSUME ~unsat  PROVE op # "!=" => Nearly(op, v, w)
  <2> HIDE DEF iv, l, h, op
  <2>1. CASE op = "="
    BY <1>4, <1>8, <2>1 DEF Nearly
  <2>2. CASE op = "!="
    BY <2>2
  <2>3. CASE op = ">"
    BY <1>4, <1>8, <2>3 DEF Nearly
  <2>4. CASE op = ">="
    BY <1>4, <1>8, <2>4 DEF Nearly
  <2>5. CASE op = "<"
    BY <1>4, <1>8, <2>5 DEF Nearly
  <2>6. CASE op = "<="
    BY <1>4, <1>8, <2>6 DEF Nearly
  <2> QED BY <1>3, <2>1, <2>2, <2>3, <2>4, <2>5, <2>6 DEF Operators
<1>9. valid \in BOOLEAN /\ unsat \in BOOLEAN
  <2> HIDE DEF iv, l, h, op
  <2>1. CASE op = "="
    BY <1>4, <2>1 DEF contains
  <2>2. CASE op = "!="
    BY <1>4, <2>2 DEF contains
  <2>3. CASE op = ">"
    BY <1>4, <2>3 DEF contains
  <2>4. CASE op = ">="
    BY <1>4, <2>4 DEF contains
  <2>5. CASE op = "<"
    BY <1>4, <2>5 DEF contains
  <2>6. CASE op = "<="
    BY <1>4, <2>6 DEF contains
  <2> QED BY <1>3, <2>1, <2>2, <2>3, <2>4, <2>5, <2>6 DEF Operators
<1> HIDE DEF valid, unsat, a, b, c, e, w, op, iv
<1>10. (valid /\ e = a) \/ (unsat /\ e = b) \/ (~valid /\ ~unsat /\ e = c)
  BY <1>1, <1>6, <1>9, ExactlyOne
<1>11. IsEvaluation(e, op, v, diam(iv))
  BY <1>2, <1>5, <1>6, <1>7, <1>8, <1>10 DEF w
<1> QED BY <1>11 DEF e, op, iv

(* The interval value over a box, of a constraint without quantifier.      *)
LEMMA RefutedHasNone ==
  ASSUME NEW f, IsConstraint(f), NEW box, IsBox(box), Evaluate(f, box).type = "UNSAT",
         NEW D \in SUBSET Dim, VarsOf(f) \subseteq D, NEW p \in IntPoints, CoversOn(D, box, p)
  PROVE  ~Satisfies(p, f)
<1> DEFINE r == Relation(f)
           v == At(r, 0, p)
<1>1. ~f.forall
  <2>1. f.forall => Evaluate(f, box).type \in {"VALID", "UNKNOWN"}
    BY DEF Evaluate, EvaluateForall
  <2> QED BY <2>1
<1>2. r \in Relations /\ f.body = {r} /\ r.ycoef = 0 /\ p \in [Dim -> Int]
  BY <1>1, VarsOfRelation DEF IntPoints
<1>3. \A j \in Dim : r.coef[j] # 0 => contains(box[j], p[j])
  BY <1>2, VarsOfRelation DEF CoversOn
<1>4. contains(Value(r, 0, box), v) /\ v \in Int
  BY <1>2, <1>3, ValueOfPoint, AtType
<1>5. IsEvaluation(EvaluateRelation(r, 0, box), r.op, v, diam(Value(r, 0, box)))
  <2> HIDE DEF v, r
  <2> QED BY <1>2, <1>4, EvaluationIs
<1>6. EvaluateRelation(r, 0, box).type = "UNSAT"
  BY <1>1 DEF Evaluate
<1>7. ~Compare(v, r.op)
  BY <1>5, <1>6 DEF IsEvaluation
<1>8. PICK y \in YDomain : y \in Int
  BY ContractorStatusAssumption
<1>9. At(r, y, p) = v
  BY <1>2, <1>8, AtAnyY
<1> HIDE DEF v, r
<1> QED BY <1>2, <1>7, <1>9 DEF Satisfies

LEMMA RefutersAre ==
  ASSUME NEW problem, IsProblem(problem), NEW box
  PROVE  /\ Refuters(problem, box) \subseteq ToSet(problem.assertions)
         /\ \A f \in Refuters(problem, box) : Evaluate(f, box).type = "UNSAT"
         /\ Refuters(problem, box) = {} =>
              \A f \in ToSet(problem.assertions) : Evaluate(f, box).type # "UNSAT"
<1> DEFINE sq == problem.assertions
           ks == {k \in DOMAIN sq : Evaluate(sq[k], box).type = "UNSAT"}
           first == {k \in ks : \A j \in ks : k <= j}
<1>1. Refuters(problem, box) = {sq[k] : k \in first}
  BY DEF Refuters
<1>2. ToSet(sq) = {sq[k] : k \in DOMAIN sq}
  BY DEF ToSet
<1>3. ks # {} => first # {}
  <2>1. ks \in SUBSET Nat
    BY LenProperties DEF IsProblem
  <2> HIDE DEF ks
  <2> QED BY <2>1, LeastNumber
<1>4. \A k \in first : k \in DOMAIN sq /\ Evaluate(sq[k], box).type = "UNSAT"
  OBVIOUS
<1>5. ASSUME Refuters(problem, box) = {}, NEW f \in ToSet(sq)
      PROVE  Evaluate(f, box).type # "UNSAT"
  <2>1. first = {}
    <3> HIDE DEF first
    <3> QED BY <1>1, <1>5
  <2>2. ks = {}
    BY <1>3, <2>1
  <2>3. PICK k \in DOMAIN sq : f = sq[k]
    BY <1>2, <1>5
  <2> QED BY <2>2, <2>3
<1> HIDE DEF ks, first
<1> QED BY <1>1, <1>2, <1>4, <1>5

(* The first of the widest among the variables of open up to j.            *)
Widest(box, open, j, i) ==
  /\ i \in open /\ i <= j
  /\ \A k \in open : k <= j => diam(box[k]) <= diam(box[i])
  /\ \A k \in open : k <= j => (diam(box[k]) = diam(box[i]) => i <= k)

(* There is one: look at the first j for which there is none.              *)
LEMMA WidestExists ==
  ASSUME NEW box, IsBox(box), NEW open \in SUBSET Dim, NEW n \in open
  PROVE  \E i \in open : Widest(box, open, Cardinality(Dim), i)
<1> DEFINE Bad(j) == (\E k \in open : k <= j) /\ ~\E i \in open : Widest(box, open, j, i)
           bad    == {j \in Nat : Bad(j)}
<1>1. \A i \in open : i \in Nat \ {0} /\ i <= Cardinality(Dim) /\ diam(box[i]) \in Int
  BY DimIsFinite DEF IsBox, diam, lb, ub
<1>2. Cardinality(Dim) \in Nat
  BY DimIsFinite
<1>3. ASSUME bad # {}  PROVE FALSE
  <2>1. \E j \in bad : \A k \in bad : ~(<<k, j>> \in Below)
    <3> HIDE DEF bad
    <3>1. bad \in SUBSET Nat
      BY DEF bad
    <3> QED BY <1>3, <3>1, WFMin, BelowWellFounded, Zenon
  <2>2. PICK j \in bad : \A k \in bad : ~(<<k, j>> \in Below)
    BY <2>1
  <2>3. \A k \in bad : ~(k < j)
    BY <2>2, BelowIsLess
  <2>4. j \in Nat \ {0} /\ j - 1 \in Nat /\ ~Bad(j - 1) /\ Bad(j)
    <3>1. j \in Nat /\ Bad(j)
      OBVIOUS
    <3>2. j # 0
      BY <1>1, <3>1
    <3>3. j - 1 \in Nat /\ j - 1 < j
      BY <3>1, <3>2
    <3>4. j - 1 \notin bad
      BY <2>3, <3>3
    <3> QED BY <3>1, <3>2, <3>3, <3>4
  <2>5. CASE \E i \in open : Widest(box, open, j - 1, i)
    <3>1. PICK i \in open : Widest(box, open, j - 1, i)
      BY <2>5
    <3>2. \A k \in open : k <= j <=> (k <= j - 1 \/ k = j)
      BY <1>1, <2>4
    <3>3. Widest(box, open, j, i) \/ (j \in open /\ Widest(box, open, j, j))
      BY <1>1, <2>4, <3>1, <3>2 DEF Widest
    <3> QED BY <2>4, <3>3
  <2>6. CASE ~\E k \in open : k <= j - 1
    <3>1. j \in open /\ \A k \in open : k <= j => k = j
      BY <1>1, <2>4, <2>6
    <3>2. Widest(box, open, j, j)
      BY <1>1, <2>4, <3>1 DEF Widest
    <3> QED BY <2>4, <3>1, <3>2
  <2> QED BY <2>4, <2>5, <2>6
<1>4. ~Bad(Cardinality(Dim))
  BY <1>2, <1>3
<1> QED BY <1>1, <1>4

(* The variable to split on, when there is one, is a candidate.            *)
LEMMA MaxDiamIsCandidate ==
  ASSUME NEW box, IsBox(box), NEW c \in SUBSET Dim, FindMaxDiam(box, c) # 0
  PROVE  FindMaxDiam(box, c) \in c /\ is_bisectable(box[FindMaxDiam(box, c)])
<1> DEFINE open == {i \in c : is_bisectable(box[i])}
           First(i) == /\ \A j \in open : diam(box[j]) <= diam(box[i])
                       /\ \A j \in open : diam(box[j]) = diam(box[i]) => i <= j
<1>1. open # {} /\ FindMaxDiam(box, c) = CHOOSE i \in open : First(i)
  BY DEF FindMaxDiam
<1>2. open \in SUBSET Dim
  OBVIOUS
<1>3. \E i \in open : First(i)
  <2> HIDE DEF open
  <2>1. PICK i \in open : Widest(box, open, Cardinality(Dim), i)
    BY <1>1, <1>2, WidestExists
  <2>2. \A k \in open : k <= Cardinality(Dim)
    BY <1>2, DimIsFinite
  <2> QED BY <2>1, <2>2 DEF Widest
<1>4. (CHOOSE i \in open : First(i)) \in open
  <2> HIDE DEF open, First
  <2> QED BY <1>3
<1> QED BY <1>1, <1>4

LEMMA NothingToSplit ==
  ASSUME NEW box, IsBox(box), NEW c \in SUBSET Dim, FindMaxDiam(box, c) = 0
  PROVE  \A i \in c : diam(box[i]) <= 1
<1> DEFINE open == {i \in c : is_bisectable(box[i])}
           First(i) == /\ \A j \in open : diam(box[j]) <= diam(box[i])
                       /\ \A j \in open : diam(box[j]) = diam(box[i]) => i <= j
<1>1. open = {}
  <2> SUFFICES ASSUME open # {}  PROVE FALSE
    OBVIOUS
  <2>1. FindMaxDiam(box, c) = CHOOSE i \in open : First(i)
    BY DEF FindMaxDiam
  <2>2. open \in SUBSET Dim
    OBVIOUS
  <2>3. \E i \in open : First(i)
    <3> HIDE DEF open
    <3>1. PICK i \in open : Widest(box, open, Cardinality(Dim), i)
      BY <2>2, WidestExists
    <3>2. \A k \in open : k <= Cardinality(Dim)
      BY <2>2, DimIsFinite
    <3> QED BY <3>1, <3>2 DEF Widest
  <2>4. (CHOOSE i \in open : First(i)) \in open
    <3> HIDE DEF open, First
    <3> QED BY <2>3
  <2> HIDE DEF open
  <2>5. 0 \in Dim
    BY <2>1, <2>2, <2>4
  <2> QED BY <2>5, DimIsFinite
<1>2. \A i \in c : ~is_bisectable(box[i]) /\ diam(box[i]) \in Int
  BY <1>1 DEF IsBox, diam, lb, ub
<1> QED BY <1>2 DEF is_bisectable

(* A box that nobody refutes and that cannot be split, or need not be.     *)
UnitBox == [i \in Dim |-> <<0, 1>>]

LEMMA WideIsSmall ==
  ASSUME NEW r \in Relations, NEW box, IsBox(box), \A j \in Dim : r.coef[j] # 0 => diam(box[j]) <= 1
  PROVE  diam(Value(r, 0, box)) <= diam(Value(r, 0, UnitBox))
<1>1. IsBox(UnitBox) /\ \A j \in Dim : diam(UnitBox[j]) = 1
  BY DEF IsBox, UnitBox, diam, lb, ub
<1> QED BY <1>1, ValueWidth

LEMMA NearlyMore ==
  ASSUME NEW op, NEW v \in Int, NEW s \in Int, NEW t \in Int, s <= t, Nearly(op, v, s)
  PROVE  Nearly(op, v, t)
BY DEF Nearly

(* A box within the bounds that EvaluateBox does not refute and that       *)
(* BranchLargestFirst does not split: each of its points satisfies the     *)
(* assertions up to the precision, or up to what neighbouring numbers make *)
(* of a relation.                                                          *)
THEOREM FinalIsNear ==
  ASSUME NEW problem, IsProblem(problem), NEW box, IsBox(box), BoundsHold(problem, [box |-> box]),
         Refuters(problem, box) = {}, FindMaxDiam(box, Candidates(problem, box)) = 0,
         NEW f \in ToSet(problem.assertions), ~f.forall, Relation(f).op # "!=",
         NEW p \in [Dim -> Int], Covers(box, p)
  PROVE  Nearly(Relation(f).op, At(Relation(f), 0, p),
                Higher(Precision, diam(Value(Relation(f), 0, UnitBox))))
<1> DEFINE r == Relation(f)
           v == At(r, 0, p)
           w == diam(Value(r, 0, box))
           u == diam(Value(r, 0, UnitBox))
           s == Higher(Precision, u)
           e == EvaluateRelation(r, 0, box)
<1>1. IsConstraint(f) /\ r \in Relations /\ Precision \in Nat
  BY VarsOfRelation, ContractorStatusAssumption DEF IsProblem
<1>2. v \in Int /\ w \in Int /\ u \in Int /\ 0 <= s /\ u <= s /\ Precision <= s /\ s \in Int
  <2>1. Value(r, 0, box) \in Int \X Int
    BY <1>1, ValueType DEF Value
  <2>2. IsBox(UnitBox)
    BY DEF IsBox, UnitBox
  <2>3. Value(r, 0, UnitBox) \in Int \X Int
    BY <1>1, <2>2, ValueType DEF Value
  <2>4. w \in Int /\ u \in Int
    <3> DEFINE iv == Value(r, 0, box)
               jv == Value(r, 0, UnitBox)
    <3> HIDE DEF iv, jv
    <3>1. iv \in Int \X Int /\ jv \in Int \X Int
      BY <2>1, <2>3 DEF iv, jv
    <3>2. diam(iv) \in Int /\ diam(jv) \in Int
      BY <3>1 DEF diam, lb, ub
    <3> QED BY <3>2 DEF iv, jv
  <2>5. v \in Int
    BY <1>1, AtType
  <2> HIDE DEF w, u, v
  <2> QED BY <1>1, <2>4, <2>5 DEF Higher
<1>3. CASE IsFiltered(f)
  <2>1. Bounded(box, f) /\ box # Empty
    BY <1>3, BoxIsNotEmpty DEF BoundsHold
  <2>2. Nearly(r.op, v, 1)
    BY <2>1 DEF Bounded
  <2>3. PICK i \in Dim : r.coef = [j \in Dim |-> IF i = j THEN 1 ELSE 0]
    BY <1>3 DEF IsFiltered, is_simple_relational
  <2>4. u >= 1
    BY <1>1, <2>3, UnitWidth DEF UnitBox
  <2> HIDE DEF v, s, u, r
  <2>5. 1 <= s
    BY <1>2, <2>4
  <2>6. Nearly(r.op, v, s)
    BY <1>2, <2>2, <2>5, NearlyMore
  <2> QED BY <2>6 DEF v, s, u, r
<1>4. CASE ~IsFiltered(f)
  <2>1. ~is_simple_relational(f) /\ ~is_neq(f)
    BY <1>4 DEF IsFiltered, is_neq
  <2>2. \A j \in Dim : r.coef[j] # 0 => contains(box[j], p[j])
    BY DEF Covers, CoversOn
  <2>3. contains(Value(r, 0, box), v)
    BY <1>1, <2>2, ValueOfPoint
  <2>4. IsEvaluation(e, r.op, v, w)
    <3> HIDE DEF v, r
    <3> QED BY <1>1, <1>2, <2>3, EvaluationIs
  <2>5. Evaluate(f, box) = e
    BY DEF Evaluate
  <2>6. e.type # "UNSAT"
    BY <2>5, RefutersAre
  <2>7. CASE e.type = "VALID"
    <3>1. Nearly(r.op, v, 0)
      BY <2>4, <2>7 DEF IsEvaluation
    <3> HIDE DEF v, s, u, r
    <3>2. Nearly(r.op, v, s)
      BY <1>2, <3>1, NearlyMore
    <3> QED BY <3>2 DEF v, s, u, r
  <2>8. CASE e.type = "UNKNOWN"
    <3>1. e.diam = w /\ Nearly(r.op, v, w)
      BY <2>4, <2>8 DEF IsEvaluation
    <3>2. w <= s
      <4>1. CASE w <= Precision
        <5> HIDE DEF w, s, u
        <5> QED BY <1>1, <1>2, <4>1
      <4>2. CASE w > Precision
        <5>1. VarsOf(f) \subseteq Candidates(problem, box)
          <6> DEFINE Wide(x) == x.type = "UNKNOWN" /\ x.diam > Precision
          <6>1. Wide(Evaluate(f, box))
            BY <2>5, <2>8, <3>1, <4>2
          <6> QED BY <2>1, <6>1 DEF Candidates
        <5>2. Candidates(problem, box) \in SUBSET Dim
          BY DEF Candidates, VarsOf
        <5>3. \A i \in Candidates(problem, box) : diam(box[i]) <= 1
          BY <5>2, NothingToSplit
        <5>4. \A j \in Dim : r.coef[j] # 0 => diam(box[j]) <= 1
          BY <1>1, <5>1, <5>3, VarsOfRelation
        <5>5. w <= u
          BY <1>1, <5>4, WideIsSmall
        <5> HIDE DEF w, s, u
        <5> QED BY <1>2, <5>5
      <4> HIDE DEF w
      <4> QED BY <1>1, <1>2, <4>1, <4>2
    <3> HIDE DEF v, s, u, r, w
    <3>3. Nearly(r.op, v, s)
      BY <1>2, <3>1, <3>2, NearlyMore
    <3> QED BY <3>3 DEF v, s, u, r
  <2> QED BY <2>4, <2>6, <2>7, <2>8 DEF IsEvaluation
<1> QED BY <1>3, <1>4
=============================================================================
