----------------------------- MODULE ScopedProofs -----------------------------
(***************************************************************************)
(* Theorems about Scoped, for every set of keys and values and any number  *)
(* of modifications and scopes.                                            *)
(***************************************************************************)
EXTENDS Scoped, SequenceTheorems, WellFoundedInduction, TLAPS

-----------------------------------------------------------------------------
(* Sequences and least elements.                                           *)

LEMMA FrontFacts ==
  ASSUME NEW S, NEW s \in Seq(S), s # <<>>
  PROVE  /\ Len(s) \in Nat \ {0}
         /\ Last(s) \in S /\ Last(s) = s[Len(s)]
         /\ Front(s) \in Seq(S) /\ Len(Front(s)) = Len(s) - 1
         /\ \A i \in 1 .. Len(s) - 1 : Front(s)[i] = s[i]
<1> DEFINE n == Len(s) - 1
<1>1. Len(s) \in Nat \ {0}
  BY EmptySeq
<1>2. \A i \in 1 .. Len(s) : s[i] \in S
  BY ElementOfSeq
<1>3. n \in Nat /\ \A i \in 1 .. n : s[i] \in S
  BY <1>1, <1>2
<1>4. /\ Front(s) \in Seq(S) /\ Len(Front(s)) = n
      /\ \A i \in 1 .. n : Front(s)[i] = s[i]
  <2>1. Front(s) = SubSeq(s, 1, n)
    BY DEF Front
  <2> HIDE DEF n
  <2>2. /\ SubSeq(s, 1, n) \in Seq(S)
        /\ Len(SubSeq(s, 1, n)) = IF 1 <= n THEN n - 1 + 1 ELSE 0
        /\ \A i \in 1 .. n - 1 + 1 : SubSeq(s, 1, n)[i] = s[1 + i - 1]
    BY <1>3, SubSeqProperties
  <2>3. \A i \in 1 .. n : i \in 1 .. n - 1 + 1 /\ 1 + i - 1 = i
    BY <1>3
  <2>4. (IF 1 <= n THEN n - 1 + 1 ELSE 0) = n
    BY <1>3
  <2> QED BY <2>1, <2>2, <2>3, <2>4
<1>5. Last(s) \in S /\ Last(s) = s[Len(s)]
  BY <1>1, <1>2 DEF Last
<1> QED BY <1>1, <1>4, <1>5

Below == OpToRel(<, Nat)

LEMMA BelowWellFounded == IsWellFoundedOn(Below, Nat)
BY NatLessThanWellFounded DEF Below

LEMMA BelowIsLess == \A x, y \in Nat : <<y, x>> \in Below <=> y < x
BY DEF Below, OpToRel

(* A nonempty set of natural numbers has a least element.                  *)
LEMMA FirstFacts ==
  ASSUME NEW S \in SUBSET Nat, S # {}
  PROVE  First(S) \in S /\ \A j \in S : First(S) <= j
<1>1. \E x \in S : \A y \in S : ~(<<y, x>> \in Below)
  BY WFMin, BelowWellFounded, Zenon
<1>2. PICK x \in S : \A y \in S : ~(<<y, x>> \in Below)
  BY <1>1
<1>3. ASSUME NEW y \in S  PROVE x <= y
  <2>1. x \in Nat /\ y \in Nat /\ ~(y < x)
    BY <1>2, BelowIsLess
  <2> QED BY <2>1
<1> QED BY <1>3 DEF First

(* What is added above a nonempty set of numbers does not change its least.*)
LEMMA FirstSame ==
  ASSUME NEW S \in SUBSET Nat, S # {}, NEW n \in Nat, \A j \in S : j <= n
  PROVE  First(S \cup {n}) = First(S)
<1>1. First(S) \in S /\ \A j \in S : First(S) <= j
  BY FirstFacts
<1>2. /\ First(S \cup {n}) \in S \cup {n}
      /\ \A j \in S \cup {n} : First(S \cup {n}) <= j
  BY FirstFacts
<1> DEFINE a == First(S)  b == First(S \cup {n})
<1>3. a \in Nat /\ b \in Nat /\ a <= n
  BY <1>1, <1>2
<1>4. b <= a
  BY <1>1, <1>2
<1>5. CASE b \in S
  BY <1>1, <1>3, <1>4, <1>5
<1>6. CASE b = n
  BY <1>3, <1>4, <1>6
<1> QED BY <1>2, <1>5, <1>6

-----------------------------------------------------------------------------
(* The marks of the scopes are numbers up to the present size, in order.   *)
Marks == /\ \A i \in 1 .. Len(scopes) : scopes[i] \in 0 .. Size
         /\ \A i, j \in 1 .. Len(scopes) : i <= j => scopes[i] <= scopes[j]

LEMMA SizeIsNat == ScopedTypeOK /\ ScopesOK => Size \in Nat
<1> SUFFICES ASSUME ScopedTypeOK, ScopesOK  PROVE Size \in Nat
  OBVIOUS
<1>1. CASE IsVector
  BY <1>1, LenProperties DEF ScopesOK, Size
<1>2. CASE ~IsVector
  BY <1>2, LenProperties DEF ScopedTypeOK, Size
<1> QED BY <1>1, <1>2

(* Marks stay in order when the container only grows.                      *)
LEMMA MarksGrow ==
  ASSUME ScopedTypeOK, ScopesOK, scopes' = scopes, Size' \in Nat, Size <= Size'
  PROVE  Marks'
<1>1. Size \in Nat
  BY SizeIsNat
<1>2. ASSUME NEW i \in 1 .. Len(scopes)  PROVE scopes[i] \in 0 .. Size'
  <2>1. scopes[i] \in 0 .. Size
    BY <1>2 DEF ScopesOK
  <2> QED BY <1>1, <2>1
<1> QED BY <1>2 DEF Marks, ScopesOK

(* And when it shrinks to the last of them at most.                        *)
LEMMA MarksShrink ==
  ASSUME ScopedTypeOK, ScopesOK, scopes # <<>>, scopes' = scopes,
         Size' \in Nat, Last(scopes) <= Size'
  PROVE  Marks'
<1>1. Len(scopes) \in Nat \ {0}
  BY EmptySeq DEF ScopedTypeOK
<1>2. ASSUME NEW i \in 1 .. Len(scopes)  PROVE scopes[i] \in 0 .. Size'
  <2>1. scopes[i] <= scopes[Len(scopes)]
    BY <1>1, <1>2 DEF ScopesOK
  <2>2. scopes[i] \in Nat /\ scopes[Len(scopes)] \in Nat
    BY <1>1, <1>2, ElementOfSeq DEF ScopedTypeOK
  <2> QED BY <2>1, <2>2 DEF Last
<1> QED BY <1>2 DEF Marks, ScopesOK

-----------------------------------------------------------------------------
(* What holds of a log after an action on key k is appended.               *)
LEMMA LogAppend ==
  ASSUME ScopedIInv, ~IsVector, NEW k \in Key, NEW v \in Held \ {NoValue},
         log' = Append(log, [key |-> k, old |-> content[k]]),
         content' = [content EXCEPT ![k] = v],
         UNCHANGED <<kind, scopes, undoing>>
  PROVE  ScopedIInv'
<1> DEFINE n == Len(log)  e == [key |-> k, old |-> content[k]]
<1>1. /\ log \in Seq([key : Key, old : Held]) /\ content \in [Key -> Held]
      /\ n \in Nat
  BY LenProperties DEF ScopedIInv, ScopedTypeOK
<1>2. e \in [key : Key, old : Held]
  BY <1>1
<1>3. /\ log' \in Seq([key : Key, old : Held])
      /\ Len(log') = n + 1
      /\ \A i \in 1 .. n : log'[i] = log[i]
      /\ log'[n + 1] = e
  <2> HIDE DEF e
  <2> QED BY <1>1, <1>2, AppendProperties DEF e
<1>4. ScopedTypeOK'
  BY <1>1, <1>3 DEF ScopedIInv, ScopedTypeOK, IsVector
<1>5. ASSUME NEW i \in 1 .. n + 1
      PROVE  log'[i].old = NoValue <=> \A j \in 1 .. i - 1 : log'[j].key # log'[i].key
  <2>1. CASE i = n + 1
    <3>1. log'[i].old = content[k] /\ log'[i].key = k
      BY <1>3, <2>1
    <3>2. content[k] = NoValue <=> \A j \in 1 .. n : log[j].key # k
      BY DEF ScopedIInv, ScopesOK
    <3> QED BY <1>1, <1>3, <2>1, <3>1, <3>2
  <2>2. CASE i \in 1 .. n
    <3>1. \A j \in 1 .. i - 1 : log'[j] = log[j]
      BY <1>1, <1>3, <2>2
    <3> QED BY <1>3, <2>2, <3>1 DEF ScopedIInv, LogOK
  <2> QED BY <1>1, <2>1, <2>2
<1>6. LogOK'
  BY <1>3, <1>5 DEF LogOK
<1>7. ASSUME NEW x \in Key
      PROVE  content'[x] = NoValue <=> \A i \in 1 .. n + 1 : log'[i].key # x
  <2>1. CASE x = k
    BY <1>1, <1>3, <2>1
  <2>2. CASE x # k
    <3>1. content'[x] = content[x]
      BY <1>1, <2>2
    <3>2. content[x] = NoValue <=> \A i \in 1 .. n : log[i].key # x
      BY DEF ScopedIInv, ScopesOK
    <3>3. log'[n + 1].key # x
      BY <1>3, <2>2
    <3>4. \A i \in 1 .. n + 1 : i \in 1 .. n \/ i = n + 1
      BY <1>1
    <3>5. \A i \in 1 .. n : i \in 1 .. n + 1
      BY <1>1
    <3> QED BY <1>3, <3>1, <3>2, <3>3, <3>4, <3>5
  <2> QED BY <2>1, <2>2
<1>8. Marks'
  <2>1. Size = n /\ Size' = n + 1
    BY <1>3 DEF Size, IsVector
  <2> QED BY <1>1, <2>1, MarksGrow DEF ScopedIInv
<1>9. ScopesOK'
  BY <1>3, <1>7, <1>8 DEF ScopesOK, Marks, ScopedIInv, IsVector
<1> QED BY <1>4, <1>6, <1>9 DEF ScopedIInv

(* What holds of the log after its last action is undone.                  *)
LEMMA LogUndo ==
  ASSUME ScopedIInv, UndoAction
  PROVE  ScopedIInv'
<1> DEFINE n == Len(log)  e == log[n]
<1>1. /\ log \in Seq([key : Key, old : Held]) /\ content \in [Key -> Held]
      /\ ~IsVector /\ undoing /\ scopes # <<>>
      /\ UNCHANGED <<kind, scopes, undoing>>
  BY DEF ScopedIInv, ScopedTypeOK, ScopesOK, UndoAction
<1>2. n \in Nat \ {0} /\ Last(scopes) \in Nat /\ n > Last(scopes)
  <2>1. Last(scopes) \in Nat
    BY <1>1, FrontFacts DEF ScopedIInv, ScopedTypeOK
  <2>2. n \in Nat /\ n > Last(scopes)
    BY <1>1, LenProperties DEF UndoAction, Size
  <2> QED BY <2>1, <2>2
<1>3. log # <<>>
  BY <1>2, EmptySeq
<1>4. /\ log' \in Seq([key : Key, old : Held])
      /\ Len(log') = n - 1
      /\ \A i \in 1 .. n - 1 : log'[i] = log[i]
      /\ e \in [key : Key, old : Held]
      /\ content' = [content EXCEPT ![e.key] = e.old]
  <2>1. log' = Front(log) /\ content' = [content EXCEPT ![e.key] = e.old]
    BY DEF UndoAction, Last
  <2> DEFINE E == [key : Key, old : Held]
  <2> HIDE DEF E
  <2>2. log \in Seq(E)
    BY <1>1 DEF E
  <2>3. /\ Last(log) \in E /\ Last(log) = log[Len(log)]
        /\ Front(log) \in Seq(E) /\ Len(Front(log)) = Len(log) - 1
        /\ \A i \in 1 .. Len(log) - 1 : Front(log)[i] = log[i]
    BY <1>3, <2>2, FrontFacts
  <2> QED BY <2>1, <2>3 DEF E
<1>5. ScopedTypeOK'
  BY <1>1, <1>4 DEF ScopedIInv, ScopedTypeOK, IsVector
<1>6. \A i \in 1 .. n - 1 : \A j \in 1 .. i - 1 : log'[j] = log[j]
  BY <1>2, <1>4
<1>7. LogOK'
  <2>1. \A i \in 1 .. n - 1 :
          log[i].old = NoValue <=> \A j \in 1 .. i - 1 : log[j].key # log[i].key
    BY <1>2 DEF ScopedIInv, LogOK
  <2> QED BY <1>4, <1>6, <2>1 DEF LogOK
<1>8. ASSUME NEW x \in Key
      PROVE  content'[x] = NoValue <=> \A i \in 1 .. n - 1 : log'[i].key # x
  <2>1. CASE x = e.key
    <3>1. content'[x] = e.old
      BY <1>1, <1>4, <2>1
    <3>2. e.old = NoValue <=> \A j \in 1 .. n - 1 : log[j].key # e.key
      BY <1>2 DEF ScopedIInv, LogOK
    <3> QED BY <1>4, <2>1, <3>1, <3>2
  <2>2. CASE x # e.key
    <3>1. content'[x] = content[x]
      BY <1>1, <1>4, <2>2
    <3>2. content[x] = NoValue <=> \A i \in 1 .. n : log[i].key # x
      BY <1>1 DEF ScopedIInv, ScopesOK
    <3>3. \A i \in 1 .. n : i \in 1 .. n - 1 \/ i = n
      BY <1>2
    <3>4. \A i \in 1 .. n - 1 : i \in 1 .. n
      BY <1>2
    <3> QED BY <1>4, <2>2, <3>1, <3>2, <3>3, <3>4
  <2> QED BY <2>1, <2>2
<1>9. Marks'
  <2>1. Size' = n - 1
    BY <1>1, <1>4 DEF Size, IsVector
  <2> QED BY <1>1, <1>2, <2>1, MarksShrink DEF ScopedIInv
<1>10. ScopesOK'
  BY <1>1, <1>4, <1>8, <1>9 DEF ScopesOK, Marks, IsVector
<1> QED BY <1>5, <1>7, <1>10 DEF ScopedIInv

LEMMA ScopedInit == Init => ScopedIInv
<1> SUFFICES ASSUME Init  PROVE ScopedIInv
  OBVIOUS
<1>1. /\ Len(log) = 0 /\ Len(scopes) = 0
      /\ log \in Seq([key : Key, old : Held]) /\ scopes \in Seq(Nat)
  BY EmptySeq DEF Init
<1>2. IsVector => content \in Seq(Val)
  BY EmptySeq DEF Init, IsVector, NewContent
<1>3. ~IsVector => content = [x \in Key |-> NoValue]
  BY DEF Init, IsVector, NewContent
<1>4. ScopedTypeOK
  BY <1>1, <1>3 DEF Init, ScopedTypeOK, Held
<1>5. ScopesOK
  BY <1>1, <1>2, <1>3 DEF Init, ScopesOK
<1> QED BY <1>1, <1>4, <1>5 DEF LogOK, ScopedIInv

(* Every operation, and every step of a pop, keeps the log such that the   *)
(* next step of a pop finds what it needs.                                 *)
LEMMA ScopedStep == ScopedIInv /\ [Next]_vars => ScopedIInv'
<1> SUFFICES ASSUME ScopedIInv, [Next]_vars  PROVE ScopedIInv'
  OBVIOUS
<1> USE DEF ScopedIInv
<1>1. ASSUME NEW v \in Val, PushBack(v)
      PROVE  ScopedIInv'
  <2>1. content \in Seq(Val) /\ IsVector /\ IsVector' /\ log = <<>> /\ Len(log) = 0
    BY <1>1, EmptySeq DEF ScopesOK, PushBack, IsVector
  <2>2. content' \in Seq(Val) /\ Len(content') = Len(content) + 1
    BY <1>1, <2>1, AppendProperties DEF PushBack
  <2>3. Marks'
    <3>1. Size = Len(content) /\ Size' = Len(content) + 1 /\ Len(content) \in Nat
      BY <2>1, <2>2, LenProperties DEF Size
    <3> QED BY <1>1, <3>1, MarksGrow DEF PushBack
  <2>4. ScopedTypeOK'
    BY <1>1, <2>1 DEF PushBack, ScopedTypeOK
  <2>5. ScopesOK'
    BY <1>1, <2>1, <2>2, <2>3 DEF PushBack, ScopesOK, Marks
  <2> QED BY <1>1, <2>1, <2>4, <2>5 DEF PushBack, LogOK
<1>2. ASSUME NEW k \in Key, NEW v \in Val, MapInsert(k, v)
      PROVE  ScopedIInv'
  <2>1. v \in Held \ {NoValue}
    BY ScopedAssumption DEF Held
  <2> QED BY <1>2, <2>1, LogAppend DEF MapInsert, IsVector
<1>3. ASSUME NEW k \in Key, SetInsert(k)
      PROVE  ScopedIInv'
  <2>1. Member \in Held \ {NoValue}
    BY ScopedAssumption DEF Held
  <2> QED BY <1>3, <2>1, LogAppend DEF SetInsert, IsVector
<1>4. CASE Clear
  <2>1. /\ ~IsVector /\ IsVector' = IsVector /\ content' = [x \in Key |-> NoValue]
        /\ Len(log') = 0 /\ Len(scopes') = 0
        /\ log' \in Seq([key : Key, old : Held]) /\ scopes' \in Seq(Nat)
    BY <1>4, EmptySeq DEF Clear, IsVector, NewContent
  <2>2. ScopedTypeOK'
    BY <1>4, <2>1 DEF Clear, ScopedTypeOK, Held
  <2>3. ScopesOK'
    BY <1>4, <2>1 DEF Clear, ScopesOK
  <2> QED BY <2>1, <2>2, <2>3 DEF LogOK
<1>5. CASE Push
  <2> DEFINE n == Len(scopes)
  <2>1. Size \in Nat /\ Size' = Size /\ n \in Nat /\ scopes \in Seq(Nat)
    BY <1>5, SizeIsNat, LenProperties DEF Push, Size, IsVector, ScopedTypeOK
  <2>2. /\ scopes' \in Seq(Nat) /\ Len(scopes') = n + 1
        /\ \A i \in 1 .. n : scopes'[i] = scopes[i]
        /\ scopes'[n + 1] = Size
    BY <1>5, <2>1, AppendProperties DEF Push
  <2>3. ASSUME NEW i \in 1 .. n + 1
        PROVE  /\ scopes'[i] \in 0 .. Size
               /\ \A j \in 1 .. n + 1 : i <= j => scopes'[i] <= scopes'[j]
    <3>1. CASE i = n + 1
      BY <2>1, <2>2, <3>1
    <3>2. CASE i \in 1 .. n
      <4>1. scopes'[i] = scopes[i] /\ scopes[i] \in 0 .. Size
        BY <2>2, <3>2 DEF ScopesOK
      <4>2. ASSUME NEW j \in 1 .. n + 1, i <= j  PROVE scopes[i] <= scopes'[j]
        <5>1. CASE j = n + 1
          BY <2>1, <2>2, <4>1, <5>1
        <5>2. CASE j \in 1 .. n
          BY <2>2, <3>2, <4>2, <5>2 DEF ScopesOK
        <5> QED BY <2>1, <5>1, <5>2
      <4> QED BY <4>1, <4>2
    <3> QED BY <2>1, <3>1, <3>2
  <2>4. scopes' # <<>>
    BY <2>1, <2>2, EmptySeq
  <2>5. ScopedTypeOK'
    BY <1>5, <2>2 DEF Push, ScopedTypeOK, IsVector
  <2>6. ScopesOK'
    BY <1>5, <2>1, <2>2, <2>3, <2>4 DEF Push, ScopesOK, IsVector
  <2> QED BY <1>5, <2>5, <2>6 DEF Push, LogOK
<1>6. CASE StartPop
  BY <1>6 DEF StartPop, ScopedTypeOK, ScopesOK, LogOK, IsVector, Size
<1>7. CASE RemoveElement
  <2>1. /\ content \in Seq(Val) /\ IsVector /\ IsVector' /\ log = <<>>
        /\ Len(content) \in Nat /\ Size = Len(content)
        /\ scopes # <<>> /\ scopes \in Seq(Nat)
    BY <1>7, LenProperties DEF ScopedTypeOK, ScopesOK, RemoveElement, IsVector, Size
  <2>2. Last(scopes) \in Nat
    BY <2>1, FrontFacts
  <2>3. Len(content) > Last(scopes) /\ content # <<>>
    BY <1>7, <2>1, <2>2, EmptySeq DEF RemoveElement
  <2>4. content' \in Seq(Val) /\ Len(content') = Len(content) - 1
    BY <1>7, <2>1, <2>3, FrontFacts DEF RemoveElement
  <2>5. Marks'
    <3>1. Size' = Len(content) - 1
      BY <2>1, <2>4 DEF Size
    <3>2. Size' \in Nat /\ Last(scopes) <= Size'
      BY <2>1, <2>2, <2>3, <3>1
    <3> QED BY <1>7, <2>1, <3>2, MarksShrink DEF RemoveElement
  <2>6. ScopedTypeOK'
    BY <1>7, <2>1 DEF RemoveElement, ScopedTypeOK
  <2>7. ScopesOK'
    BY <1>7, <2>1, <2>4, <2>5 DEF RemoveElement, ScopesOK, Marks
  <2>8. LogOK'
    BY <1>7 DEF RemoveElement, LogOK
  <2> QED BY <2>6, <2>7, <2>8
<1>8. CASE UndoAction
  BY <1>8, LogUndo
<1>9. CASE EndPop
  <2>1. scopes # <<>> /\ scopes \in Seq(Nat)
    BY <1>9 DEF EndPop, ScopedTypeOK, ScopesOK
  <2>2. /\ scopes' \in Seq(Nat) /\ Len(scopes') = Len(scopes) - 1
        /\ Len(scopes) \in Nat \ {0}
        /\ \A i \in 1 .. Len(scopes) - 1 : scopes'[i] = scopes[i]
    BY <1>9, <2>1, FrontFacts DEF EndPop
  <2>3. \A i \in 1 .. Len(scopes) - 1 : i \in 1 .. Len(scopes)
    BY <2>2
  <2>4. Size' = Size
    BY <1>9 DEF EndPop, Size, IsVector
  <2>5. Marks'
    BY <2>2, <2>3, <2>4 DEF ScopesOK, Marks
  <2>6. ScopedTypeOK'
    BY <1>9, <2>2 DEF EndPop, ScopedTypeOK, IsVector
  <2>7. ScopesOK'
    BY <1>9, <2>5 DEF EndPop, ScopesOK, Marks, IsVector
  <2>8. LogOK'
    BY <1>9 DEF EndPop, LogOK
  <2> QED BY <2>6, <2>7, <2>8
<1>10. CASE UNCHANGED vars
  BY <1>10 DEF vars, ScopedTypeOK, ScopesOK, LogOK, IsVector, Size
<1> QED
  BY <1>1, <1>2, <1>3, <1>4, <1>5, <1>6, <1>7, <1>8, <1>9, <1>10 DEF Next, PopStep

(* The invariant is inductive; in particular the log has something for     *)
(* every key that is there and for no other, and the scopes mark ever      *)
(* later points of it.                                                     *)
THEOREM ScopedInductive == Spec => []ScopedIInv
BY ScopedInit, ScopedStep, PTL DEF Spec

(* No pop erases a key that is not in the map or runs past the mark of its *)
(* scope, after any sequence of operations.                                *)
THEOREM ScopesAreOK == Spec => []ScopesOK
BY ScopedInductive, PTL DEF ScopedIInv

-----------------------------------------------------------------------------
(* The refinement of Snapshots.  AtMark is ContentAt as a function of the  *)
(* container's state, SavedOf what it makes of all open scopes.            *)

Entry == [key : Key, old : Held]

SinceIn(l, k, n) == {i \in n + 1 .. Len(l) : l[i].key = k}

MapAt(c, l, n) ==
  [k \in Key |-> IF SinceIn(l, k, n) = {} THEN c[k] ELSE l[First(SinceIn(l, k, n))].old]

AtMark(vector, c, l, n) == IF vector THEN SubSeq(c, 1, n) ELSE MapAt(c, l, n)

SavedOf(vector, c, l, s) == [i \in 1 .. Len(s) |-> AtMark(vector, c, l, s[i])]

LEMMA ContentAtIsAtMark ==
  \A n : ContentAt(n) = AtMark(IsVector, content, log, n)
BY DEF ContentAt, AtMark, MapAt, Since, SinceIn

(* Nothing has happened since the present.                                 *)
LEMMA AtPresent ==
  /\ \A c \in Seq(Val) : \A l : AtMark(TRUE, c, l, Len(c)) = c
  /\ \A c \in [Key -> Held], l \in Seq(Entry) : AtMark(FALSE, c, l, Len(l)) = c
<1>1. ASSUME NEW c \in Seq(Val), NEW l
      PROVE  AtMark(TRUE, c, l, Len(c)) = c
  BY SubSeqFull DEF AtMark
<1>2. ASSUME NEW c \in [Key -> Held], NEW l \in Seq(Entry)
      PROVE  AtMark(FALSE, c, l, Len(l)) = c
  <2>1. Len(l) \in Nat
    BY LenProperties
  <2>2. \A k \in Key : SinceIn(l, k, Len(l)) = {}
    BY <2>1 DEF SinceIn
  <2> QED BY <2>2 DEF AtMark, MapAt
<1> QED BY <1>1, <1>2

(* Elements added at the end of a vector are beyond every mark.            *)
LEMMA VectorGrows ==
  ASSUME NEW c \in Seq(Val), NEW d \in Seq(Val), NEW n \in 0 .. Len(c),
         Len(c) <= Len(d), \A i \in 1 .. Len(c) : c[i] = d[i]
  PROVE  SubSeq(c, 1, n) = SubSeq(d, 1, n)
<1>1. Len(c) \in Nat /\ Len(d) \in Nat /\ n \in Int /\ 1 \in Int
  BY LenProperties
<1>2. /\ \A i \in 1 .. n : c[i] \in Val /\ d[i] \in Val
      /\ \A i \in 1 .. n : c[i] = d[i]
  BY <1>1, ElementOfSeq
<1>3. /\ SubSeq(c, 1, n) \in Seq(Val)
      /\ Len(SubSeq(c, 1, n)) = IF 1 <= n THEN n - 1 + 1 ELSE 0
      /\ \A i \in 1 .. n - 1 + 1 : SubSeq(c, 1, n)[i] = c[1 + i - 1]
  BY <1>1, <1>2, SubSeqProperties
<1>4. /\ SubSeq(d, 1, n) \in Seq(Val)
      /\ Len(SubSeq(d, 1, n)) = IF 1 <= n THEN n - 1 + 1 ELSE 0
      /\ \A i \in 1 .. n - 1 + 1 : SubSeq(d, 1, n)[i] = d[1 + i - 1]
  BY <1>1, <1>2, SubSeqProperties
<1>5. n - 1 + 1 = n /\ \A i \in 1 .. n : 1 + i - 1 = i
  BY <1>1
<1>6. Len(SubSeq(c, 1, n)) = n /\ Len(SubSeq(d, 1, n)) = n
  BY <1>1, <1>3, <1>4
<1>7. \A i \in 1 .. n : SubSeq(c, 1, n)[i] = SubSeq(d, 1, n)[i]
  BY <1>2, <1>3, <1>4, <1>5
<1> QED BY <1>3, <1>4, <1>6, <1>7, SeqEqual

(* The content c1 and the log l1 are c and l after one more action, logged *)
(* with the value it replaces.                                             *)
OneMore(c, l, c1, l1) ==
  /\ c \in [Key -> Held] /\ l \in Seq(Entry)
  /\ c1 \in [Key -> Held] /\ l1 \in Seq(Entry)
  /\ Len(l1) = Len(l) + 1 /\ \A i \in 1 .. Len(l) : l1[i] = l[i]
  /\ \A x \in Key : x # l1[Len(l1)].key => c1[x] = c[x]
  /\ l1[Len(l1)].old = c[l1[Len(l1)].key]

(* Such an action changes no earlier content.                              *)
LEMMA ActionLogged ==
  ASSUME NEW c, NEW l, NEW c1, NEW l1, OneMore(c, l, c1, l1), NEW n \in 0 .. Len(l)
  PROVE  MapAt(c1, l1, n) = MapAt(c, l, n)
<1> USE DEF OneMore
<1> DEFINE m == Len(l)  k == l1[Len(l1)].key
<1>1. m \in Nat /\ n \in Nat /\ n <= m
  BY LenProperties
<1>2. /\ l1[m + 1].key = k /\ l1[m + 1].old = c[k]
      /\ \A x \in Key : x # k => c1[x] = c[x]
  OBVIOUS
<1>3. Len(l1) = m + 1 /\ \A i \in 1 .. m : l1[i] = l[i]
  OBVIOUS
<1> HIDE DEF m, k, OneMore
<1> SUFFICES ASSUME NEW x \in Key
             PROVE  (IF SinceIn(l1, x, n) = {} THEN c1[x]
                                               ELSE l1[First(SinceIn(l1, x, n))].old)
                    = (IF SinceIn(l, x, n) = {} THEN c[x]
                                                ELSE l[First(SinceIn(l, x, n))].old)
  BY DEF MapAt
<1>4. SinceIn(l, x, n) \in SUBSET Nat /\ \A j \in SinceIn(l, x, n) : j <= m /\ j \in 1 .. m
  BY <1>1 DEF SinceIn, m
<1>5. CASE x # k
  <2>1. SinceIn(l1, x, n) = SinceIn(l, x, n)
    <3>1. \A i \in n + 1 .. m + 1 : i \in n + 1 .. m \/ i = m + 1
      BY <1>1
    <3>2. \A i \in n + 1 .. m : i \in n + 1 .. m + 1 /\ i \in 1 .. m
      BY <1>1
    <3> QED BY <1>2, <1>3, <1>5, <3>1, <3>2 DEF SinceIn, m
  <2>2. CASE SinceIn(l, x, n) = {}
    BY <1>2, <1>5, <2>1, <2>2
  <2>3. CASE SinceIn(l, x, n) # {}
    <3>1. First(SinceIn(l, x, n)) \in 1 .. m
      BY <1>4, <2>3, FirstFacts
    <3> QED BY <1>3, <2>1, <2>3, <3>1
  <2> QED BY <2>2, <2>3
<1>6. CASE x = k
  <2>1. SinceIn(l1, x, n) = SinceIn(l, x, n) \cup {m + 1}
    <3>1. \A i \in n + 1 .. m + 1 : i \in n + 1 .. m \/ i = m + 1
      BY <1>1
    <3>2. /\ \A i \in n + 1 .. m : i \in n + 1 .. m + 1 /\ i \in 1 .. m
          /\ m + 1 \in n + 1 .. m + 1
      BY <1>1
    <3> QED BY <1>2, <1>3, <1>6, <3>1, <3>2 DEF SinceIn, m
  <2>2. CASE SinceIn(l, x, n) = {}
    <3>1. SinceIn(l1, x, n) = {m + 1}
      BY <2>1, <2>2
    <3>2. {m + 1} \in SUBSET Nat /\ {m + 1} # {}
      BY <1>1
    <3>3. First({m + 1}) \in {m + 1}
      BY <3>2, FirstFacts
    <3>4. First({m + 1}) = m + 1
      BY <3>3
    <3> QED BY <1>2, <1>3, <1>6, <2>2, <3>1, <3>4
  <2>3. CASE SinceIn(l, x, n) # {}
    <3>1. First(SinceIn(l, x, n)) \in 1 .. m
      BY <1>4, <2>3, FirstFacts
    <3>2. First(SinceIn(l, x, n) \cup {m + 1}) = First(SinceIn(l, x, n))
      <4>1. m + 1 \in Nat /\ \A j \in SinceIn(l, x, n) : j <= m + 1
        BY <1>1, <1>4
      <4> QED BY <1>4, <2>3, <4>1, FirstSame
    <3> QED BY <1>3, <2>1, <2>3, <3>1, <3>2
  <2> QED BY <2>2, <2>3
<1> QED BY <1>5, <1>6

(* Undoing the last action changes no earlier content either.              *)
LEMMA ActionUndone ==
  ASSUME NEW c \in [Key -> Held], NEW l \in Seq(Entry), l # <<>>,
         NEW n \in 0 .. Len(l) - 1
  PROVE  MapAt([c EXCEPT ![Last(l).key] = Last(l).old], Front(l), n) = MapAt(c, l, n)
<1> DEFINE k == Last(l).key
           d == [c EXCEPT ![k] = Last(l).old]
           g == Front(l)
<1>1. /\ Last(l) \in Entry /\ Last(l) = l[Len(l)]
      /\ g \in Seq(Entry) /\ Len(g) = Len(l) - 1
      /\ Len(l) \in Nat \ {0} /\ \A i \in 1 .. Len(l) - 1 : g[i] = l[i]
  <2> HIDE DEF k, d
  <2> QED BY FrontFacts
<1>2. k \in Key /\ Last(l).old \in Held
  BY <1>1 DEF Entry
<1>3. d \in [Key -> Held] /\ d[k] = Last(l).old /\ \A x \in Key : x # k => c[x] = d[x]
  BY <1>2
<1>4. /\ n \in 0 .. Len(g) /\ Len(l) = Len(g) + 1
      /\ \A i \in 1 .. Len(g) : l[i] = g[i]
      /\ l[Len(l)].key = k /\ l[Len(l)].old = d[k]
  BY <1>1, <1>3
<1> HIDE DEF k, d, g
<1>5. MapAt(c, l, n) = MapAt(d, g, n)
  <2>1. \A x \in Key : x # l[Len(l)].key => c[x] = d[x]
    BY <1>3, <1>4
  <2>2. l[Len(l)].old = d[l[Len(l)].key]
    BY <1>4
  <2>3. OneMore(d, g, c, l)
    BY <1>1, <1>3, <1>4, <2>1, <2>2 DEF OneMore
  <2> QED BY <1>4, <2>3, ActionLogged
<1> QED BY <1>5 DEF k, d, g

-----------------------------------------------------------------------------
(* What the refinement mapping is made of, in terms of AtMark.             *)
MappingFacts ==
  /\ Visible = IF undoing THEN AtMark(IsVector, content, log, Last(scopes))
                          ELSE content
  /\ Saved = SavedOf(IsVector, content, log, OpenScopes)
  /\ OpenScopes \in Seq(Nat)
  /\ \A i \in 1 .. Len(OpenScopes) :
       OpenScopes[i] = scopes[i] /\ OpenScopes[i] \in 0 .. Size
  /\ undoing => Last(scopes) \in 0 .. Size

LEMMA Mapping == ScopedIInv => MappingFacts
<1> SUFFICES ASSUME ScopedIInv  PROVE MappingFacts
  OBVIOUS
<1> USE DEF MappingFacts
<1>1. scopes \in Seq(Nat) /\ (undoing => scopes # <<>>)
  BY DEF ScopedIInv, ScopedTypeOK, ScopesOK
<1>2. CASE undoing
  <2>1. /\ Front(scopes) \in Seq(Nat) /\ Len(Front(scopes)) = Len(scopes) - 1
        /\ Len(scopes) \in Nat \ {0} /\ Last(scopes) = scopes[Len(scopes)]
        /\ \A i \in 1 .. Len(scopes) - 1 : Front(scopes)[i] = scopes[i]
    BY <1>1, <1>2, FrontFacts
  <2>2. OpenScopes = Front(scopes)
    BY <1>2 DEF OpenScopes
  <2>3. \A i \in 1 .. Len(OpenScopes) : OpenScopes[i] = scopes[i] /\ i \in 1 .. Len(scopes)
    BY <2>1, <2>2
  <2>4. \A i \in 1 .. Len(scopes) : scopes[i] \in 0 .. Size
    BY DEF ScopedIInv, ScopesOK
  <2>5. Last(scopes) \in 0 .. Size
    BY <2>1, <2>4
  <2>6. Saved = SavedOf(IsVector, content, log, OpenScopes)
    BY <2>3, ContentAtIsAtMark DEF Saved, SavedOf
  <2> QED BY <1>2, <2>1, <2>2, <2>3, <2>4, <2>5, <2>6, ContentAtIsAtMark DEF Visible
<1>3. CASE ~undoing
  <2>1. OpenScopes = scopes
    BY <1>3 DEF OpenScopes
  <2>2. Saved = SavedOf(IsVector, content, log, OpenScopes)
    BY <2>1, ContentAtIsAtMark DEF Saved, SavedOf
  <2>3. \A i \in 1 .. Len(scopes) : scopes[i] \in 0 .. Size
    BY DEF ScopedIInv, ScopesOK
  <2> QED BY <1>1, <1>3, <2>1, <2>2, <2>3 DEF Visible
<1> QED BY <1>2, <1>3

LEMMA MappingNext == ScopedIInv' => MappingFacts'
BY Mapping, PTL

(* The present content is what a mark at the present size goes back to.    *)
LEMMA AtSize == ASSUME ScopedIInv  PROVE AtMark(IsVector, content, log, Size) = content
<1>1. CASE IsVector
  <2>1. content \in Seq(Val) /\ Size = Len(content) /\ IsVector = TRUE
    BY <1>1 DEF Size, ScopedIInv, ScopesOK, IsVector
  <2>2. AtMark(TRUE, content, log, Len(content)) = content
    BY <2>1, AtPresent
  <2> QED BY <2>1, <2>2
<1>2. CASE ~IsVector
  <2>1. /\ content \in [Key -> Held] /\ log \in Seq(Entry)
        /\ Size = Len(log) /\ IsVector = FALSE
    BY <1>2 DEF Size, ScopedIInv, ScopedTypeOK, Entry, IsVector
  <2>2. AtMark(FALSE, content, log, Len(log)) = content
    BY <2>1, AtPresent
  <2> QED BY <2>1, <2>2
<1> QED BY <1>1, <1>2

(* A modification is seen, and leaves what the open scopes go back to.     *)
LEMMA SavedStays ==
  ASSUME ScopedIInv, ScopedIInv', IsVector' = IsVector, OpenScopes' = OpenScopes,
         \A i \in 1 .. Len(OpenScopes) :
           AtMark(IsVector, content, log, OpenScopes[i])'
             = AtMark(IsVector, content, log, OpenScopes[i])
  PROVE  Saved' = Saved
<1>1. Saved = SavedOf(IsVector, content, log, OpenScopes)
  BY Mapping DEF MappingFacts
<1>2. Saved' = SavedOf(IsVector, content, log, OpenScopes)'
  BY MappingNext DEF MappingFacts
<1> QED BY <1>1, <1>2 DEF SavedOf

LEMMA LoggedStays ==
  ASSUME NEW c \in [Key -> Held], NEW l \in Seq(Entry), NEW k \in Key, NEW v \in Held
  PROVE  OneMore(c, l, [c EXCEPT ![k] = v], Append(l, [key |-> k, old |-> c[k]]))
<1> DEFINE e == [key |-> k, old |-> c[k]]
           c1 == [c EXCEPT ![k] = v]
           l1 == Append(l, e)
<1>1. e \in Entry /\ e.key = k /\ e.old = c[k]
  BY DEF Entry
<1>2. c1 \in [Key -> Held] /\ \A x \in Key : x # k => c1[x] = c[x]
  OBVIOUS
<1> HIDE DEF e, c1
<1>3. /\ l1 \in Seq(Entry) /\ Len(l1) = Len(l) + 1
      /\ \A i \in 1 .. Len(l) : l1[i] = l[i]
      /\ l1[Len(l1)] = e
  BY <1>1, AppendProperties, LenProperties
<1> HIDE DEF l1
<1>4. /\ \A x \in Key : x # l1[Len(l1)].key => c1[x] = c[x]
      /\ l1[Len(l1)].old = c[l1[Len(l1)].key]
  BY <1>1, <1>2, <1>3
<1>5. OneMore(c, l, c1, l1)
  BY <1>2, <1>3, <1>4 DEF OneMore
<1> QED BY <1>5 DEF c1, l1, e

(* An insertion is a modification of the snapshots' content.               *)
LEMMA InsertionMaps ==
  ASSUME ScopedIInv, ScopedIInv', ~IsVector, ~undoing,
         NEW k \in Key, NEW v \in Held,
         log' = Append(log, [key |-> k, old |-> content[k]]),
         content' = [content EXCEPT ![k] = v], UNCHANGED <<kind, scopes, undoing>>
  PROVE  Visible' = [Visible EXCEPT ![k] = v] /\ Saved' = Saved
<1>1. Visible = content /\ Visible' = content'
  BY DEF Visible
<1>2. /\ IsVector' = IsVector /\ OpenScopes' = OpenScopes
      /\ \A i \in 1 .. Len(OpenScopes) : OpenScopes[i] \in 0 .. Size
  BY Mapping DEF IsVector, OpenScopes, MappingFacts
<1>3. log \in Seq(Entry) /\ content \in [Key -> Held] /\ Size = Len(log)
  BY DEF ScopedIInv, ScopedTypeOK, Entry, Size
<1>4. \A n \in 0 .. Len(log) : MapAt(content', log', n) = MapAt(content, log, n)
  <2>1. OneMore(content, log, content', log')
    BY <1>3, LoggedStays
  <2> QED BY <2>1, ActionLogged
<1>5. \A i \in 1 .. Len(OpenScopes) :
        AtMark(IsVector, content, log, OpenScopes[i])'
          = AtMark(IsVector, content, log, OpenScopes[i])
  BY <1>2, <1>3, <1>4 DEF AtMark
<1> QED BY <1>1, <1>2, <1>5, SavedStays

LEMMA FcnIsSeq ==
  ASSUME NEW S, NEW n \in Nat, NEW f \in [1 .. n -> S]
  PROVE  f \in Seq(S) /\ Len(f) = n
<1>1. f \in Seq(S)
  BY SeqDef
<1>2. DOMAIN f = 1 .. Len(f) /\ Len(f) \in Nat
  BY <1>1, LenProperties
<1> QED BY <1>1, <1>2

(* What the open scopes go back to, as a sequence of contents.             *)
Contents == {AtMark(IsVector, content, log, n) : n \in Nat}

LEMMA SavedIsSeq ==
  ASSUME NEW s \in Seq(Nat)
  PROVE  LET saved == SavedOf(IsVector, content, log, s)
         IN  /\ saved \in Seq(Contents) /\ Len(saved) = Len(s)
             /\ \A i \in 1 .. Len(s) : saved[i] = AtMark(IsVector, content, log, s[i])
<1>1. Len(s) \in Nat /\ \A i \in 1 .. Len(s) : s[i] \in Nat
  BY LenProperties, ElementOfSeq
<1>2. SavedOf(IsVector, content, log, s) \in [1 .. Len(s) -> Contents]
  BY <1>1 DEF SavedOf, Contents
<1> QED BY <1>1, <1>2, FcnIsSeq DEF SavedOf

(* A new scope saves the present content.                                  *)
LEMMA PushMaps ==
  ASSUME ScopedIInv, ScopedIInv', Push
  PROVE  Visible' = Visible /\ Saved' = Append(Saved, Visible)
<1> DEFINE n == Len(scopes)
<1>1. /\ Visible = content /\ Visible' = content
      /\ OpenScopes = scopes /\ OpenScopes' = scopes' /\ IsVector' = IsVector
      /\ content' = content /\ log' = log
  BY DEF Push, Visible, OpenScopes, IsVector
<1>2. scopes \in Seq(Nat) /\ n \in Nat /\ Size \in Nat
  BY SizeIsNat, LenProperties DEF ScopedIInv, ScopedTypeOK
<1>3. /\ scopes' \in Seq(Nat) /\ Len(scopes') = n + 1
      /\ \A i \in 1 .. n : scopes'[i] = scopes[i]
      /\ scopes'[n + 1] = Size
  BY <1>2, AppendProperties DEF Push
<1>4. AtMark(IsVector, content, log, Size) = content
  BY AtSize
<1>5. Saved = SavedOf(IsVector, content, log, scopes)
  BY <1>1, Mapping DEF MappingFacts
<1>6. Saved' = SavedOf(IsVector, content, log, scopes')
  BY <1>1, MappingNext DEF MappingFacts
<1>7. /\ Saved \in Seq(Contents) /\ Len(Saved) = n
      /\ \A i \in 1 .. n : Saved[i] = AtMark(IsVector, content, log, scopes[i])
  BY <1>2, <1>5, SavedIsSeq
<1>8. /\ Saved' \in Seq(Contents) /\ Len(Saved') = n + 1
      /\ \A i \in 1 .. n + 1 : Saved'[i] = AtMark(IsVector, content, log, scopes'[i])
  BY <1>3, <1>6, SavedIsSeq
<1>9. content \in Contents
  BY <1>2, <1>4 DEF Contents
<1>10. /\ Append(Saved, content) \in Seq(Contents)
       /\ Len(Append(Saved, content)) = n + 1
       /\ \A i \in 1 .. n : Append(Saved, content)[i] = Saved[i]
       /\ Append(Saved, content)[n + 1] = content
  BY <1>7, <1>9, AppendProperties
<1>11. ASSUME NEW i \in 1 .. n + 1
       PROVE  Saved'[i] = Append(Saved, content)[i]
  <2>1. CASE i \in 1 .. n
    BY <1>3, <1>7, <1>8, <1>10, <2>1
  <2>2. CASE i = n + 1
    BY <1>3, <1>4, <1>8, <1>10, <2>2
  <2>3. i \in 1 .. n \/ i = n + 1
    <3> HIDE DEF n
    <3> QED BY <1>2
  <2> QED BY <2>1, <2>2, <2>3
<1> QED BY <1>1, <1>8, <1>10, <1>11, SeqEqual

(* From its start on, a pop shows the content its scope has saved.         *)
LEMMA StartPopMaps ==
  ASSUME ScopedIInv, ScopedIInv', StartPop
  PROVE  Saved # <<>> /\ Visible' = Saved[Len(Saved)]
         /\ Saved' = SubSeq(Saved, 1, Len(Saved) - 1)
<1> DEFINE n == Len(scopes)
<1>1. /\ OpenScopes = scopes /\ OpenScopes' = Front(scopes) /\ IsVector' = IsVector
      /\ content' = content /\ log' = log /\ Last(scopes)' = Last(scopes) /\ undoing'
  BY DEF StartPop, OpenScopes, IsVector, Last
<1>2. /\ scopes \in Seq(Nat) /\ n \in Nat \ {0} /\ Last(scopes) = scopes[n]
      /\ Front(scopes) \in Seq(Nat) /\ Len(Front(scopes)) = n - 1
      /\ \A i \in 1 .. n - 1 : Front(scopes)[i] = scopes[i]
  BY FrontFacts DEF ScopedIInv, ScopedTypeOK, StartPop
<1>3. Saved = SavedOf(IsVector, content, log, scopes)
  BY <1>1, Mapping DEF MappingFacts
<1>4. Saved' = SavedOf(IsVector, content, log, Front(scopes))
  BY <1>1, MappingNext DEF MappingFacts
<1>5. /\ Saved \in Seq(Contents) /\ Len(Saved) = n
      /\ \A i \in 1 .. n : Saved[i] = AtMark(IsVector, content, log, scopes[i])
  BY <1>2, <1>3, SavedIsSeq
<1>6. /\ Saved' \in Seq(Contents) /\ Len(Saved') = n - 1
      /\ \A i \in 1 .. n - 1 :
           Saved'[i] = AtMark(IsVector, content, log, Front(scopes)[i])
  BY <1>2, <1>4, SavedIsSeq
<1>7. Saved # <<>>
  BY <1>2, <1>5, EmptySeq
<1>8. Visible' = Saved[Len(Saved)]
  <2>1. Visible' = AtMark(IsVector, content, log, Last(scopes))
    BY <1>1, MappingNext DEF MappingFacts
  <2> QED BY <1>2, <1>5, <2>1
<1>9. /\ Front(Saved) \in Seq(Contents) /\ Len(Front(Saved)) = n - 1
      /\ \A i \in 1 .. n - 1 : Front(Saved)[i] = Saved[i]
  BY <1>5, <1>7, FrontFacts
<1>10. \A i \in 1 .. n - 1 : Saved'[i] = Front(Saved)[i]
  BY <1>2, <1>5, <1>6, <1>9
<1>11. Saved' = Front(Saved)
  BY <1>6, <1>9, <1>10, SeqEqual
<1> QED BY <1>7, <1>8, <1>11 DEF Front

(* The steps of a pop leave what it shows.                                 *)
LEMMA UndoingHidden ==
  ASSUME ScopedIInv, ScopedIInv', undoing, undoing', UNCHANGED <<kind, scopes>>,
         \A n \in 0 .. Size' :
           AtMark(IsVector, content', log', n) = AtMark(IsVector, content, log, n)
  PROVE  UNCHANGED <<kind, Visible, Saved>>
<1>1. IsVector' = IsVector /\ OpenScopes' = OpenScopes /\ Last(scopes)' = Last(scopes)
  BY DEF IsVector, OpenScopes, Last
<1>2. /\ Last(scopes) \in 0 .. Size'
      /\ \A i \in 1 .. Len(OpenScopes) : OpenScopes[i] \in 0 .. Size'
  BY <1>1, MappingNext DEF MappingFacts
<1>3. Visible' = Visible
  BY <1>1, <1>2, Mapping, MappingNext DEF MappingFacts
<1>4. Saved' = Saved
  BY <1>1, <1>2, SavedStays
<1> QED BY <1>3, <1>4

(* Every operation is one of the snapshots', a pop at its start, and the   *)
(* other steps of a pop are not visible.                                   *)
LEMMA StepMaps ==
  ScopedIInv /\ ScopedIInv' /\ [Next]_vars => [Abstract!Next]_Abstract!svars
<1> SUFFICES ASSUME ScopedIInv, ScopedIInv', [Next]_vars
             PROVE  [Abstract!Next]_Abstract!svars
  OBVIOUS
<1>1. ASSUME NEW v \in Val, PushBack(v)
      PROVE  Abstract!Next
  <2>1. Visible = content /\ Visible' = content' /\ kind' = kind /\ kind = "vector"
    BY <1>1 DEF PushBack, Visible, IsVector
  <2>2. Visible' \in AfterChange(kind, Visible)
    BY <1>1, <2>1 DEF PushBack, AfterChange
  <2>3. /\ content \in Seq(Val) /\ content' \in Seq(Val)
        /\ Len(content) \in Nat /\ Len(content') = Len(content) + 1
        /\ \A i \in 1 .. Len(content) : content[i] = content'[i]
    <3>1. content \in Seq(Val)
      BY <2>1 DEF ScopedIInv, ScopesOK, IsVector
    <3> QED BY <1>1, <3>1, AppendProperties, LenProperties DEF PushBack
  <2>4. /\ IsVector /\ IsVector' = IsVector /\ OpenScopes' = OpenScopes
        /\ \A i \in 1 .. Len(OpenScopes) : OpenScopes[i] \in 0 .. Len(content)
    BY <1>1, Mapping DEF PushBack, IsVector, OpenScopes, MappingFacts, Size
  <2>5. \A i \in 1 .. Len(OpenScopes) :
          AtMark(IsVector, content, log, OpenScopes[i])'
            = AtMark(IsVector, content, log, OpenScopes[i])
    BY <2>3, <2>4, VectorGrows DEF AtMark
  <2>6. Saved' = Saved
    BY <2>4, <2>5, SavedStays
  <2> QED BY <2>1, <2>2, <2>6 DEF Abstract!Next, Abstract!Modify
<1>2. ASSUME NEW k \in Key, NEW v \in Val, MapInsert(k, v)
      PROVE  Abstract!Next
  <2>1. Visible' = [Visible EXCEPT ![k] = v] /\ Saved' = Saved
    BY <1>2, InsertionMaps DEF MapInsert, IsVector, Held
  <2>2. Visible' \in AfterChange(kind, Visible)
    <3>1. kind = "map"
      BY <1>2 DEF MapInsert
    <3>2. AfterChange(kind, Visible)
            = {[Visible EXCEPT ![x] = w] : x \in Key, w \in Val}
      BY <3>1 DEF AfterChange
    <3>3. [Visible EXCEPT ![k] = v] \in AfterChange(kind, Visible)
      <4> DEFINE f(x, w) == [Visible EXCEPT ![x] = w]
      <4>1. AfterChange(kind, Visible) = {f(x, w) : x \in Key, w \in Val}
        BY <3>2
      <4>2. \E x \in Key, w \in Val : f(k, v) = f(x, w)
        OBVIOUS
      <4> HIDE DEF f
      <4>3. f(k, v) \in AfterChange(kind, Visible)
        BY <4>1, <4>2
      <4> QED BY <4>3 DEF f
    <3> QED BY <2>1, <3>3
  <2> QED BY <1>2, <2>1, <2>2 DEF MapInsert, Abstract!Next, Abstract!Modify
<1>3. ASSUME NEW k \in Key, SetInsert(k)
      PROVE  Abstract!Next
  <2>1. Visible' = [Visible EXCEPT ![k] = Member] /\ Saved' = Saved
    BY <1>3, InsertionMaps DEF SetInsert, IsVector, Held
  <2>2. Visible' \in AfterChange(kind, Visible)
    <3>1. kind = "set"
      BY <1>3 DEF SetInsert
    <3>2. AfterChange(kind, Visible)
            = {[Visible EXCEPT ![x] = Member] : x \in Key}
      BY <3>1 DEF AfterChange
    <3>3. [Visible EXCEPT ![k] = Member] \in AfterChange(kind, Visible)
      BY <3>2, Zenon
    <3> QED BY <2>1, <3>3
  <2> QED BY <1>3, <2>1, <2>2 DEF SetInsert, Abstract!Next, Abstract!Modify
<1>4. CASE Clear
  <2>1. Visible' = NewContent(kind) /\ OpenScopes' = <<>> /\ kind' = kind
    BY <1>4 DEF Clear, Visible, OpenScopes
  <2>2. Saved' = SavedOf(IsVector, content, log, OpenScopes)'
    BY MappingNext DEF MappingFacts
  <2>3. Saved' = <<>>
    BY <2>1, <2>2, EmptySeq DEF SavedOf
  <2> QED BY <2>1, <2>3 DEF Abstract!Next, Abstract!Clear
<1>5. CASE UNCHANGED vars
  <2>1. UNCHANGED <<kind, Visible, Saved>>
    <3>1. UNCHANGED <<IsVector, OpenScopes>>
      BY <1>5 DEF vars, IsVector, OpenScopes
    <3>2. Saved' = Saved
      BY <1>5, <3>1, SavedStays DEF vars
    <3>3. Visible' = Visible
      BY <1>5, <3>1, Mapping, MappingNext DEF vars, MappingFacts
    <3> QED BY <1>5, <3>2, <3>3 DEF vars
  <2> QED BY <2>1 DEF Abstract!svars
<1>6. CASE Push
  BY <1>6, PushMaps DEF Push, Abstract!Next, Abstract!Push
<1>7. CASE StartPop
  BY <1>7, StartPopMaps DEF StartPop, Abstract!Next, Abstract!Pop
<1>8. CASE RemoveElement
  <2>1. /\ IsVector /\ undoing /\ undoing' /\ UNCHANGED <<kind, scopes>>
        /\ content' = Front(content) /\ content \in Seq(Val)
        /\ Size' = Len(content')
    BY <1>8 DEF RemoveElement, ScopedIInv, ScopesOK, Size, IsVector
  <2>4. content # <<>>
    <3>1. Last(scopes) \in 0 .. Size /\ Size = Len(content) /\ Size > Last(scopes)
      BY <1>8, <2>1, Mapping DEF MappingFacts, RemoveElement, Size
    <3> QED BY <3>1, EmptySeq
  <2>2. /\ content' \in Seq(Val) /\ Len(content') = Len(content) - 1
        /\ Len(content) \in Nat
        /\ \A i \in 1 .. Len(content') : content'[i] = content[i]
    BY <2>1, <2>4, FrontFacts
  <2>3. \A n \in 0 .. Size' :
          AtMark(IsVector, content', log', n) = AtMark(IsVector, content, log, n)
    BY <2>1, <2>2, VectorGrows DEF AtMark
  <2> QED BY <2>1, <2>3, UndoingHidden DEF Abstract!svars
<1>9. CASE UndoAction
  <2>1. /\ ~IsVector /\ undoing /\ undoing' /\ UNCHANGED <<kind, scopes>>
        /\ log' = Front(log) /\ content' = [content EXCEPT ![Last(log).key] = Last(log).old]
        /\ log \in Seq(Entry) /\ content \in [Key -> Held] /\ Size' = Len(log')
    BY <1>9 DEF UndoAction, ScopedIInv, ScopedTypeOK, Entry, Size, IsVector
  <2>2. log # <<>>
    <3>1. Last(scopes) \in 0 .. Size /\ Size = Len(log) /\ Size > Last(scopes)
      BY <1>9, <2>1, Mapping DEF MappingFacts, UndoAction, Size
    <3> QED BY <2>1, <3>1, EmptySeq
  <2>3. Len(log') = Len(log) - 1
    BY <2>1, <2>2, FrontFacts
  <2>4. \A n \in 0 .. Size' :
          AtMark(IsVector, content', log', n) = AtMark(IsVector, content, log, n)
    BY <2>1, <2>2, <2>3, ActionUndone DEF AtMark
  <2> QED BY <2>1, <2>4, UndoingHidden DEF Abstract!svars
<1>10. CASE EndPop
  <2>1. /\ undoing /\ ~undoing' /\ UNCHANGED <<kind, content, log>>
        /\ scopes' = Front(scopes) /\ Size <= Last(scopes)
    BY <1>10 DEF EndPop
  <2>2. IsVector' = IsVector /\ OpenScopes' = OpenScopes
    BY <2>1 DEF IsVector, OpenScopes
  <2>3. Last(scopes) = Size
    BY <2>1, Mapping, SizeIsNat DEF MappingFacts, ScopedIInv
  <2>4. AtMark(IsVector, content, log, Size) = content
    BY AtSize
  <2>5. Visible' = Visible
    BY <2>1, <2>3, <2>4, Mapping, MappingNext DEF MappingFacts
  <2>6. Saved' = Saved
    BY <2>1, <2>2, SavedStays
  <2> QED BY <2>1, <2>5, <2>6 DEF Abstract!svars
<1> QED
  BY <1>1, <1>2, <1>3, <1>4, <1>5, <1>6, <1>7, <1>8, <1>9, <1>10 DEF Next, PopStep

(* Whatever was inserted, overwritten and scoped in between, a pop brings  *)
(* back what the matching push saw: the containers, which copy nothing,    *)
(* implement the snapshots.                                                *)
THEOREM ScopedImplements == Spec => ImplementsSnapshots
<1>1. Init => Abstract!Init
  <2> SUFFICES ASSUME Init  PROVE Visible = NewContent(kind) /\ Saved = <<>>
    BY DEF Abstract!Init
  <2>1. Visible = content /\ OpenScopes = <<>>
    BY DEF Init, Visible, OpenScopes
  <2>2. Saved = <<>>
    BY <2>1, EmptySeq DEF Saved
  <2> QED BY <2>1, <2>2 DEF Init
<1>2. ScopedIInv /\ ScopedIInv' /\ [Next]_vars => [Abstract!Next]_Abstract!svars
  BY StepMaps
<1> QED BY <1>1, <1>2, ScopedInductive, PTL
       DEF Spec, Abstract!Spec, ImplementsSnapshots
=============================================================================
