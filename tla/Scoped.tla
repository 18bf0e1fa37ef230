------------------------------- MODULE Scoped -------------------------------
(***************************************************************************)
(* The backtrackable containers ScopedVector, ScopedUnorderedMap and       *)
(* ScopedUnorderedSet.  None of them keeps copies: a vector remembers its  *)
(* length at each push, a map and a set keep a log of their actions and    *)
(* remember its length.  pop undoes one element or one action at a time,   *)
(* the last first.  The contexts keep their boxes and assertions in such   *)
(* vectors, the SAT solver wrappers their variables in such maps and sets, *)
(* and the SMT2 driver its names in such a map.                            *)
(*                                                                         *)
(* The content of a map is a function that gives NoValue to absent keys,   *)
(* that of a set is the map that gives the value Member to the elements.   *)
(***************************************************************************)
EXTENDS Integers, Sequences, FiniteSets

CONSTANTS
  Key, Val,   \* keys, and the values a map or a vector holds
  NoValue,    \* what a map gives for an absent key
  Member,     \* what the map of a set gives for an element
  MaxActions  \* bound: modifications in the log, elements in the vector

ASSUME ScopedAssumption ==
  /\ NoValue \notin Val \cup {Member}
  /\ MaxActions \in Nat

VARIABLES
  kind,       \* which of the three containers this is
  content,    \* vector_, map_ or set_
  log,        \* actions_: key and the value to go back to, NoValue to erase
  scopes,     \* scopes_ or stack_: the length to go back to at each pop
  undoing     \* a pop is running

vars == <<kind, content, log, scopes, undoing>>

IsVector == kind = "vector"

NewContent(k) == IF k = "vector" THEN <<>> ELSE [x \in Key |-> NoValue]

(* What scopes counts: elements of a vector, actions otherwise.            *)
Size == IF IsVector THEN Len(content) ELSE Len(log)

Last(s)  == s[Len(s)]
Front(s) == SubSeq(s, 1, Len(s) - 1)

-----------------------------------------------------------------------------
Init ==
  /\ kind \in {"vector", "map", "set"}
  /\ content = NewContent(kind)
  /\ log = <<>> /\ scopes = <<>>
  /\ undoing = FALSE

PushBack(v) ==
  /\ IsVector /\ ~undoing /\ Size < MaxActions
  /\ content' = Append(content, v)
  /\ UNCHANGED <<kind, log, scopes, undoing>>

(* Fault: overwriting is logged like an insertion.                         *)
MapInsertAsNew(k, v) ==
  /\ kind = "map" /\ ~undoing /\ Size < MaxActions
  /\ log' = Append(log, [key |-> k, old |-> NoValue])
  /\ content' = [content EXCEPT ![k] = v]
  /\ UNCHANGED <<kind, scopes, undoing>>

(* INSERT and UPDATE: the value before is what an undo goes back to.       *)
MapInsert(k, v) ==
  /\ kind = "map" /\ ~undoing /\ Size < MaxActions
  /\ log' = Append(log, [key |-> k, old |-> content[k]])
  /\ content' = [content EXCEPT ![k] = v]
  /\ UNCHANGED <<kind, scopes, undoing>>

(* Inserting an element that is there does nothing.                        *)
SetInsert(k) ==
  /\ kind = "set" /\ ~undoing /\ Size < MaxActions
  /\ content[k] = NoValue
  /\ log' = Append(log, [key |-> k, old |-> NoValue])
  /\ content' = [content EXCEPT ![k] = Member]
  /\ UNCHANGED <<kind, scopes, undoing>>

Clear ==
  /\ ~IsVector /\ ~undoing
  /\ content' = NewContent(kind) /\ log' = <<>> /\ scopes' = <<>>
  /\ UNCHANGED <<kind, undoing>>

Push ==
  /\ ~undoing /\ Len(scopes) < MaxActions
  /\ scopes' = Append(scopes, Size)
  /\ UNCHANGED <<kind, content, log, undoing>>

(* pop without a scope throws and changes nothing: no action here.         *)
StartPop ==
  /\ ~undoing /\ scopes # <<>>
  /\ undoing' = TRUE
  /\ UNCHANGED <<kind, content, log, scopes>>

(* Fault: the vector loop runs once more than it should.                   *)
RemoveElementTooMany ==
  /\ undoing /\ IsVector /\ content # <<>> /\ Size >= Last(scopes)
  /\ content' = Front(content)
  /\ UNCHANGED <<kind, log, scopes, undoing>>

RemoveElement ==
  /\ undoing /\ IsVector /\ Size > Last(scopes)
  /\ content' = Front(content)
  /\ UNCHANGED <<kind, log, scopes, undoing>>

UndoAction ==
  /\ undoing /\ ~IsVector /\ Size > Last(scopes)
  /\ content' = [content EXCEPT ![Last(log).key] = Last(log).old]
  /\ log' = Front(log)
  /\ UNCHANGED <<kind, scopes, undoing>>

(* Fault: the scope is not taken off.                                      *)
EndPopKeepsScope ==
  /\ undoing /\ Size <= Last(scopes)
  /\ undoing' = FALSE
  /\ UNCHANGED <<kind, content, log, scopes>>

EndPop ==
  /\ undoing /\ Size <= Last(scopes)
  /\ scopes' = Front(scopes)
  /\ undoing' = FALSE
  /\ UNCHANGED <<kind, content, log>>

PopStep == RemoveElement \/ UndoAction \/ EndPop

Next ==
  \/ \E v \in Val : PushBack(v)
  \/ \E k \in Key, v \in Val : MapInsert(k, v)
  \/ \E k \in Key : SetInsert(k)
  \/ Clear
  \/ Push
  \/ StartPop
  \/ PopStep

(* A pop that runs goes on to its end.                                     *)
Spec == Init /\ [][Next]_vars /\ WF_vars(PopStep)

-----------------------------------------------------------------------------
(* The content when the log had n actions, or the vector n elements: a key *)
(* that has been touched since had the value its first action since then   *)
(* remembers.                                                              *)
Since(k, n) == {i \in n + 1 .. Len(log) : log[i].key = k}
First(S)    == CHOOSE i \in S : \A j \in S : i <= j

ContentAt(n) ==
  IF IsVector THEN SubSeq(content, 1, n)
  ELSE [k \in Key |-> IF Since(k, n) = {} THEN content[k]
                                          ELSE log[First(Since(k, n))].old]

(* What a pop that runs has promised already.                              *)
Visible    == IF undoing THEN ContentAt(Last(scopes)) ELSE content
OpenScopes == IF undoing THEN Front(scopes) ELSE scopes
Saved      == [i \in 1 .. Len(OpenScopes) |-> ContentAt(scopes[i])]

(* One modification: a value at the end, a key with a value, an element.   *)
AfterChange(k, c) ==
  CASE k = "vector" -> {Append(c, v) : v \in Val}
    [] k = "map"    -> {[c EXCEPT ![x] = v] : x \in Key, v \in Val}
    [] k = "set"    -> {[c EXCEPT ![x] = Member] : x \in Key}

Abstract == INSTANCE Snapshots
  WITH Empty <- NewContent, After <- AfterChange,
       content <- Visible, saved <- Saved

-----------------------------------------------------------------------------
(* The log has something for every key that is there and for no other, and *)
(* the scopes mark ever later points of it: a pop never meets a key that   *)
(* is not in the map (it would erase past the end), nor runs past a mark.  *)
ScopesOK ==
  /\ \A i \in 1 .. Len(scopes) : scopes[i] \in 0 .. Size
  /\ \A i, j \in 1 .. Len(scopes) : i <= j => scopes[i] <= scopes[j]
  /\ undoing => scopes # <<>>
  /\ IsVector => log = <<>> /\ content \in Seq(Val)
  /\ ~IsVector =>
       \A k \in Key : content[k] = NoValue <=>
                        \A i \in 1 .. Len(log) : log[i].key # k

(* The inductive invariant behind the theorems of ScopedProofs: the log    *)
(* goes back to absence exactly at a key's first action, which is what     *)
(* undoing the last action needs to keep ScopesOK.                         *)
Held == Val \cup {Member, NoValue}

ScopedTypeOK ==
  /\ kind \in {"vector", "map", "set"} /\ undoing \in BOOLEAN
  /\ scopes \in Seq(Nat)
  /\ log \in Seq([key : Key, old : Held])
  /\ ~IsVector => content \in [Key -> Held]

LogOK ==
  \A i \in 1 .. Len(log) :
    log[i].old = NoValue <=> \A j \in 1 .. i - 1 : log[j].key # log[i].key

ScopedIInv == ScopedTypeOK /\ LogOK /\ ScopesOK

(* Whatever was inserted, overwritten and scoped in between, pop restores  *)
(* what the matching push saw.                                             *)
ImplementsSnapshots == Abstract!Spec

(* A pop comes to an end, one scope fewer.                                 *)
PopEnds ==
  \A n \in 1 .. MaxActions :
    undoing /\ Len(scopes) = n ~> ~undoing /\ Len(scopes) = n - 1
=============================================================================
