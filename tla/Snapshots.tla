------------------------------ MODULE Snapshots ------------------------------
(***************************************************************************)
(* What a scoped container promises: Push remembers the content, Pop puts  *)
(* back what the matching Push remembered, whatever happened in between.   *)
(***************************************************************************)
EXTENDS Integers, Sequences

CONSTANTS
  Empty(_),    \* the content of a new container of a kind
  After(_, _)  \* what one modification makes of a content, by kind

VARIABLES
  kind,       \* the kind of container, which never changes
  content,
  saved       \* contents at the Push of each open scope, the innermost last

svars == <<kind, content, saved>>

Init == content = Empty(kind) /\ saved = <<>>

Modify == content' \in After(kind, content) /\ UNCHANGED saved

Push == saved' = Append(saved, content) /\ UNCHANGED content

Pop ==
  /\ saved # <<>>
  /\ content' = saved[Len(saved)]
  /\ saved' = SubSeq(saved, 1, Len(saved) - 1)

(* clear() also forgets the open scopes.                                   *)
Clear == content' = Empty(kind) /\ saved' = <<>>

Next == (Modify \/ Push \/ Pop \/ Clear) /\ UNCHANGED kind

Spec == Init /\ [][Next]_svars
=============================================================================
