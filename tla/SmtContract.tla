----------------------------- MODULE SmtContract -----------------------------
(***************************************************************************)
(* What a Context promises a caller of Assert, SetInterval and CheckSat,   *)
(* with nothing of how an answer is found: no clauses learned, no LP.      *)
(*                                                                         *)
(* An answer is about the formulas and bounds given so far and stands      *)
(* until the caller changes them or asks again.  sat comes with a model,   *)
(* unsat means that there is none.  The one exception is visible: a        *)
(* context is tainted once a call has met an LP it could not solve, and    *)
(* from the next call on its unsat is worth nothing.                       *)
(***************************************************************************)

CONSTANTS
  Formulas,           \* what may be asserted
  Boxes,              \* regions that bounds may describe
  Answers,            \* models an answer may carry
  Satisfiable(_, _),  \* the assertions have a solution in the box
  IsModel(_, _, _)    \* a model delta-satisfies the assertions in the box

VARIABLES
  busy,     \* a CheckSat is running
  main,     \* clauses of the asserted formulas
  box,      \* the declared region
  answer,   \* the last answer, "none" when it no longer applies
  model,    \* what get_model returns
  tainted   \* an earlier call left an LP unsolved

cvars == <<busy, main, box, answer, model, tainted>>

Init ==
  /\ ~busy
  /\ main = {}
  /\ answer = "none"
  /\ ~tainted

(* The caller adds a formula or shrinks the region: an old answer lapses.  *)
Change ==
  /\ ~busy
  /\ \/ \E f \in Formulas : main' = main \cup f /\ UNCHANGED box
     \/ \E b \in Boxes \cup {{}} : b \subseteq box /\ box' = b /\ UNCHANGED main
     \/ UNCHANGED <<main, box>>
  /\ answer' = "none"
  /\ UNCHANGED <<busy, model, tainted>>

Ask ==
  /\ ~busy
  /\ busy' = TRUE
  /\ answer' = "none"
  /\ tainted => tainted'
  /\ UNCHANGED <<main, box, model>>

(* Whatever the answer, assertions and bounds are as they were.            *)
Reply ==
  /\ busy' = FALSE
  /\ \/ answer' = "unsat" /\ (tainted \/ ~Satisfiable(main, box))
     \/ /\ answer' = "sat"
        /\ model' \in Answers
        /\ IsModel(model', main, box)
     \/ answer' = "error" /\ UNCHANGED model
  /\ UNCHANGED <<main, box, tainted>>

Next == Change \/ Ask \/ Reply

Spec == Init /\ [][Next]_cvars
=============================================================================
