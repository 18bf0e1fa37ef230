----------------------------- MODULE MCSession -----------------------------
(***************************************************************************)
(* A real and a Boolean name and an integer one, which the box refuses.    *)
(***************************************************************************)
EXTENDS Session
MCSortOf == [n \in Name |-> CASE n = "x" -> "Real" [] n = "b" -> "Bool" [] n = "n" -> "Int"]
MCNoVar  == Var("none", "Real", 0)
MCITEVar == Var("ITE", "Real", 0)
=============================================================================
