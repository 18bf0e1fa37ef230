------------------------------ MODULE MCScoped ------------------------------
(***************************************************************************)
(* Two keys and two values, up to four modifications and four open scopes: *)
(* overwritten in the scope that inserted it, in an inner one, and twice   *)
(* in one scope.                                                           *)
(***************************************************************************)
EXTENDS Scoped
=============================================================================
