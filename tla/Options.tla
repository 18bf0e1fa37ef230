------------------------------- MODULE Options -------------------------------
(***************************************************************************)
(* An option of a context, an OptionValue, and the three ways to set it:   *)
(* the command line (MainProgram), a set-option of the SMT2 file           *)
(* (Context::SetOption) and a program that uses the library                *)
(* (OptionValue::operator=).  The option is the precision, the one with a  *)
(* check in each way; the others go through the same OptionValue.          *)
(*                                                                         *)
(* nextafter(d, -infinity) is Pred(d).  The default is the number below    *)
(* DefaultPrecision, as kDefaultPrecision is the number below 0.001.       *)
(***************************************************************************)
EXTENDS Integers

CONSTANTS
  Precision,        \* precisions a user may write
  DefaultPrecision  \* the documented default

ASSUME PrecisionAssumption ==
  DefaultPrecision \in Nat \ {0} /\ Precision \subseteq Nat

VARIABLES
  config,  \* the option: its value and the type of what has set it
  given    \* history: for each type, the value given last, or Unset

ovars == <<config, given>>

Type    == {"DEFAULT", "FROM_FILE", "FROM_COMMAND_LINE", "FROM_CODE"}
Unset   == -1
Pred(d) == d - 1

OptionsInit ==
  /\ config = [value |-> Pred(DefaultPrecision), type |-> "DEFAULT"]
  /\ given = [t \in Type |-> IF t = "DEFAULT" THEN Pred(DefaultPrecision) ELSE Unset]

SetFromCommandLine(v) ==
  /\ config' = IF config.type # "FROM_CODE"
               THEN [value |-> v, type |-> "FROM_COMMAND_LINE"] ELSE config
  /\ given' = [given EXCEPT !["FROM_COMMAND_LINE"] = v]

(* Fault: only what code has set is protected.                             *)
SetFromFileUnlessCode(v) ==
  /\ config' = IF config.type # "FROM_CODE" THEN [value |-> v, type |-> "FROM_FILE"] ELSE config
  /\ given' = [given EXCEPT !["FROM_FILE"] = v]

SetFromFile(v) ==
  /\ config' = IF config.type \in {"DEFAULT", "FROM_FILE"}
               THEN [value |-> v, type |-> "FROM_FILE"] ELSE config
  /\ given' = [given EXCEPT !["FROM_FILE"] = v]

SetFromCode(v) ==
  /\ config' = [value |-> v, type |-> "FROM_CODE"]
  /\ given' = [given EXCEPT !["FROM_CODE"] = v]

(***************************************************************************)
(* The command line: the number after --precision, or Unset, and whether   *)
(* there is --exhaustive.  ValidateOptions refuses zero, ExtractOptions    *)
(* both together.                                                          *)
(***************************************************************************)
Args == {a \in [precision : Precision \cup {Unset}, exhaustive : BOOLEAN] :
           /\ a.precision # 0
           /\ ~(a.precision # Unset /\ a.exhaustive)}

ExtractOptions(args) ==
  CASE args.exhaustive                         -> SetFromCommandLine(0)
    [] args.precision # Unset                  -> SetFromCommandLine(Pred(args.precision))
    [] args.precision = Unset /\ ~args.exhaustive -> UNCHANGED ovars

(* :precision in a file; false when it throws, before anything is set.     *)
SettablePrecision(v) == v > 0

-----------------------------------------------------------------------------
Rank == [DEFAULT |-> 0, FROM_FILE |-> 1, FROM_COMMAND_LINE |-> 2, FROM_CODE |-> 3]

(* In whatever order they arrive, the option has the value that the        *)
(* strongest of those who set it has given last.                           *)
Precedence ==
  \E t \in Type :
    /\ given[t] # Unset
    /\ \A u \in Type : given[u] # Unset => Rank[u] <= Rank[t]
    /\ config = [value |-> given[t], type |-> t]
=============================================================================
