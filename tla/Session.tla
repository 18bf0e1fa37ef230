------------------------------ MODULE Session ------------------------------
(***************************************************************************)
(* One run of the program on an SMT2 file (RunSmt2, Smt2Driver and the     *)
(* actions of the grammar), or one program that uses the library.  An SMT2 *)
(* run ends at the first exception and at the first unknown name; a        *)
(* program may catch an exception and go on.                               *)
(*                                                                         *)
(* scope_ is a stack of environments: Scoped shows that the undo log of    *)
(* ScopedUnorderedMap is one.  A variable is its name, its sort and a      *)
(* number that tells variables of the same name apart.                     *)
(***************************************************************************)
EXTENDS Context, Options

CONSTANTS
  Name,        \* names in a file, or variables of a program
  Bindable,    \* bound: the names that lets and foralls bind and mention
  SortOf,      \* sort of each name: "Real", "Bool" or "Int"
  MaxVars,     \* bound: variables a file brings into being
  MaxNesting,  \* bound: open lets and foralls
  MaxBindings, \* bound: names bound in all open lets and foralls
  LetOrigins,  \* bound: origins of the precision when a let is parsed, and
               \*   when a program declares a variable
  MaxSet       \* bound: variables in the box when a program sets an option

Sort == {"Real", "Bool", "Int"}

(* A variable that is made for an if-then-else is real and has no number   *)
(* of the driver's.                                                        *)
ASSUME SessionAssumption ==
  /\ SortOf \in [Name -> Sort]
  /\ Bindable \subseteq Name
  /\ ITEVar = [name |-> ITEVar.name, sort |-> "Real", nr |-> 0]

VARIABLES
  mode,     \* start, smt2, api or ended
  envs,     \* scope_: what each name denotes, the innermost scope last
  frames,   \* the lets and foralls that are being parsed
  created   \* variables so far

svars == <<mode, envs, frames, created>>
vars  == <<cvars, ovars, svars>>

Var(n, s, k) == [name |-> n, sort |-> s, nr |-> k]

Constant   == Var("constant", "Real", 0)
Undeclared == Var("undeclared", "Real", 0)
Local      == "L"  \* the part of a unique name that no file can contain

Top       == envs[Len(envs)]
SetTop(e) == envs' = [envs EXCEPT ![Len(envs)] = e]

Commands  == mode = "smt2" /\ frames = <<>>

-----------------------------------------------------------------------------
SessionInit ==
  /\ ContextInit /\ OptionsInit
  /\ mode = "start"
  /\ envs = <<[n \in Name |-> Undeclared]>>
  /\ frames = <<>> /\ created = 0

StartMain ==
  /\ mode = "start" /\ mode' = "smt2"
  /\ \E args \in Args : ExtractOptions(args)
  /\ UNCHANGED <<cvars, envs, frames, created>>

StartProgram ==
  /\ mode = "start" /\ mode' = "api"
  /\ UNCHANGED <<cvars, ovars, envs, frames, created>>

(* What an exception does to the run.                                      *)
AfterCommand == mode' = IF mode = "smt2" /\ answer' \in {"throws", "rejected"} THEN "ended" ELSE mode

-----------------------------------------------------------------------------
(* RegisterVariable: declaring a name again hides the variable before. A   *)
(* bound that is a formula is refused before the context is asked.         *)
DeclareName(n, bounds) ==
  LET v == Var(n, SortOf[n], created + 1)
  IN  /\ Commands /\ created < MaxVars
      /\ created' = created + 1
      /\ SetTop([Top EXCEPT ![n] = v])
      /\ Declare(v, bounds) \/ (bounds = "faulty" /\ Throws)
      /\ AfterCommand
      /\ UNCHANGED <<ovars, frames>>

(* define-fun: the term has been parsed before the name is declared.       *)
DefineFun(n, m) ==
  LET v == Var(n, SortOf[n], created + 1)
      b == BoxAdd(box, v)
  IN  /\ Commands /\ created < MaxVars /\ SortOf[n] # "Int"
      /\ Top[m] # Undeclared
      /\ created' = created + 1
      /\ SetTop([Top EXCEPT ![n] = v])
      /\ AssertIn(b, [def |-> v, over |-> Top[m]], FALSE)
      /\ modelVars' = modelVars \cup {v}
      /\ AfterCommand
      /\ UNCHANGED <<stray, objective, saved, refuted, ovars, frames>>

(* Commands that a program gives as well.                                  *)
Ready == Commands \/ mode = "api"

AssertSome(ites) ==
  /\ Ready
  /\ Assert([def |-> NoVar, over |-> NoVar], ites)
  /\ AfterCommand /\ UNCHANGED <<ovars, envs, frames, created>>

AssertFalseFormula ==
  /\ Ready /\ AssertFalse
  /\ UNCHANGED <<ovars, svars>>

SetObjective ==
  /\ Ready /\ Minimize
  /\ AfterCommand /\ UNCHANGED <<ovars, envs, frames, created>>

(* The driver asks which of the two it has to call; context.h asks the     *)
(* same of a program.                                                      *)
Check ==
  /\ Ready /\ IF objective THEN CheckOpt ELSE CheckSat
  /\ AfterCommand /\ UNCHANGED <<ovars, envs, frames, created>>

PushOrPop ==
  /\ Ready
  /\ Push \/ Pop
  /\ AfterCommand /\ UNCHANGED <<ovars, envs, frames, created>>

MaySet == mode = "api" /\ Len(box.vars) <= MaxSet

(* A file, or a program that calls Context::SetOption.                     *)
SetOption(v) ==
  /\ Commands \/ MaySet
  /\ IF SettablePrecision(v) THEN SetFromFile(v) /\ Says("none")
     ELSE Says("throws") /\ UNCHANGED ovars
  /\ AfterCommand
  /\ UNCHANGED <<box, model, shared, modelVars, stray, objective, stack, saved, refuted,
                 envs, frames, created>>

(* A program has its variables, and may declare one again.                 *)
ApiDeclare(n, bounds) ==
  /\ mode = "api" /\ config.type \in LetOrigins
  /\ Declare(Var(n, SortOf[n], 0), bounds)
  /\ UNCHANGED <<ovars, svars>>

ApiSetInterval(n) ==
  /\ mode = "api" /\ SetInterval(Var(n, SortOf[n], 0))
  /\ UNCHANGED <<ovars, svars>>

(* A program has mutable_config(): it may assign an option, or give it a   *)
(* number from its own command line, at any time.                          *)
AssignOption(v) ==
  /\ MaySet /\ Says("none")
  /\ SetFromCode(v) \/ SetFromCommandLine(v)
  /\ UNCHANGED <<box, model, shared, modelVars, stray, objective, stack, saved, refuted, svars>>

-----------------------------------------------------------------------------
(***************************************************************************)
(* Scopes.  enter_scope comes before the bindings: their terms are parsed  *)
(* in the new scope while it is still like the outer one.  A binding is a  *)
(* name and what its term mentions, parsed from the name said: a constant, *)
(* or a variable that gives the term its sort.                             *)
(***************************************************************************)
Parsing  == mode = "smt2" /\ frames # <<>>
Frame    == frames[Len(frames)]
InTerm   == Commands \/ (Parsing /\ Frame.phase \in {"bindings", "body"})

Enter(kind, phase) ==
  /\ InTerm /\ Len(frames) < MaxNesting /\ config.type \in LetOrigins
  /\ envs' = Append(envs, Top)
  /\ frames' = Append(frames, [kind |-> kind, phase |-> phase,
                               list |-> <<>>, outer |-> Top, done |-> {}])
  /\ Says("none")
  /\ UNCHANGED <<mode, box, model, shared, modelVars, stray, objective, stack, saved, refuted, ovars, created>>

RoomForBinding ==
  LET bound[i \in 0 .. Len(frames)] == IF i = 0 THEN 0 ELSE bound[i - 1] + Len(frames[i].list)
  IN  bound[Len(frames)] < MaxBindings

InFrame(f) == frames' = [frames EXCEPT ![Len(frames)] = f]

(* A name that is not declared ends the parse.                             *)
ParseBinding(n, m) ==
  /\ Parsing /\ Frame.kind = "let" /\ Frame.phase = "bindings" /\ RoomForBinding
  /\ IF Top[m] = Undeclared THEN mode' = "ended" /\ UNCHANGED frames
     ELSE /\ mode' = mode
          /\ InFrame([Frame EXCEPT !.list =
               Append(@, [name |-> n, over |-> Top[m], said |-> m])])
  /\ Says("none")
  /\ UNCHANGED <<box, model, shared, modelVars, stray, objective, stack, saved, refuted, ovars, envs, created>>

(* A binding whose term is a number.                                       *)
ParseConstant(n) ==
  /\ Parsing /\ Frame.kind = "let" /\ Frame.phase = "bindings" /\ RoomForBinding
  /\ InFrame([Frame EXCEPT !.list =
       Append(@, [name |-> n, over |-> Constant, said |-> n])])
  /\ Says("none")
  /\ UNCHANGED <<box, model, shared, modelVars, stray, objective, stack, saved, refuted, ovars, mode, envs, created>>

EndBindings ==
  /\ Parsing /\ Frame.phase = "bindings"
  /\ InFrame([Frame EXCEPT !.phase = "binding"])
  /\ Says("none")
  /\ UNCHANGED <<box, model, shared, modelVars, stray, objective, stack, saved, refuted, ovars, mode, envs, created>>

(* The list of bindings is built from its end: the last binding is bound   *)
(* first.  A constant is bound as it is; any other term gets a variable    *)
(* that is not a model variable, and an assertion that defines it.         *)
Binding  == Frame.list[Len(Frame.list) - Cardinality(Frame.done)]
Position == Len(Frame.list) - Cardinality(Frame.done)

(* Fault: the bindings are bound one after the other.                      *)
MentionedNow(b) == IF b.over = Constant THEN Constant ELSE Top[b.said]

Mentioned(b) == b.over

DefineLocalConstant(n) == SetTop([Top EXCEPT ![n] = Constant])

(* The variable is in the scope under the name said, not under its own.    *)
DeclareLocal(n, local) ==
  /\ created < MaxVars /\ created' = created + 1
  /\ SetTop([Top EXCEPT ![n] = local])

Bind ==
  /\ Parsing /\ Frame.phase = "binding" /\ Cardinality(Frame.done) < Len(Frame.list)
  /\ InFrame([Frame EXCEPT !.done = @ \cup {Position}])
  /\ LET over  == Mentioned(Binding)
         local == Var(Local, over.sort, created + 1)
     IN IF over = Constant
        THEN /\ DefineLocalConstant(Binding.name)
             /\ Says("none") /\ UNCHANGED <<box, model, shared, stack, created>>
        ELSE /\ DeclareLocal(Binding.name, local)
             /\ AssertIn(BoxAdd(box, local), [def |-> local, over |-> over], FALSE)
  /\ AfterCommand
  /\ UNCHANGED <<modelVars, stray, objective, saved, refuted, ovars>>

EndBind ==
  /\ Parsing /\ Frame.phase = "binding" /\ Cardinality(Frame.done) = Len(Frame.list)
  /\ InFrame([Frame EXCEPT !.phase = "body"])
  /\ Says("none")
  /\ UNCHANGED <<box, model, shared, modelVars, stray, objective, stack, saved, refuted, ovars, mode, envs, created>>

(* A quantified variable is registered, not declared.                      *)
RegisterQuantified(n) ==
  /\ Parsing /\ Frame.kind = "forall" /\ RoomForBinding
  /\ created < MaxVars /\ created' = created + 1
  /\ LET v == Var(n, SortOf[n], created + 1)
     IN  /\ SetTop([Top EXCEPT ![n] = v])
         /\ InFrame([Frame EXCEPT !.list =
              Append(@, [name |-> n, over |-> v, said |-> n])])
  /\ Says("none")
  /\ UNCHANGED <<box, model, shared, modelVars, stray, objective, stack, saved, refuted, ovars, mode>>

ExitScope ==
  /\ Parsing /\ Frame.phase = "body"
  /\ envs' = SubSeq(envs, 1, Len(envs) - 1)
  /\ frames' = SubSeq(frames, 1, Len(frames) - 1)
  /\ Says("none")
  /\ UNCHANGED <<mode, box, model, shared, modelVars, stray, objective, stack, saved, refuted, ovars, created>>

-----------------------------------------------------------------------------
Next ==
  \/ StartMain \/ StartProgram
  \/ \E n \in Name, bounds \in Bounds : DeclareName(n, bounds) \/ ApiDeclare(n, bounds)
  \/ \E n, m \in Name : DefineFun(n, m)
  \/ \E n \in Name : ApiSetInterval(n)
  \/ \E ites \in BOOLEAN : AssertSome(ites)
  \/ AssertFalseFormula
  \/ SetObjective
  \/ Check
  \/ PushOrPop
  \/ \E v \in Precision : SetOption(v) \/ AssignOption(v)
  \/ Enter("let", "bindings") \/ Enter("forall", "body")
  \/ \E n, m \in Bindable : ParseBinding(n, m)
  \/ \E n \in Bindable : ParseConstant(n) \/ RegisterQuantified(n)
  \/ EndBindings \/ Bind \/ EndBind \/ ExitScope

Spec == SessionInit /\ [][Next]_vars

-----------------------------------------------------------------------------
(* What a name means in the body of a let: the first binding of it.        *)
Bound(f)     == {f.list[i].name : i \in DOMAIN f.list}
FirstOf(f, n) == f.list[CHOOSE i \in DOMAIN f.list :
                          f.list[i].name = n /\ \A j \in 1 .. i - 1 : f.list[j].name # n]

Defines(v, m) == [def |-> v, over |-> m] \in stack \/ refuted # "no"

(* Lets bind simultaneously and lexically.  However deep the nesting, an   *)
(* inner scope leaves the outer ones as they are; in a body a name that    *)
(* the let does not bind means what it means outside, and one that it      *)
(* binds is a constant, or a variable of its own that is defined by what   *)
(* its term mentions outside, unless the definition is not needed because  *)
(* false was asserted.                                                     *)
LexicalScoping ==
  mode = "smt2" =>
    /\ Len(envs) = Len(frames) + 1
    /\ \A i \in DOMAIN frames : envs[i] = frames[i].outer
    /\ frames # <<>> => \A n \in Name :
         CASE Frame.phase = "bindings" \/ n \notin Bound(Frame) -> Top[n] = Frame.outer[n]
           [] Frame.phase = "body" /\ Frame.kind = "forall" /\ n \in Bound(Frame) ->
                Top[n].name = n /\ ~Has(box, Top[n])
           [] Frame.phase = "body" /\ Frame.kind = "let" /\ n \in Bound(Frame) ->
                LET b == FirstOf(Frame, n)
                    m == IF b.over = Constant THEN Constant ELSE Frame.outer[b.said]
                IN  IF m = Constant THEN Top[n] = Constant
                    ELSE Top[n].name = Local /\ Top[n].sort = m.sort /\ Defines(Top[n], m)
           [] OTHER -> TRUE

(* Asserting false, once something is declared, is for good: whatever is   *)
(* declared, defined or asserted later, no check of the file answers sat.  *)
FalseIsFinal == mode = "smt2" /\ refuted = "late" => answer # "sat"

(* The same when false comes before any declaration.  Checks of a context  *)
(* are about the asserted formulas, says context.h.                        *)
FalseIsKept == mode = "smt2" /\ refuted # "no" => answer # "sat"

(* An optimization is over the asserted formulas as well, says context.h.  *)
(* It is not (README): false is nowhere but in the context's box.          *)
FalseIsInfeasible == mode = "smt2" /\ refuted # "no" => answer # "optimal"

-----------------------------------------------------------------------------
(* The inductive invariant behind the theorems of SessionProofs.           *)
Variable ==
  [name : Name \cup {Local, Constant.name, Undeclared.name, ITEVar.name},
   sort : Sort, nr : Nat]

LetBinding == [name : Name, over : Variable, said : Name]

SessionTypeOK ==
  /\ {box, model, found} \subseteq Boxes(Variable) /\ shared \in BOOLEAN
  /\ modelVars \subseteq Variable /\ stray \subseteq Variable
  /\ refuted \in {"no", "early", "late"}
  /\ mode \in {"start", "smt2", "api", "ended"} /\ created \in Nat
  /\ envs \in Seq([Name -> Variable]) /\ envs # <<>>
  /\ frames \in Seq([kind : {"let", "forall"}, phase : {"bindings", "binding", "body"},
                     list : Seq(LetBinding), outer : [Name -> Variable],
                     done : SUBSET Nat])

(* A file never opens a scope of the context, gives every variable a       *)
(* number of its own, and once false is asserted the box stays empty, even *)
(* when variables are added to it.                                         *)
FileOK ==
  /\ saved = <<>>
  /\ IsEmpty(box) => refuted # "no"
  /\ mode \in {"start", "smt2"} =>
       /\ \A i \in DOMAIN box.vars : box.vars[i].nr <= created
       /\ refuted = "late" => box.vars # <<>> /\ IsEmpty(box) /\ answer # "sat"
       /\ stray = {}

(***************************************************************************)
(* The scopes F and their environments E, when the stack is S, refuted is  *)
(* r, the variables so far are c and the box is b: the state is an         *)
(* argument so that a proof can name the one before and the one after a    *)
(* step.                                                                   *)
(***************************************************************************)

(* What v, that a binding has put in the place of a name, has to be when   *)
(* the binding's term mentions m.                                          *)
BoundTo(v, m, S, r) ==
  IF m = Constant THEN v = Constant
  ELSE /\ v.name = Local /\ v.sort = m.sort
       /\ [def |-> v, over |-> m] \in S \/ r # "no"

(* A frame and the environment of its scope, whatever is nested inside:    *)
(* done holds the last bindings of the list, the first of them for a name  *)
(* says what the name means, and any other name means what it did outside. *)
LetOK(f, env, S, r) ==
  /\ \E p \in 0 .. Len(f.list) : f.done = p + 1 .. Len(f.list)
  /\ f.phase = "bindings" => f.done = {}
  /\ f.phase = "body" => f.done = 1 .. Len(f.list)
  /\ \A i \in DOMAIN f.list : f.list[i].over \in {Constant, f.outer[f.list[i].said]}
  /\ \A i \in f.done :
       (\A j \in f.done : j < i => f.list[j].name # f.list[i].name)
         => BoundTo(env[f.list[i].name], f.list[i].over, S, r)
  /\ \A n \in Name : (\A i \in f.done : f.list[i].name # n) => env[n] = f.outer[n]

ForallOK(f, env, c, b) ==
  /\ f.phase = "body"
  /\ \A n \in Name :
       IF n \in Bound(f)
       THEN env[n].name = n /\ env[n].nr \in 1 .. c /\ ~Has(b, env[n])
       ELSE env[n] = f.outer[n]

Nested(F, E, S, r, c, b) ==
  /\ Len(E) = Len(F) + 1
  /\ \A i \in DOMAIN F :
       /\ E[i] = F[i].outer
       /\ F[i].kind = "let"    => LetOK(F[i], E[i + 1], S, r)
       /\ F[i].kind = "forall" => ForallOK(F[i], E[i + 1], c, b)

ScopesNest ==
  mode \in {"start", "smt2"} => Nested(frames, envs, stack, refuted, created, box)

OptionOK == config.type \in Type /\ given \in [Type -> Int] /\ Precedence

SessionIInv ==
  SessionTypeOK /\ ContextOK /\ ModelComplete /\ FileOK /\ ScopesNest /\ OptionOK
=============================================================================
