---------------------------- MODULE MCCnfPipeline ----------------------------
(* Small formulas over a number x and a Boolean p, quantified ones over y. *)
EXTENDS CnfPipeline

x == <<"x">>
y == <<"y">>
p == <<"p">>

MCValuesOf(v) ==
  CASE v = y             -> 0 .. 1
    [] v[1] = "ITE"      -> 0 .. 2
    [] OTHER             -> BOOLEAN
MCSampleOf(v) == IF v = x THEN 0 .. 2 ELSE BOOLEAN

X == Var(x)
Y == Var(y)

(* Literals and relations, each operator; if-then-else, also nested and    *)
(* in a condition; quantified formulas, one with if-then-else in it.       *)
MCIte   == Ite(Bool(p), X, Num(1))
MCAtoms ==
  {Bool(p)} \cup {Rel(op, X, Num(1)) : op \in {"=", "!=", "<", "<=", ">", ">="}}
MCIteAtoms ==
  { Rel("=", MCIte, Num(2)),
    Rel("<", Plus(MCIte, X), Num(2)),
    Rel(">", Ite(Rel("<", X, Num(1)), Num(2), Ite(Bool(p), X, Num(0))), Num(1)),
    Rel("=", Ite(Rel(">", MCIte, Num(1)), Num(0), X), Num(0)) }
MCForalls ==
  { Forall({y}, Or({Rel("<=", Y, X), Bool(p)})),
    Forall({y}, And({Neg(Rel("=", Y, X)), Bool(p)})),
    Forall({y}, Neg(And({Rel(">", Ite(Bool(p), Y, Num(0)), X), Rel("<", X, Num(2))}))) }

(* Quantified formulas of which one clause, or none, has the variable.     *)
MCHalfQuantified ==
  { Forall({y}, And({Or({Bool(p), Rel("<", X, Num(1))}), Rel(">=", Y, X)})),
    Forall({y}, Or({Bool(p), Rel("<", X, Num(1))})),
    Forall({y}, Rel("<", X, Num(1))) }

MCBase  == MCAtoms \cup MCIteAtoms \cup MCForalls
MCSmall == {Bool(p), Rel("<", X, Num(1)), Rel("=", X, Num(1)), Rel(">", MCIte, Num(1)),
            CHOOSE f \in MCForalls : TRUE}

MCSigned(S) == S \cup {Neg(f) : f \in S}
MCPairs(S)  == {And({f, g}) : f, g \in S} \cup {Or({f, g}) : f, g \in S}

MCPool ==
  MCSigned(MCPairs(MCBase))
  \cup MCSigned(MCPairs(MCSigned(MCSmall)))
  \cup {Or({Bool(p), Neg(Or({Neg(Or({f, g})), Neg(h)}))}) : f, g \in MCAtoms, h \in MCSmall}
  \cup {And({Rel(">", X, Num(0)), Or({f, Neg(And({f, g}))})}) : f, g \in MCSmall}
  \cup MCSigned(MCHalfQuantified)
  \cup MCSigned({And({f, g}) : f \in MCSmall, g \in MCHalfQuantified})
  \cup {Or({f, And({g, h})}) : f, g \in MCSmall, h \in MCSigned(MCHalfQuantified)}
  \cup {Or({f, g}) : f \in MCSmall, g \in MCSigned(MCHalfQuantified)}
MCLater == MCSigned(MCSmall)
=============================================================================
