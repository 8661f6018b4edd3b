-------------------------- MODULE MCNameResolution --------------------------
(* Programs for TLC: every statement with two names, each of which may be  *)
(* a variable, a parameter and a function.                                 *)
EXTENDS NameResolution, TLC

CONSTANTS NameX, NameY, NameF

Id(n) == [kind |-> "id", name |-> n]
Call(n) == [kind |-> "call", name |-> n]
Block == [kind |-> "block"]
Lets(ns, us) == [kind : {"let"}, name : ns, use : us]
Funcs(ns, ps) == [kind : {"func"}, name : ns, param : ps]
Of(kind, us) == [kind : {kind}, use : us]

VariableNames == {NameX, NameY, NameF}
VariableSymmetry == Permutations({NameX, NameY})
InitialiserStatements == Lets({NameX, NameY}, {Literal, Id(NameX), Id(NameY)}) \cup {Block}

TwoNames == {NameX, NameF}
Uses2 == [kind : {"id", "call"}, name : TwoNames]
TwoNameStatements ==
  Lets(TwoNames, {Literal} \cup Uses2) \cup Funcs(TwoNames, {NoName} \cup TwoNames)
    \cup Of("print", Uses2) \cup Of("return", {Id(NameX), Id(NameF)}) \cup {Block}
TwoNameSymmetry == Permutations(TwoNames)
=============================================================================
