------------------------------ MODULE MCDlistEval ------------------------------
(***************************************************************************)
(* All lists of three items over three tokens, with hard and soft          *)
(* dependencies, circles included, in which each item provides a token of  *)
(* its own, or two items provide the same one and one token is missing.    *)
(***************************************************************************)
EXTENDS DlistDependents

CONSTANTS a, b, c

Tokens == {a, b, c}

Provided == {<<a, b, c>>, <<a, a, b>>}

\* Nothing requires or uses what it provides.
OfOthers(p) == {r \in [Item -> SUBSET Token] : \A i \in Item : p[i] \notin r[i]}

GraphsOf(p) ==
  {[i \in Item |-> [provides |-> {p[i]}, requires |-> r[i], uses |-> u[i]]] :
     r, u \in OfOthers(p)}

AllGraphs == UNION {GraphsOf(p) : p \in Provided}
===============================================================================
