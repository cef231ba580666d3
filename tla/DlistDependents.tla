---------------------------- MODULE DlistDependents ----------------------------
(***************************************************************************)
(* dlist_append_dependents as the code computes it, a depth-first walk     *)
(* that carries its result along, compared with Reachable.                 *)
(***************************************************************************)
EXTENDS DlistEval, SequencesExt

\* dlist_search: the items of all lists that provide something that i requires.
Providers(i) ==
  {j \in Item : ditem[j].provides \cap ditem[i].requires # {}}

ByNumber(S) == SetToSortSeq(S, <)

RECURSIVE dlist_append_dependents(_, _)

\* Mutant: only the first provider is followed.
AppendFirstProvider(result, i) ==
  IF Contains(result, i) THEN result
  ELSE FoldLeft(dlist_append_dependents, Append(result, i),
                ByNumber({j \in Providers(i) : \A k \in Providers(i) : j <= k}))

dlist_append_dependents(result, i) ==
  IF Contains(result, i) THEN result
  ELSE FoldLeft(dlist_append_dependents, Append(result, i), ByNumber(Providers(i)))

\* The walk ends in circles too; it finds exactly what the item depends on,
\* each item once, the item first; and a walk that goes on from the result of
\* another one (as eval_variants does) finds the union.
DependentsAreReachable ==
  pc = "test" =>
    \A i, j \in Item :
      LET one == dlist_append_dependents(<<>>, i)
          two == dlist_append_dependents(one, j) IN
      /\ Head(one) = i
      /\ ToSet(two) = Reachable(i) \cup Reachable(j)
      /\ Len(two) = Cardinality(ToSet(two))
      /\ IsPrefix(one, two)
===============================================================================
