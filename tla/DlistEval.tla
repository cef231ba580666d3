------------------------------- MODULE DlistEval -------------------------------
(***************************************************************************)
(* The dependency list engine (macports_dlist.tcl). dlist_eval calls a     *)
(* handler on the items of a list, each after what it requires: mportexec  *)
(* installs the ports that a port depends on, eval_targets runs the        *)
(* targets of a port, eval_variants the variants.                          *)
(*                                                                         *)
(* The tokens of the status dictionary with the value 1 are the set met:   *)
(* dlist_count_unmet does not tell a token that failed from one that is    *)
(* unknown.                                                                *)
(***************************************************************************)
EXTENDS Naturals, FiniteSets

CONSTANTS
  N,       \* number of items; a list has its items in the order of their numbers
  Token,   \* what items provide, require and use: names of ports, targets, variants
  Graphs,  \* the items that there may be
  NoItem   \* no item

Item == 1..N

Ditem == [provides : SUBSET Token, requires : SUBSET Token, uses : SUBSET Token]

ASSUME DlistAssumption ==
  /\ N \in Nat
  /\ IsFiniteSet(Token)
  /\ Graphs \subseteq [Item -> Ditem]
  /\ NoItem \notin Item

VARIABLES
  ditem,    \* the items' keys; they do not change while a list is evaluated
  canfail,  \* the argument canfail
  given,    \* the list that the caller passed
  dlist,    \* the items that are left of it
  met,      \* the tokens whose status is 1
  running,  \* the item that the handler is called on
  outcome,  \* what came of each item
  pc        \* "test" before the loop, "loop" in it, "done" after it

vars == <<ditem, canfail, given, dlist, met, running, outcome, pc>>

\* What an item depends on: dlist_append_dependents follows requires.
Closed(S) ==
  \A i \in S : \A j \in Item : ditem[j].provides \cap ditem[i].requires # {} => j \in S

Reachable(i) ==
  {j \in Item : \A S \in SUBSET Item : i \in S /\ Closed(S) => j \in S}

\* eval_targets passes a target with everything it requires, or all targets,
\* eval_variants the chosen variants with theirs; mportexec leaves out the port
\* itself.
Lists ==
  {UNION {Reachable(i) : i \in S} : S \in SUBSET Item}
    \cup {Reachable(i) \ {i} : i \in Item}

Init ==
  /\ ditem \in Graphs
  /\ canfail \in BOOLEAN
  /\ given \in Lists
  /\ dlist = given
  /\ met = {}
  /\ running = NoItem
  /\ outcome = [i \in Item |-> "none"]
  /\ pc = "test"

-------------------------------------------------------------------------------
(* dlist_get_next *)

Provides(S) == UNION {ditem[i].provides : i \in S}

\* dlist_count_unmet
Unmet(tokens) == Cardinality(tokens \ met)

\* dlist_has_pending: some item of the list provides one of the tokens.
HasPending(tokens) == Provides(dlist) \cap tokens # {}

Delayed(i) == Unmet(ditem[i].uses) > 0 /\ HasPending(ditem[i].uses)

\* Mutant: soft dependencies are not waited for.
EligibleAtOnce(i) == ditem[i].requires \subseteq met

Eligible(i) == ditem[i].requires \subseteq met /\ ~Delayed(i)

\* The first of the eligible items with the fewest unmet soft dependencies.
IsNext(i) ==
  /\ i \in dlist /\ Eligible(i)
  /\ \A j \in dlist \ {i} :
       Eligible(j) =>
         \/ Unmet(ditem[i].uses) < Unmet(ditem[j].uses)
         \/ Unmet(ditem[i].uses) = Unmet(ditem[j].uses) /\ i < j

-------------------------------------------------------------------------------
(* dlist_eval *)

constant == <<ditem, canfail, given>>

\* Mutant: what needs no handler is deleted, but not called met.
PreRunForgets(S) ==
  /\ pc = "test"
  /\ UNCHANGED met
  /\ dlist' = dlist \ S
  /\ outcome' = [i \in Item |-> IF i \in S THEN "met" ELSE outcome[i]]
  /\ pc' = "loop"
  /\ UNCHANGED <<constant, running>>

\* The loop over testcond: S are the items for which it returns 1. Without a
\* testcond there are none.
PreRun(S) ==
  /\ pc = "test"
  /\ met' = Provides(S)
  /\ dlist' = dlist \ S
  /\ outcome' = [i \in Item |-> IF i \in S THEN "met" ELSE outcome[i]]
  /\ pc' = "loop"
  /\ UNCHANGED <<constant, running>>

\* The handler of the next item is called.
Call(i) ==
  /\ pc = "loop" /\ running = NoItem
  /\ IsNext(i)
  /\ running' = i
  /\ UNCHANGED <<constant, dlist, met, outcome, pc>>

Ends(i, result) ==
  /\ running = i
  /\ outcome' = [outcome EXCEPT ![i] = result]
  /\ running' = NoItem
  /\ UNCHANGED constant

\* Mutant: the item stays in the list.
SucceedsAndStays(i) ==
  /\ Ends(i, "ok")
  /\ met' = met \cup ditem[i].provides
  /\ UNCHANGED <<dlist, pc>>

Succeeds(i) ==
  /\ Ends(i, "ok")
  /\ met' = met \cup ditem[i].provides
  /\ dlist' = dlist \ {i}
  /\ UNCHANGED pc

\* Mutants: the token is there although its item failed; the item that failed
\* is deleted before the list is returned.
FailsAndProvides(i) ==
  /\ Ends(i, "failed")
  /\ met' = met \cup ditem[i].provides
  /\ IF canfail THEN dlist' = dlist \ {i} /\ UNCHANGED pc
     ELSE pc' = "done" /\ UNCHANGED dlist

FailsAndDeletes(i) ==
  /\ Ends(i, "failed")
  /\ met' = met \ ditem[i].provides
  /\ dlist' = dlist \ {i}
  /\ pc' = IF canfail THEN pc ELSE "done"

\* A status other than 0. Without canfail the rest of the list is returned, the
\* item that failed included.
Fails(i) ==
  /\ Ends(i, "failed")
  /\ met' = met \ ditem[i].provides
  /\ IF canfail THEN dlist' = dlist \ {i} /\ UNCHANGED pc
     ELSE pc' = "done" /\ UNCHANGED dlist

\* The handler throws an error: the list is returned, whatever canfail says.
Throws(i) ==
  /\ Ends(i, "threw")
  /\ pc' = "done"
  /\ UNCHANGED <<dlist, met>>

\* Nothing is left, or nothing is eligible.
Stop ==
  /\ pc = "loop" /\ running = NoItem
  /\ \A i \in dlist : ~Eligible(i)
  /\ pc' = "done"
  /\ UNCHANGED <<constant, dlist, met, running, outcome>>

Next ==
  \/ \E S \in SUBSET dlist : PreRun(S)
  \/ \E i \in Item : Call(i) \/ Succeeds(i) \/ Fails(i) \/ Throws(i)
  \/ Stop

Spec == Init /\ [][Next]_vars

\* Every handler returns or throws.
FairSpec == Spec /\ WF_vars(Next)

-------------------------------------------------------------------------------
(* Properties *)

\* The items' keys and the caller's list are what they were given as, and a
\* handler runs only in the loop, on an item that is still in the list.
TypeOK ==
  /\ ditem \in [Item -> Ditem]
  /\ canfail \in BOOLEAN
  /\ given \subseteq Item
  /\ dlist \subseteq given
  /\ met \subseteq Token
  /\ running \in dlist \cup {NoItem}
  /\ running # NoItem => pc = "loop" /\ outcome[running] = "none"
  /\ outcome \in [Item -> {"none", "met", "ok", "failed", "threw"}]
  /\ pc \in {"test", "loop", "done"}

Good(i) == outcome[i] \in {"met", "ok"}
Ran(i) == outcome[i] \in {"ok", "failed", "threw"} \/ running = i

\* A handler is called on an item only after, for each token that it requires,
\* some item that provides the token was found good or its handler succeeded:
\* no port is built before its dependencies are active, no target is run before
\* the targets below it.
RunsAfterRequired ==
  \A i \in Item : Ran(i) =>
    \A t \in ditem[i].requires : \E j \in Item : Good(j) /\ t \in ditem[j].provides

\* An item is not run ahead of one that provides something it uses, unless
\* another item has already provided that.
RunsAfterUsed ==
  \A i \in Item : Ran(i) =>
    \A j \in dlist \ {i} : \A t \in ditem[i].uses \cap ditem[j].provides :
      \E k \in Item : Good(k) /\ t \in ditem[k].provides

\* The list that is returned tells what was not done, so that its caller may
\* take an empty list for success: everything that is not in it succeeded, or
\* was allowed to fail.
ReturnsTheRest ==
  pc = "done" =>
    /\ \A i \in given \ dlist : Good(i) \/ (canfail /\ outcome[i] = "failed")
    /\ \A i \in dlist : ~Good(i) /\ (outcome[i] = "failed" => ~canfail)

\* Every set of items of the list has one that neither requires nor uses
\* anything of the set, and what the list requires is in it.
WellFounded ==
  /\ \A S \in (SUBSET given) \ {{}} : \E i \in S :
       (ditem[i].requires \cup ditem[i].uses) \cap Provides(S) = {}
  /\ \A i \in given : ditem[i].requires \subseteq Provides(given)

\* Without circles, in hard and soft dependencies together, and without
\* failures, the whole list is evaluated.
WellFoundedListsFinish ==
  pc = "done" /\ WellFounded /\ (\A i \in given : outcome[i] \notin {"failed", "threw"})
    => dlist = {}

\* dlist_eval returns: every turn of its loop takes an item off the list.
Returns == <>(pc = "done")
===============================================================================
