---------------------------- MODULE DlistEvalProofs ----------------------------
(***************************************************************************)
(* Proofs about dlist_eval for lists of any length, any dependencies among *)
(* their items, circles included, and handlers that fail and throw.        *)
(***************************************************************************)
EXTENDS DlistEval, FiniteSetTheorems, TLAPS

-------------------------------------------------------------------------------
(* The invariant *)

\* Items leave the list when they are good, or failed and may fail.
Accounted ==
  /\ \A i \in given \ dlist : Good(i) \/ (canfail /\ outcome[i] = "failed")
  /\ \A i \in dlist : ~Good(i) /\ (outcome[i] = "failed" => ~canfail)
  /\ \A i \in Item \ given : outcome[i] = "none"

\* Nothing has happened before the loop, and in it nothing has stopped it.
Going ==
  /\ pc = "test" => met = {} /\ \A i \in Item : outcome[i] = "none"
  /\ pc # "done" => \A i \in dlist : outcome[i] = "none"
  /\ pc = "done" => running = NoItem

\* A token is met because a good item provides it.
MetByGood == \A t \in met : \E j \in Item : Good(j) /\ t \in ditem[j].provides

NoFailure == \A i \in given : outcome[i] \notin {"failed", "threw"}

\* As long as nothing fails, what good items provide is met.
GoodMeets == NoFailure => \A j \in Item : Good(j) => ditem[j].provides \subseteq met

\* Without failures, the loop ends only when nothing is eligible.
StopsWhenStuck == pc = "done" /\ NoFailure => \A i \in dlist : ~Eligible(i)

DInv ==
  /\ TypeOK /\ Accounted /\ Going /\ MetByGood /\ GoodMeets /\ StopsWhenStuck
  /\ RunsAfterRequired /\ RunsAfterUsed

-------------------------------------------------------------------------------
(* Steps *)

\* Every list of the callers is one of items, and nothing has been run yet.
LEMMA InitDInv == Init => DInv
  <1> SUFFICES ASSUME Init PROVE DInv
    OBVIOUS
  <1>1. given \subseteq Item
    BY DEF Init, Lists, Reachable
  <1>2. TypeOK
    BY <1>1, DlistAssumption DEF Init, TypeOK
  <1>3. \A i \in Item : ~Good(i) /\ ~Ran(i)
    BY DlistAssumption DEF Init, Good, Ran
  <1>4. Accounted /\ Going
    BY <1>1, <1>3 DEF Init, Accounted, Going
  <1>5. MetByGood /\ GoodMeets /\ StopsWhenStuck
    BY <1>3 DEF Init, MetByGood, GoodMeets, StopsWhenStuck
  <1>6. RunsAfterRequired /\ RunsAfterUsed
    BY <1>3 DEF RunsAfterRequired, RunsAfterUsed
  <1> QED BY <1>2, <1>4, <1>5, <1>6 DEF DInv

\* What is good already is met, and nothing has run before.
LEMMA PreRunDInv ==
  ASSUME DInv, NEW S \in SUBSET dlist, PreRun(S)
  PROVE  DInv'
  <1>1. /\ pc = "test" /\ pc' = "loop" /\ running' = running /\ running = NoItem
        /\ met' = Provides(S) /\ dlist' = dlist \ S
        /\ outcome' = [i \in Item |-> IF i \in S THEN "met" ELSE outcome[i]]
        /\ ditem' = ditem /\ canfail' = canfail /\ given' = given
        /\ \A i \in Item : outcome[i] = "none"
        /\ S \subseteq Item
        /\ NoItem \notin Item
    BY DlistAssumption DEF PreRun, constant, DInv, Going, TypeOK
  <1>2. \A i \in Item : outcome'[i] = IF i \in S THEN "met" ELSE "none"
    BY <1>1
  <1>3. met' \subseteq Token
    BY <1>1 DEF Provides, DInv, TypeOK, Ditem
  <1>4. TypeOK'
    BY <1>1, <1>2, <1>3 DEF DInv, TypeOK
  <1>5. \A i \in Item : (Good(i)' <=> i \in S) /\ ~Ran(i)'
    BY <1>1, <1>2 DEF Good, Ran
  <1>6. \A i \in given \ dlist : FALSE
    BY <1>1 DEF DInv, Accounted, Good, TypeOK
  <1>7. Accounted' /\ Going'
    BY <1>1, <1>2, <1>5, <1>6 DEF DInv, Accounted, Going, TypeOK
  <1>8. MetByGood' /\ GoodMeets'
    BY <1>1, <1>5 DEF MetByGood, GoodMeets, Provides
  <1>9. StopsWhenStuck' /\ RunsAfterRequired' /\ RunsAfterUsed'
    BY <1>1, <1>5 DEF StopsWhenStuck, RunsAfterRequired, RunsAfterUsed
  <1> QED BY <1>4, <1>7, <1>8, <1>9 DEF DInv

\* Tokens of which none is unmet are met.
LEMMA NoneUnmet ==
  ASSUME TypeOK, NEW i \in Item, ~(Unmet(ditem[i].uses) > 0)
  PROVE  ditem[i].uses \subseteq met
  <1> DEFINE U == ditem[i].uses \ met
  <1>1. U \subseteq Token
    BY DEF TypeOK, Ditem
  <1>2. IsFiniteSet(U)
    BY <1>1, DlistAssumption, FS_Subset
  <1>3. Cardinality(U) \in Nat /\ ~(Cardinality(U) > 0)
    BY <1>2, FS_CardinalityType DEF Unmet
  <1>4. U = {}
    BY <1>2, <1>3, FS_EmptySet
  <1> QED BY <1>4

\* An item is called when everything that it requires is met, and when what it
\* uses is met or can no longer be.
LEMMA CallDInv ==
  ASSUME DInv, NEW i \in Item, Call(i)
  PROVE  DInv'
  <1>1. /\ pc = "loop" /\ running = NoItem /\ running' = i
        /\ i \in dlist /\ Eligible(i)
        /\ UNCHANGED <<ditem, canfail, given, dlist, met, outcome, pc>>
    BY DEF Call, IsNext, constant
  <1>2. outcome[i] = "none"
    BY <1>1 DEF DInv, Going
  <1>3. TypeOK'
    BY <1>1, <1>2 DEF DInv, TypeOK
  <1>4. \A j \in Item : (Good(j)' <=> Good(j)) /\ (Ran(j)' => Ran(j) \/ j = i)
    BY <1>1 DEF Good, Ran
  <1>5. \A t \in ditem[i].requires : \E j \in Item : Good(j) /\ t \in ditem[j].provides
    BY <1>1 DEF Eligible, DInv, MetByGood
  <1>6. RunsAfterRequired'
    BY <1>1, <1>4, <1>5 DEF DInv, RunsAfterRequired
  <1>7. ASSUME NEW j \in dlist \ {i}, NEW t \in ditem[i].uses \cap ditem[j].provides
        PROVE  \E k \in Item : Good(k) /\ t \in ditem[k].provides
    <2>1. HasPending(ditem[i].uses)
      BY <1>7 DEF HasPending, Provides
    <2>2. ditem[i].uses \subseteq met
      BY <1>1, <2>1, NoneUnmet DEF DInv, Eligible, Delayed
    <2> QED BY <1>7, <2>2 DEF DInv, MetByGood
  <1>8. RunsAfterUsed'
    BY <1>1, <1>4, <1>7 DEF DInv, RunsAfterUsed
  <1>9. Accounted'
    BY <1>1, <1>4 DEF DInv, TypeOK, Accounted
  <1>10. Going'
    BY <1>1 DEF DInv, Going
  <1>11. MetByGood' /\ GoodMeets' /\ StopsWhenStuck'
    BY <1>1, <1>4 DEF DInv, MetByGood, GoodMeets, StopsWhenStuck, NoFailure
  <1> QED BY <1>3, <1>6, <1>8, <1>9, <1>10, <1>11 DEF DInv

\* However a handler ends, its item had been run, and only its outcome changes.
LEMMA EndsKeeps ==
  ASSUME DInv, NEW i \in Item, NEW result \in {"ok", "failed", "threw"}, Ends(i, result)
  PROVE  /\ running = i /\ running' = NoItem /\ pc = "loop"
         /\ i \in dlist /\ i \in given /\ outcome[i] = "none"
         /\ \A j \in Item : outcome'[j] = IF j = i THEN result ELSE outcome[j]
         /\ outcome' \in [Item -> {"none", "met", "ok", "failed", "threw"}]
         /\ ditem' = ditem /\ canfail' = canfail /\ given' = given
         /\ \A j \in Item : (Good(j) => Good(j)') /\ (Ran(j)' => Ran(j))
         /\ NoFailure' => NoFailure
  <1>1. /\ running = i /\ running' = NoItem
        /\ outcome' = [outcome EXCEPT ![i] = result]
        /\ ditem' = ditem /\ canfail' = canfail /\ given' = given
    BY DEF Ends, constant
  <1>2. i \in dlist /\ i \in given /\ outcome[i] = "none" /\ pc = "loop"
    BY <1>1, DlistAssumption DEF DInv, TypeOK
  <1>3. /\ \A j \in Item : outcome'[j] = IF j = i THEN result ELSE outcome[j]
        /\ outcome' \in [Item -> {"none", "met", "ok", "failed", "threw"}]
    BY <1>1 DEF DInv, TypeOK
  <1>4. \A j \in Item : (Good(j) => Good(j)') /\ (Ran(j)' => Ran(j))
    BY <1>1, <1>2, <1>3, DlistAssumption DEF Good, Ran
  <1>5. NoFailure' => NoFailure
    BY <1>1, <1>2, <1>3 DEF NoFailure, DInv, TypeOK
  <1> QED BY <1>1, <1>2, <1>3, <1>4, <1>5

\* An item that a handler has been called on keeps what it was called after.
LEMMA EndsKeepsOrder ==
  ASSUME DInv, NEW i \in Item, NEW result \in {"ok", "failed", "threw"},
         Ends(i, result), dlist' \subseteq dlist
  PROVE  RunsAfterRequired' /\ RunsAfterUsed'
  BY EndsKeeps DEF DInv, RunsAfterRequired, RunsAfterUsed

\* A handler that succeeds makes its item's tokens met.
LEMMA SucceedsDInv ==
  ASSUME DInv, NEW i \in Item, Succeeds(i)
  PROVE  DInv'
  <1>1. /\ Ends(i, "ok") /\ met' = met \cup ditem[i].provides
        /\ dlist' = dlist \ {i} /\ pc' = pc
    BY DEF Succeeds
  <1>2. /\ running = i /\ running' = NoItem /\ pc = "loop"
        /\ i \in dlist /\ i \in given /\ outcome[i] = "none"
        /\ \A j \in Item : outcome'[j] = IF j = i THEN "ok" ELSE outcome[j]
        /\ outcome' \in [Item -> {"none", "met", "ok", "failed", "threw"}]
        /\ ditem' = ditem /\ canfail' = canfail /\ given' = given
        /\ \A j \in Item : (Good(j) => Good(j)') /\ (Ran(j)' => Ran(j))
        /\ NoFailure' => NoFailure
    BY <1>1, EndsKeeps
  <1>3. RunsAfterRequired' /\ RunsAfterUsed'
    BY <1>1, EndsKeepsOrder
  <1>4. TypeOK'
    <2>1. met' \subseteq Token
      BY <1>1 DEF DInv, TypeOK, Ditem
    <2> QED BY <1>1, <1>2, <2>1 DEF DInv, TypeOK
  <1>5. Good(i)' /\ \A j \in Item \ {i} : Good(j)' <=> Good(j)
    BY <1>2 DEF Good
  <1>6. Accounted'
    BY <1>1, <1>2, <1>5 DEF DInv, TypeOK, Accounted
  <1>7. Going'
    BY <1>1, <1>2 DEF DInv, TypeOK, Going
  <1>8. MetByGood'
    BY <1>1, <1>2, <1>5 DEF DInv, MetByGood
  <1>9. GoodMeets'
    BY <1>1, <1>2, <1>5 DEF DInv, GoodMeets
  <1>10. StopsWhenStuck'
    BY <1>1, <1>2 DEF StopsWhenStuck
  <1> QED BY <1>3, <1>4, <1>6, <1>7, <1>8, <1>9, <1>10 DEF DInv

\* A handler that fails makes its item's tokens unmet, also those that another
\* item had provided.
LEMMA FailsDInv ==
  ASSUME DInv, NEW i \in Item, Fails(i)
  PROVE  DInv'
  <1>1. /\ Ends(i, "failed") /\ met' = met \ ditem[i].provides
        /\ dlist' = IF canfail THEN dlist \ {i} ELSE dlist
        /\ pc' = IF canfail THEN pc ELSE "done"
    BY DEF Fails
  <1>2. /\ running = i /\ running' = NoItem /\ pc = "loop"
        /\ i \in dlist /\ i \in given /\ outcome[i] = "none"
        /\ \A j \in Item : outcome'[j] = IF j = i THEN "failed" ELSE outcome[j]
        /\ outcome' \in [Item -> {"none", "met", "ok", "failed", "threw"}]
        /\ ditem' = ditem /\ canfail' = canfail /\ given' = given
        /\ \A j \in Item : (Good(j) => Good(j)') /\ (Ran(j)' => Ran(j))
    BY <1>1, EndsKeeps
  <1>3. RunsAfterRequired' /\ RunsAfterUsed'
    BY <1>1, EndsKeepsOrder
  <1>4. TypeOK'
    BY <1>1, <1>2 DEF DInv, TypeOK
  <1>5. ~Good(i)' /\ \A j \in Item \ {i} : Good(j)' <=> Good(j)
    BY <1>2 DEF Good
  <1>6. Accounted'
    BY <1>1, <1>2, <1>5 DEF DInv, TypeOK, Accounted
  <1>7. Going'
    BY <1>1, <1>2 DEF DInv, TypeOK, Going
  <1>8. MetByGood'
    BY <1>1, <1>2 DEF DInv, MetByGood
  <1>9. ~NoFailure'
    BY <1>2 DEF NoFailure, DInv, TypeOK
  <1> QED BY <1>3, <1>4, <1>6, <1>7, <1>8, <1>9 DEF DInv, GoodMeets, StopsWhenStuck

\* A handler that throws ends the evaluation.
LEMMA ThrowsDInv ==
  ASSUME DInv, NEW i \in Item, Throws(i)
  PROVE  DInv'
  <1>1. Ends(i, "threw") /\ met' = met /\ dlist' = dlist /\ pc' = "done"
    BY DEF Throws
  <1>2. /\ running = i /\ running' = NoItem /\ pc = "loop"
        /\ i \in dlist /\ i \in given /\ outcome[i] = "none"
        /\ \A j \in Item : outcome'[j] = IF j = i THEN "threw" ELSE outcome[j]
        /\ outcome' \in [Item -> {"none", "met", "ok", "failed", "threw"}]
        /\ ditem' = ditem /\ canfail' = canfail /\ given' = given
        /\ \A j \in Item : (Good(j) => Good(j)') /\ (Ran(j)' => Ran(j))
    BY <1>1, EndsKeeps
  <1>3. RunsAfterRequired' /\ RunsAfterUsed'
    BY <1>1, EndsKeepsOrder
  <1>4. TypeOK'
    BY <1>1, <1>2 DEF DInv, TypeOK
  <1>5. ~Good(i)' /\ \A j \in Item \ {i} : Good(j)' <=> Good(j)
    BY <1>2 DEF Good
  <1>6. Accounted'
    BY <1>1, <1>2, <1>5 DEF DInv, TypeOK, Accounted
  <1>7. Going' /\ MetByGood'
    BY <1>1, <1>2 DEF DInv, Going, MetByGood
  <1>8. ~NoFailure'
    BY <1>2 DEF NoFailure, DInv, TypeOK
  <1> QED BY <1>3, <1>4, <1>6, <1>7, <1>8 DEF DInv, GoodMeets, StopsWhenStuck

\* The loop stops when no item of the list is eligible.
LEMMA StopDInv ==
  ASSUME DInv, Stop
  PROVE  DInv'
  <1>1. /\ running = NoItem /\ pc' = "done"
        /\ \A i \in dlist : ~Eligible(i)
        /\ UNCHANGED <<ditem, canfail, given, dlist, met, running, outcome>>
    BY DEF Stop, constant
  <1>2. \A i \in Item : (Good(i)' <=> Good(i)) /\ (Ran(i)' <=> Ran(i))
    BY <1>1 DEF Good, Ran
  <1>3. TypeOK' /\ Going'
    BY <1>1 DEF DInv, TypeOK, Going, Stop
  <1>4. Accounted'
    BY <1>1, <1>2 DEF DInv, TypeOK, Accounted
  <1>5. MetByGood' /\ GoodMeets'
    BY <1>1, <1>2 DEF DInv, MetByGood, GoodMeets, NoFailure
  <1>6. StopsWhenStuck'
    BY <1>1 DEF StopsWhenStuck, Eligible, Delayed, HasPending, Provides, Unmet
  <1>7. RunsAfterRequired' /\ RunsAfterUsed'
    BY <1>1, <1>2 DEF DInv, TypeOK, RunsAfterRequired, RunsAfterUsed
  <1> QED BY <1>3, <1>4, <1>5, <1>6, <1>7 DEF DInv

\* Every step keeps the invariant.
LEMMA NextDInv == DInv /\ [Next]_vars => DInv'
  <1> SUFFICES ASSUME DInv, [Next]_vars PROVE DInv'
    OBVIOUS
  <1>1. CASE UNCHANGED vars
    <2>1. TypeOK' /\ Accounted' /\ Going' /\ MetByGood' /\ GoodMeets'
      BY <1>1 DEF vars, DInv, TypeOK, Accounted, Going, MetByGood, GoodMeets, Good, NoFailure
    <2>2. StopsWhenStuck' /\ RunsAfterRequired' /\ RunsAfterUsed'
      BY <1>1 DEF vars, DInv, StopsWhenStuck, NoFailure, Eligible, Delayed, HasPending,
                  Provides, Unmet, RunsAfterRequired, RunsAfterUsed, Good, Ran
    <2> QED BY <2>1, <2>2 DEF DInv
  <1>2. CASE \E S \in SUBSET dlist : PreRun(S)
    BY <1>2, PreRunDInv
  <1>3. CASE \E i \in Item : Call(i)
    BY <1>3, CallDInv
  <1>4. CASE \E i \in Item : Succeeds(i)
    BY <1>4, SucceedsDInv
  <1>5. CASE \E i \in Item : Fails(i)
    BY <1>5, FailsDInv
  <1>6. CASE \E i \in Item : Throws(i)
    BY <1>6, ThrowsDInv
  <1>7. CASE Stop
    BY <1>7, StopDInv
  <1> QED BY <1>1, <1>2, <1>3, <1>4, <1>5, <1>6, <1>7 DEF Next

\* Every reachable state satisfies the invariant.
LEMMA AlwaysDInv == Spec => []DInv
  BY InitDInv, NextDInv, PTL DEF Spec

-------------------------------------------------------------------------------
(* The theorems *)

\* No handler runs before the tokens that its item requires were provided by
\* items that are good, for every list and whatever fails.
THEOREM DlistRunsAfterRequired == Spec => []RunsAfterRequired
  <1>1. DInv => RunsAfterRequired
    BY DEF DInv
  <1> QED BY <1>1, AlwaysDInv, PTL

\* Nor before items that provide what its item uses, unless that was provided.
THEOREM DlistRunsAfterUsed == Spec => []RunsAfterUsed
  <1>1. DInv => RunsAfterUsed
    BY DEF DInv
  <1> QED BY <1>1, AlwaysDInv, PTL

\* The list that is returned is what was not done.
THEOREM DlistReturnsTheRest == Spec => []ReturnsTheRest
  <1>1. DInv => ReturnsTheRest
    BY DEF DInv, Accounted, ReturnsTheRest
  <1> QED BY <1>1, AlwaysDInv, PTL

\* A list without circles of which nothing fails is evaluated to its end: an
\* item of what is left that depends on nothing of what is left would have been
\* eligible.
THEOREM DlistWellFoundedListsFinish == Spec => []WellFoundedListsFinish
  <1>1. ASSUME DInv PROVE WellFoundedListsFinish
    <2> SUFFICES ASSUME pc = "done", WellFounded, NoFailure, dlist # {}
                 PROVE  FALSE
      BY DEF WellFoundedListsFinish, NoFailure
    <2>1. dlist \in (SUBSET given) \ {{}} /\ given \subseteq Item
      BY <1>1 DEF DInv, TypeOK
    <2>2. PICK i \in dlist :
            (ditem[i].requires \cup ditem[i].uses) \cap Provides(dlist) = {}
      BY <2>1 DEF WellFounded
    <2>3. ASSUME NEW t \in ditem[i].requires PROVE t \in met
      <3>1. PICK j \in given : t \in ditem[j].provides
        BY <2>1, <2>2 DEF WellFounded, Provides
      <3>2. j \notin dlist
        BY <2>2, <3>1 DEF Provides
      <3>3. Good(j)
        BY <1>1, <3>2 DEF DInv, Accounted, NoFailure
      <3> QED BY <1>1, <2>1, <3>1, <3>3 DEF DInv, GoodMeets
    <2>4. ~HasPending(ditem[i].uses)
      BY <2>2 DEF HasPending
    <2>5. Eligible(i)
      BY <2>3, <2>4 DEF Eligible, Delayed
    <2> QED BY <1>1, <2>2, <2>5 DEF DInv, StopsWhenStuck
  <1>2. DInv => WellFoundedListsFinish
    BY <1>1
  <1> QED BY <1>2, AlwaysDInv, PTL
===============================================================================
