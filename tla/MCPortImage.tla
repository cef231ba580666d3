------------------------------ MODULE MCPortImage ------------------------------
(***************************************************************************)
(* Instances of PortImage for TLC. Port foo has two versions that share a  *)
(* file; bar, which may replace foo, and baz conflict with both and with   *)
(* each other.                                                             *)
(***************************************************************************)
EXTENDS PortImageFileMap, TLC

CONSTANTS foo1, foo2, bar, baz, f, g, h, p1, p2

FourPorts == {foo1, foo2, bar, baz}
TwoPorts == {foo1, bar}
ThreeFiles == {f, g, h}
TwoFiles == {f, g}
OneProc == {p1}
TwoProcs == {p1, p2}

Names == [q \in Port |-> IF q \in {foo1, foo2} THEN "foo" ELSE ToString(q)]

Images ==
  [q \in Port |->
     CASE q = foo1 -> {f, g}
       [] q = foo2 -> {g, h} \cap File
       [] q = bar -> {f}
       [] q = baz -> {f, h}]

BarReplacesFoo == {<<"foo", ToString(bar)>>}
NoReplacement == {}
SameProcs == Permutations(Proc)

(* While an action is forced no move fails and the user changes nothing:     *)
(* what the code does then is the subject of MCPortImageBackup.cfg, and a    *)
(* race that it accepts.                                                     *)
FaultsUnforced ==
  /\ ForcedMovesSucceed
  /\ \A p \in Proc : force[p] /\ cur[p] # Idle => cur' # cur
===============================================================================
