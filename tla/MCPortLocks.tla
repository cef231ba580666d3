------------------------------ MODULE MCPortLocks ------------------------------
(***************************************************************************)
(* Instances of PortLocks for TLC: port bar depends on foo.                *)
(***************************************************************************)
EXTENDS PortLocks

CONSTANTS foo, bar, p1, p2

BothPorts == {foo, bar}
BarNeedsFoo == [q \in Port |-> IF q = bar THEN {foo} ELSE {}]
TwoProcs == {p1, p2}
FirstProc == {p1}
===============================================================================
