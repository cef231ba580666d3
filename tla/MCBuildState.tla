----------------------------- MODULE MCBuildState -----------------------------
(***************************************************************************)
(* A port without variants and with one, and two contents of its Portfile. *)
(* After "shared" nothing is said of a behaviour any more, so that it ends *)
(* there; while two processes are active there is one start or edit less.  *)
(***************************************************************************)
EXTENDS BuildState, TLC

CONSTANTS p, q, f, g

Same == Permutations(Proc) \cup Permutations(Portfile)

Bounded == (\A r \in Proc : Active(r)) => starts + edits < MaxStarts

MCNext == "shared" \notin excuse /\ Next /\ Bounded'
MCSpec == Init /\ [][MCNext]_vars
===============================================================================
