-------------------------------- MODULE FileMap --------------------------------
(***************************************************************************)
(* What image mode promises about the files in the prefix, without         *)
(* transactions, processes or a file system: at[q][f] is where file f of   *)
(* port q is active. A port gets the paths of its image in one step, and   *)
(* only when they are free; a path changes hands only by way of a step in  *)
(* which its holder gives it up or is moved aside to a free backup name.   *)
(***************************************************************************)
EXTENDS RegEntry

VARIABLE at

Held(a) == \E q \in Port : \E x \in File : at[q][x] = a

Init == at = [q \in Port |-> [x \in File |-> NoPath]]

Acquire(q) ==
  /\ \A x \in ImageFiles[q] : ~Held(Home(x))
  /\ at' = [at EXCEPT ![q] =
              [x \in File |-> IF x \in ImageFiles[q] THEN Home(x) ELSE at[q][x]]]

Release(q) ==
  \E A \in SUBSET Path :
    at' = [at EXCEPT ![q] =
             [x \in File |-> IF at[q][x] \in A THEN NoPath ELSE at[q][x]]]

\* Active files get the backup suffix s; only names that nobody holds are used.
MoveAside(s) ==
  /\ at' \in [Port -> [File -> Path \cup {NoPath}]]
  /\ \A q \in Port : \A x \in File :
       at'[q][x] # at[q][x] =>
         /\ at[q][x] # NoPath
         /\ at'[q][x] = <<x, s>>
         /\ ~Held(<<x, s>>)
  /\ \A q1, q2 \in Port : \A x \in File :
       at'[q1][x] = <<x, s>> /\ at'[q2][x] = <<x, s>> => q1 = q2

Next ==
  \/ \E q \in Port : Acquire(q) \/ Release(q)
  \/ \E s \in Stamp : MoveAside(s)

Spec == Init /\ [][Next]_at
===============================================================================
