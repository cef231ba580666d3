------------------------------- MODULE RegEntry -------------------------------
(***************************************************************************)
(* The registry's tables and the reg_entry_* operations on them            *)
(* (cregistry/entry.c, cregistry/sql.c), as operators on a registry value. *)
(*                                                                         *)
(* A registry value r has two parts:                                       *)
(*   r.state[p]      the column registry.ports.state of entry p            *)
(*   r.actual[p][f]  the row of registry.files for image file f of p: its  *)
(*                   actual_path when the row is active, NoPath when it is *)
(*                   not.                                                  *)
(*                                                                         *)
(* A path is a pair <<f, s>>: <<f, 0>> is where image file f is installed, *)
(* <<f, s>> with s > 0 is the backup name "f.mp_<seconds>".                *)
(***************************************************************************)
EXTENDS Naturals

CONSTANTS
  Port,        \* registry entries: one port at one version, revision and variants
  File,        \* paths that port images contain
  ImageFiles,  \* ImageFiles[p]: the image files of entry p
  NameOf,      \* NameOf[p]: the port name of entry p
  MaxStamp,    \* number of distinct backup suffixes
  NoPath       \* the actual path of an inactive file

Stamp == 0..MaxStamp
Path == File \X Stamp

ASSUME RegEntryAssumption ==
  /\ ImageFiles \in [Port -> SUBSET File]
  /\ MaxStamp \in Nat
  /\ NoPath \notin Path

Home(f) == <<f, 0>>
Homes(p) == {Home(f) : f \in ImageFiles[p]}

\* The path that "${file}${baksuffix}" names.
Backup(a, s) == <<a[1], s>>

Registry ==
  [state  : [Port -> {"imaged", "installed"}],
   actual : [Port -> [File -> Path \cup {NoPath}]]]

\* "SELECT actual_path FROM registry.files WHERE id=? AND active"
reg_entry_files(r, p) == {r.actual[p][f] : f \in File} \ {NoPath}

\* "SELECT id FROM registry.files WHERE actual_path=? AND active"
reg_entry_owner(r, a) == {q \in Port : \E f \in File : r.actual[q][f] = a}

\* The entries of a name in state installed: registry::entry installed $name.
reg_entry_installed(r, name) ==
  {q \in Port : NameOf[q] = name /\ r.state[q] = "installed"}

\* Mutant: reg_entry_activate does not look for other owners.
MayActivateAnyway(r, p, F, s) == \A f \in F : f \in ImageFiles[p]

(***************************************************************************)
(* reg_entry_activate loops over the files: it fails with                  *)
(* REG_ALREADY_ACTIVE when a target path is active for any entry, with     *)
(* REG_INVALID when the entry has no such file. The target paths of one    *)
(* call differ, so the order of the loop does not matter. A failure in the *)
(* middle is always undone by the caller's transaction.                    *)
(***************************************************************************)
MayActivate(r, p, F, s) ==
  \A f \in F : f \in ImageFiles[p] /\ reg_entry_owner(r, <<f, s>>) = {}

reg_entry_activate(r, p, F, s) ==
  [r EXCEPT !.actual[p] =
     [f \in File |-> IF f \in F THEN <<f, s>> ELSE r.actual[p][f]]]

(***************************************************************************)
(* reg_entry_deactivate updates the rows "WHERE actual_path=? AND id=?",   *)
(* active or not, and fails when there is none: when the row of a listed   *)
(* path has been given another actual path in the meantime.                *)
(***************************************************************************)
MayDeactivate(r, p, A) ==
  \A a \in A : r.actual[p][a[1]] \in {a, NoPath}

reg_entry_deactivate(r, p, A) ==
  [r EXCEPT !.actual[p] =
     [f \in File |-> IF r.actual[p][f] \in A THEN NoPath ELSE r.actual[p][f]]]

\* Mutant: the state of an active port is still called "active".
SetStateActive(r, p, s) ==
  [r EXCEPT !.state[p] = IF s = "installed" THEN "active" ELSE s]

\* reg_entry_propset of the key "state".
SetState(r, p, s) == [r EXCEPT !.state[p] = s]
===============================================================================
