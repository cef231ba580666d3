--------------------------- MODULE PortImageFileMap ---------------------------
(***************************************************************************)
(* PortImage implements FileMap: whatever the interleaving of its          *)
(* transactions, its failures and its crashes, the active rows of the      *)
(* committed registry change only as FileMap says.                         *)
(***************************************************************************)
EXTENDS PortImage

FileMapOfRegistry == INSTANCE FileMap WITH at <- reg.actual

\* The committed file rows, the table behind reg_entry_owner, follow FileMap.
RegistryFollowsFileMap == FileMapOfRegistry!Spec

-------------------------------------------------------------------------------
(* Why: what an open transaction may have changed *)

InTxn(fr) == fr.pc \in {"claiming", "moving", "removing"}

\* A row holds its own file's path or a backup of it.
OwnNames(r) ==
  \A q \in Port : \A x \in File : r.actual[q][x] \in ({x} \X Stamp) \cup {NoPath}

\* While an activation looks at its files it has only moved active rows to the
\* backup names, which nobody held.
MovedAside(s) ==
  \A q \in Port : \A x \in File :
    work.actual[q][x] # reg.actual[q][x] =>
      /\ reg.actual[q][x] # NoPath
      /\ work.actual[q][x] = <<x, s>>
      /\ reg_entry_owner(reg, <<x, s>>) = {}

WorkOf(fr) ==
  /\ fr.pc = "claiming" => MovedAside(fr.stamp)
  /\ fr.pc = "moving" =>
       LET F == ImageFiles[fr.port] IN
       MayActivate(reg, fr.port, F, 0) /\ work = reg_entry_activate(reg, fr.port, F, 0)
  /\ fr.pc = "removing" =>
       \E A \in SUBSET Path : work = reg_entry_deactivate(reg, fr.port, A)

\* The working copy of the registry belongs to one process, which is in the
\* body of a registry::write, and differs from the database only by what that
\* body does; nobody calls another action from inside such a body.
WorkingCopy ==
  /\ \A p \in Proc : InTxn(cur[p]) <=> writer = p
  /\ \A p \in Proc : \A i \in 1..Len(callers[p]) : ~InTxn(callers[p][i])
  /\ writer = NoProc => work = reg
  /\ \A p \in Proc : writer = p => WorkOf(cur[p])
  /\ OwnNames(reg) /\ OwnNames(work)
===============================================================================
