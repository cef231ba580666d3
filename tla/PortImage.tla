------------------------------- MODULE PortImage -------------------------------
(***************************************************************************)
(* Image mode (registry2.0/portimage.tcl): activation moves the files of   *)
(* an installed port image into the prefix, deactivation removes them, and *)
(* both record what they did in the SQLite registry.                       *)
(*                                                                         *)
(* A process runs one top-level activate or deactivate at a time. Each may *)
(* call others (older versions of the port and ports it replaces are       *)
(* deactivated first; replaced ports are activated again when it fails),   *)
(* so a process has a current frame, cur, and the suspended frames of its  *)
(* callers. Registry changes go through registry::write, whose working     *)
(* copy, work, replaces the committed registry, reg, at the commit; the    *)
(* file system fs has no transactions.                                     *)
(***************************************************************************)
EXTENDS RegEntry, Sequences, FiniteSets

CONSTANTS
  Proc,        \* processes that use the registry
  ReplacedBy,  \* pairs <<old name, new name>>: old's portfile says replaced_by new
  Locking,     \* TRUE: port.tcl's registry lock works; FALSE: flock is not supported
  FirstTry,    \* {"portfile", "direct"}: is there a stored Portfile to execute
  ForceModes,  \* values the -f option may take
  Faults,      \* steps that may fail: "extract", "move", "remove", "crash"
  UserActs,    \* when the user may change files: "never", "idle", "always"
  User,        \* file content that belongs to no port
  Empty,       \* no file
  NoProc       \* nobody

ASSUME PortImageAssumption ==
  /\ Locking \in BOOLEAN
  /\ FirstTry \subseteq {"portfile", "direct"}
  /\ ForceModes \subseteq BOOLEAN
  /\ Faults \subseteq {"extract", "move", "remove", "crash"}
  /\ UserActs \in {"never", "idle", "always"}
  /\ User \notin Port \cup {Empty}
  /\ Empty \notin Port
  /\ NoProc \notin Proc

VARIABLES
  reg,      \* the committed registry database
  work,     \* the registry as the open write transaction sees it, else reg
  writer,   \* the process whose write transaction is open
  fs,       \* what is at each path: a port's file, the user's, or nothing
  cur,      \* cur[p]: the activate or deactivate that process p executes
  callers,  \* callers[p]: the calls that wait for cur[p], innermost last
  force,    \* force[p]: the namespace variable portimage::force of process p
  asked,    \* asked[p]: the -f option of the action that process p executes
  lock      \* the process that holds the exclusive registry lock

vars == <<reg, work, writer, fs, cur, callers, force, asked, lock>>

-------------------------------------------------------------------------------
(* Frames *)

Op == {"activate", "deactivate"}
Try == {"portfile", "direct"}
PC == {"check", "others", "claim", "claiming", "replace", "moving", "install",
       "unmove", "unback", "reactivate", "release", "removing", "image", "failed"}

Frame ==
  [op       : Op,
   port     : Port,
   try      : Try,          \* run_target's attempt, or the direct call after it
   pc       : PC,
   todo     : SUBSET Path,  \* files the current loop has still to visit
   pend     : SUBSET Port,  \* entries the current loop has still to visit
   replaced : SUBSET Port,  \* array todeactivate of _activate_contents
   backups  : SUBSET Path,  \* list backups
   stamp    : Stamp]        \* baksuffix, 0 until it is used

Idle == [pc |-> "idle"]

Call(op, q, t) ==
  [op |-> op, port |-> q, try |-> t, pc |-> "check", todo |-> {}, pend |-> {},
   replaced |-> {}, backups |-> {}, stamp |-> 0]

Init ==
  /\ reg = [state  |-> [q \in Port |-> "imaged"],
            actual |-> [q \in Port |-> [f \in File |-> NoPath]]]
  /\ work = reg
  /\ writer = NoProc
  /\ fs = [a \in Path |-> Empty]
  /\ cur = [p \in Proc |-> Idle]
  /\ callers = [p \in Proc |-> <<>>]
  /\ force = [p \in Proc |-> FALSE]
  /\ asked = [p \in Proc |-> FALSE]
  /\ lock = NoProc

At(p, op, pc) == cur[p].pc = pc /\ cur[p].op = op

\* The current frame of p goes on at pc, with todo as the files of its next loop.
Goto(p, pc, todo) == cur' = [cur EXCEPT ![p].pc = pc, ![p].todo = todo]

\* The current frame of p visits entry q of its loop by calling op on it.
Nested(p, op, q) ==
  /\ \E t \in FirstTry : cur' = [cur EXCEPT ![p] = Call(op, q, t)]
  /\ callers' = [callers EXCEPT ![p] =
                   Append(@, [cur[p] EXCEPT !.pend = @ \ {q}])]

\* The call ends: its caller goes on, or the whole action is over and
\* process_cmd releases the registry lock.
Return(p) ==
  IF callers[p] = <<>>
  THEN /\ cur' = [cur EXCEPT ![p] = Idle]
       /\ asked' = [asked EXCEPT ![p] = FALSE]
       /\ lock' = IF lock = p THEN NoProc ELSE lock
       /\ UNCHANGED callers
  ELSE /\ cur' = [cur EXCEPT ![p] = callers[p][Len(callers[p])]]
       /\ callers' = [callers EXCEPT ![p] = SubSeq(@, 1, Len(@) - 1)]
       /\ UNCHANGED <<asked, lock>>

inCall == <<callers, force, asked, lock>>
database == <<reg, work, writer>>

\* Mutant: BEGIN DEFERRED, which does not wait for the other writer.
StartWriteAnyway(p, r) == writer' = p /\ work' = r /\ UNCHANGED reg

\* registry::write: BEGIN IMMEDIATE waits for the writer; COMMIT; ROLLBACK.
StartWrite(p, r) == writer = NoProc /\ writer' = p /\ work' = r /\ UNCHANGED reg
Commit == reg' = work /\ writer' = NoProc /\ UNCHANGED work
Rollback == work' = reg /\ writer' = NoProc /\ UNCHANGED reg

\* A statement outside a transaction, which SQLite commits by itself.
Autocommit(r) == writer = NoProc /\ reg' = r /\ work' = r /\ UNCHANGED writer

-------------------------------------------------------------------------------
(* The process starts an action, dies, or the user changes a file *)

\* Mutant: the suffix may be one that a backup still has.
AnyStamp(s) == s # 0

\* No file and no active row has the backup suffix s.
FreeStamp(s) ==
  /\ s # 0
  /\ \A x \in File : fs[<<x, s>>] = Empty /\ reg_entry_owner(reg, <<x, s>>) = {}

\* The bound MaxStamp: an action that may need a suffix waits for a free one.
StampLeft == \E s \in Stamp : FreeStamp(s)

\* process_cmd takes the lock, then calls the action; activate sets the
\* namespace variable force when the option is given and never clears it.
Start(p, op, q, asks) ==
  /\ cur[p] = Idle
  /\ Locking => lock = NoProc
  /\ op = "activate" /\ (force[p] \/ asks) => StampLeft
  /\ lock' = IF Locking THEN p ELSE lock
  /\ \E t \in FirstTry : cur' = [cur EXCEPT ![p] = Call(op, q, t)]
  /\ asked' = [asked EXCEPT ![p] = asks]
  /\ force' = [force EXCEPT ![p] = @ \/ (op = "activate" /\ asks)]
  /\ UNCHANGED <<database, fs, callers>>

\* The process dies: SQLite rolls its transaction back and flock is released.
Crash(p) ==
  /\ "crash" \in Faults
  /\ cur[p] # Idle
  /\ cur' = [cur EXCEPT ![p] = Idle]
  /\ callers' = [callers EXCEPT ![p] = <<>>]
  /\ force' = [force EXCEPT ![p] = FALSE]
  /\ asked' = [asked EXCEPT ![p] = FALSE]
  /\ lock' = IF lock = p THEN NoProc ELSE lock
  /\ IF writer = p THEN Rollback ELSE UNCHANGED database
  /\ UNCHANGED fs

UserMayAct ==
  \/ UserActs = "always"
  \/ UserActs = "idle" /\ \A p \in Proc : cur[p] = Idle

UserCreates(f) ==
  /\ UserMayAct
  /\ fs[Home(f)] = Empty
  /\ fs' = [fs EXCEPT ![Home(f)] = User]
  /\ UNCHANGED <<database, cur, inCall>>

UserDeletes(a) ==
  /\ UserMayAct
  /\ fs[a] = User
  /\ fs' = [fs EXCEPT ![a] = Empty]
  /\ UNCHANGED <<database, cur, inCall>>

-------------------------------------------------------------------------------
(* activate *)

\* The registry::read of activate: an active entry is an error; the other
\* active versions of the port are deactivated first.
ActivateCheck(p) ==
  LET q == cur[p].port IN
  /\ At(p, "activate", "check")
  /\ IF reg.state[q] = "installed"
     THEN Goto(p, "failed", {})
     ELSE cur' = [cur EXCEPT ![p].pc = "others",
                    ![p].pend = reg_entry_installed(reg, NameOf[q]) \ {q}]
  /\ UNCHANGED <<database, fs, inCall>>

DeactivateOther(p) ==
  /\ At(p, "activate", "others")
  /\ \E q \in cur[p].pend : Nested(p, "deactivate", q)
  /\ UNCHANGED <<database, fs, force, asked, lock>>

\* extract_archive_to_tmpdir
Extract(p) ==
  /\ At(p, "activate", "others")
  /\ cur[p].pend = {}
  /\ \/ Goto(p, "claim", {})
     \/ "extract" \in Faults /\ Goto(p, "failed", {})
  /\ UNCHANGED <<database, fs, inCall>>

\* The first registry::write of _activate_contents: look at every image file.
\* The suffix is the time: no backup that is still there has it.
StartClaim(p) ==
  LET q == cur[p].port IN
  /\ At(p, "activate", "claim")
  /\ StartWrite(p, reg)
  /\ \E s \in Stamp :
       /\ IF force[p] THEN FreeStamp(s) ELSE s = 0
       /\ cur' = [cur EXCEPT ![p].pc = "claiming", ![p].todo = Homes(q),
                             ![p].stamp = s]
  /\ UNCHANGED <<fs, inCall>>

IsReplaced(o, q) == <<NameOf[o], NameOf[q]>> \in ReplacedBy

\* The file's owner is to be deactivated, because q replaces it.
ClaimReplaced(p) ==
  LET q == cur[p].port IN
  /\ At(p, "activate", "claiming")
  /\ \E a \in cur[p].todo : \E o \in reg_entry_owner(work, a) \ {q} :
       /\ IsReplaced(o, q)
       /\ cur' = [cur EXCEPT ![p].todo = @ \ {a}, ![p].replaced = @ \cup {o}]
  /\ UNCHANGED <<database, fs, inCall>>

Contested(q, a) ==
  \E o \in reg_entry_owner(work, a) \ {q} : ~IsReplaced(o, q)

ClaimFree(p) ==
  LET q == cur[p].port IN
  /\ At(p, "activate", "claiming")
  /\ ~force[p]
  /\ \E a \in cur[p].todo :
       /\ reg_entry_owner(work, a) \subseteq {q}
       /\ reg_entry_owner(work, a) = {} => fs[a] = Empty
       /\ cur' = [cur EXCEPT ![p].todo = @ \ {a}]
  /\ UNCHANGED <<database, fs, inCall>>

\* With force, an existing file is moved to its backup name, and so is the
\* path of the row of its owner.
ClaimForced(p) ==
  LET q == cur[p].port
      s == cur[p].stamp IN
  /\ At(p, "activate", "claiming")
  /\ force[p]
  /\ \E a \in cur[p].todo :
       LET owners == reg_entry_owner(work, a)
           moves == fs[a] # Empty IN
       /\ owners \subseteq {q} \/ Contested(q, a)
       /\ fs' = IF moves THEN [fs EXCEPT ![Backup(a, s)] = fs[a], ![a] = Empty]
                ELSE fs
       /\ \/ owners = {} /\ UNCHANGED work
          \/ \E o \in owners :
               LET cleared == reg_entry_deactivate(work, o, {a}) IN
               /\ MayActivate(cleared, o, {a[1]}, s)
               /\ work' = reg_entry_activate(cleared, o, {a[1]}, s)
       /\ cur' = [cur EXCEPT ![p].todo = @ \ {a},
                    ![p].backups = IF moves THEN @ \cup {a} ELSE @]
  /\ UNCHANGED <<reg, writer, inCall>>

\* Without force, a file of another port or of nobody ends the activation.
ClaimFails(p) ==
  LET q == cur[p].port IN
  /\ At(p, "activate", "claiming")
  /\ ~force[p]
  /\ \E a \in cur[p].todo :
       \/ Contested(q, a)
       \/ reg_entry_owner(work, a) = {} /\ fs[a] # Empty
  /\ Rollback
  /\ Goto(p, "unback", {})
  /\ UNCHANGED <<fs, inCall>>

CommitClaim(p) ==
  /\ At(p, "activate", "claiming")
  /\ cur[p].todo = {}
  /\ Commit
  /\ cur' = [cur EXCEPT ![p].pc = "replace", ![p].pend = cur[p].replaced]
  /\ UNCHANGED <<fs, inCall>>

DeactivateReplaced(p) ==
  /\ At(p, "activate", "replace")
  /\ \E o \in cur[p].pend : Nested(p, "deactivate", o)
  /\ UNCHANGED <<database, fs, force, asked, lock>>

\* Mutant: the registry takes the files whoever has them.
StartTakeAnyway(p) ==
  LET q == cur[p].port IN
  /\ At(p, "activate", "replace")
  /\ cur[p].pend = {}
  /\ StartWrite(p, reg_entry_activate(reg, q, ImageFiles[q], 0))
  /\ Goto(p, "moving", Homes(q))
  /\ UNCHANGED <<fs, inCall>>

\* The second registry::write: "$port activate $imagefiles" ...
StartTake(p) ==
  LET q == cur[p].port
      F == ImageFiles[q] IN
  /\ At(p, "activate", "replace")
  /\ cur[p].pend = {}
  /\ IF MayActivate(reg, q, F, 0)
     THEN /\ StartWrite(p, reg_entry_activate(reg, q, F, 0))
          /\ Goto(p, "moving", Homes(q))
     ELSE /\ writer = NoProc /\ UNCHANGED database
          /\ Goto(p, "unmove", {})
  /\ UNCHANGED <<fs, inCall>>

\* ... then _activate_file on each: a rename that overwrites nothing.
MoveFile(p) ==
  /\ At(p, "activate", "moving")
  /\ \E a \in cur[p].todo :
       /\ fs[a] = Empty
       /\ fs' = [fs EXCEPT ![a] = cur[p].port]
       /\ cur' = [cur EXCEPT ![p].todo = @ \ {a}]
  /\ UNCHANGED <<database, inCall>>

\* Mutant: the error does not undo the transaction.
MoveFailsCommits(p) ==
  /\ At(p, "activate", "moving")
  /\ \E a \in cur[p].todo : fs[a] # Empty \/ "move" \in Faults
  /\ Commit
  /\ Goto(p, "unmove", Homes(cur[p].port) \ cur[p].todo)
  /\ UNCHANGED <<fs, inCall>>

MoveFails(p) ==
  LET homes == Homes(cur[p].port) IN
  /\ At(p, "activate", "moving")
  /\ \E a \in cur[p].todo : fs[a] # Empty \/ "move" \in Faults
  /\ Rollback
  /\ Goto(p, "unmove", homes \ cur[p].todo)
  /\ UNCHANGED <<fs, inCall>>

CommitTake(p) ==
  /\ At(p, "activate", "moving")
  /\ cur[p].todo = {}
  /\ Commit
  /\ Goto(p, "install", {})
  /\ UNCHANGED <<fs, inCall>>

\* "$requested state installed", a statement of its own.
SetInstalled(p) ==
  /\ At(p, "activate", "install")
  /\ Autocommit(SetState(reg, cur[p].port, "installed"))
  /\ Return(p)
  /\ UNCHANGED <<fs, force>>

-------------------------------------------------------------------------------
(* The catch block of _activate_contents *)

\* _deactivate_contents $port $rollback_filelist yes yes
Unmove(p) ==
  /\ At(p, "activate", "unmove")
  /\ \E a \in cur[p].todo :
       /\ fs' = [fs EXCEPT ![a] = Empty]
       /\ cur' = [cur EXCEPT ![p].todo = @ \ {a}]
  /\ UNCHANGED <<database, inCall>>

UnmoveDone(p) ==
  /\ At(p, "activate", "unmove")
  /\ cur[p].todo = {}
  /\ Goto(p, "unback", {})
  /\ UNCHANGED <<database, fs, inCall>>

\* file rename -force -- "${file}${baksuffix}" $file
Unback(p) ==
  LET s == cur[p].stamp IN
  /\ At(p, "activate", "unback")
  /\ \E a \in cur[p].backups :
       /\ fs[Backup(a, s)] # Empty
       /\ fs' = [fs EXCEPT ![a] = fs[Backup(a, s)], ![Backup(a, s)] = Empty]
       /\ cur' = [cur EXCEPT ![p].backups = @ \ {a}]
  /\ UNCHANGED <<database, inCall>>

UnbackFails(p) ==
  /\ At(p, "activate", "unback")
  /\ \E a \in cur[p].backups : fs[Backup(a, cur[p].stamp)] = Empty
  /\ Goto(p, "failed", {})
  /\ UNCHANGED <<database, fs, inCall>>

\* Mutant: the replaced ports are forgotten.
UnbackDoneForgets(p) ==
  /\ At(p, "activate", "unback")
  /\ cur[p].backups = {}
  /\ cur' = [cur EXCEPT ![p].pc = "reactivate", ![p].pend = {}]
  /\ UNCHANGED <<database, fs, inCall>>

UnbackDone(p) ==
  /\ At(p, "activate", "unback")
  /\ cur[p].backups = {}
  /\ cur' = [cur EXCEPT ![p].pc = "reactivate", ![p].pend = cur[p].replaced]
  /\ UNCHANGED <<database, fs, inCall>>

\* Reactivate the replaced ports that were deactivated.
Reactivate(p) ==
  /\ At(p, "activate", "reactivate")
  /\ \E o \in cur[p].pend :
       IF reg.state[o] = "imaged"
       THEN Nested(p, "activate", o)
       ELSE cur' = [cur EXCEPT ![p].pend = @ \ {o}] /\ UNCHANGED callers
  /\ UNCHANGED <<database, fs, force, asked, lock>>

Rethrow(p) ==
  /\ At(p, "activate", "reactivate")
  /\ cur[p].pend = {}
  /\ Goto(p, "failed", {})
  /\ UNCHANGED <<database, fs, inCall>>

-------------------------------------------------------------------------------
(* deactivate *)

\* The port must be the only active entry of its name. The list of its files
\* is read here, before the transaction.
DeactivateCheck(p) ==
  LET q == cur[p].port IN
  /\ At(p, "deactivate", "check")
  /\ IF reg_entry_installed(reg, NameOf[q]) = {q}
     THEN Goto(p, "release", reg_entry_files(reg, q))
     ELSE Goto(p, "failed", {})
  /\ UNCHANGED <<database, fs, inCall>>

\* Mutant: only the files that are still on disk are deactivated.
StartReleaseOnDisk(p) ==
  LET q == cur[p].port
      A == {a \in cur[p].todo : fs[a] # Empty} IN
  /\ At(p, "deactivate", "release")
  /\ MayDeactivate(reg, q, A)
  /\ StartWrite(p, reg_entry_deactivate(reg, q, A))
  /\ Goto(p, "removing", A)
  /\ UNCHANGED <<fs, inCall>>

\* The registry::write of _deactivate_contents: "$port deactivate $imagefiles"
StartRelease(p) ==
  LET q == cur[p].port
      A == cur[p].todo IN
  /\ At(p, "deactivate", "release")
  /\ IF MayDeactivate(reg, q, A)
     THEN /\ StartWrite(p, reg_entry_deactivate(reg, q, A))
          /\ Goto(p, "removing", A)
     ELSE /\ writer = NoProc /\ UNCHANGED database
          /\ Goto(p, "failed", {})
  /\ UNCHANGED <<fs, inCall>>

\* Mutant: the file is removed from where the image installs it.
RemoveHome(p) ==
  /\ At(p, "deactivate", "removing")
  /\ \E a \in cur[p].todo :
       /\ fs' = [fs EXCEPT ![Home(a[1])] = Empty]
       /\ cur' = [cur EXCEPT ![p].todo = @ \ {a}]
  /\ UNCHANGED <<database, inCall>>

\* _deactivate_file: a file that is gone is skipped.
RemoveFile(p) ==
  /\ At(p, "deactivate", "removing")
  /\ \E a \in cur[p].todo :
       /\ fs' = [fs EXCEPT ![a] = Empty]
       /\ cur' = [cur EXCEPT ![p].todo = @ \ {a}]
  /\ UNCHANGED <<database, inCall>>

RemoveFails(p) ==
  /\ At(p, "deactivate", "removing")
  /\ "remove" \in Faults
  /\ \E a \in cur[p].todo : fs[a] # Empty
  /\ Rollback
  /\ Goto(p, "failed", {})
  /\ UNCHANGED <<fs, inCall>>

CommitRelease(p) ==
  /\ At(p, "deactivate", "removing")
  /\ cur[p].todo = {}
  /\ Commit
  /\ Goto(p, "image", {})
  /\ UNCHANGED <<fs, inCall>>

\* Mutant: the state is not written.
SetImagedForgets(p) ==
  /\ At(p, "deactivate", "image")
  /\ Autocommit(reg)
  /\ Return(p)
  /\ UNCHANGED <<fs, force>>

\* "$requested state imaged", a statement of its own.
SetImaged(p) ==
  /\ At(p, "deactivate", "image")
  /\ Autocommit(SetState(reg, cur[p].port, "imaged"))
  /\ Return(p)
  /\ UNCHANGED <<fs, force>>

-------------------------------------------------------------------------------
(* A call that failed *)

Goal(op) == IF op = "activate" THEN "installed" ELSE "imaged"

\* run_target calls a failed target successful when the state is reached.
FailsButReached(p) ==
  LET fr == cur[p] IN
  /\ fr.pc = "failed"
  /\ fr.try = "portfile"
  /\ reg.state[fr.port] = Goal(fr.op)
  /\ Return(p)
  /\ UNCHANGED <<database, fs, force>>

\* Mutant: the second attempt executes the Portfile, like the first.
RetryForever(p) ==
  LET fr == cur[p] IN
  /\ fr.pc = "failed"
  /\ fr.try = "portfile"
  /\ reg.state[fr.port] # Goal(fr.op)
  /\ cur' = [cur EXCEPT ![p] = Call(fr.op, fr.port, fr.try)]
  /\ UNCHANGED <<database, fs, inCall>>

\* Otherwise its caller tries again without the Portfile.
Retry(p) ==
  LET fr == cur[p] IN
  /\ fr.pc = "failed"
  /\ fr.try = "portfile"
  /\ reg.state[fr.port] # Goal(fr.op)
  /\ cur' = [cur EXCEPT ![p] = Call(fr.op, fr.port, "direct")]
  /\ UNCHANGED <<database, fs, inCall>>

\* The direct call's error goes to the caller: to the catch block when that
\* is in the middle of _activate_contents, and through it otherwise.
Fail(p) ==
  LET n == Len(callers[p]) IN
  /\ cur[p].pc = "failed"
  /\ cur[p].try = "direct"
  /\ IF callers[p] = <<>>
     THEN Return(p)
     ELSE LET caller == callers[p][n]
              next == IF caller.pc = "replace" THEN "unback" ELSE "failed" IN
          /\ cur' = [cur EXCEPT ![p] = [caller EXCEPT !.pc = next]]
          /\ callers' = [callers EXCEPT ![p] = SubSeq(@, 1, n - 1)]
          /\ UNCHANGED <<asked, lock>>
  /\ UNCHANGED <<database, fs, force>>

-------------------------------------------------------------------------------
Step(p) ==
  \/ ActivateCheck(p) \/ DeactivateOther(p) \/ Extract(p)
  \/ StartClaim(p) \/ ClaimReplaced(p) \/ ClaimFree(p) \/ ClaimForced(p)
  \/ ClaimFails(p) \/ CommitClaim(p) \/ DeactivateReplaced(p)
  \/ StartTake(p) \/ MoveFile(p) \/ MoveFails(p) \/ CommitTake(p)
  \/ SetInstalled(p)
  \/ Unmove(p) \/ UnmoveDone(p) \/ Unback(p) \/ UnbackFails(p) \/ UnbackDone(p)
  \/ Reactivate(p) \/ Rethrow(p)
  \/ DeactivateCheck(p) \/ StartRelease(p) \/ RemoveFile(p) \/ RemoveFails(p)
  \/ CommitRelease(p) \/ SetImaged(p)
  \/ FailsButReached(p) \/ Retry(p) \/ Fail(p)

Next ==
  \/ \E p \in Proc :
       \/ \E op \in Op, q \in Port, asks \in ForceModes : Start(p, op, q, asks)
       \/ Step(p)
       \/ Crash(p)
  \/ \E f \in File : UserCreates(f)
  \/ \E a \in Path : UserDeletes(a)

Spec == Init /\ [][Next]_vars

\* Every process is scheduled again and again while it has a step to take.
FairSpec == Spec /\ \A p \in Proc : WF_vars(Step(p))

-------------------------------------------------------------------------------
(* Properties *)

\* Every call in progress is a frame of activate or deactivate, on disk are
\* files of ports and of the user, and the registry has rows for every image.
TypeOK ==
  /\ reg \in Registry
  /\ work \in Registry
  /\ writer \in Proc \cup {NoProc}
  /\ fs \in [Path -> Port \cup {User, Empty}]
  /\ cur \in [Proc -> Frame \cup {Idle}]
  /\ callers \in [Proc -> Seq(Frame)]
  /\ force \in [Proc -> BOOLEAN]
  /\ asked \in [Proc -> BOOLEAN]
  /\ lock \in Proc \cup {NoProc}

\* No two active rows have the same actual path: reg_entry_owner, which reads
\* one row, has a single answer, in the database and inside every transaction.
UniqueActual(r) ==
  \A q1, q2 \in Port : \A f1, f2 \in File :
    r.actual[q1][f1] = r.actual[q2][f2] /\ r.actual[q1][f1] # NoPath
      => q1 = q2 /\ f1 = f2

OneOwner == UniqueActual(reg) /\ UniqueActual(work)

\* At most one version of a port is active, as deactivate, which gives up when
\* it finds two, takes for granted.
OneActiveVersion ==
  \A q1, q2 \in Port :
    /\ NameOf[q1] = NameOf[q2]
    /\ reg.state[q1] = "installed"
    /\ reg.state[q2] = "installed"
    => q1 = q2

Quiet == \A p \in Proc : cur[p] = Idle

\* Between actions the state of an entry and its file rows, which are written
\* by different transactions, agree: active with all its files or with none.
StateMatchesFiles ==
  Quiet => \A q \in Port :
    IF reg.state[q] = "installed"
    THEN \A f \in ImageFiles[q] : reg.actual[q][f] # NoPath
    ELSE reg_entry_files(reg, q) = {}

\* Between actions every active file of the registry is on disk, at the path
\* the registry says, with the content of its owner.
ActiveFilesOnDisk ==
  Quiet => \A q \in Port : \A a \in reg_entry_files(reg, q) : fs[a] = q

\* Between actions the files of a port on disk are its active files in the
\* registry: those, at the paths that the registry says, and no other.
FilesFollowRegistry ==
  Quiet => \A q \in Port : {a \in Path : fs[a] = q} = reg_entry_files(reg, q)

\* A committed transaction never leaves a port with some of its files active.
AllOrNothing ==
  \A q \in Port :
    \/ reg_entry_files(reg, q) = {}
    \/ \A f \in ImageFiles[q] : reg.actual[q][f] # NoPath

\* No step of a process destroys a file of the user: it stays where it is, or
\* moves between its name and a backup name.
UserFilesKept ==
  [][\A a \in Path :
       fs[a] = User /\ fs'[a] # User /\ cur' # cur
         => \E s \in Stamp : fs[Backup(a, s)] # User /\ fs'[Backup(a, s)] = User]_vars

\* What FilesFollowRegistry and UserFilesKept assume of forced actions: once the
\* rows of the files that were moved aside are committed, every move succeeds.
\* The catch block undoes the renames of a forced activation and not those rows.
ForcedMovesSucceed ==
  \A p \in Proc : force[p] /\ cur[p].pc = "moving" => cur'[p].pc # "unmove"

\* Existing files are moved aside only for an action that was given -f.
ForceIsPerAction ==
  \A p \in Proc : cur[p] # Idle /\ cur[p].backups # {} => asked[p]

\* An activation that failed has made the ports it replaced active again.
ReplacedComeBack ==
  \A p \in Proc :
    cur[p].pc = "reactivate" /\ cur[p].pend = {}
      => \A o \in cur[p].replaced : reg.state[o] = "installed"

\* Every action comes to an end, whatever fails on the way.
ActionsEnd == \A p \in Proc : cur[p] # Idle ~> cur[p] = Idle
===============================================================================
