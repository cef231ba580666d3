------------------------------ MODULE Registry ------------------------------
(***************************************************************************)
(* Processes that share the registry: cregistry/registry.c and sql.c       *)
(* (attach, create, upgrade, transactions) and the Tcl objects of          *)
(* registry2.0 (registry.c, entry.c, entryobj.c, file.c, util.c), over the *)
(* tables of RegTables.  A port process opens the registry, runs           *)
(* registry::read and registry::write bodies and single statements, and    *)
(* ends; it may die anywhere.                                              *)
(*                                                                         *)
(* SQLite is external: a connection holds no lock, SHARED, RESERVED or     *)
(* PENDING (on its way to EXCLUSIVE).  A busy statement is retried for     *)
(* ever nearly everywhere, so it is an action that waits; where the code   *)
(* gives up the action has a disjunct for it.  Only the holder of RESERVED *)
(* changes tables, in `work', which nobody else sees before its COMMIT:    *)
(* statements of one body may be one step.                                 *)
(***************************************************************************)
EXTENDS RegTables, Integers

CONSTANTS
  Procs,    \* processes, one interpreter and one connection each
  MaxName   \* bound: process |-> the highest n of its commands ::registry::entry<n>

ASSUME RegistryAssumption ==
  /\ MaxName \in [Procs -> Nat] /\ IsFiniteSet(Procs)

Names == UNION {0..MaxName[p] : p \in Procs}
Closed == -1   \* the id has no reg_entry in open_entries
NoProc == -2   \* its reg_entry has no command: entry->proc is NULL
NoPort == "none"

Cmd == [id: Ids, deleter: BOOLEAN, port: Ports \cup {NoPort}]
NoCmd == [id |-> 0, deleter |-> FALSE, port |-> NoPort]

VARIABLES
  db,       \* the database file
  work,     \* what the holder of RESERVED sees
  lock,     \* the lock each process has on the file
  pc,       \* where each process is
  open,     \* id |-> its entry object: Closed, NoProc or the command's name
  cmds,     \* name |-> the entry command: the id of its object, whether
            \* delete_entry is its delete proc, and (history) the port it
            \* was last given out for
  found,    \* keys of the file objects of rev-upgrade's last search
  deleted   \* the list "registry::deleted" of the current body

shared == <<db, work, lock>>
objects == <<open, cmds, found, deleted>>
vars == <<shared, pc, objects>>

Begun == {"create", "createCommit", "version", "upgrade", "upgradeCommit", "reread"}
Attached == {"ready", "read", "write", "wrote", "commit"}
Writers == {p \in Procs : lock[p] \in {"reserved", "pending"}}

\* One writer; without one the working copy is the file; whoever has opened
\* the registry works on the current schema.
TypeOK ==
  /\ db \in Database /\ work \in Database
  /\ lock \in [Procs -> {"none", "shared", "reserved", "pending"}]
  /\ pc \in [Procs -> {"none"} \cup Begun \cup Attached]
  /\ open \in [Procs -> [Ids -> Names \cup {Closed, NoProc}]]
  /\ cmds \in [Procs -> [Names -> Cmd \cup {NoCmd}]]
  /\ found \in [Procs -> SUBSET (Ids \X Paths)]
  /\ deleted \in [Procs -> SUBSET Ids]
  /\ Cardinality(Writers) <= 1
  /\ Writers = {} => work = db
  /\ \A p \in Procs : pc[p] \in Attached => db.version = "1.1"

-----------------------------------------------------------------------------
(* SQLite's locks *)

Others(p) == Procs \ {p}
CanShare(p) == \A q \in Others(p) : lock[q] # "pending"
CanReserve(p) == Others(p) \cap Writers = {}
CanCommit(p) == \A q \in Others(p) : lock[q] = "none"
SetLock(p, l) == lock' = [lock EXCEPT ![p] = l]
Go(p, label) == pc' = [pc EXCEPT ![p] = label]

View(p) == IF p \in Writers THEN work ELSE db

\* ROLLBACK, or the death of the process: the working copy is dropped.
\* Mutant: the changes stay in the working copy.
DropKeepsWork(p) == SetLock(p, "none") /\ UNCHANGED <<db, work>>

Drop(p) ==
  /\ SetLock(p, "none")
  /\ work' = IF p \in Writers THEN db ELSE work
  /\ UNCHANGED db

\* COMMIT has taken PENDING, which keeps new readers out, and waits for the
\* old ones.
Committed(p) ==
  /\ lock[p] = "pending" /\ CanCommit(p)
  /\ db' = work /\ SetLock(p, "none") /\ UNCHANGED work

\* The process ends, or dies; an open that failed ends port, too.
Gone(p) ==
  /\ Drop(p) /\ Go(p, "none")
  /\ open' = [open EXCEPT ![p] = [i \in Ids |-> Closed]]
  /\ cmds' = [cmds EXCEPT ![p] = [n \in Names |-> NoCmd]]
  /\ found' = [found EXCEPT ![p] = {}]
  /\ deleted' = [deleted EXCEPT ![p] = {}]

-----------------------------------------------------------------------------
(* registry::open *)

\* stat(2) decides whether the tables are to be created.
Attach(p) ==
  /\ pc[p] = "none"
  /\ Go(p, IF db.version = "absent" THEN "create" ELSE "version")
  /\ UNCHANGED <<shared, objects>>

\* ATTACH makes the file; the first CREATE TABLE fails if another process
\* has created the tables since the stat.
CreateTables(p) ==
  /\ pc[p] = "create"
  /\ \/ /\ db.version \in {"absent", "empty"} /\ CanReserve(p)
        /\ SetLock(p, "pending") /\ Go(p, "createCommit")
        /\ db' = [db EXCEPT !.version = "empty"] /\ work' = create_tables(db)
        /\ UNCHANGED objects
     \/ db.version \notin {"absent", "empty"} /\ Gone(p)

\* BEGIN and the SELECT of the version, which takes SHARED: a busy database
\* and one without tables are errors.  A current schema ends the transaction.
ReadVersion(p) ==
  /\ pc[p] = "version"
  /\ \/ (~CanShare(p) \/ db.version = "empty") /\ Gone(p)
     \/ /\ CanShare(p) /\ db.version = "1.1"
        /\ Go(p, "ready") /\ UNCHANGED <<shared, objects>>
     \/ /\ CanShare(p) /\ db.version = "1.0"
        /\ SetLock(p, "shared") /\ Go(p, "upgrade") /\ UNCHANGED <<db, work, objects>>

\* ALTER TABLE needs RESERVED on top of the SHARED the SELECT has left; then
\* COMMIT.
Upgrade(p) ==
  /\ pc[p] = "upgrade" /\ CanReserve(p)
  /\ SetLock(p, "pending") /\ work' = update_db(db)
  /\ Go(p, "upgradeCommit")
  /\ UNCHANGED <<db, objects>>

SchemaCommitted(p) ==
  /\ pc[p] \in {"createCommit", "upgradeCommit"} /\ Committed(p)
  /\ Go(p, IF pc[p] = "createCommit" THEN "version" ELSE "reread")
  /\ UNCHANGED objects

\* The second pass of update_db's loop runs the SELECT where it means to run
\* BEGIN, and stops at the row it gets.
Reread(p) ==
  /\ pc[p] = "reread"
  /\ \/ ~CanShare(p) /\ Gone(p)
     \/ CanShare(p) /\ Go(p, "ready") /\ UNCHANGED <<shared, objects>>

-----------------------------------------------------------------------------
(* Entry objects *)

Free(p) == {n \in 0..MaxName[p] : cmds[p][n] = NoCmd}
Commands(p) == {n \in Names : cmds[p][n] # NoCmd}

\* unique_name: the k-th new object gets the k-th lowest free name.
unique_name(p, new, i) ==
  CHOOSE n \in Free(p) : Cardinality({k \in Free(p) : k < n})
                           = Cardinality({j \in new : j < i})

\* reg_stmt_to_entry and entry_to_obj for the rows of a query.
GiveOut(p, S, d) ==
  LET new == {i \in S : open[p][i] = Closed}
      name(i) == IF i \in new THEN unique_name(p, new, i) ELSE open[p][i] IN
  /\ Cardinality(new) <= Cardinality(Free(p))
  /\ \A i \in S : open[p][i] # NoProc
  /\ open' = [open EXCEPT ![p] = [i \in Ids |-> IF i \in S THEN name(i) ELSE open[p][i]]]
  /\ cmds' = [cmds EXCEPT ![p] = [n \in Names |->
                IF \E i \in S : name(i) = n
                THEN LET i == CHOOSE j \in S : name(j) = n IN
                     [id |-> i, deleter |-> cmds[p][n].deleter, port |-> d.ports[i].port]
                ELSE cmds[p][n]]]

\* What registry::entry open, search, imaged, installed and owner and the
\* commands dependents and dependencies of an entry may return.
Searches(d) ==
  UNION {{reg_entry_search(d, M), reg_entry_imaged(d, M), reg_entry_installed(d, M)} :
         M \in SUBSET Ports}
Owners(d) == {reg_entry_owner(d, a) : a \in Paths}
Related(d, i) == {reg_entry_dependents(d, i), reg_entry_dependencies(d, i)}
Results(d, ids) ==
  {reg_entry_open(d, x) : x \in Ports} \cup Searches(d) \cup Owners(d)
  \cup UNION {Related(d, i) : i \in ids}

\* What a write body looks up before it writes it might have looked up before.
Lookup(p) ==
  /\ pc[p] \in {"ready", "read"} /\ found[p] = {}
  /\ CanShare(p)
  /\ \E S \in Results(db, {cmds[p][n].id : n \in Commands(p)}) :
       S # {} /\ GiveOut(p, S, db)
  /\ UNCHANGED <<shared, pc, found, deleted>>

\* registry::file search active 1 binary -null.
LookupFiles(p) ==
  /\ pc[p] = "ready" /\ CanShare(p)
  /\ found' = [found EXCEPT ![p] = reg_file_search(db, TRUE, "null")]
  /\ UNCHANGED <<shared, pc, open, cmds, deleted>>

-----------------------------------------------------------------------------
(* registry::read and registry::write *)

\* BEGIN takes no lock; the first query takes SHARED until the body ends.
StartRead(p) ==
  /\ pc[p] = "ready" /\ found[p] = {} /\ CanShare(p)
  /\ Go(p, "read") /\ SetLock(p, "shared") /\ UNCHANGED <<db, work, objects>>

\* COMMIT or ROLLBACK, as the body ended.
EndRead(p) ==
  /\ pc[p] = "read" /\ Go(p, "ready") /\ Drop(p) /\ UNCHANGED objects

\* Mutant: BEGIN where BEGIN IMMEDIATE is meant; a query takes SHARED first.
StartWriteDeferred(p) ==
  /\ pc[p] = "ready" /\ CanShare(p)
  /\ SetLock(p, "shared") /\ Go(p, "write") /\ UNCHANGED <<db, work, objects>>

StartWrite(p) ==
  /\ pc[p] = "ready" /\ CanReserve(p)
  /\ SetLock(p, "reserved") /\ Go(p, "write") /\ UNCHANGED <<db, work, objects>>

\* Every body of the program makes one kind of change; the statements it
\* takes are one step.
Statement(p, d) ==
  /\ pc[p] = "write" /\ CanReserve(p)
  /\ SetLock(p, "reserved") /\ work' = d /\ Go(p, "wrote")
  /\ UNCHANGED db

\* An installed port is registered: create, state, depends (on another port),
\* map.  The object is new, whatever open_entries had for the id.
Create(p) ==
  /\ Free(p) # {}
  /\ \E port \in Ports, i \in NewIds(work), dep \in Ports :
       LET n == unique_name(p, {i}, i)
           d == reg_entry_propset(reg_entry_create(work, i, port), i, "imaged") IN
       /\ dep # port /\ MayCreate(work, port)
       /\ Statement(p, reg_entry_map(reg_entry_depends(d, i, dep), i, Paths))
       /\ open' = [open EXCEPT ![p][i] = n]
       /\ cmds' = [cmds EXCEPT ![p][n] = [id |-> i, deleter |-> FALSE, port |-> port]]
  /\ UNCHANGED <<found, deleted>>

\* The bodies of activation and deactivation.
MapFiles(p) ==
  /\ \E n \in Commands(p) :
       LET i == cmds[p][n].id
           image == reg_entry_imagefiles(work, i)
           active == reg_entry_files(work, i) IN
       \/ MayActivate(work, i, image) /\ Statement(p, reg_entry_activate(work, i, image))
       \/ MayDeactivate(work, i, active) /\ Statement(p, reg_entry_deactivate(work, i, active))
  /\ UNCHANGED <<open, cmds, found, deleted>>

\* rev-upgrade's body: all the file objects found before it began.
FlagFiles(p) ==
  /\ found[p] # {}
  /\ Statement(p, reg_file_propset(work, found[p], "yes"))
  /\ found' = [found EXCEPT ![p] = {}]
  /\ UNCHANGED <<open, cmds, deleted>>

\* registry::entry delete: the row must exist; the object is put on the list
\* and its command deleted.  The delete proc of a restored command forgets
\* the name.
Delete(p) ==
  \E n \in Commands(p) :
    LET i == cmds[p][n].id IN
    /\ MayDelete(work, i) /\ open[p][i] = n
    /\ Statement(p, reg_entry_delete(work, i))
    /\ deleted' = [deleted EXCEPT ![p] = {i}]
    /\ cmds' = [cmds EXCEPT ![p][n] = NoCmd]
    /\ open' = IF cmds[p][n].deleter THEN [open EXCEPT ![p][i] = NoProc] ELSE open
    /\ UNCHANGED found

EndBody(p) ==
  /\ pc[p] = "wrote" /\ Go(p, "commit")
  /\ SetLock(p, "pending") /\ UNCHANGED <<db, work, objects>>

\* COMMIT done: delete_entry_list frees the deleted entries.
Commit(p) ==
  /\ pc[p] = "commit"
  /\ Committed(p) /\ Go(p, "ready")
  /\ open' = [open EXCEPT ![p] = [i \in Ids |-> IF i \in deleted[p] THEN Closed ELSE @[i]]]
  /\ deleted' = [deleted EXCEPT ![p] = {}]
  /\ UNCHANGED <<cmds, found>>

\* (history) commands of entries that were never committed denote no port.
Forget(c) == IF c # NoCmd /\ c.id >= db.next THEN [c EXCEPT !.port = NoPort] ELSE c

\* Mutant: restore_entry_list is not called.
RestoreNothing(p, n) == Forget(cmds[p][n])

Restored(p, n) ==
  IF \E i \in deleted[p] : open[p][i] = n
  THEN LET i == CHOOSE j \in deleted[p] : open[p][j] = n IN
       [id |-> i, deleter |-> TRUE, port |-> db.ports[i].port]
  ELSE Forget(cmds[p][n])

\* The body threw or ended with break.  Creating the command of an entry
\* that has no name crashes the interpreter.
Rollback(p) ==
  /\ pc[p] \in {"write", "wrote"}
  /\ \/ (\E i \in deleted[p] : open[p][i] = NoProc) /\ Gone(p)
     \/ /\ \A i \in deleted[p] : open[p][i] # NoProc
        /\ Drop(p) /\ Go(p, "ready")
        /\ cmds' = [cmds EXCEPT ![p] = [n \in Names |-> Restored(p, n)]]
        /\ deleted' = [deleted EXCEPT ![p] = {}]
        /\ found' = [found EXCEPT ![p] = {}]
        /\ UNCHANGED open

-----------------------------------------------------------------------------
(* Statements of their own, the end of a process, and its death *)

\* $port state installed, after its files; imaged, after deactivation.
SetState(p) ==
  /\ pc[p] = "ready" /\ CanCommit(p)
  /\ \E n \in Commands(p) :
       LET i == cmds[p][n].id
           s == IF reg_entry_files(db, i) = {} THEN "imaged" ELSE "installed" IN
       /\ reg_entry_propget(db, i) \notin {{}, {s}}
       /\ db' = reg_entry_propset(db, i, s) /\ work' = db'
  /\ UNCHANGED <<lock, pc, objects>>

\* registry::close, whose VACUUM after a delete changes no row, or death.
End(p) == pc[p] # "none" /\ Gone(p)

Init ==
  /\ db \in {Tables("absent")} \cup
             {reg_entry_map(reg_entry_create(Tables("1.0"), 1, x), 1, Paths) : x \in Ports}
  /\ work = db
  /\ lock = [p \in Procs |-> "none"] /\ pc = [p \in Procs |-> "none"]
  /\ open = [p \in Procs |-> [i \in Ids |-> Closed]]
  /\ cmds = [p \in Procs |-> [n \in Names |-> NoCmd]]
  /\ found = [p \in Procs |-> {}] /\ deleted = [p \in Procs |-> {}]

Opens(p) ==
  Attach(p) \/ CreateTables(p) \/ ReadVersion(p) \/ Upgrade(p) \/ SchemaCommitted(p)
  \/ Reread(p)
Body(p) ==
  Create(p) \/ MapFiles(p) \/ FlagFiles(p) \/ Delete(p) \/ EndBody(p)
Next ==
  \E p \in Procs :
    \/ Opens(p) \/ Lookup(p) \/ LookupFiles(p) \/ StartRead(p) \/ EndRead(p)
    \/ StartWrite(p) \/ Body(p) \/ Commit(p) \/ Rollback(p) \/ SetState(p) \/ End(p)

Spec == Init /\ [][Next]_vars

-----------------------------------------------------------------------------
(* Properties *)

\* An open entry that is not about to be deleted has its command, and the
\* command denotes that entry: after any commits, rolled-back deletions and
\* creations ("If this is done within a transaction and the transaction is
\* rolled back, the entry will remain valid", registry2.0/entry.c:130).
HandlesWork ==
  \A p \in Procs, i \in Ids :
    /\ open[p][i] \in Names /\ i \notin deleted[p] => cmds[p][open[p][i]].id = i
    /\ i \notin deleted[p] => open[p][i] # NoProc

\* A command that a process got for an entry never denotes the entry of
\* another port, whatever other processes delete and create meanwhile, and
\* no file or dependency row is left without its entry: ids are never given
\* out twice (AUTOINCREMENT, cregistry/sql.c:136) and rows go with their
\* entry.
RowsBelong ==
  /\ \A p \in Procs, n \in Names :
       LET c == cmds[p][n] IN
       c # NoCmd /\ c.port # NoPort =>
         View(p).ports[c.id].port \in {c.port, NoPort}
  /\ \A d \in {db, work} : {f.id : f \in d.files} \cup {x.id : x \in d.deps} \subseteq Rows(d)

\* The processes that p waits for while it holds a lock itself.
WaitsFor(p) ==
  {q \in Others(p) :
     \/ lock[p] = "shared" /\ pc[p] \in {"upgrade", "write"} /\ q \in Writers
     \/ lock[p] = "pending" /\ lock[q] # "none"}

\* No two processes wait for each other for ever, except while both are in
\* update_db's upgrade of an old schema, which reads before it writes
\* (cregistry/sql.c:222); that is why transactions begin with BEGIN IMMEDIATE.
StuckNeedsUpgrade ==
  \A S \in SUBSET Procs :
    S # {} /\ (\A p \in S : WaitsFor(p) \cap S # {}) =>
      Cardinality({p \in S : pc[p] \in {"upgrade", "upgradeCommit"}}) > 1
=============================================================================
