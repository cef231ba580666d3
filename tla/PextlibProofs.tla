----------------------------- MODULE PextlibProofs -----------------------------
(***************************************************************************)
(* What the file maps and the install command of Pextlib promise, proved   *)
(* for any number of processes, any tree, any paths and values, and for    *)
(* any number of calls of install.                                         *)
(***************************************************************************)
EXTENDS FilemapStore, XInstall, FiniteSetTheorems, TLAPS

-------------------------------------------------------------------------------
(* The tree and the lock of a file map *)

Places == {"closed", "awaitRead", "awaitWrite", "load", "open", "save", "close"}
Locks == {"none", "read", "write"}
Fields == {"root", "readOnly", "dirty", "base"}

\* What is so of process q, which is at a with lock l and map c, when the
\* database is d: the map is that of the file as long as the lock is held; a
\* map is saved when it is dirty, and dirty when its lock is a writer's; and
\* the lock of a reader keeps a file there.
Holds(q, c, a, l, d) ==
  /\ a \in Places /\ l \in Locks
  /\ DOMAIN c = Fields /\ c.readOnly \in BOOLEAN /\ c.dirty \in BOOLEAN
  /\ l # "none" <=> q \notin Ram /\ a \in {"load", "open", "save", "close"}
  /\ c.readOnly => ~c.dirty
  /\ a \in {"save", "close"} => c.dirty
  /\ a \notin {"closed", "open"} => q \notin Ram
  /\ q \notin Ram =>
       /\ a \in {"load", "open"} => (c.readOnly <=> l = "read")
       /\ a \in {"open", "save", "close"} => c.base = d
       /\ c.dirty => l = "write"
       /\ a \in {"closed", "awaitRead", "awaitWrite", "load"} => ~c.dirty
       /\ a = "open" /\ c.readOnly => d # NoFile

Alone(q) == maplock[q] = "write" => \A r \in Proc \ {q} : maplock[r] = "none"

FilemapInv ==
  /\ stored \in Said /\ said \in [Proc -> Said]
  /\ mem = [q \in Proc |-> mem[q]] /\ at \in [Proc -> Places] /\ maplock \in [Proc -> Locks]
  /\ \A q \in Proc : Holds(q, mem[q], at[q], maplock[q], dbfile) /\ Alone(q)

\* A new map holds nothing.
LEMMA NothingSaidType == NothingSaid \in Said
  BY DEF NothingSaid, Said, Nothing

\* The invariant gives both properties.
LEMMA FilemapInvImplies == FilemapInv => FilemapTypeOK /\ CopiesAreCurrent
  <1> SUFFICES ASSUME FilemapInv PROVE FilemapTypeOK /\ CopiesAreCurrent
    OBVIOUS
  <1>1. CopiesAreCurrent
    BY DEF FilemapInv, Holds, CopiesAreCurrent
  <1>2. FilemapTypeOK
    BY DEF FilemapInv, Holds, Alone, FilemapTypeOK, Places, Locks
  <1> QED BY <1>1, <1>2

\* Initially every map is closed.
LEMMA FilemapInitInv == FilemapInit => FilemapInv
  <1> SUFFICES ASSUME FilemapInit PROVE FilemapInv
    OBVIOUS
  <1>1. ASSUME NEW q \in Proc PROVE Holds(q, mem[q], at[q], maplock[q], dbfile) /\ Alone(q)
    BY DEF FilemapInit, Holds, Alone, NoCopy, Places, Locks, Fields
  <1>2. /\ stored \in Said /\ said \in [Proc -> Said]
        /\ mem = [q \in Proc |-> mem[q]] /\ at \in [Proc -> Places] /\ maplock \in [Proc -> Locks]
    BY NothingSaidType DEF FilemapInit, Places, Locks
  <1> QED BY <1>1, <1>2 DEF FilemapInv

\* One process moves: what a writer has is nobody else's, and a database that
\* changes is nobody else's, or did not exist for anybody who has it open.
LEMMA OneMoves ==
  ASSUME FilemapInv, NEW p \in Proc, NEW c, NEW a \in Places, NEW l \in Locks,
         stored' \in Said, said' \in [Proc -> Said],
         mem' = [mem EXCEPT ![p] = c], at' = [at EXCEPT ![p] = a],
         maplock' = [maplock EXCEPT ![p] = l],
         Holds(p, c, a, l, dbfile'),
         l = "write" => \A q \in Proc \ {p} : maplock[q] = "none",
         l = "read" => \A q \in Proc \ {p} : maplock[q] # "write",
         \/ dbfile' = dbfile
         \/ maplock[p] = "write"
         \/ dbfile = NoFile /\ maplock[p] = "read"
  PROVE  FilemapInv'
  <1> USE DEF FilemapInv
  <1>1. /\ mem' = [q \in Proc |-> mem'[q]] /\ at' \in [Proc -> Places]
        /\ maplock' \in [Proc -> Locks]
    OBVIOUS
  <1>2. ASSUME NEW q \in Proc PROVE Holds(q, mem[q], at[q], maplock[q], dbfile)'
    <2>1. CASE q = p
      BY <2>1
    <2>2. CASE q # p /\ dbfile' = dbfile
      BY <2>2 DEF Holds
    <2>3. CASE q # p /\ maplock[p] = "write"
      BY <2>3 DEF Holds, Alone
    <2>4. CASE q # p /\ dbfile = NoFile /\ maplock[p] = "read"
      <3>1. /\ mem'[q] = mem[q] /\ at'[q] = at[q] /\ maplock'[q] = maplock[q]
            /\ Holds(q, mem[q], at[q], maplock[q], NoFile)
        BY <2>4
      <3>2. maplock[q] # "write"
        BY <2>4 DEF Alone
      <3>3. q \notin Ram => at[q] \notin {"open", "save", "close"}
        BY <3>1, <3>2 DEF Holds, Locks
      <3> QED BY <3>1, <3>3 DEF Holds
    <2> QED BY <2>1, <2>2, <2>3, <2>4
  <1>3. ASSUME NEW q \in Proc PROVE Alone(q)'
    <2>1. CASE q = p
      BY <2>1 DEF Alone
    <2>2. CASE q # p
      <3>1. maplock'[q] = maplock[q] /\ maplock'[p] = l /\ Alone(q)
        BY <2>2
      <3>2. maplock[q] = "write" => l = "none"
        BY <2>2 DEF Locks
      <3> QED BY <2>2, <3>1, <3>2 DEF Alone
    <2> QED BY <2>1, <2>2
  <1> QED BY <1>1, <1>2, <1>3

\* Whoever goes leaves its lock, and nothing else, to others.
LEMMA ReleasedInv ==
  ASSUME FilemapInv, NEW p \in Proc, Released(p), dbfile' = dbfile \/ maplock[p] = "write",
         stored' \in Said
  PROVE  FilemapInv'
  <1>1. Holds(p, NoCopy, "closed", "none", dbfile')
    BY DEF Holds, NoCopy, Places, Locks, Fields
  <1>2. said' \in [Proc -> Said]
    BY NothingSaidType DEF Released, FilemapInv
  <1> QED BY <1>1, <1>2, OneMoves DEF Released, Places, Locks

\* A reader that creates the file is the first that reads it.
LEMMA LoadedInv ==
  ASSUME FilemapInv, NEW p \in Proc, p \notin Ram, Loaded(p), UNCHANGED maplock,
         at[p] \in {"load", "open"}, at' = [at EXCEPT ![p] = "open"]
  PROVE  FilemapInv'
  <1> DEFINE content == IF dbfile = NoFile THEN <<>> ELSE dbfile
             c == [mem[p] EXCEPT !.root = TreeLoad(content), !.dirty = FALSE, !.base = content]
  <1>1. /\ dbfile' = content /\ mem' = [mem EXCEPT ![p] = c]
        /\ stored' \in Said /\ said' \in [Proc -> Said]
    BY DEF Loaded, FilemapInv
  <1>2. content # NoFile /\ (dbfile # NoFile => content = dbfile)
    BY DEF NoFile
  <1> HIDE DEF content
  <1>3. Holds(p, mem[p], at[p], maplock[p], dbfile) /\ Alone(p) /\ maplock[p] \in Locks
    BY DEF FilemapInv
  <1>4. maplock[p] # "none" /\ (mem[p].readOnly <=> maplock[p] = "read")
    BY <1>3 DEF Holds
  <1>5. Holds(p, c, "open", maplock[p], content)
    BY <1>2, <1>3, <1>4 DEF Holds, Places, Fields
  <1>6. /\ maplock' = [maplock EXCEPT ![p] = maplock[p]]
        /\ maplock[p] = "write" => \A q \in Proc \ {p} : maplock[q] = "none"
        /\ maplock[p] = "read" => \A q \in Proc \ {p} : maplock[q] # "write"
    BY <1>3 DEF Alone, FilemapInv
  <1>7. content = dbfile \/ maplock[p] = "write" \/ (dbfile = NoFile /\ maplock[p] = "read")
    BY <1>2, <1>3, <1>4 DEF Locks
  <1> HIDE DEF c
  <1> QED BY <1>1, <1>3, <1>5, <1>6, <1>7, OneMoves DEF Places

\* The map in p's memory changes, and nothing else that others see.
LEMMA CopyChanges ==
  ASSUME FilemapInv, NEW p \in Proc, NEW c, NEW a \in Places, mem' = [mem EXCEPT ![p] = c],
         at' = [at EXCEPT ![p] = a], UNCHANGED maplock,
         stored' \in Said, said' \in [Proc -> Said], Holds(p, c, a, maplock[p], dbfile'),
         dbfile' = dbfile \/ maplock[p] = "write"
  PROVE  FilemapInv'
  <1>1. Alone(p) /\ maplock[p] \in Locks /\ maplock' = [maplock EXCEPT ![p] = maplock[p]]
    BY DEF FilemapInv
  <1>2. maplock[p] = "read" => \A q \in Proc \ {p} : maplock[q] # "write"
    BY DEF Alone, FilemapInv
  <1> QED BY <1>1, <1>2, OneMoves DEF Alone

\* The process p moves within one of its maps.
LEMMA FilemapProcInv ==
  ASSUME FilemapInv, NEW p \in Proc, FilemapProcNext(p)
  PROVE  FilemapInv'
  <1> USE DEF mapFiles
  <1>1. /\ Holds(p, mem[p], at[p], maplock[p], dbfile) /\ Alone(p)
        /\ stored \in Said /\ said \in [Proc -> Said] /\ DOMAIN mem = Proc
        /\ mem = [q \in Proc |-> mem[q]] /\ at \in [Proc -> Places] /\ maplock \in [Proc -> Locks]
    BY DEF FilemapInv
  <1>2. CASE FilemapCreateCmd(p)
    <2>1. Holds(p, NoCopy, "open", maplock[p], dbfile')
      BY <1>1, <1>2 DEF FilemapCreateCmd, Holds, NoCopy, Places, Fields
    <2>2. said' \in [Proc -> Said] /\ stored' \in Said
      BY <1>1, <1>2, NothingSaidType DEF FilemapCreateCmd
    <2> QED BY <1>2, <2>1, <2>2, CopyChanges DEF FilemapCreateCmd, Places
  <1>3. ASSUME NEW readOnly \in BOOLEAN, FilemapOpenCmd(p, readOnly)
        PROVE  FilemapInv'
    <2> DEFINE a == IF readOnly \/ p \notin MayWrite THEN "awaitRead" ELSE "awaitWrite"
    <2>1. a \in {"awaitRead", "awaitWrite"}
      OBVIOUS
    <2>2. /\ mem' = [mem EXCEPT ![p] = mem[p]] /\ at' = [at EXCEPT ![p] = a]
          /\ UNCHANGED <<maplock, dbfile, said, stored>> /\ p \notin Ram /\ at[p] = "closed"
      BY <1>1, <1>3 DEF FilemapOpenCmd
    <2> HIDE DEF a
    <2>3. Holds(p, mem[p], a, maplock[p], dbfile')
      BY <1>1, <2>1, <2>2 DEF Holds, Places
    <2> QED BY <1>1, <2>1, <2>2, <2>3, CopyChanges DEF Places
  <1>4. CASE Locked(p)
    <2> DEFINE l == IF at[p] = "awaitRead" THEN "read" ELSE "write"
               c == [mem[p] EXCEPT !.readOnly = (at[p] = "awaitRead")]
    <2>1. /\ l \in Locks /\ l # "none"
          /\ l = "write" => \A q \in Proc \ {p} : maplock[q] = "none"
          /\ l = "read" => \A q \in Proc \ {p} : maplock[q] # "write"
          /\ maplock' = [maplock EXCEPT ![p] = l] /\ at' = [at EXCEPT ![p] = "load"]
      <3>1. CASE at[p] = "awaitRead"
        BY <1>4, <3>1 DEF Locked, Locks
      <3>2. CASE at[p] = "awaitWrite"
        BY <1>4, <3>2 DEF Locked, Locks
      <3> QED BY <1>4, <3>1, <3>2 DEF Locked
    <2>2. mem' = [mem EXCEPT ![p] = c]
      BY <1>1, <1>4 DEF Locked
    <2>3. dbfile' = dbfile /\ said' \in [Proc -> Said] /\ stored' \in Said
      BY <1>1, <1>4 DEF Locked
    <2>4. p \notin Ram /\ ~mem[p].dirty /\ (l = "read" <=> at[p] = "awaitRead")
      BY <1>1, <1>4 DEF Locked, Holds
    <2> HIDE DEF l
    <2>5. Holds(p, c, "load", l, dbfile')
      BY <1>1, <2>1, <2>3, <2>4 DEF Holds, Places, Fields
    <2> HIDE DEF c
    <2>6. "load" \in Places
      BY DEF Places
    <2> QED BY <2>1, <2>2, <2>3, <2>5, <2>6, OneMoves
  <1>5. CASE OpenLoads(p)
    BY <1>1, <1>5, LoadedInv DEF OpenLoads, Holds
  <1>6. CASE OpenFails(p) \/ FilemapDies(p)
    BY <1>1, <1>6, ReleasedInv DEF OpenFails, FilemapDies
  <1>7. CASE FilemapRevertCmd(p)
    <2>1. at' = [at EXCEPT ![p] = "open"]
      BY <1>1, <1>7 DEF FilemapRevertCmd
    <2> QED BY <1>7, <2>1, LoadedInv DEF FilemapRevertCmd
  <1>8. ASSUME NEW path \in UsedPaths[p], NEW value \in Values, FilemapSetCmd(p, path, value)
        PROVE  FilemapInv'
    <2> DEFINE done == TreeSet(mem[p].root, path, value)
               c == [mem[p] EXCEPT !.root = done.tree, !.dirty = TRUE]
    <2>1. /\ mem' = [mem EXCEPT ![p] = c] /\ at' = [at EXCEPT ![p] = "open"]
          /\ at[p] = "open" /\ ~mem[p].readOnly
          /\ UNCHANGED <<dbfile, temp, stored, maplock>>
      BY <1>1, <1>8 DEF FilemapSetCmd
    <2>2. said' \in [Proc -> Said]
      BY <1>1, <1>8 DEF FilemapSetCmd, Said, AllPaths
    <2>3. Holds(p, c, "open", maplock[p], dbfile')
      BY <1>1, <2>1 DEF Holds, Places, Locks, Fields
    <2> HIDE DEF c
    <2> QED BY <1>1, <2>1, <2>2, <2>3, CopyChanges DEF Places
  <1>9. ASSUME NEW path \in UsedPaths[p], FilemapUnsetCmd(p, path)
        PROVE  FilemapInv'
    <2> DEFINE done == TreeRemove(mem[p].root, path)
               unset == {q \in AllPaths : done.err = "ok" /\ Below(path, q)}
               c == [mem[p] EXCEPT !.root = done.tree, !.dirty = TRUE]
    <2>1. CASE done.err = "undefined"
      BY <1>1, <1>9, <2>1, ReleasedInv DEF FilemapUnsetCmd
    <2>2. CASE done.err # "undefined"
      <3>1. /\ mem' = [mem EXCEPT ![p] = c] /\ at' = [at EXCEPT ![p] = "open"]
            /\ at[p] = "open" /\ ~mem[p].readOnly
            /\ UNCHANGED <<dbfile, temp, stored, maplock>>
            /\ said' = [said EXCEPT ![p].map =
                          [q \in AllPaths |-> IF q \in unset THEN Absent ELSE @[q]]]
        BY <1>1, <1>9, <2>2 DEF FilemapUnsetCmd
      <3> HIDE DEF unset
      <3>2. said' \in [Proc -> Said]
        BY <1>1, <3>1 DEF Said
      <3>3. Holds(p, c, "open", maplock[p], dbfile')
        BY <1>1, <3>1 DEF Holds, Places, Locks, Fields
      <3> HIDE DEF c
      <3> QED BY <1>1, <3>1, <3>2, <3>3, CopyChanges DEF Places
    <2> QED BY <2>1, <2>2
  <1>10. ASSUME NEW next \in {"save", "close"}, SaveBegins(p, next), at[p] = "open",
                p \notin Ram, mem[p].dirty
         PROVE  FilemapInv'
    <2>1. /\ mem' = [mem EXCEPT ![p] = mem[p]] /\ at' = [at EXCEPT ![p] = next]
          /\ UNCHANGED <<maplock, dbfile, said, stored>>
      BY <1>1, <1>10 DEF SaveBegins
    <2>2. Holds(p, mem[p], next, maplock[p], dbfile')
      BY <1>1, <1>10, <2>1 DEF Holds, Places
    <2> QED BY <1>1, <2>1, <2>2, CopyChanges DEF Places
  <1>11. CASE FilemapSaveCmd(p)
    BY <1>10, <1>11 DEF FilemapSaveCmd
  <1>12. CASE FilemapCloseCmd(p)
    BY <1>1, <1>10, <1>12, ReleasedInv DEF FilemapCloseCmd
  <1>13. ASSUME NEW base, AfterSave(p, base), at[p] \in {"save", "close"},
                base = dbfile', stored' \in Said
         PROVE  FilemapInv'
    <2> DEFINE c == [mem[p] EXCEPT !.dirty = FALSE, !.base = base]
    <2>1. maplock[p] = "write" /\ p \notin Ram /\ ~mem[p].readOnly
      BY <1>1, <1>13 DEF Holds
    <2>2. CASE at[p] = "close"
      BY <1>13, <2>1, <2>2, ReleasedInv DEF AfterSave
    <2>3. CASE at[p] = "save"
      <3>1. /\ mem' = [mem EXCEPT ![p] = c] /\ at' = [at EXCEPT ![p] = "open"]
            /\ UNCHANGED <<maplock, said>>
        BY <1>1, <1>13, <2>3 DEF AfterSave
      <3>2. Holds(p, c, "open", maplock[p], dbfile')
        BY <1>1, <1>13, <2>1 DEF Holds, Places, Locks, Fields
      <3> HIDE DEF c
      <3> QED BY <1>1, <1>13, <2>1, <3>1, <3>2, CopyChanges DEF Places
    <2> QED BY <1>13, <2>2, <2>3
  <1>14. CASE SaveEnds(p)
    BY <1>1, <1>13, <1>14 DEF SaveEnds
  <1>15. CASE SaveFails(p)
    BY <1>1, <1>13, <1>15 DEF SaveFails, Holds
  <1> QED
    BY <1>2, <1>3, <1>4, <1>5, <1>6, <1>7, <1>8, <1>9, <1>11, <1>12, <1>14, <1>15
    DEF FilemapProcNext

\* The invariant holds in every state.
LEMMA FilemapSafe == FilemapSpec => []FilemapInv
  <1>1. FilemapInv /\ [FilemapNext]_filemapVars => FilemapInv'
    <2> SUFFICES ASSUME FilemapInv, [FilemapNext]_filemapVars
                 PROVE  FilemapInv'
      OBVIOUS
    <2>1. CASE FilemapNext
      BY <2>1, FilemapProcInv DEF FilemapNext
    <2>2. CASE UNCHANGED filemapVars
      BY <2>2 DEF FilemapInv, Holds, Alone, filemapVars, mapFiles
    <2> QED BY <2>1, <2>2
  <1> QED BY <1>1, FilemapInitInv, PTL DEF FilemapSpec

\* The locks of a file map exclude each other, are held from the grant to the
\* close, and a map that is dirty has the lock of a writer (FilemapOpenCmd,
\* FreeFilemapObject).
THEOREM FilemapTypesOK == FilemapSpec => []FilemapTypeOK
  BY FilemapSafe, FilemapInvImplies, PTL

\* No update of a file map is lost: whoever has it open has the content that
\* the file has (FilemapOpenCmd, FilemapRevertCmd, FilemapSaveCmd, Save).
THEOREM FilemapCopiesAreCurrent == FilemapSpec => []CopiesAreCurrent
  BY FilemapSafe, FilemapInvImplies, PTL

-------------------------------------------------------------------------------
(* The invariant of install *)

\* What is in a file that is complete but not stripped, and in one that is
\* ready: the source's bytes, or those that are wanted; none at all when the
\* source was the target and could not be removed.
Emptied(file) == call.same /\ ~Tempcopy /\ file = Empty
Full(file) == file = call.bytes \/ Emptied(file)
Good(file) == file \in Wanted \/ Emptied(file)

CallFields == {"dobackup", "docompare", "dostrip", "safecopy", "source", "target", "same",
               "nlink", "before", "litter", "bytes", "unstripped", "removed"}

\* The parent may still come back to look at the file that its child installed.
Comes == twin \/ step = "reopen"

Types ==
  /\ fs \in [Name -> Inode \cup {NoInode}]
  /\ bytes \in [Inode -> Content] /\ mode \in [Inode -> BOOLEAN]
  /\ step \in Over \cup {"compare", "create", "copy", "copying", "strip", "reopen",
                         "backup", "move", "attributes"}
  /\ twin \in BOOLEAN /\ calls \in 0..MaxCalls
  /\ from_fd \in Inode \cup {NoInode} /\ to_fd \in Inode \cup {NoInode}

\* The temporary file has one name and is not the source, and a backup is not
\* the target.
Apart ==
  /\ fs["from"] # NoInode
  /\ fs["temp"] # NoInode =>
       fs["temp"] \notin {fs["from"], fs["to"], fs["backup"], fs["link"], from_fd}
  /\ fs["backup"] # NoInode => fs["backup"] # fs["to"]

\* What the call found.
Call ==
  /\ DOMAIN call = CallFields
  /\ call.dobackup \in BOOLEAN /\ call.safecopy \in BOOLEAN /\ call.target \in BOOLEAN
  /\ call.docompare /\ call.dostrip => call.safecopy
  /\ call.source \in {"from", "to", "null"}
  /\ call.source = "null" => from_fd = NoInode /\ ~call.same
  /\ call.source = "from" => from_fd = fs["from"] /\ fs["to"] # from_fd /\ ~call.same
  /\ call.source = "to" => from_fd # NoInode /\ call.same

\* Where the call is: only the child of strip is a twin; what is written is
\* the copy, whose descriptor is open.
Where ==
  /\ twin => /\ call.dostrip /\ call.unstripped
             /\ step \in (Over \ {"idle"}) \cup {"reopen", "backup", "move", "attributes"}
  /\ step \in {"strip", "reopen"} => call.dostrip
  /\ step = "create" => ~Tempcopy
  /\ step \in {"backup", "move"} => Tempcopy
  /\ step = "backup" => call.dobackup
  /\ step \in {"copy", "copying", "strip", "backup", "move"} =>
       to_fd = fs[CopyName] /\ to_fd # NoInode
  /\ step = "attributes" => to_fd = fs["to"] /\ to_fd # NoInode
  /\ step = "ok" => fs["to"] # NoInode /\ mode[fs["to"]]

\* The source keeps its bytes, and the copy has them when it should.
Bytes ==
  /\ Full(SourceBytes)
  /\ step \in {"copy", "copying", "strip"} => to_fd # from_fd \/ Emptied(SourceBytes)
  /\ step = "copy" => bytes[to_fd] = Empty
  /\ step = "strip" => Full(bytes[to_fd])
  /\ (Comes \/ step \in {"backup", "move"}) /\ fs[CopyName] # NoInode => Good(At(CopyName))
  /\ step \in {"attributes", "ok"} => Good(At("to"))

\* The old file: in its place, or the backup.
Before == fs["to"] # NoInode /\ At("to") = call.before
Backed == call.dobackup /\ fs["to"] = NoInode /\ At("backup") = call.before

\* Under -S the old file is in its place as long as the new one is at work; the
\* backup is made last; and it is there when the new file is in its place.
Target ==
  Tempcopy =>
    /\ step \in {"compare", "copy", "copying", "strip"} => Before
    /\ Comes \/ step \in {"backup", "move"} => fs["temp"] = NoInode \/ Before \/ Backed
    /\ step = "move" => Backed \/ ~call.dobackup
    /\ \/ Before \/ Backed
       \/ fs["to"] # NoInode /\ At("to") \in Wanted
       \/ fs["to"] = NoInode /\ call.removed

\* Without -S the backup is made first.
Kept ==
  /\ step = "compare" => At("to") = call.before /\ (call.target => fs["to"] # NoInode)
  /\ step \in {"attributes", "ok"} /\ call.dobackup /\ call.target =>
       call.before \in {At("to"), At("backup")}
  /\ ~Tempcopy /\ call.target /\ call.dobackup =>
       /\ step = "create" => fs["to"] = NoInode
       /\ Comes \/ step \in {"create", "copy", "copying", "strip"} =>
            At("backup") = call.before

\* No temporary file is left over, and none is left when the new file is in
\* its place.
Litter ==
  /\ ~Tempcopy \/ step = "compare" => fs["temp"] = call.litter
  /\ step \in {"attributes", "ok"} => fs["temp"] \in {NoInode, call.litter}
  /\ step = "attributes" /\ Comes /\ Tempcopy => fs["temp"] = NoInode

InstallInv ==
  /\ Types /\ Apart
  /\ step = "idle" => ~twin
  /\ step # "idle" => Call /\ Where /\ Bytes /\ Target /\ Kept /\ Litter

\* What the helpers on contents return.
LEMMA Contents ==
  /\ Empty \in Content /\ NoContent \notin Content /\ Stripped(Empty) = Empty
  /\ \A file \in Content : Stripped(file) \in Content
  /\ \A file \in Content : file # Empty => Part(file) \in Content
  BY DEF Empty, Content, NoContent, Stripped, Part

\* The inodes begin with seven, and none of them is NoInode.
LEMMA Inodes ==
  {1, 2, 3, 4, 5, 6, 7} \subseteq Inode /\ NoInode \notin Inode /\ MaxCalls \in Nat
  <1>1. Cardinality(Inode) \in Nat /\ Cardinality(Inode) >= 7 /\ Inode = 1..Cardinality(Inode)
    BY XInstallAssumption, FS_CardinalityType
  <1> QED BY <1>1, XInstallAssumption DEF NoInode

\* There is always an inode for a new file.
LEMMA FreeInode ==
  \E i \in Inode : i # NoInode /\ i \notin {fs[n] : n \in Name} \cup {from_fd}
  BY Inodes DEF Name, NoInode

\* What changes when a name is removed, renamed, or given to a new file.
LEMMA UnlinkedNames ==
  ASSUME Types, NEW name \in Name, Unlinked(name)
  PROVE  /\ fs' \in [Name -> Inode \cup {NoInode}] /\ fs'[name] = NoInode
         /\ \A n \in Name \ {name} : fs'[n] = fs[n]
  BY DEF Types, Unlinked

\* As for a name that is removed.
LEMMA RenamedNames ==
  ASSUME Types, NEW name \in Name, NEW to \in Name \ {name}, Renamed(name, to)
  PROVE  /\ fs' \in [Name -> Inode \cup {NoInode}]
         /\ fs'[name] = NoInode /\ fs'[to] = fs[name]
         /\ \A n \in Name \ {name, to} : fs'[n] = fs[n]
  BY DEF Types, Renamed

\* The file is nobody else's.
LEMMA CreatedNames ==
  ASSUME Types, NEW name \in Name, Created(name)
  PROVE  /\ fs' \in [Name -> Inode \cup {NoInode}]
         /\ bytes' \in [Inode -> Content] /\ mode' \in [Inode -> BOOLEAN]
         /\ to_fd' \in Inode /\ to_fd' # NoInode /\ to_fd' # from_fd
         /\ fs'[name] = to_fd' /\ bytes'[to_fd'] = Empty
         /\ \A n \in Name : fs[n] # to_fd'
         /\ \A n \in Name \ {name} : fs'[n] = fs[n]
         /\ \A i \in Inode \ {to_fd'} : bytes'[i] = bytes[i]
  <1> DEFINE free == Inode \ ({fs[n] : n \in Name} \cup {from_fd})
             inode == CHOOSE i \in free : TRUE
  <1>1. inode \in free
    BY FreeInode
  <1>2. /\ fs' = [fs EXCEPT ![name] = inode]
        /\ bytes' = [bytes EXCEPT ![inode] = Empty] /\ mode' = [mode EXCEPT ![inode] = FALSE]
        /\ to_fd' = inode
    BY DEF Created
  <1>3. inode # NoInode
    BY <1>1, Inodes
  <1> HIDE DEF inode
  <1> QED BY <1>1, <1>2, <1>3, Contents DEF Types

\* A call that ends, by an error or by the death of its process, leaves the
\* files as they are.
LEMMA Stops ==
  ASSUME InstallInv, step # "idle", step' \in {"error", "dead"},
         UNCHANGED <<disk, call, from_fd, to_fd, twin, calls>>
  PROVE  InstallInv'
  <1> USE DEF Goes, disk, Comes, Full, Good, Emptied, Wanted, SourceBytes, CopyName, Tempcopy, At, Before, Backed, NoInode, Over, Name
  <1>0. Types /\ Apart /\ Call /\ Where /\ Bytes /\ Target /\ Kept /\ Litter
    BY DEF InstallInv
  <1>11. Types'
    BY <1>0 DEF Types
  <1>12. Apart'
    BY <1>0 DEF Apart
  <1>13. Call'
    BY <1>0 DEF Call, Apart
  <1>14. Where'
    BY <1>0 DEF Where, Call, Target, Kept
  <1>15. Bytes'
    BY <1>0 DEF Bytes, Where, Call, Apart, Types
  <1>16. Target'
    BY <1>0 DEF Target, Where, Bytes, Apart, Litter, Types
  <1>17. Kept'
    BY <1>0 DEF Kept, Where, Apart, Target, Types
  <1>18. Litter'
    BY <1>0 DEF Litter, Where, Call
  <1> QED BY <1>0, <1>11, <1>12, <1>13, <1>14, <1>15, <1>16, <1>17, <1>18 DEF InstallInv

\* What was copied, but is not in its place, is removed.
LEMMA CopyRemoved ==
  ASSUME InstallInv, Unlinked(CopyName), UNCHANGED <<call, from_fd, to_fd, calls>>,
         \/ step \in {"copying", "strip", "backup", "move"} /\ UNCHANGED twin
         \/ twin /\ step \in Over /\ twin' = FALSE,
         step' = "error" \/ (step' = "reopen" /\ call.dostrip)
  PROVE  InstallInv'
  <1> USE DEF Goes, disk, Comes, Full, Good, Emptied, Wanted, SourceBytes, CopyName, Tempcopy, At, Before, Backed, NoInode, Over, Name
  <1>0. Types /\ Apart /\ Call /\ Where /\ Bytes /\ Target /\ Kept /\ Litter
    BY DEF InstallInv, Where
  <1>1. /\ fs' \in [Name -> Inode \cup {NoInode}] /\ fs'[CopyName] = NoInode
        /\ \A n \in Name \ {CopyName} : fs'[n] = fs[n]
        /\ UNCHANGED <<bytes, mode>>
    BY <1>0, UnlinkedNames DEF Unlinked
  <1>11. Types'
    BY <1>0, <1>1 DEF Types
  <1>12. Apart'
    BY <1>0, <1>1 DEF Apart
  <1>13. Call'
    BY <1>0, <1>1 DEF Call, Apart
  <1>14. Where'
    BY <1>0, <1>1 DEF Where, Call, Target, Kept
  <1>15. Bytes'
    BY <1>0, <1>1 DEF Bytes, Where, Call, Apart, Types
  <1>16. Target'
    BY <1>0, <1>1 DEF Target, Where, Bytes, Apart, Litter, Types
  <1>17. Kept'
    BY <1>0, <1>1 DEF Kept, Where, Apart, Target, Types
  <1>18. Litter'
    BY <1>0, <1>1 DEF Litter, Where, Call
  <1> QED BY <1>0, <1>1, <1>11, <1>12, <1>13, <1>14, <1>15, <1>16, <1>17, <1>18 DEF InstallInv

\* The copy is complete.
LEMMA CopyDone ==
  ASSUME InstallInv, step \in {"copy", "copying"}, Goes(Copied), UNCHANGED <<fs, mode, to_fd>>,
         bytes' = [bytes EXCEPT ![to_fd] = SourceBytes]
  PROVE  InstallInv'
  <1> USE DEF Goes, disk, Comes, Full, Good, Emptied, Wanted, SourceBytes, CopyName, Tempcopy, At, Before, Backed, NoInode, Over, Name
  <1>0. Types /\ Apart /\ Call /\ Where /\ Bytes /\ Target /\ Kept /\ Litter
    BY DEF InstallInv
  <1>1. to_fd \in Inode /\ SourceBytes \in Content
    BY <1>0, Contents DEF Types, Where
  <1>2. /\ bytes' \in [Inode -> Content] /\ bytes'[to_fd] = SourceBytes
        /\ \A i \in Inode \ {to_fd} : bytes'[i] = bytes[i]
    BY <1>0, <1>1 DEF Types
  <1>3. /\ step' = "strip" => call.dostrip
        /\ step' = "backup" => Tempcopy /\ call.dobackup
        /\ step' = "move" => Tempcopy /\ ~call.dobackup
        /\ step' = "attributes" => ~Tempcopy /\ ~call.dostrip
        /\ step' \in {"strip", "backup", "move", "attributes"}
        /\ step' # "strip" => ~call.dostrip
    BY DEF Copied, Ready
  <1>11. Types'
    BY <1>0, <1>1, <1>2, <1>3 DEF Types
  <1>12. Apart'
    BY <1>0, <1>1, <1>2, <1>3 DEF Apart
  <1>13. Call'
    BY <1>0, <1>1, <1>2, <1>3 DEF Call, Apart
  <1>14. Where'
    BY <1>0, <1>1, <1>2, <1>3 DEF Where, Call, Target, Kept
  <1>15. Bytes'
    BY <1>0, <1>1, <1>2, <1>3 DEF Bytes, Where, Call, Apart, Types
  <1>16. Target'
    BY <1>0, <1>1, <1>2, <1>3 DEF Target, Where, Bytes, Apart, Litter, Types
  <1>17. Kept'
    BY <1>0, <1>1, <1>2, <1>3 DEF Kept, Where, Apart, Target, Types
  <1>18. Litter'
    BY <1>0, <1>1, <1>2, <1>3 DEF Litter, Where, Call
  <1> QED BY <1>0, <1>1, <1>2, <1>3, <1>11, <1>12, <1>13, <1>14, <1>15, <1>16, <1>17, <1>18 DEF InstallInv

\* A target that is what it should be gets its attributes only.
LEMMA MatchesKeeps ==
  ASSUME InstallInv, Matches
  PROVE  InstallInv'
  <1> USE DEF Goes, disk, Comes, Full, Good, Emptied, Wanted, SourceBytes, CopyName, Tempcopy, At, Before, Backed, NoInode, Over, Name
  <1>0. Types /\ Apart /\ Call /\ Where /\ Bytes /\ Target /\ Kept /\ Litter
    BY DEF InstallInv, Matches
  <1>1. /\ step = "compare" /\ step' = "attributes" /\ to_fd' = fs["to"]
        /\ UNCHANGED <<disk, call, from_fd, twin, calls>>
        /\ call.docompare /\ ~call.dostrip /\ call.target /\ At("to") = SourceBytes
    BY DEF Matches, compare
  <1>11. Types'
    BY <1>0, <1>1 DEF Types
  <1>12. Apart'
    BY <1>0, <1>1 DEF Apart
  <1>13. Call'
    BY <1>0, <1>1 DEF Call, Apart
  <1>14. Where'
    BY <1>0, <1>1 DEF Where, Call, Target, Kept
  <1>15. Bytes'
    BY <1>0, <1>1 DEF Bytes, Where, Call, Apart, Types
  <1>16. Target'
    BY <1>0, <1>1 DEF Target, Where, Bytes, Apart, Litter, Types
  <1>17. Kept'
    BY <1>0, <1>1 DEF Kept, Where, Apart, Target, Types
  <1>18. Litter'
    BY <1>0, <1>1 DEF Litter, Where, Call
  <1> QED BY <1>0, <1>1, <1>11, <1>12, <1>13, <1>14, <1>15, <1>16, <1>17, <1>18 DEF InstallInv

\* Under -S the copy has a name of its own.
LEMMA create_tempfileKeeps ==
  ASSUME InstallInv, create_tempfile
  PROVE  InstallInv'
  <1> USE DEF Goes, disk, Comes, Full, Good, Emptied, Wanted, SourceBytes, CopyName, Tempcopy, At, Before, Backed, NoInode, Over, Name
  <1>0. Types /\ Apart /\ Call /\ Where /\ Bytes /\ Target /\ Kept /\ Litter
    BY DEF InstallInv, create_tempfile
  <1>1. step = "compare" /\ Tempcopy /\ UNCHANGED <<call, from_fd, twin, calls>>
    BY DEF create_tempfile, Fails
  <1>2. CASE Fails /\ UNCHANGED disk
    BY <1>1, <1>2, Stops DEF Fails
  <1>3. CASE Goes("copy") /\ Created("temp")
    <2>1. /\ fs' \in [Name -> Inode \cup {NoInode}]
          /\ bytes' \in [Inode -> Content] /\ mode' \in [Inode -> BOOLEAN]
          /\ to_fd' \in Inode /\ to_fd' # NoInode /\ to_fd' # from_fd
          /\ fs'["temp"] = to_fd' /\ bytes'[to_fd'] = Empty
          /\ \A n \in Name : fs[n] # to_fd'
          /\ \A n \in Name \ {"temp"} : fs'[n] = fs[n]
          /\ \A i \in Inode \ {to_fd'} : bytes'[i] = bytes[i]
      BY <1>0, <1>3, CreatedNames
    <2>2. step' = "copy"
      BY <1>3
    <2>11. Types'
      BY <1>0, <1>1, <2>1, <2>2 DEF Types
    <2>12. Apart'
      BY <1>0, <1>1, <2>1, <2>2 DEF Apart
    <2>13. Call'
      BY <1>0, <1>1, <2>1, <2>2 DEF Call, Apart
    <2>14. Where'
      BY <1>0, <1>1, <2>1, <2>2 DEF Where, Call, Target, Kept
    <2>15. Bytes'
      BY <1>0, <1>1, <2>1, <2>2 DEF Bytes, Where, Call, Apart, Types
    <2>16. Target'
      BY <1>0, <1>1, <2>1, <2>2 DEF Target, Where, Bytes, Apart, Litter, Types
    <2>17. Kept'
      BY <1>0, <1>1, <2>1, <2>2 DEF Kept, Where, Apart, Target, Types
    <2>18. Litter'
      BY <1>0, <1>1, <2>1, <2>2 DEF Litter, Where, Call
    <2> QED BY <1>0, <1>1, <2>1, <2>2, <2>11, <2>12, <2>13, <2>14, <2>15, <2>16, <2>17, <2>18 DEF InstallInv
  <1> QED BY <1>2, <1>3 DEF create_tempfile

\* Without -S the target is removed or becomes the backup; or it stays.
LEMMA RemovedKeeps ==
  ASSUME InstallInv, Removed
  PROVE  InstallInv'
  <1> USE DEF Goes, disk, Comes, Full, Good, Emptied, Wanted, SourceBytes, CopyName, Tempcopy, At, Before, Backed, NoInode, Over, Name
  <1>0. Types /\ Apart /\ Call /\ Where /\ Bytes /\ Target /\ Kept /\ Litter
    BY DEF InstallInv, Removed
  <1>1. /\ step = "compare" /\ ~Tempcopy /\ step' \in {"create", "error"}
        /\ UNCHANGED <<bytes, mode, call, from_fd, to_fd, twin, calls>>
    BY DEF Removed, Renamed, Unlinked
  <1>2. CASE call.target /\ call.dobackup /\ Renamed("to", "backup") /\ Goes("create")
    <2>1. /\ fs' \in [Name -> Inode \cup {NoInode}]
          /\ fs'["from"] = fs["from"] /\ fs'["to"] = NoInode /\ fs'["temp"] = fs["temp"]
          /\ fs'["backup"] = fs["to"] /\ fs'["link"] = fs["link"] /\ step' = "create"
      BY <1>0, <1>2, RenamedNames
    <2>11. Types'
      BY <1>0, <1>1, <1>2, <2>1 DEF Types
    <2>12. Apart'
      BY <1>0, <1>1, <1>2, <2>1 DEF Apart
    <2>13. Call'
      BY <1>0, <1>1, <1>2, <2>1 DEF Call, Apart
    <2>14. Where'
      BY <1>0, <1>1, <1>2, <2>1 DEF Where, Call, Target, Kept
    <2>15. Bytes'
      BY <1>0, <1>1, <1>2, <2>1 DEF Bytes, Where, Call, Apart, Types
    <2>16. Target'
      BY <1>0, <1>1, <1>2, <2>1 DEF Target, Where, Bytes, Apart, Litter, Types
    <2>17. Kept'
      BY <1>0, <1>1, <1>2, <2>1 DEF Kept, Where, Apart, Target, Types
    <2>18. Litter'
      BY <1>0, <1>1, <1>2, <2>1 DEF Litter, Where, Call
    <2> QED BY <1>0, <1>1, <1>2, <2>1, <2>11, <2>12, <2>13, <2>14, <2>15, <2>16, <2>17, <2>18 DEF InstallInv
  <1>3. CASE UNCHANGED disk /\ Goes("error")
    BY <1>1, <1>3, Stops
  <1>4. CASE call.target /\ ~call.dobackup /\ Unlinked("to") /\ Goes("create")
    <2>1. /\ fs' \in [Name -> Inode \cup {NoInode}] /\ fs'["to"] = NoInode /\ step' = "create"
          /\ \A n \in Name \ {"to"} : fs'[n] = fs[n]
      BY <1>0, <1>4, UnlinkedNames
    <2>11. Types'
      BY <1>0, <1>1, <1>4, <2>1 DEF Types
    <2>12. Apart'
      BY <1>0, <1>1, <1>4, <2>1 DEF Apart
    <2>13. Call'
      BY <1>0, <1>1, <1>4, <2>1 DEF Call, Apart
    <2>14. Where'
      BY <1>0, <1>1, <1>4, <2>1 DEF Where, Call, Target, Kept
    <2>15. Bytes'
      BY <1>0, <1>1, <1>4, <2>1 DEF Bytes, Where, Call, Apart, Types
    <2>16. Target'
      BY <1>0, <1>1, <1>4, <2>1 DEF Target, Where, Bytes, Apart, Litter, Types
    <2>17. Kept'
      BY <1>0, <1>1, <1>4, <2>1 DEF Kept, Where, Apart, Target, Types
    <2>18. Litter'
      BY <1>0, <1>1, <1>4, <2>1 DEF Litter, Where, Call
    <2> QED BY <1>0, <1>1, <1>4, <2>1, <2>11, <2>12, <2>13, <2>14, <2>15, <2>16, <2>17, <2>18 DEF InstallInv
  <1>5. CASE (call.target => ~call.dobackup) /\ UNCHANGED disk /\ Goes("create")
    <2>11. Types'
      BY <1>0, <1>1, <1>5 DEF Types
    <2>12. Apart'
      BY <1>0, <1>1, <1>5 DEF Apart
    <2>13. Call'
      BY <1>0, <1>1, <1>5 DEF Call, Apart
    <2>14. Where'
      BY <1>0, <1>1, <1>5 DEF Where, Call, Target, Kept
    <2>15. Bytes'
      BY <1>0, <1>1, <1>5 DEF Bytes, Where, Call, Apart, Types
    <2>16. Target'
      BY <1>0, <1>1, <1>5 DEF Target, Where, Bytes, Apart, Litter, Types
    <2>17. Kept'
      BY <1>0, <1>1, <1>5 DEF Kept, Where, Apart, Target, Types
    <2>18. Litter'
      BY <1>0, <1>1, <1>5 DEF Litter, Where, Call
    <2> QED BY <1>0, <1>1, <1>5, <2>11, <2>12, <2>13, <2>14, <2>15, <2>16, <2>17, <2>18 DEF InstallInv
  <1> QED BY <1>2, <1>3, <1>4, <1>5 DEF Removed

\* Without -S the copy is a new file, or the target that could not be removed,
\* without its bytes.
LEMMA create_newfileKeeps ==
  ASSUME InstallInv, create_newfile
  PROVE  InstallInv'
  <1> USE DEF Goes, disk, Comes, Full, Good, Emptied, Wanted, SourceBytes, CopyName, Tempcopy, At, Before, Backed, NoInode, Over, Name
  <1>0. Types /\ Apart /\ Call /\ Where /\ Bytes /\ Target /\ Kept /\ Litter
    BY DEF InstallInv, create_newfile
  <1>1. step = "create" /\ ~Tempcopy /\ ~twin /\ UNCHANGED <<call, from_fd, twin, calls>>
    BY <1>0 DEF create_newfile, Fails, Where
  <1>2. CASE Fails /\ UNCHANGED disk
    BY <1>1, <1>2, Stops DEF Fails
  <1>3. CASE fs["to"] = NoInode /\ Created("to") /\ Goes("copy")
    <2>1. /\ fs' \in [Name -> Inode \cup {NoInode}]
          /\ bytes' \in [Inode -> Content] /\ mode' \in [Inode -> BOOLEAN]
          /\ to_fd' \in Inode /\ to_fd' # NoInode /\ to_fd' # from_fd
          /\ fs'["to"] = to_fd' /\ bytes'[to_fd'] = Empty
          /\ \A n \in Name : fs[n] # to_fd'
          /\ \A n \in Name \ {"to"} : fs'[n] = fs[n]
          /\ \A i \in Inode \ {to_fd'} : bytes'[i] = bytes[i]
      BY <1>0, <1>3, CreatedNames
    <2>2. step' = "copy"
      BY <1>3
    <2>11. Types'
      BY <1>0, <1>1, <2>1, <2>2 DEF Types
    <2>12. Apart'
      BY <1>0, <1>1, <2>1, <2>2 DEF Apart
    <2>13. Call'
      BY <1>0, <1>1, <2>1, <2>2 DEF Call, Apart
    <2>14. Where'
      BY <1>0, <1>1, <2>1, <2>2 DEF Where, Call, Target, Kept
    <2>15. Bytes'
      BY <1>0, <1>1, <2>1, <2>2 DEF Bytes, Where, Call, Apart, Types
    <2>16. Target'
      BY <1>0, <1>1, <2>1, <2>2 DEF Target, Where, Bytes, Apart, Litter, Types
    <2>17. Kept'
      BY <1>0, <1>1, <2>1, <2>2 DEF Kept, Where, Apart, Target, Types
    <2>18. Litter'
      BY <1>0, <1>1, <2>1, <2>2 DEF Litter, Where, Call
    <2> QED BY <1>0, <1>1, <2>1, <2>2, <2>11, <2>12, <2>13, <2>14, <2>15, <2>16, <2>17, <2>18 DEF InstallInv
  <1>4. CASE /\ fs["to"] # NoInode
             /\ bytes' = [bytes EXCEPT ![fs["to"]] = Empty]
             /\ to_fd' = fs["to"] /\ UNCHANGED <<fs, mode>>
             /\ Goes("copy")
    <2>1. /\ to_fd' \in Inode /\ bytes' \in [Inode -> Content] /\ bytes'[to_fd'] = Empty
          /\ \A i \in Inode \ {to_fd'} : bytes'[i] = bytes[i]
      BY <1>0, <1>4, Contents DEF Types
    <2>2. step' = "copy" /\ to_fd' = fs["to"] /\ fs["to"] # NoInode /\ UNCHANGED <<fs, mode>>
      BY <1>4
    <2>11. Types'
      BY <1>0, <1>1, <2>1, <2>2 DEF Types
    <2>12. Apart'
      BY <1>0, <1>1, <2>1, <2>2 DEF Apart
    <2>13. Call'
      BY <1>0, <1>1, <2>1, <2>2 DEF Call, Apart
    <2>14. Where'
      BY <1>0, <1>1, <2>1, <2>2 DEF Where, Call, Target, Kept
    <2>15. Bytes'
      BY <1>0, <1>1, <2>1, <2>2 DEF Bytes, Where, Call, Apart, Types
    <2>16. Target'
      BY <1>0, <1>1, <2>1, <2>2 DEF Target, Where, Bytes, Apart, Litter, Types
    <2>17. Kept'
      BY <1>0, <1>1, <2>1, <2>2 DEF Kept, Where, Apart, Target, Types
    <2>18. Litter'
      BY <1>0, <1>1, <2>1, <2>2 DEF Litter, Where, Call
    <2> QED BY <1>0, <1>1, <2>1, <2>2, <2>11, <2>12, <2>13, <2>14, <2>15, <2>16, <2>17, <2>18 DEF InstallInv
  <1> QED BY <1>2, <1>3, <1>4 DEF create_newfile

\* The first part of the file is written.
LEMMA CopyBeginsKeeps ==
  ASSUME InstallInv, CopyBegins
  PROVE  InstallInv'
  <1> USE DEF Goes, disk, Comes, Full, Good, Emptied, Wanted, SourceBytes, CopyName, Tempcopy, At, Before, Backed, NoInode, Over, Name
  <1>0. Types /\ Apart /\ Call /\ Where /\ Bytes /\ Target /\ Kept /\ Litter
    BY DEF InstallInv, CopyBegins
  <1>1. step = "copy" /\ ~twin /\ to_fd' = to_fd /\ to_fd \in Inode
    BY <1>0 DEF CopyBegins, Where, Types
  <1>2. CASE call.source = "null" /\ Goes(Copied) /\ UNCHANGED disk
    <2>1. SourceBytes = Empty /\ bytes[to_fd] = Empty
      BY <1>0, <1>1, <1>2 DEF Call, Bytes
    <2>2. bytes' = [bytes EXCEPT ![to_fd] = SourceBytes]
      BY <1>0, <1>1, <1>2, <2>1 DEF Types
    <2> QED BY <1>1, <1>2, <2>2, CopyDone
  <1>3. CASE /\ Goes("copying") /\ UNCHANGED <<fs, mode>>
             /\ bytes' = [bytes EXCEPT ![to_fd] = IF SourceBytes = Empty THEN Empty
                                                  ELSE Part(SourceBytes)]
    <2>1. /\ bytes' \in [Inode -> Content] /\ (SourceBytes = Empty => bytes'[to_fd] = Empty)
          /\ \A i \in Inode \ {to_fd} : bytes'[i] = bytes[i]
      BY <1>0, <1>1, <1>3, Contents DEF Types
    <2>2. step' = "copying" /\ UNCHANGED <<fs, mode, call, from_fd, twin, calls>>
      BY <1>3
    <2>11. Types'
      BY <1>0, <1>1, <2>1, <2>2 DEF Types
    <2>12. Apart'
      BY <1>0, <1>1, <2>1, <2>2 DEF Apart
    <2>13. Call'
      BY <1>0, <1>1, <2>1, <2>2 DEF Call, Apart
    <2>14. Where'
      BY <1>0, <1>1, <2>1, <2>2 DEF Where, Call, Target, Kept
    <2>15. Bytes'
      BY <1>0, <1>1, <2>1, <2>2 DEF Bytes, Where, Call, Apart, Types
    <2>16. Target'
      BY <1>0, <1>1, <2>1, <2>2 DEF Target, Where, Bytes, Apart, Litter, Types
    <2>17. Kept'
      BY <1>0, <1>1, <2>1, <2>2 DEF Kept, Where, Apart, Target, Types
    <2>18. Litter'
      BY <1>0, <1>1, <2>1, <2>2 DEF Litter, Where, Call
    <2> QED BY <1>0, <1>1, <2>1, <2>2, <2>11, <2>12, <2>13, <2>14, <2>15, <2>16, <2>17, <2>18 DEF InstallInv
  <1> QED BY <1>2, <1>3 DEF CopyBegins

\* The rest is written, or what was written is removed.
LEMMA copyKeeps ==
  ASSUME InstallInv, copy
  PROVE  InstallInv'
  <1> USE DEF Goes
  <1>1. step = "copying" /\ UNCHANGED to_fd
    BY DEF copy
  <1>2. CASE bytes' = [bytes EXCEPT ![to_fd] = SourceBytes] /\ Goes(Copied) /\ UNCHANGED <<fs, mode>>
    BY <1>1, <1>2, CopyDone
  <1>3. CASE Unlinked(CopyName) /\ Goes("error")
    BY <1>1, <1>3, CopyRemoved
  <1> QED BY <1>2, <1>3 DEF copy

\* The symbols are removed, or the copy is.
LEMMA stripKeeps ==
  ASSUME InstallInv, strip
  PROVE  InstallInv'
  <1> USE DEF Goes, disk, Comes, Full, Good, Emptied, Wanted, SourceBytes, CopyName, Tempcopy, At, Before, Backed, NoInode, Over, Name
  <1>0. Types /\ Apart /\ Call /\ Where /\ Bytes /\ Target /\ Kept /\ Litter
    BY DEF InstallInv, strip
  <1>1. /\ step = "strip" /\ step' = "reopen" /\ call.dostrip /\ ~twin /\ to_fd \in Inode
        /\ UNCHANGED <<call, from_fd, to_fd, twin, calls>>
    BY <1>0 DEF strip, Where, Types
  <1>2. CASE Unlinked(CopyName)
    BY <1>1, <1>2, CopyRemoved
  <1>3. CASE bytes' = [bytes EXCEPT ![to_fd] = Stripped(@)] /\ UNCHANGED <<fs, mode>>
    <2>1. /\ bytes' \in [Inode -> Content] /\ bytes'[to_fd] = Stripped(bytes[to_fd])
          /\ \A i \in Inode \ {to_fd} : bytes'[i] = bytes[i]
          /\ UNCHANGED <<fs, mode>> /\ Stripped(Empty) = Empty
      BY <1>0, <1>1, <1>3, Contents DEF Types
    <2>11. Types'
      BY <1>0, <1>1, <2>1 DEF Types
    <2>12. Apart'
      BY <1>0, <1>1, <2>1 DEF Apart
    <2>13. Call'
      BY <1>0, <1>1, <2>1 DEF Call, Apart
    <2>14. Where'
      BY <1>0, <1>1, <2>1 DEF Where, Call, Target, Kept
    <2>15. Bytes'
      BY <1>0, <1>1, <2>1 DEF Bytes, Where, Call, Apart, Types
    <2>16. Target'
      BY <1>0, <1>1, <2>1 DEF Target, Where, Bytes, Apart, Litter, Types
    <2>17. Kept'
      BY <1>0, <1>1, <2>1 DEF Kept, Where, Apart, Target, Types
    <2>18. Litter'
      BY <1>0, <1>1, <2>1 DEF Litter, Where, Call
    <2> QED BY <1>0, <1>1, <2>1, <2>11, <2>12, <2>13, <2>14, <2>15, <2>16, <2>17, <2>18 DEF InstallInv
  <1> QED BY <1>2, <1>3 DEF strip

\* The child goes on with a file that is not stripped.
LEMMA ExecFailsKeeps ==
  ASSUME InstallInv, ExecFails
  PROVE  InstallInv'
  <1> USE DEF Goes, disk, Comes, Full, Good, Emptied, Wanted, SourceBytes, CopyName, Tempcopy, At, Before, Backed, NoInode, Over, Name
  <1>0. Types /\ Apart /\ Call /\ Where /\ Bytes /\ Target /\ Kept /\ Litter
    BY DEF InstallInv, ExecFails
  <1>1. /\ step = "strip" /\ step' = "reopen" /\ call.dostrip /\ twin' = TRUE /\ to_fd \in Inode
        /\ UNCHANGED <<fs, bytes, mode, from_fd, to_fd, calls>>
    BY <1>0 DEF ExecFails, Where, Types
  <1>2. /\ DOMAIN call' = CallFields /\ call'.unstripped = TRUE
        /\ \A f \in CallFields \ {"unstripped"} : call'[f] = call[f]
    BY <1>0 DEF ExecFails, Call, CallFields
  <1>3. /\ call'.dobackup = call.dobackup /\ call'.docompare = call.docompare
        /\ call'.dostrip = call.dostrip /\ call'.safecopy = call.safecopy
        /\ call'.source = call.source /\ call'.target = call.target /\ call'.same = call.same
        /\ call'.before = call.before /\ call'.litter = call.litter
        /\ call'.bytes = call.bytes /\ call'.removed = call.removed
    BY <1>2 DEF CallFields
  <1>11. Types'
    BY <1>0, <1>1, <1>2, <1>3 DEF Types
  <1>12. Apart'
    BY <1>0, <1>1, <1>2, <1>3 DEF Apart
  <1>13. Call'
    BY <1>0, <1>1, <1>2, <1>3 DEF Call, Apart
  <1>14. Where'
    BY <1>0, <1>1, <1>2, <1>3 DEF Where, Call, Target, Kept
  <1>15. Bytes'
    BY <1>0, <1>1, <1>2, <1>3 DEF Bytes, Where, Call, Apart, Types
  <1>16. Target'
    BY <1>0, <1>1, <1>2, <1>3 DEF Target, Where, Bytes, Apart, Litter, Types
  <1>17. Kept'
    BY <1>0, <1>1, <1>2, <1>3 DEF Kept, Where, Apart, Target, Types
  <1>18. Litter'
    BY <1>0, <1>1, <1>2, <1>3 DEF Litter, Where, Call
  <1> QED BY <1>0, <1>1, <1>2, <1>3, <1>11, <1>12, <1>13, <1>14, <1>15, <1>16, <1>17, <1>18 DEF InstallInv

\* The parent finds what its child has left, or removes it.
LEMMA WaitedKeeps ==
  ASSUME InstallInv, Waited
  PROVE  InstallInv'
  <1> USE DEF Goes, disk, Comes, Full, Good, Emptied, Wanted, SourceBytes, CopyName, Tempcopy, At, Before, Backed, NoInode, Over, Name
  <1>0. Types /\ Apart /\ Call /\ Where /\ Bytes /\ Target /\ Kept /\ Litter
    BY DEF InstallInv, Waited, Over
  <1>1. /\ twin /\ twin' = FALSE /\ step \in Over /\ step' = "reopen" /\ call.dostrip /\ step # "idle"
        /\ UNCHANGED <<call, from_fd, to_fd, calls>>
    BY <1>0 DEF Waited, Where, InstallInv
  <1>2. CASE Unlinked(CopyName)
    BY <1>1, <1>2, CopyRemoved
  <1>3. CASE UNCHANGED disk
    <2>11. Types'
      BY <1>0, <1>1, <1>3 DEF Types
    <2>12. Apart'
      BY <1>0, <1>1, <1>3 DEF Apart
    <2>13. Call'
      BY <1>0, <1>1, <1>3 DEF Call, Apart
    <2>14. Where'
      BY <1>0, <1>1, <1>3 DEF Where, Call, Target, Kept
    <2>15. Bytes'
      BY <1>0, <1>1, <1>3 DEF Bytes, Where, Call, Apart, Types
    <2>16. Target'
      BY <1>0, <1>1, <1>3 DEF Target, Where, Bytes, Apart, Litter, Types
    <2>17. Kept'
      BY <1>0, <1>1, <1>3 DEF Kept, Where, Apart, Target, Types
    <2>18. Litter'
      BY <1>0, <1>1, <1>3 DEF Litter, Where, Call
    <2> QED BY <1>0, <1>1, <1>3, <2>11, <2>12, <2>13, <2>14, <2>15, <2>16, <2>17, <2>18 DEF InstallInv
  <1> QED BY <1>2, <1>3 DEF Waited

\* The copy is opened again; one that is what the target is already goes.
LEMMA ReopenedKeeps ==
  ASSUME InstallInv, Reopened
  PROVE  InstallInv'
  <1> USE DEF Goes, disk, Comes, Full, Good, Emptied, Wanted, SourceBytes, CopyName, Tempcopy, At, Before, Backed, NoInode, Over, Name
  <1>0. Types /\ Apart /\ Call /\ Where /\ Bytes /\ Target /\ Kept /\ Litter
    BY DEF InstallInv, Reopened
  <1>1. /\ step = "reopen" /\ call.dostrip /\ UNCHANGED <<call, from_fd, twin, calls>>
    BY <1>0 DEF Reopened, Fails, Where
  <1>2. CASE Fails /\ UNCHANGED disk
    BY <1>1, <1>2, Stops DEF Fails
  <1>3. CASE UpToDate /\ to_fd' = fs["to"] /\ Unlinked("temp") /\ Goes("attributes")
    <2>1. /\ Tempcopy /\ fs["to"] # NoInode /\ fs["temp"] # NoInode /\ At("temp") = At("to")
      BY <1>0, <1>1, <1>3 DEF UpToDate, compare, Call
    <2>2. /\ fs' \in [Name -> Inode \cup {NoInode}] /\ fs'["temp"] = NoInode
          /\ \A n \in Name \ {"temp"} : fs'[n] = fs[n]
          /\ to_fd' = fs["to"] /\ step' = "attributes"
      BY <1>0, <1>3, UnlinkedNames
    <2>3. UNCHANGED <<bytes, mode>>
      BY <1>3 DEF Unlinked
    <2>11. Types'
      BY <1>0, <1>1, <2>1, <2>2, <2>3 DEF Types
    <2>12. Apart'
      BY <1>0, <1>1, <2>1, <2>2, <2>3 DEF Apart
    <2>13. Call'
      BY <1>0, <1>1, <2>1, <2>2, <2>3 DEF Call, Apart
    <2>14. Where'
      BY <1>0, <1>1, <2>1, <2>2, <2>3 DEF Where, Call, Target, Kept
    <2>15. Bytes'
      BY <1>0, <1>1, <2>1, <2>2, <2>3 DEF Bytes, Where, Call, Apart, Types
    <2>16. Target'
      BY <1>0, <1>1, <2>1, <2>2, <2>3 DEF Target, Where, Bytes, Apart, Litter, Types
    <2>17. Kept'
      BY <1>0, <1>1, <2>1, <2>2, <2>3 DEF Kept, Where, Apart, Target, Types
    <2>18. Litter'
      BY <1>0, <1>1, <2>1, <2>2, <2>3 DEF Litter, Where, Call
    <2> QED BY <1>0, <1>1, <2>1, <2>2, <2>3, <2>11, <2>12, <2>13, <2>14, <2>15, <2>16, <2>17, <2>18 DEF InstallInv
  <1>4. CASE fs[CopyName] # NoInode /\ to_fd' = fs[CopyName] /\ UNCHANGED disk /\ Goes(Ready)
    <2>1. /\ step' = "backup" => Tempcopy /\ call.dobackup
          /\ step' = "move" => Tempcopy /\ ~call.dobackup
          /\ step' = "attributes" => ~Tempcopy
          /\ step' \in {"backup", "move", "attributes"}
      BY <1>4 DEF Ready
    <2>11. Types'
      BY <1>0, <1>1, <1>4, <2>1 DEF Types
    <2>12. Apart'
      BY <1>0, <1>1, <1>4, <2>1 DEF Apart
    <2>13. Call'
      BY <1>0, <1>1, <1>4, <2>1 DEF Call, Apart
    <2>14. Where'
      BY <1>0, <1>1, <1>4, <2>1 DEF Where, Call, Target, Kept
    <2>15. Bytes'
      BY <1>0, <1>1, <1>4, <2>1 DEF Bytes, Where, Call, Apart, Types
    <2>16. Target'
      BY <1>0, <1>1, <1>4, <2>1 DEF Target, Where, Bytes, Apart, Litter, Types
    <2>17. Kept'
      BY <1>0, <1>1, <1>4, <2>1 DEF Kept, Where, Apart, Target, Types
    <2>18. Litter'
      BY <1>0, <1>1, <1>4, <2>1 DEF Litter, Where, Call
    <2> QED BY <1>0, <1>1, <1>4, <2>1, <2>11, <2>12, <2>13, <2>14, <2>15, <2>16, <2>17, <2>18 DEF InstallInv
  <1> QED BY <1>2, <1>3, <1>4 DEF Reopened

\* Under -S the old file becomes the backup at the end, or the copy goes.
LEMMA BackupKeeps ==
  ASSUME InstallInv, Backup
  PROVE  InstallInv'
  <1> USE DEF Goes, disk, Comes, Full, Good, Emptied, Wanted, SourceBytes, CopyName, Tempcopy, At, Before, Backed, NoInode, Over, Name
  <1>0. Types /\ Apart /\ Call /\ Where /\ Bytes /\ Target /\ Kept /\ Litter
    BY DEF InstallInv, Backup
  <1>1. /\ step = "backup" /\ Tempcopy /\ call.dobackup
        /\ UNCHANGED <<bytes, mode, call, from_fd, to_fd, twin, calls>>
    BY <1>0 DEF Backup, Where, Renamed, Unlinked
  <1>2. CASE fs["to"] # NoInode /\ Renamed("to", "backup") /\ Goes("move")
    <2>1. /\ fs' \in [Name -> Inode \cup {NoInode}]
          /\ fs'["from"] = fs["from"] /\ fs'["to"] = NoInode /\ fs'["temp"] = fs["temp"]
          /\ fs'["backup"] = fs["to"] /\ fs'["link"] = fs["link"] /\ step' = "move"
      BY <1>0, <1>2, RenamedNames
    <2>11. Types'
      BY <1>0, <1>1, <1>2, <2>1 DEF Types
    <2>12. Apart'
      BY <1>0, <1>1, <1>2, <2>1 DEF Apart
    <2>13. Call'
      BY <1>0, <1>1, <1>2, <2>1 DEF Call, Apart
    <2>14. Where'
      BY <1>0, <1>1, <1>2, <2>1 DEF Where, Call, Target, Kept
    <2>15. Bytes'
      BY <1>0, <1>1, <1>2, <2>1 DEF Bytes, Where, Call, Apart, Types
    <2>16. Target'
      BY <1>0, <1>1, <1>2, <2>1 DEF Target, Where, Bytes, Apart, Litter, Types
    <2>17. Kept'
      BY <1>0, <1>1, <1>2, <2>1 DEF Kept, Where, Apart, Target, Types
    <2>18. Litter'
      BY <1>0, <1>1, <1>2, <2>1 DEF Litter, Where, Call
    <2> QED BY <1>0, <1>1, <1>2, <2>1, <2>11, <2>12, <2>13, <2>14, <2>15, <2>16, <2>17, <2>18 DEF InstallInv
  <1>3. CASE Unlinked("temp") /\ Goes("error")
    BY <1>1, <1>3, CopyRemoved
  <1> QED BY <1>2, <1>3 DEF Backup

\* The new file takes the place of the old one, or goes.
LEMMA MovedKeeps ==
  ASSUME InstallInv, Moved
  PROVE  InstallInv'
  <1> USE DEF Goes, disk, Comes, Full, Good, Emptied, Wanted, SourceBytes, CopyName, Tempcopy, At, Before, Backed, NoInode, Over, Name
  <1>0. Types /\ Apart /\ Call /\ Where /\ Bytes /\ Target /\ Kept /\ Litter
    BY DEF InstallInv, Moved
  <1>1. /\ step = "move" /\ Tempcopy /\ UNCHANGED <<bytes, mode, call, from_fd, twin, calls>>
    BY <1>0 DEF Moved, Where, Renamed, Unlinked
  <1>2. CASE /\ fs["temp"] # NoInode /\ Renamed("temp", "to")
             /\ \/ to_fd' = fs["temp"] /\ Goes("attributes")
                \/ Goes("error") /\ UNCHANGED to_fd
    <2>1. /\ fs' \in [Name -> Inode \cup {NoInode}]
          /\ fs'["from"] = fs["from"] /\ fs'["to"] = fs["temp"] /\ fs'["temp"] = NoInode
          /\ fs'["backup"] = fs["backup"] /\ fs'["link"] = fs["link"]
          /\ step' \in {"attributes", "error"} /\ fs["temp"] # NoInode
          /\ to_fd' = fs["temp"] \/ (step' = "error" /\ to_fd' = to_fd)
      BY <1>0, <1>2, RenamedNames
    <2>11. Types'
      BY <1>0, <1>1, <2>1 DEF Types
    <2>12. Apart'
      BY <1>0, <1>1, <2>1 DEF Apart
    <2>13. Call'
      BY <1>0, <1>1, <2>1 DEF Call, Apart
    <2>14. Where'
      BY <1>0, <1>1, <2>1 DEF Where, Call, Target, Kept
    <2>15. Bytes'
      BY <1>0, <1>1, <2>1 DEF Bytes, Where, Call, Apart, Types
    <2>16. Target'
      BY <1>0, <1>1, <2>1 DEF Target, Where, Bytes, Apart, Litter, Types
    <2>17. Kept'
      BY <1>0, <1>1, <2>1 DEF Kept, Where, Apart, Target, Types
    <2>18. Litter'
      BY <1>0, <1>1, <2>1 DEF Litter, Where, Call
    <2> QED BY <1>0, <1>1, <2>1, <2>11, <2>12, <2>13, <2>14, <2>15, <2>16, <2>17, <2>18 DEF InstallInv
  <1>3. CASE Unlinked("temp") /\ Goes("error") /\ UNCHANGED to_fd
    BY <1>1, <1>3, CopyRemoved
  <1> QED BY <1>2, <1>3 DEF Moved

\* The attributes are set, or the new file is removed.
LEMMA AttributesKeeps ==
  ASSUME InstallInv, Attributes
  PROVE  InstallInv'
  <1> USE DEF Goes, disk, Comes, Full, Good, Emptied, Wanted, SourceBytes, CopyName, Tempcopy, At, Before, Backed, NoInode, Over, Name
  <1>0. Types /\ Apart /\ Call /\ Where /\ Bytes /\ Target /\ Kept /\ Litter
    BY DEF InstallInv, Attributes
  <1>1. step = "attributes" /\ to_fd = fs["to"] /\ to_fd \in Inode /\ to_fd # NoInode
    BY <1>0 DEF Attributes, Where, Types
  <1>2. CASE mode' = [mode EXCEPT ![to_fd] = TRUE] /\ UNCHANGED <<fs, bytes, to_fd>> /\ Goes("ok")
    <2>1. mode' \in [Inode -> BOOLEAN] /\ mode'[to_fd] = TRUE
      BY <1>0, <1>1, <1>2 DEF Types
    <2>11. Types'
      BY <1>0, <1>1, <1>2, <2>1 DEF Types
    <2>12. Apart'
      BY <1>0, <1>1, <1>2, <2>1 DEF Apart
    <2>13. Call'
      BY <1>0, <1>1, <1>2, <2>1 DEF Call, Apart
    <2>14. Where'
      BY <1>0, <1>1, <1>2, <2>1 DEF Where, Call, Target, Kept
    <2>15. Bytes'
      BY <1>0, <1>1, <1>2, <2>1 DEF Bytes, Where, Call, Apart, Types
    <2>16. Target'
      BY <1>0, <1>1, <1>2, <2>1 DEF Target, Where, Bytes, Apart, Litter, Types
    <2>17. Kept'
      BY <1>0, <1>1, <1>2, <2>1 DEF Kept, Where, Apart, Target, Types
    <2>18. Litter'
      BY <1>0, <1>1, <1>2, <2>1 DEF Litter, Where, Call
    <2> QED BY <1>0, <1>1, <1>2, <2>1, <2>11, <2>12, <2>13, <2>14, <2>15, <2>16, <2>17, <2>18 DEF InstallInv
  <1>3. CASE /\ Unlinked("to") /\ step' = "error" /\ call' = [call EXCEPT !.removed = TRUE]
             /\ UNCHANGED <<from_fd, to_fd, twin, calls>>
    <2>1. /\ fs' \in [Name -> Inode \cup {NoInode}] /\ fs'["to"] = NoInode
          /\ \A n \in Name \ {"to"} : fs'[n] = fs[n]
          /\ UNCHANGED <<from_fd, to_fd, twin, calls>> /\ step' = "error"
      BY <1>0, <1>3, UnlinkedNames
    <2>4. UNCHANGED <<bytes, mode>>
      BY <1>3 DEF Unlinked
    <2>2. /\ DOMAIN call' = CallFields /\ call'.removed = TRUE
          /\ \A f \in CallFields \ {"removed"} : call'[f] = call[f]
      BY <1>0, <1>3 DEF Call, CallFields
    <2>3. /\ call'.dobackup = call.dobackup /\ call'.docompare = call.docompare
          /\ call'.dostrip = call.dostrip /\ call'.safecopy = call.safecopy
          /\ call'.source = call.source /\ call'.target = call.target /\ call'.same = call.same
          /\ call'.before = call.before /\ call'.litter = call.litter
          /\ call'.bytes = call.bytes /\ call'.unstripped = call.unstripped
      BY <2>2 DEF CallFields
    <2>11. Types'
      BY <1>0, <1>1, <2>1, <2>2, <2>3, <2>4 DEF Types
    <2>12. Apart'
      BY <1>0, <1>1, <2>1, <2>2, <2>3, <2>4 DEF Apart
    <2>13. Call'
      BY <1>0, <1>1, <2>1, <2>2, <2>3, <2>4 DEF Call, Apart
    <2>14. Where'
      BY <1>0, <1>1, <2>1, <2>2, <2>3, <2>4 DEF Where, Call, Target, Kept
    <2>15. Bytes'
      BY <1>0, <1>1, <2>1, <2>2, <2>3, <2>4 DEF Bytes, Where, Call, Apart, Types
    <2>16. Target'
      BY <1>0, <1>1, <2>1, <2>2, <2>3, <2>4 DEF Target, Where, Bytes, Apart, Litter, Types
    <2>17. Kept'
      BY <1>0, <1>1, <2>1, <2>2, <2>3, <2>4 DEF Kept, Where, Apart, Target, Types
    <2>18. Litter'
      BY <1>0, <1>1, <2>1, <2>2, <2>3, <2>4 DEF Litter, Where, Call
    <2> QED BY <1>0, <1>1, <2>1, <2>2, <2>3, <2>4, <2>11, <2>12, <2>13, <2>14, <2>15, <2>16, <2>17, <2>18 DEF InstallInv
  <1> QED BY <1>2, <1>3 DEF Attributes

\* A call begins when no other is at work.
LEMMA InstallCmdKeeps ==
  ASSUME InstallInv, NEW o \in Options, InstallCmd(o)
  PROVE  InstallInv'
  <1> USE DEF disk, Comes, Full, Good, Emptied, Wanted, SourceBytes, CopyName, Tempcopy, At, Before, Backed, NoInode, Over, Name
  <1>0. Types /\ Apart
    BY DEF InstallInv
  <1> DEFINE source == IF o.source = "null" THEN NoInode ELSE fs[o.source]
             same == source # NoInode /\ source = fs["to"]
  <1>1. /\ step \in Over /\ ~twin /\ (o.source # "null" => source # NoInode) /\ (o.source # "to" => ~same)
        /\ step' = "compare" /\ calls' = calls + 1 /\ calls < MaxCalls
        /\ mode' = [i \in Inode |-> FALSE] /\ from_fd' = source /\ to_fd' = NoInode
        /\ UNCHANGED <<fs, bytes, twin>>
    BY DEF InstallCmd, Options
  <1>2. /\ o.dobackup \in BOOLEAN /\ o.docompare \in BOOLEAN /\ o.dostrip \in BOOLEAN
        /\ o.safecopy \in BOOLEAN /\ o.source \in {"from", "to", "null"}
        /\ o.docompare /\ o.dostrip => o.safecopy
    BY DEF Options
  <1>3. /\ DOMAIN call' = CallFields
        /\ call'.dobackup = o.dobackup /\ call'.docompare = o.docompare
        /\ call'.dostrip = o.dostrip /\ call'.safecopy = o.safecopy
        /\ call'.source = o.source /\ call'.target = (fs["to"] # NoInode) /\ call'.same = same
        /\ call'.before = At("to") /\ call'.litter = fs["temp"]
        /\ call'.bytes = (IF o.source = "null" THEN Empty ELSE At(o.source))
        /\ call'.unstripped = FALSE /\ call'.removed = FALSE
    BY DEF InstallCmd, CallFields
  <1>4. source \in Inode \cup {NoInode} /\ calls' \in 0..MaxCalls
    BY <1>0, <1>1, <1>2, Inodes DEF Types
  <1>11. Types'
    BY <1>0, <1>1, <1>2, <1>3, <1>4 DEF Types
  <1>12. Apart'
    BY <1>0, <1>1, <1>2, <1>3, <1>4 DEF Apart
  <1>13. Call'
    BY <1>0, <1>1, <1>2, <1>3, <1>4 DEF Call, Apart
  <1>14. Where'
    BY <1>0, <1>1, <1>2, <1>3, <1>4 DEF Where, Call, Target, Kept
  <1>15. Bytes'
    BY <1>0, <1>1, <1>2, <1>3, <1>4 DEF Bytes, Where, Call, Apart, Types
  <1>16. Target'
    BY <1>0, <1>1, <1>2, <1>3, <1>4 DEF Target, Where, Bytes, Apart, Litter, Types
  <1>17. Kept'
    BY <1>0, <1>1, <1>2, <1>3, <1>4 DEF Kept, Where, Apart, Target, Types
  <1>18. Litter'
    BY <1>0, <1>1, <1>2, <1>3, <1>4 DEF Litter, Where, Call
  <1> QED BY <1>0, <1>1, <1>2, <1>3, <1>4, <1>11, <1>12, <1>13, <1>14, <1>15, <1>16, <1>17, <1>18 DEF InstallInv

\* Initially no call was made.
LEMMA InstallInitInv == InstallInit => InstallInv
  <1> SUFFICES ASSUME InstallInit PROVE InstallInv
    OBVIOUS
  <1>1. {1, 2} \subseteq Inode /\ MaxCalls \in Nat /\ NoInode \notin Inode
    BY Inodes
  <1>2. \A c \in {[of |-> "source", form |-> "whole"], [of |-> "old", form |-> "whole"]} :
          c \in Content /\ Stripped(c) \in Content
    BY Contents DEF Content
  <1>3. bytes \in [Inode -> Content]
    BY <1>1, <1>2 DEF InstallInit
  <1>4. Types
    <2>1. fs \in [Name -> Inode \cup {NoInode}]
      BY <1>1 DEF InstallInit, Name, NoInode
    <2>2. /\ mode \in [Inode -> BOOLEAN] /\ step = "idle" /\ twin = FALSE /\ calls = 0
          /\ from_fd = NoInode /\ to_fd = NoInode
      BY DEF InstallInit
    <2>3. calls \in 0..MaxCalls
      BY <1>1, <2>2
    <2> QED BY <1>3, <2>1, <2>2, <2>3 DEF Types, Over
  <1>5. Apart /\ step = "idle" /\ ~twin
    BY DEF InstallInit, Apart, NoInode
  <1> QED BY <1>4, <1>5 DEF InstallInv

\* The invariant holds in every state.
LEMMA InstallSafe == InstallSpec => []InstallInv
  <1>1. InstallInv /\ [InstallNext]_installVars => InstallInv'
    <2> SUFFICES ASSUME InstallInv, [InstallNext]_installVars
                 PROVE  InstallInv'
      OBVIOUS
    <2>1. ASSUME NEW o \in Options, InstallCmd(o) PROVE InstallInv'
      BY <2>1, InstallCmdKeeps
    <2>2. CASE Matches \/ create_tempfile \/ Removed \/ create_newfile \/ CopyBegins
      BY <2>2, MatchesKeeps, create_tempfileKeeps, RemovedKeeps, create_newfileKeeps,
         CopyBeginsKeeps
    <2>3. CASE copy \/ strip \/ ExecFails \/ Waited \/ Reopened
      BY <2>3, copyKeeps, stripKeeps, ExecFailsKeeps, WaitedKeeps, ReopenedKeeps
    <2>4. CASE Backup \/ Moved \/ Attributes
      BY <2>4, BackupKeeps, MovedKeeps, AttributesKeeps
    <2>5. CASE InstallDies
      BY <2>5, Stops DEF InstallDies, Over
    <2>6. CASE UNCHANGED installVars
      BY <2>6 DEF installVars, disk, InstallInv, Types, Apart, Call, Where, Bytes, Target, Kept,
                  Litter, Comes, Full, Good, Emptied, Wanted, SourceBytes, CopyName, Tempcopy,
                  At, Before, Backed
    <2> QED BY <2>1, <2>2, <2>3, <2>4, <2>5, <2>6 DEF InstallNext
  <1> QED BY <1>1, InstallInitInv, PTL DEF InstallSpec

\* The descriptor of the copy is that of the file with its name as long as it
\* is written to (xinstall.c, install).
THEOREM InstallTypesOK == InstallSpec => []InstallTypeOK
  <1>1. InstallInv => InstallTypeOK
    BY DEF InstallInv, InstallTypeOK, Types, Where, CopyName, Over
  <1> QED BY <1>1, InstallSafe, PTL

\* With -S the name of the target leads to the whole old or the whole new file
\* whatever fails or dies; no other file is changed; and an installation that
\* succeeds is complete (xinstall.c, install, copy, strip, create_newfile).
THEOREM InstallIsWhole == InstallSpec => []InstallationsAreWhole
  <1> USE DEF Comes, Full, Good, Emptied, Wanted, SourceBytes, CopyName, Tempcopy, At, Before,
              Backed, NoInode, Over
  <1>1. InstallInv => TargetIsWhole
    BY DEF InstallInv, TargetIsWhole, Apart, Call, Bytes, Target
  <1>2. InstallInv => Installed
    BY DEF InstallInv, Installed, Where, Bytes, Kept, Litter
  <1> QED BY <1>1, <1>2, InstallSafe, PTL DEF InstallationsAreWhole

===============================================================================
