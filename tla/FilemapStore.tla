---------------------------- MODULE FilemapStore ----------------------------
(***************************************************************************)
(* pextlib1.0/filemap.c, the commands: maps kept in memory, and maps kept  *)
(* in a file with a lock file beside it, as the conversion of flat         *)
(* receipts (receipt_flat.tcl: open_file_map opens read-only, closes and   *)
(* opens again to write) and `port mirror' use them, by processes that die *)
(* anywhere.  A process has one map.                                       *)
(*                                                                         *)
(* The tree is a parameter: the operators of FilemapTree.  The lock is a   *)
(* POSIX record lock on <path>.lock, the kernel's.                         *)
(***************************************************************************)
EXTENDS Integers, Sequences

CONSTANTS
  Proc,
  Ram,        \* those whose map is created, not opened
  MayWrite,   \* those who may write the lock file and the database
  UsedPaths,  \* process |-> the paths it sets and unsets
  Values, Absent,
  IsAscii(_),
  NewTree, TreeSet(_, _, _), TreeGet(_, _), TreeRemove(_, _), TreeList(_, _), TreeSave(_), TreeLoad(_)

ASSUME FilemapAssumption ==
  /\ Ram \subseteq Proc /\ MayWrite \subseteq Proc
  /\ Absent \notin Values

NoFile == <<"none">>

AllPaths == UNION {UsedPaths[p] : p \in Proc}
Nothing == [q \in AllPaths |-> Absent]

VARIABLES
  dbfile,  \* the database file
  temp,    \* <path>.w
  maplock, \* the lock each process holds
  at,
  mem,     \* the map in memory: root, fIsReadOnly, fIsDirty; and (history)
           \* the content of the file it stands for
  said,    \* history: what was set in each map, and that all was ASCII
  stored   \* history: the same for the database

mapFiles == <<dbfile, temp, stored>>
filemapVars == <<mapFiles, maplock, at, mem, said>>

Said == [map: [AllPaths -> Values \cup {Absent}], ascii: BOOLEAN]
NothingSaid == [map |-> Nothing, ascii |-> TRUE]
NoCopy == [root |-> NewTree, readOnly |-> FALSE, dirty |-> FALSE, base |-> NoFile]

\* Nobody holds a lock beside a writer; a map is locked from the grant of the
\* lock until it is closed; a read-only map is never dirty.
FilemapTypeOK ==
  /\ maplock \in [Proc -> {"none", "read", "write"}]
  /\ at \in [Proc -> {"closed", "awaitRead", "awaitWrite", "load", "open", "save", "close"}]
  /\ stored \in Said /\ said \in [Proc -> Said]
  /\ \A p \in Proc :
       /\ maplock[p] # "none" <=> p \notin Ram /\ at[p] \in {"load", "open", "save", "close"}
       /\ maplock[p] = "write" => \A q \in Proc \ {p} : maplock[q] = "none"
       /\ mem[p].readOnly \in BOOLEAN /\ mem[p].dirty \in BOOLEAN
       /\ mem[p].readOnly => ~mem[p].dirty
       /\ p \notin Ram /\ at[p] # "closed" /\ mem[p].dirty => maplock[p] = "write"

-----------------------------------------------------------------------------
(* Opening *)

FilemapCreateCmd(p) ==
  /\ p \in Ram /\ at[p] = "closed"
  /\ at' = [at EXCEPT ![p] = "open"]
  /\ mem' = [mem EXCEPT ![p] = NoCopy]
  /\ said' = [said EXCEPT ![p] = NothingSaid]
  /\ UNCHANGED <<mapFiles, maplock>>

\* EACCES on the lock file makes the map read-only.
FilemapOpenCmd(p, readOnly) ==
  /\ p \notin Ram /\ at[p] = "closed"
  /\ at' = [at EXCEPT ![p] = IF readOnly \/ p \notin MayWrite THEN "awaitRead" ELSE "awaitWrite"]
  /\ UNCHANGED <<mapFiles, maplock, mem, said>>

\* Mutant: a writer asks for the lock of a reader.
LockedToRead(p) ==
  /\ at[p] \in {"awaitRead", "awaitWrite"}
  /\ \A q \in Proc \ {p} : maplock[q] # "write"
  /\ maplock' = [maplock EXCEPT ![p] = "read"]
  /\ at' = [at EXCEPT ![p] = "load"]
  /\ mem' = [mem EXCEPT ![p].readOnly = (at[p] = "awaitRead")]
  /\ UNCHANGED <<mapFiles, said>>

\* F_SETLKW returns.
Locked(p) ==
  /\ \/ at[p] = "awaitRead" /\ \A q \in Proc \ {p} : maplock[q] # "write"
     \/ at[p] = "awaitWrite" /\ \A q \in Proc \ {p} : maplock[q] = "none"
  /\ maplock' = [maplock EXCEPT ![p] = IF at[p] = "awaitRead" THEN "read" ELSE "write"]
  /\ at' = [at EXCEPT ![p] = "load"]
  /\ mem' = [mem EXCEPT ![p].readOnly = (at[p] = "awaitRead")]
  /\ UNCHANGED <<mapFiles, said>>

\* The map stands for the file again; a missing file is created.
Loaded(p) ==
  LET content == IF dbfile = NoFile THEN <<>> ELSE dbfile
  IN /\ dbfile' = content
     /\ mem' = [mem EXCEPT ![p].root = TreeLoad(content), ![p].dirty = FALSE,
                             ![p].base = content]
     /\ said' = [said EXCEPT ![p] = stored]
     /\ UNCHANGED <<temp, stored>>

\* The object is freed, and its lock with it.
Released(p) ==
  /\ at' = [at EXCEPT ![p] = "closed"]
  /\ maplock' = [maplock EXCEPT ![p] = "none"]
  /\ mem' = [mem EXCEPT ![p] = NoCopy]
  /\ said' = [said EXCEPT ![p] = NothingSaid]

OpenLoads(p) ==
  /\ at[p] = "load" /\ (dbfile = NoFile => p \in MayWrite)
  /\ Loaded(p)
  /\ at' = [at EXCEPT ![p] = "open"]
  /\ UNCHANGED maplock

OpenFails(p) ==
  /\ at[p] = "load" /\ dbfile = NoFile /\ p \notin MayWrite
  /\ Released(p) /\ UNCHANGED mapFiles

FilemapRevertCmd(p) ==
  /\ at[p] = "open" /\ p \notin Ram /\ (dbfile = NoFile => p \in MayWrite)
  /\ Loaded(p)
  /\ UNCHANGED <<at, maplock>>

-----------------------------------------------------------------------------
(* Changing *)

FilemapDies(p) ==
  /\ at[p] # "closed"
  /\ Released(p) /\ UNCHANGED mapFiles

\* The map becomes dirty whether or not Set succeeds.
FilemapSetCmd(p, path, value) ==
  LET done == TreeSet(mem[p].root, path, value)
  IN /\ at[p] = "open" /\ ~mem[p].readOnly
     /\ mem' = [mem EXCEPT ![p].root = done.tree, ![p].dirty = TRUE]
     /\ said' = [said EXCEPT
          ![p].map = IF done.err = "ok" THEN [@ EXCEPT ![path] = value] ELSE @,
          ![p].ascii = @ /\ IsAscii(path)]
     /\ UNCHANGED <<mapFiles, maplock, at>>

Below(path, q) == Len(path) <= Len(q) /\ SubSeq(q, 1, Len(path)) = path

\* The process dies when Delete reads a leaf as a node.
FilemapUnsetCmd(p, path) ==
  LET done == TreeRemove(mem[p].root, path)
      unset == {q \in AllPaths : done.err = "ok" /\ Below(path, q)}
  IN /\ at[p] = "open" /\ ~mem[p].readOnly
     /\ \/ /\ done.err # "undefined"
           /\ mem' = [mem EXCEPT ![p].root = done.tree, ![p].dirty = TRUE]
           /\ said' = [said EXCEPT ![p].map =
                         [q \in AllPaths |-> IF q \in unset THEN Absent ELSE @[q]]]
           /\ UNCHANGED <<maplock, at>>
        \/ /\ done.err = "undefined"
           /\ Released(p)
     /\ UNCHANGED mapFiles

-----------------------------------------------------------------------------
(* Saving *)

\* Save opens <path>.w, which truncates it.
SaveBegins(p, next) ==
  /\ temp' = <<>>
  /\ at' = [at EXCEPT ![p] = next]
  /\ UNCHANGED <<dbfile, stored, maplock, mem, said>>

FilemapSaveCmd(p) ==
  /\ at[p] = "open" /\ p \notin Ram /\ mem[p].dirty
  /\ SaveBegins(p, "save")

FilemapCloseCmd(p) ==
  /\ at[p] = "open"
  /\ \/ mem[p].dirty /\ p \notin Ram /\ SaveBegins(p, "close")
     \/ /\ ~mem[p].dirty \/ p \in Ram
        /\ Released(p) /\ UNCHANGED mapFiles

\* What follows Save: filemap save keeps the map, filemap close frees it.
AfterSave(p, base) ==
  \/ /\ at[p] = "save"
     /\ at' = [at EXCEPT ![p] = "open"]
     /\ mem' = [mem EXCEPT ![p].dirty = FALSE, ![p].base = base]
     /\ UNCHANGED <<maplock, said>>
  \/ at[p] = "close" /\ Released(p)

\* <path>.w is written and renamed to the database.
SaveEnds(p) ==
  /\ at[p] \in {"save", "close"}
  /\ dbfile' = TreeSave(mem[p].root) /\ temp' = NoFile /\ stored' = said[p]
  /\ AfterSave(p, dbfile')

\* A write or the rename fails: the map is clean all the same.
SaveFails(p) ==
  /\ at[p] \in {"save", "close"}
  /\ AfterSave(p, mem[p].base)
  /\ UNCHANGED mapFiles

-----------------------------------------------------------------------------
FilemapInit ==
  /\ dbfile = NoFile /\ temp = NoFile /\ stored = NothingSaid
  /\ maplock = [p \in Proc |-> "none"] /\ at = [p \in Proc |-> "closed"]
  /\ mem = [p \in Proc |-> NoCopy] /\ said = [p \in Proc |-> NothingSaid]

FilemapProcNext(p) ==
  \/ FilemapCreateCmd(p)
  \/ \E readOnly \in BOOLEAN : FilemapOpenCmd(p, readOnly)
  \/ Locked(p) \/ OpenLoads(p) \/ OpenFails(p)
  \/ FilemapRevertCmd(p)
  \/ \E path \in UsedPaths[p], value \in Values : FilemapSetCmd(p, path, value)
  \/ \E path \in UsedPaths[p] : FilemapUnsetCmd(p, path)
  \/ FilemapSaveCmd(p) \/ FilemapCloseCmd(p)
  \/ SaveEnds(p) \/ SaveFails(p)
  \/ FilemapDies(p)

FilemapNext == \E p \in Proc : FilemapProcNext(p)

FilemapSpec == FilemapInit /\ [][FilemapNext]_filemapVars

-----------------------------------------------------------------------------
\* A key that was set is found with its value, listed under it, and no other
\* is, after any sets, unsets, saves and loads, in every map whose names are
\* ASCII (the search in the sorted arrays compares bytes above 127 in two
\* ways, filemap.c's Set, Get, List, Delete, Save and Load).
FoundIfSet ==
  \A p \in Proc : at[p] = "open" /\ said[p].ascii =>
    /\ \A q \in AllPaths : TreeGet(mem[p].root, q) = said[p].map[q]
    /\ \A v \in Values : {q \in AllPaths : said[p].map[q] = v}
                           = {TreeList(mem[p].root, v)[i] : i \in DOMAIN TreeList(mem[p].root, v)}

\* Nobody's update is lost: as long as a process has the map open, to read or
\* to write it, and until its own Save is done, the file is the one it loaded
\* or saved last (the lock taken by FilemapOpenCmd, held past Save).
CopiesAreCurrent ==
  \A p \in Proc \ Ram : at[p] \in {"open", "save", "close"} => mem[p].base = dbfile
=============================================================================
