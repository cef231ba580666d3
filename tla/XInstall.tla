------------------------------ MODULE XInstall ------------------------------
(***************************************************************************)
(* pextlib1.0/xinstall.c: the command that ports install files with, up to *)
(* MaxCalls calls for one target, each of which may fail in any system     *)
(* call or die between two.                                                *)
(*                                                                         *)
(* Names lead to inodes, as hard links and the descriptors that outlive a  *)
(* name need it.  Left out: times, flags, extended attributes and the      *)
(* creation of directories (-d).  The kernel and strip(1) are external.    *)
(***************************************************************************)
EXTENDS Integers, FiniteSets

CONSTANTS
  Inode,       \* bound: files at one time
  MaxCalls     \* bound: calls

ASSUME XInstallAssumption ==
  /\ MaxCalls \in Nat
  /\ IsFiniteSet(Inode) /\ Inode = 1..Cardinality(Inode) /\ Cardinality(Inode) >= 7

NoInode == 0
Name == {"from", "to", "temp", "backup", "link"}

\* What a file is: the source's or the old one's bytes, all or part of them,
\* stripped or not.
Content == [of: {"source", "old"}, form: {"whole", "stripped", "part"}]
             \cup {[of |-> "null", form |-> "whole"]}
Empty == [of |-> "null", form |-> "whole"]
Part(content) == [content EXCEPT !.form = "part"]
Stripped(content) == IF content = Empty THEN Empty ELSE [content EXCEPT !.form = "stripped"]
NoContent == [of |-> "none", form |-> "none"]

VARIABLES
  fs,        \* name |-> inode or NoInode; temp is INS@XXXX, link another name of the target
  bytes,     \* inode |-> content
  mode,      \* inode |-> has it the owner and mode that the call asks for
  step,
  call,      \* its options, and what it found: target, nlink; and (history) the
             \* target, source and litter before it, whether both were
             \* one file, and if strip was not there or the target was removed
  from_fd, to_fd,
  twin,      \* a child whose execlp failed goes on in the parent's place
  calls

disk == <<fs, bytes, mode>>
installVars == <<disk, step, call, from_fd, to_fd, twin, calls>>

At(name) == IF fs[name] = NoInode THEN NoContent ELSE bytes[fs[name]]

\* -b or -B; -C or -p; -s; -S; file1 ... fileN directory; the name that the
\* source has, which is the target's own when a file is installed into the
\* directory where it is (bound: the only use of the form with a directory,
\* which otherwise differs in nothing from the one with a name).
Options == {o \in [dobackup: BOOLEAN, docompare: BOOLEAN, dostrip: BOOLEAN, safecopy: BOOLEAN,
                   directory: BOOLEAN, source: {"from", "to", "null"}] :
              /\ o.directory = (o.source = "to")
              /\ o.docompare /\ o.dostrip => o.safecopy}

Over == {"idle", "ok", "error", "dead"}

InstallTypeOK ==
  /\ fs \in [Name -> Inode \cup {NoInode}]
  /\ bytes \in [Inode -> Content] /\ mode \in [Inode -> BOOLEAN]
  /\ step \in Over \cup {"compare", "create", "copy", "copying", "strip", "reopen",
                       "backup", "move", "attributes"}
  /\ twin \in BOOLEAN /\ calls \in 0..MaxCalls
  /\ step \in {"copy", "copying", "strip", "attributes"} => to_fd # NoInode /\ to_fd \in {fs["to"], fs["temp"]}
  /\ step \in {"backup", "move"} => fs["temp"] = to_fd

-----------------------------------------------------------------------------
\* Only an existing target is copied safely.
Tempcopy == call.safecopy /\ call.target
CopyName == IF Tempcopy THEN "temp" ELSE "to"

SourceBytes == IF from_fd = NoInode THEN Empty ELSE bytes[from_fd]

Goes(next) == step' = next /\ UNCHANGED <<call, from_fd, twin, calls>>
Fails == Goes("error") /\ UNCHANGED to_fd

Unlinked(name) == fs' = [fs EXCEPT ![name] = NoInode] /\ UNCHANGED <<bytes, mode>>
Renamed(name, to) ==
  fs' = [fs EXCEPT ![to] = fs[name], ![name] = NoInode] /\ UNCHANGED <<bytes, mode>>

\* A new file of no bytes, its owner's only.
Created(name) ==
  LET inode == CHOOSE i \in Inode \ ({fs[n] : n \in Name} \cup {from_fd}) : TRUE
  IN /\ fs' = [fs EXCEPT ![name] = inode]
     /\ bytes' = [bytes EXCEPT ![inode] = Empty] /\ mode' = [mode EXCEPT ![inode] = FALSE]
     /\ to_fd' = inode

-----------------------------------------------------------------------------
(* The call *)

\* InstallCmd refuses two names of one file, unless the target is given as a
\* directory.
InstallCmd(o) ==
  LET source == IF o.source = "null" THEN NoInode ELSE fs[o.source]
      same == source # NoInode /\ source = fs["to"]
  IN /\ step \in Over /\ ~twin /\ calls < MaxCalls
     /\ o.source # "null" => source # NoInode
     /\ ~o.directory => ~same
     /\ step' = "compare" /\ calls' = calls + 1
     /\ call' = [dobackup |-> o.dobackup, docompare |-> o.docompare, dostrip |-> o.dostrip,
                 safecopy |-> o.safecopy, source |-> o.source,
                 target |-> fs["to"] # NoInode, same |-> same,
                 nlink |-> Cardinality({n \in Name : fs[n] = fs["to"]}),
                 before |-> At("to"), litter |-> fs["temp"],
                 bytes |-> IF o.source = "null" THEN Empty ELSE At(o.source),
                 unstripped |-> FALSE, removed |-> FALSE]
     /\ mode' = [i \in Inode |-> FALSE]
     /\ from_fd' = source /\ to_fd' = NoInode
     /\ UNCHANGED <<fs, bytes, twin>>

\* Zero: no difference.  Files of more than 16 MB, and those that cannot be
\* read, are taken for different.
compare(from, to) == IF from = to THEN {0, 1} ELSE {1}

\* Without -s the target is compared first.
Matches ==
  /\ step = "compare" /\ call.docompare /\ ~call.dostrip /\ call.target
  /\ 0 \in compare(SourceBytes, At("to"))
  /\ Goes("attributes") /\ to_fd' = fs["to"] /\ UNCHANGED disk

create_tempfile ==
  /\ step = "compare" /\ Tempcopy
  /\ \/ Goes("copy") /\ Created("temp")
     \/ Fails /\ UNCHANGED disk

\* create_newfile in two steps.  It goes on when unlink fails, and then
\* truncates the file that is there.
Removed ==
  /\ step = "compare" /\ ~Tempcopy
  /\ \/ call.target /\ call.dobackup /\ Renamed("to", "backup") /\ Goes("create")
     \/ call.target /\ call.dobackup /\ UNCHANGED disk /\ Goes("error")
     \/ call.target /\ ~call.dobackup /\ Unlinked("to") /\ Goes("create")
     \/ (call.target => ~call.dobackup) /\ UNCHANGED disk /\ Goes("create")
  /\ UNCHANGED to_fd

create_newfile ==
  /\ step = "create"
  /\ \/ fs["to"] = NoInode /\ Created("to") /\ Goes("copy")
     \/ /\ fs["to"] # NoInode
        /\ bytes' = [bytes EXCEPT ![fs["to"]] = Empty]
        /\ to_fd' = fs["to"] /\ UNCHANGED <<fs, mode>>
        /\ Goes("copy")
     \/ Fails /\ UNCHANGED disk

\* What follows the copy, and the strip.
Ready == IF ~Tempcopy THEN "attributes" ELSE IF call.dobackup THEN "backup" ELSE "move"
Copied == IF call.dostrip THEN "strip" ELSE Ready

\* A part of the file is written ...
CopyBegins ==
  /\ step = "copy" /\ UNCHANGED to_fd
  /\ \/ call.source = "null" /\ Goes(Copied) /\ UNCHANGED disk
     \/ /\ call.source # "null" /\ Goes("copying")
        /\ bytes' = [bytes EXCEPT ![to_fd] = IF SourceBytes = Empty THEN Empty
                                             ELSE Part(SourceBytes)]
        /\ UNCHANGED <<fs, mode>>

\* Mutant: it is the target that goes when the copy fails.
CopyFailsUnlinksTarget ==
  /\ step = "copying" /\ UNCHANGED to_fd
  /\ \/ bytes' = [bytes EXCEPT ![to_fd] = SourceBytes] /\ Goes(Copied) /\ UNCHANGED <<fs, mode>>
     \/ Unlinked("to") /\ Goes("error")

\* ... and all of it, or what was written is removed.  A source that was
\* truncated has no more to give.
copy ==
  /\ step = "copying" /\ UNCHANGED to_fd
  /\ \/ bytes' = [bytes EXCEPT ![to_fd] = SourceBytes] /\ Goes(Copied) /\ UNCHANGED <<fs, mode>>
     \/ Unlinked(CopyName) /\ Goes("error")

\* What strip cannot do, or does not end well, is removed; that its program
\* is not there shows in the child only, which goes on with the installation
\* (and then with the port) while the parent waits for it.
strip ==
  /\ step = "strip" /\ Goes("reopen") /\ UNCHANGED to_fd
  /\ \/ bytes' = [bytes EXCEPT ![to_fd] = Stripped(@)] /\ UNCHANGED <<fs, mode>>
     \/ Unlinked(CopyName)

ExecFails ==
  /\ step = "strip" /\ ~twin
  /\ twin' = TRUE /\ step' = "reopen" /\ call' = [call EXCEPT !.unstripped = TRUE]
  /\ UNCHANGED <<disk, from_fd, to_fd, calls>>

\* The child ends, with success or not.
Waited ==
  /\ twin /\ step \in Over
  /\ twin' = FALSE /\ step' = "reopen"
  /\ Unlinked(CopyName) \/ UNCHANGED disk
  /\ UNCHANGED <<call, from_fd, to_fd, calls>>

UpToDate ==
  /\ call.docompare /\ call.target /\ call.nlink = 1
  /\ fs["to"] # NoInode /\ fs["temp"] # NoInode /\ 0 \in compare(At("temp"), At("to"))

\* The stripped file is opened again and, with -C, compared with the target:
\* if they are equal and the target has no other name, it stays.
Reopened ==
  /\ step = "reopen"
  /\ \/ UpToDate /\ to_fd' = fs["to"] /\ Unlinked("temp") /\ Goes("attributes")
     \/ fs[CopyName] # NoInode /\ to_fd' = fs[CopyName] /\ UNCHANGED disk /\ Goes(Ready)
     \/ Fails /\ UNCHANGED disk

Backup ==
  /\ step = "backup" /\ UNCHANGED to_fd
  /\ \/ fs["to"] # NoInode /\ Renamed("to", "backup") /\ Goes("move")
     \/ Unlinked("temp") /\ Goes("error")

\* The new file may be in its place and not be opened.
Moved ==
  /\ step = "move"
  /\ \/ fs["temp"] # NoInode /\ Renamed("temp", "to") /\ to_fd' = fs["temp"] /\ Goes("attributes")
     \/ fs["temp"] # NoInode /\ Renamed("temp", "to") /\ Goes("error") /\ UNCHANGED to_fd
     \/ Unlinked("temp") /\ Goes("error") /\ UNCHANGED to_fd

\* fchown, fchmod and fchflags; a file that does not get them is removed.
Attributes ==
  /\ step = "attributes" /\ UNCHANGED to_fd
  /\ \/ mode' = [mode EXCEPT ![to_fd] = TRUE] /\ UNCHANGED <<fs, bytes>> /\ Goes("ok")
     \/ /\ Unlinked("to")
        /\ step' = "error" /\ call' = [call EXCEPT !.removed = TRUE]
        /\ UNCHANGED <<from_fd, twin, calls>>

InstallDies == step \notin Over /\ step' = "dead" /\ UNCHANGED <<disk, call, from_fd, to_fd, twin, calls>>

-----------------------------------------------------------------------------
\* A source, and a target that may be there, with another name, with the same
\* bytes, stripped or not.
InstallInit ==
  /\ \E to \in {NoInode, 1, 2}, link \in {NoInode, 2} :
       /\ link \in {NoInode, to}
       /\ fs = [from |-> 1, to |-> to, temp |-> NoInode, backup |-> NoInode, link |-> link]
  /\ LET Whole == [of |-> "source", form |-> "whole"]
     IN \E old \in {[of |-> "old", form |-> "whole"], Whole, Stripped(Whole)} :
          /\ fs["to"] # 2 => old = Whole
          /\ bytes = [i \in Inode |-> IF i = 2 THEN old ELSE Whole]
  /\ mode = [i \in Inode |-> FALSE]
  /\ step = "idle" /\ call = <<>> /\ from_fd = NoInode /\ to_fd = NoInode
  /\ twin = FALSE /\ calls = 0

InstallNext ==
  \/ \E o \in Options : InstallCmd(o)
  \/ Matches \/ create_tempfile \/ Removed \/ create_newfile
  \/ CopyBegins \/ copy \/ strip \/ ExecFails \/ Waited
  \/ Reopened \/ Backup \/ Moved \/ Attributes \/ InstallDies

InstallSpec == InstallInit /\ [][InstallNext]_installVars

-----------------------------------------------------------------------------
\* What the target is to become; the source as it is when there is no strip.
Wanted ==
  (IF call.dostrip THEN {Stripped(call.bytes)} ELSE {call.bytes})
    \cup (IF call.unstripped THEN {call.bytes} ELSE {})

\* With -S the name of a target never leads to a part of a file: at every
\* moment, and whatever fails or dies, it leads to the old file or to the
\* whole new one, or is missing while the backup is the old one, or because
\* the new file did not get its attributes (install, after the second rename).
\* And no installation changes a source that is another file.
TargetIsWhole ==
  step # "idle" =>
    /\ Tempcopy =>
         \/ At("to") \in {call.before} \cup Wanted
         \/ fs["to"] = NoInode /\ (At("backup") = call.before \/ call.removed)
    /\ call.source = "from" /\ ~call.same => At("from") = call.bytes

\* An installation that succeeds has put the whole source, stripped when asked
\* for, in the place of the target, whose old file is the backup, and leaves no
\* temporary file of its own -- unless source and target are one file that
\* could not be removed, which is then empty (create_newfile, copy, install).
Installed ==
  step = "ok" /\ ~twin =>
    /\ At("to") \in Wanted \/ (call.same /\ At("to") = Empty)
    /\ mode[fs["to"]]
    /\ call.dobackup /\ call.target => call.before \in {At("to"), At("backup")}
    /\ fs["temp"] \in {NoInode, call.litter}

\* Both, for every call of install.
InstallationsAreWhole == TargetIsWhole /\ Installed
=============================================================================
