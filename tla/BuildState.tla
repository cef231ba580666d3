------------------------------ MODULE BuildState ------------------------------
(***************************************************************************)
(* The work directory of a port and the state file in it, in which port(1) *)
(* processes record what they have done there: open_statefile,             *)
(* write_statefile, target_run and eval_targets of port1.0/portutil.tcl,   *)
(* and the targets that lead to an image or a package.                     *)
(*                                                                         *)
(* The state file is locked, but it is looked at, and the directory        *)
(* removed, before it is locked.  The phases are coarse: fetch (with       *)
(* checksum) leaves nothing in the directory, build (extract to build)     *)
(* leaves the sources and destroot the files to be installed, which come   *)
(* from what is built.  Left out: -f, -o, -s, -b, -y and builds without    *)
(* privileges.  Any target may fail; death and failure leave the same.     *)
(***************************************************************************)
EXTENDS Naturals, Sequences, FiniteSets

CONSTANTS
  Proc,         \* port processes
  Inode,        \* state files at one time: a bound, more than processes
  Portfile,     \* contents of the Portfile, all of one version of the port
  Elsewhere,    \* the Portfiles that others build archives from
  Selection,    \* selections of variants
  NoVariants,   \* the empty one
  MaxStarts,    \* bound: actions of the user
  MaxEdits,     \* bound: new contents of the Portfile
  NoProc, NoInode, NoSum

ASSUME BuildStateAssumption ==
  /\ NoVariants \in Selection
  /\ Elsewhere \notin Portfile /\ NoSum \notin Portfile \cup {Elsewhere}
  /\ NoProc \notin Proc /\ NoInode \notin Inode
  /\ IsFiniteSet(Proc) /\ IsFiniteSet(Inode) /\ Cardinality(Inode) > Cardinality(Proc)
  /\ MaxStarts \in Nat /\ MaxEdits \in Nat

VARIABLES
  portfile,    \* the Portfile
  name,        \* the state file that its name leads to
  lines,       \* what is in each state file
  older,       \* is it older than the Portfile
  holder,      \* the process that has locked it
  made,        \* phase |-> its output in the work directory
  plus,        \* the state file in the archive that was unpacked there, or NoLines
  incoming,    \* selection |-> the archive in incoming/verified
  image,       \* selection |-> the archive in software
  registered,  \* the selections that the registry has
  package,     \* the package made last
  pc, job, fd, sees, then, todo,   \* of each process, see target_run
  excuse,      \* history: what has happened that the lock cannot make good
  starts, edits

dir == <<name, lines, older, made, plus>>
products == <<incoming, image, registered, package>>
bounds == <<starts, edits>>
vars == <<portfile, dir, holder, products, pc, job, fd, sees, then, todo, excuse, bounds>>

-----------------------------------------------------------------------------
(* State files, trees of files and archives *)

Label == {"idle", "check", "discard", "emptying", "open", "flock", "version", "checksum",
          "variants", "targets", "next", "run", "making", "record", "claim", "unpacking",
          "swap", "reopened", "register", "clean", "cleaning"}

Target == {"archivefetch", "unarchive", "fetch", "build", "destroot", "install", "pkg"}
Phase == {"build", "destroot"}

\* Which of its lines a state file has.  A second line with a checksum is not
\* looked at, and neither is a line that is there written again.
Lines == [version : BOOLEAN, checksum : Portfile \cup {Elsewhere, NoSum},
          variants : Selection, targets : SUBSET Target, claimed : BOOLEAN]
NoLines == [version |-> FALSE, checksum |-> NoSum, variants |-> NoVariants,
            targets |-> {}, claimed |-> FALSE]

\* What was made, and from which Portfiles and selections.
Recipe == [portfile : Portfile \cup {Elsewhere}, variants : Selection]
Tree == [whole : BOOLEAN, of : SUBSET Recipe]
NoTree == [whole |-> FALSE, of |-> {}]
NoTrees == [t \in Phase |-> NoTree]

\* An archive has the state file of its builder; by is (history) the Portfile
\* of the process that put it where it is.
Archive == [tree : Tree, state : Lines, by : Portfile \cup {Elsewhere}]
NoArchive == [tree |-> NoTree, state |-> NoLines, by |-> Elsewhere]

Fetched(v, sum) ==
  [tree |-> [whole |-> TRUE, of |-> {[portfile |-> Elsewhere, variants |-> v]}],
   state |-> [version |-> TRUE, checksum |-> sum, variants |-> v,
              targets |-> {"archivefetch", "fetch", "build", "destroot"}, claimed |-> FALSE],
   by |-> Elsewhere]

Active(p) == pc[p] # "idle"
Others(p) == \E q \in Proc \ {p} : Active(q)
Excused(event, happens) == excuse' = excuse \cup (IF happens THEN {event} ELSE {})

Goes(p, label) == pc' = [pc EXCEPT ![p] = label]
Recorded(p) == lines[fd[p]]

write_statefile(i, l) ==
  /\ lines' = [lines EXCEPT ![i] = l]
  /\ older' = [older EXCEPT ![i] = @ /\ l = lines[i]]

Named(i, l) ==
  /\ name' = i
  /\ lines' = [lines EXCEPT ![i] = l]
  /\ older' = [older EXCEPT ![i] = FALSE]

FreeInode == CHOOSE i \in Inode : i # name /\ \A p \in Proc : fd[p] # i

Closes(p) ==
  /\ holder' = [holder EXCEPT ![fd[p]] = NoProc]
  /\ fd' = [fd EXCEPT ![p] = NoInode]

NoJob == [portfile |-> Elsewhere, variants |-> NoVariants, goal |-> "clean"]
NoSight == [sum |-> NoSum, fresh |-> FALSE]

Finishes(p) ==
  /\ Goes(p, "idle")
  /\ job' = [job EXCEPT ![p] = NoJob]
  /\ sees' = [sees EXCEPT ![p] = NoSight]
  /\ then' = [then EXCEPT ![p] = "run"] /\ todo' = [todo EXCEPT ![p] = <<>>]

-----------------------------------------------------------------------------
(* open_statefile *)

Opens(p, next) == Goes(p, "check") /\ then' = [then EXCEPT ![p] = next]

\* A state file without a version is judged by its time; one without a
\* checksum is outdated.
PortfileChanged ==
  LET l == lines[name]
  IN IF l.version THEN l.checksum # portfile ELSE older[name]

Check(p) ==
  LET changed == name # NoInode /\ PortfileChanged
  IN /\ pc[p] = "check"
     /\ sees' = [sees EXCEPT ![p] = [sum |-> portfile, fresh |-> name = NoInode \/ changed]]
     /\ Goes(p, IF changed THEN "discard" ELSE "open")
     /\ UNCHANGED <<portfile, dir, holder, products, job, fd, then, todo, excuse, bounds>>

\* Mutant: the state file outlives what it records.
UnnamesLast(p) ==
  /\ pc[p] \in {"discard", "clean"}
  /\ made' = NoTrees
  /\ Goes(p, IF pc[p] = "clean" THEN "cleaning" ELSE "emptying")
  /\ Excused("shared", Others(p))
  /\ UNCHANGED <<portfile, name, lines, older, plus, holder, products, job, fd, sees, then,
                 todo, bounds>>

\* delete works through a directory in the order of its names, in which the
\* state file comes before what the phases made.
Unnames(p) ==
  /\ pc[p] \in {"discard", "clean"}
  /\ name' = NoInode
  /\ Goes(p, IF pc[p] = "clean" THEN "cleaning" ELSE "emptying")
  /\ Excused("shared", Others(p))
  /\ UNCHANGED <<portfile, lines, older, made, plus, holder, products, job, fd, sees, then,
                 todo, bounds>>

\* The directory itself goes with whatever is in it by then.
Empties(p) ==
  /\ pc[p] \in {"emptying", "cleaning"}
  /\ name' = NoInode /\ made' = NoTrees /\ plus' = NoLines
  /\ \/ pc[p] = "cleaning" /\ Finishes(p)
     \/ pc[p] = "emptying" /\ Goes(p, "open") /\ UNCHANGED <<job, sees, then, todo>>
  /\ excuse' = excuse
       \cup (IF Others(p) THEN {"shared"} ELSE {})
       \cup (IF pc[p] = "emptying" /\ then[p] # "variants" THEN {"amid"} ELSE {})
  /\ UNCHANGED <<portfile, lines, older, holder, products, fd, bounds>>

OpenFile(p) ==
  /\ pc[p] = "open"
  /\ \/ name # NoInode /\ fd' = [fd EXCEPT ![p] = name] /\ UNCHANGED <<name, lines, older>>
     \/ /\ name = NoInode
        /\ Named(FreeInode, NoLines)
        /\ fd' = [fd EXCEPT ![p] = FreeInode]
  /\ Goes(p, "flock")
  /\ UNCHANGED <<portfile, made, plus, holder, products, job, sees, then, todo, excuse, bounds>>

\* Mutant: the file is opened and not locked.
FlockNever(p) ==
  /\ pc[p] = "flock"
  /\ Goes(p, IF sees[p].fresh THEN "version" ELSE then[p])
  /\ Excused("headless", ~sees[p].fresh /\ ~Recorded(p).version)
  /\ UNCHANGED <<portfile, dir, holder, products, job, fd, sees, then, todo, bounds>>

\* Nobody looks again whether the file still has its name, or is about to lose it.
Flock(p) ==
  /\ pc[p] = "flock"
  /\ holder[fd[p]] = NoProc
  /\ holder' = [holder EXCEPT ![fd[p]] = p]
  /\ Goes(p, IF sees[p].fresh THEN "version" ELSE then[p])
  /\ excuse' = excuse
       \cup (IF ~sees[p].fresh /\ ~Recorded(p).version THEN {"headless"} ELSE {})
       \cup (IF \E q \in Proc : pc[q] = "swap" THEN {"shared"} ELSE {})
  /\ UNCHANGED <<portfile, dir, products, job, fd, sees, then, todo, bounds>>

WriteVersion(p) ==
  /\ pc[p] = "version"
  /\ write_statefile(fd[p], [Recorded(p) EXCEPT !.version = TRUE])
  /\ Goes(p, "checksum")
  /\ UNCHANGED <<portfile, name, made, plus, holder, products, job, fd, sees, then, todo,
                 excuse, bounds>>

\* A process that has already written its variants does not do so again.
WriteChecksum(p) ==
  /\ pc[p] = "checksum"
  /\ write_statefile(fd[p],
       [Recorded(p) EXCEPT !.checksum = IF @ = NoSum THEN sees[p].sum ELSE @])
  /\ Goes(p, then[p])
  /\ UNCHANGED <<portfile, name, made, plus, holder, products, job, fd, sees, then, todo,
                 excuse, bounds>>

-----------------------------------------------------------------------------
(* check_variants and eval_targets *)

Goal == {"destroot", "install", "pkg", "clean"}

Start(p, variants, goal) ==
  /\ pc[p] = "idle" /\ starts < MaxStarts
  /\ job' = [job EXCEPT ![p] = [portfile |-> portfile, variants |-> variants, goal |-> goal]]
  /\ \/ goal = "clean" /\ Goes(p, "clean") /\ UNCHANGED then
     \/ goal # "clean" /\ Opens(p, "variants")
  /\ starts' = starts + 1
  /\ Excused("shared", \E q \in Proc : pc[q] \in {"emptying", "cleaning"})
  /\ UNCHANGED <<portfile, dir, holder, products, fd, sees, todo, edits>>

\* Mutant: so does one with targets.
FitsUnlabelled(l, variants) == l.variants = NoVariants \/ l.variants = variants

\* A state file without variants and targets fits everything.
Fits(l, variants) ==
  \/ l.variants = NoVariants /\ l.targets = {}
  \/ l.variants = variants

check_variants(p) ==
  /\ pc[p] = "variants"
  /\ \/ /\ Fits(Recorded(p), job[p].variants)
        /\ write_statefile(fd[p], [Recorded(p) EXCEPT !.variants = job[p].variants])
        /\ Excused("shared", \E q \in Proc : Active(q) /\ job[q].variants # job[p].variants)
        /\ Goes(p, "targets")
        /\ UNCHANGED <<job, sees, then, todo>>
     \/ /\ ~Fits(Recorded(p), job[p].variants)
        /\ Finishes(p)
        /\ UNCHANGED <<lines, older, excuse>>
  /\ Closes(p)
  /\ UNCHANGED <<portfile, name, made, plus, products, bounds>>

TargetsOf(goal) ==
  CASE goal = "destroot" -> <<"fetch", "build", "destroot">>
    [] goal = "install" -> <<"archivefetch", "fetch", "build", "destroot", "install">>
    [] goal = "pkg" -> <<"archivefetch", "unarchive", "fetch", "build", "destroot", "pkg">>

\* What is registered is not installed again.
eval_targets(p) ==
  /\ pc[p] = "targets"
  /\ todo' = [todo EXCEPT ![p] = IF job[p].goal = "install" /\ job[p].variants \in registered
                                 THEN <<>> ELSE TargetsOf(job[p].goal)]
  /\ Goes(p, "next")
  /\ UNCHANGED <<portfile, dir, holder, products, job, fd, sees, then, excuse, bounds>>

\* Without -k the work directory is removed after an installation.
NextTarget(p) ==
  /\ pc[p] = "next"
  /\ \/ todo[p] # <<>> /\ Opens(p, "run") /\ UNCHANGED <<job, sees, todo>>
     \/ todo[p] = <<>> /\ Finishes(p)
     \/ /\ todo[p] = <<>> /\ job[p].goal = "install"
        /\ Goes(p, "clean") /\ UNCHANGED <<job, sees, then, todo>>
  /\ UNCHANGED <<portfile, dir, holder, products, fd, excuse, bounds>>

-----------------------------------------------------------------------------
(* target_run *)

\* The state file is closed behind every target.
Done(p) ==
  /\ Closes(p)
  /\ todo' = [todo EXCEPT ![p] = Tail(@)]
  /\ Goes(p, "next")

Skipped(p) ==
  /\ pc[p] = "run"
  /\ Head(todo[p]) \in Recorded(p).targets
  /\ Done(p)
  /\ UNCHANGED <<portfile, dir, products, job, sees, then, excuse, bounds>>

Due(p, t) ==
  /\ pc[p] = "run"
  /\ Head(todo[p]) = t
  /\ t \notin Recorded(p).targets

RecordTarget(p) ==
  /\ pc[p] = "record"
  /\ write_statefile(fd[p], [Recorded(p) EXCEPT !.targets = @ \cup {Head(todo[p])}])
  /\ Done(p)
  /\ UNCHANGED <<portfile, name, made, plus, products, job, sees, then, excuse, bounds>>

\* What fetch brings lies outside the work directory.
Fetch(p) ==
  /\ Due(p, "fetch")
  /\ Goes(p, "record")
  /\ UNCHANGED <<portfile, dir, holder, products, job, fd, sees, then, todo, excuse, bounds>>

RecipeOf(p) == [portfile |-> job[p].portfile, variants |-> job[p].variants]

\* What destroot stages is what was built, and what it finds staged already.
Make(p, t) ==
  /\ Due(p, t) /\ t \in Phase
  /\ t = "destroot" => made["build"] # NoTree
  /\ made' = [made EXCEPT ![t] =
       [whole |-> FALSE,
        of |-> @.of \cup {RecipeOf(p)} \cup (IF t = "destroot" THEN made["build"].of ELSE {})]]
  /\ Goes(p, "making")
  /\ UNCHANGED <<portfile, name, lines, older, plus, holder, products, job, fd, sees, then,
                 todo, excuse, bounds>>

Made(p) ==
  /\ pc[p] = "making"
  /\ LET t == Head(todo[p])
     IN made' = [made EXCEPT ![t] =
          [whole |-> @ # NoTree /\ (t = "destroot" => made["build"].whole),
           of |-> @.of \cup {RecipeOf(p)}]]
  /\ Goes(p, "record")
  /\ UNCHANGED <<portfile, name, lines, older, plus, holder, products, job, fd, sees, then,
                 todo, excuse, bounds>>

-----------------------------------------------------------------------------
(* Archives *)

find_portarchive(p) ==
  IF job[p].variants \in registered THEN image[job[p].variants] ELSE incoming[job[p].variants]

Destrooted(p) == "destroot" \in Recorded(p).targets /\ made["destroot"] # NoTree

ArchiveFetch(p) ==
  /\ Due(p, "archivefetch")
  /\ \/ Goes(p, "record") /\ UNCHANGED incoming    \* no site has one, or there is no site
     \/ /\ ~Destrooted(p) /\ find_portarchive(p) # NoArchive
        /\ Goes(p, "claim") /\ UNCHANGED incoming
     \/ /\ ~Destrooted(p) /\ find_portarchive(p) = NoArchive     \* fetched and verified
        /\ \E sum \in {portfile, Elsewhere} :
             incoming' = [incoming EXCEPT ![job[p].variants] = Fetched(job[p].variants, sum)]
        /\ Goes(p, "claim")
  /\ UNCHANGED <<portfile, dir, holder, image, registered, package, job, fd, sees, then, todo,
                 excuse, bounds>>

Claimed == <<"fetch", "build", "destroot">>

\* "modify state file to skip remaining phases up to destroot", a line at a time.
Claim(p) ==
  LET left == {i \in DOMAIN Claimed : Claimed[i] \notin Recorded(p).targets}
  IN /\ pc[p] = "claim"
     /\ \/ left = {} /\ Goes(p, "record") /\ UNCHANGED <<lines, older, excuse>>
        \/ /\ \E i \in left :
                /\ \A j \in left : i <= j
                /\ write_statefile(fd[p],
                     [Recorded(p) EXCEPT !.targets = @ \cup {Claimed[i]}, !.claimed = TRUE])
           /\ Excused("claimed", made # NoTrees)
           /\ UNCHANGED pc
     /\ UNCHANGED <<portfile, name, made, plus, holder, products, job, fd, sees, then, todo, bounds>>

SkipsUnarchive(p) ==
  /\ Due(p, "unarchive")
  /\ Destrooted(p) \/ find_portarchive(p) = NoArchive
  /\ Done(p)
  /\ UNCHANGED <<portfile, dir, products, job, sees, then, excuse, bounds>>

Unpack(p) ==
  /\ Due(p, "unarchive")
  /\ ~Destrooted(p) /\ find_portarchive(p) # NoArchive
  /\ made' = [made EXCEPT !["destroot"] =
       [whole |-> FALSE, of |-> @.of \cup find_portarchive(p).tree.of]]
  /\ Goes(p, "unpacking")
  /\ Excused("mixed", made # NoTrees)
  /\ UNCHANGED <<portfile, name, lines, older, plus, holder, products, job, fd, sees, then,
                 todo, bounds>>

Unpacked(p) ==
  /\ pc[p] = "unpacking"
  /\ find_portarchive(p) # NoArchive
  /\ made' = [made EXCEPT !["destroot"] =
       [whole |-> @.of # {} /\ find_portarchive(p).tree.whole, of |-> @.of]]
  /\ plus' = find_portarchive(p).state
  /\ Closes(p)
  /\ Goes(p, "swap")
  /\ UNCHANGED <<portfile, name, lines, older, products, job, sees, then, todo, excuse, bounds>>

\* The archive's state file takes the place of the one that was unlocked.
unarchive_finish(p) ==
  /\ pc[p] = "swap"
  /\ plus # NoLines /\ plus' = NoLines
  /\ Named(FreeInode, plus)
  /\ Opens(p, "reopened")
  /\ Excused("shared", Others(p))
  /\ UNCHANGED <<portfile, made, holder, products, job, fd, sees, todo, bounds>>

Reopened(p) ==
  /\ pc[p] = "reopened"
  /\ Done(p)
  /\ UNCHANGED <<portfile, dir, products, job, sees, then, excuse, bounds>>

-----------------------------------------------------------------------------
(* The image and the package *)

\* A downloaded archive becomes the image; or it is made from what is staged,
\* with the state file that has the name now.
install_main(p) ==
  LET v == job[p].variants
  IN /\ Due(p, "install")
     /\ v \notin registered
     /\ \/ /\ incoming[v] # NoArchive
           /\ image' = [image EXCEPT ![v] = incoming[v]]
           /\ incoming' = [incoming EXCEPT ![v] = NoArchive]
        \/ /\ incoming[v] = NoArchive /\ made["destroot"] # NoTree /\ name # NoInode
           /\ image' = [image EXCEPT ![v] = [tree |-> made["destroot"], state |-> lines[name],
                                             by |-> job[p].portfile]]
           /\ UNCHANGED incoming
     /\ Goes(p, "register")
     /\ UNCHANGED <<portfile, dir, holder, registered, package, job, fd, sees, then, todo,
                    excuse, bounds>>

Register(p) ==
  /\ pc[p] = "register"
  /\ job[p].variants \notin registered
  /\ registered' = registered \cup {job[p].variants}
  /\ Done(p)
  /\ UNCHANGED <<portfile, dir, incoming, image, package, job, sees, then, excuse, bounds>>

pkg_main(p) ==
  /\ Due(p, "pkg")
  /\ made["destroot"] # NoTree
  /\ package' = [tree |-> made["destroot"], by |-> job[p].portfile, variants |-> job[p].variants]
  /\ Done(p)
  /\ UNCHANGED <<portfile, dir, incoming, image, registered, job, sees, then, excuse, bounds>>

-----------------------------------------------------------------------------
(* What may happen at any time *)

\* The process dies, or gives up: the kernel drops its lock.
Ends(p) ==
  /\ Active(p)
  /\ Finishes(p)
  /\ holder' = [i \in Inode |-> IF holder[i] = p THEN NoProc ELSE holder[i]]
  /\ fd' = [fd EXCEPT ![p] = NoInode]
  /\ excuse' = excuse
       \cup (IF pc[p] \in {"emptying", "cleaning"} THEN {"leftover"} ELSE {})
       \cup (IF pc[p] \in {"unpacking", "swap"} THEN {"mixed"} ELSE {})
       \cup (IF pc[p] \in {"unpacking", "swap"} /\ name # NoInode /\ lines[name].claimed
             THEN {"claimed"} ELSE {})
  /\ UNCHANGED <<portfile, dir, products, bounds>>

\* Somebody edits the Portfile, or a synchronisation brings another one, with
\* its own time.
Edit(content, newer) ==
  /\ edits < MaxEdits /\ content # portfile
  /\ portfile' = content
  /\ older' = [i \in Inode |-> newer]
  /\ edits' = edits + 1
  /\ Excused("shared", \E p \in Proc : Active(p))
  /\ UNCHANGED <<name, lines, made, plus, holder, products, pc, job, fd, sees, then, todo, starts>>

-----------------------------------------------------------------------------
NoPackage == [tree |-> NoTree, by |-> Elsewhere, variants |-> NoVariants]

Init ==
  /\ portfile \in Portfile
  /\ name = NoInode
  /\ lines = [i \in Inode |-> NoLines] /\ older = [i \in Inode |-> FALSE]
  /\ holder = [i \in Inode |-> NoProc]
  /\ made = NoTrees /\ plus = NoLines
  /\ incoming = [v \in Selection |-> NoArchive] /\ image = [v \in Selection |-> NoArchive]
  /\ registered = {} /\ package = NoPackage
  /\ pc = [p \in Proc |-> "idle"]
  /\ job = [p \in Proc |-> NoJob]
  /\ fd = [p \in Proc |-> NoInode]
  /\ sees = [p \in Proc |-> NoSight]
  /\ then = [p \in Proc |-> "run"] /\ todo = [p \in Proc |-> <<>>]
  /\ excuse = {} /\ starts = 0 /\ edits = 0

Step(p) ==
  \/ Check(p) \/ Unnames(p) \/ Empties(p) \/ OpenFile(p) \/ Flock(p)
  \/ WriteVersion(p) \/ WriteChecksum(p)
  \/ check_variants(p) \/ eval_targets(p) \/ NextTarget(p)
  \/ Skipped(p) \/ RecordTarget(p) \/ Fetch(p) \/ \E t \in Phase : Make(p, t)
  \/ Made(p)
  \/ ArchiveFetch(p) \/ Claim(p) \/ SkipsUnarchive(p) \/ Unpack(p) \/ Unpacked(p)
  \/ unarchive_finish(p) \/ Reopened(p)
  \/ install_main(p) \/ Register(p) \/ pkg_main(p)

Next ==
  \/ \E p \in Proc :
       \/ \E v \in Selection, goal \in Goal : Start(p, v, goal)
       \/ Step(p)
       \/ Ends(p)
  \/ \E content \in Portfile, newer \in BOOLEAN : Edit(content, newer)

Spec == Init /\ [][Next]_vars

-----------------------------------------------------------------------------
\* State files, trees and archives have their parts, whoever has written them.
TypeOK ==
  /\ portfile \in Portfile
  /\ name \in Inode \cup {NoInode}
  /\ lines \in [Inode -> Lines] /\ older \in [Inode -> BOOLEAN]
  /\ holder \in [Inode -> Proc \cup {NoProc}]
  /\ made \in [Phase -> Tree] /\ plus \in Lines
  /\ incoming \in [Selection -> Archive] /\ image \in [Selection -> Archive]
  /\ registered \subseteq Selection
  /\ package \in [tree : Tree, by : Portfile \cup {Elsewhere}, variants : Selection]
  /\ pc \in [Proc -> Label] /\ then \in [Proc -> {"variants", "run", "reopened"}]
  /\ job \in [Proc -> [portfile : Portfile \cup {Elsewhere}, variants : Selection, goal : Goal]]
  /\ fd \in [Proc -> Inode \cup {NoInode}]
  /\ sees \in [Proc -> [sum : Portfile \cup {NoSum}, fresh : BOOLEAN]]
  /\ todo \in [Proc -> Seq(Target)]
  /\ excuse \subseteq {"shared", "leftover", "headless", "amid", "claimed", "mixed"}
  /\ starts \in 0..MaxStarts /\ edits \in 0..MaxEdits

\* What the lock and the state file do not protect from, see the actions:
\* "shared"    the state file, the directory or the Portfile was replaced while
\*             others were at work, or they began when unarchive had let go of
\*             the state file that it was about to replace;
\* "leftover"  a removal was cut short;
\* "headless"  a state file without its first line was used;
\* "amid"      a process has discarded its own work between two targets;
\* "claimed"   phases were recorded for an archive over what was there, or the
\*             archive was not unpacked to the end;
\* "mixed"     an archive was unpacked over what was there, or not to the end.
Because(events) == excuse \cap events # {}

Right(tree, by, v) ==
  /\ tree.whole \/ Because({"shared", "claimed", "amid"})
  /\ \A r \in tree.of :
       /\ r.variants = v \/ Because({"shared", "amid", "leftover"})
       /\ r.portfile \in {by, Elsewhere}
            \/ Because({"shared", "headless", "leftover", "mixed"})

\* What is registered, and what is packaged, is a whole destroot, of the
\* variants asked for and of the Portfile that the process has read, through
\* any failures, deaths, retries, edits and two processes at a time, unless one
\* of the events above has happened (target_run, check_statefile_variants and
\* the checksum in open_statefile together).
ProductsAreRight ==
  /\ \A v \in registered : Right(image[v].tree, image[v].by, v)
  /\ package # NoPackage => Right(package.tree, package.by, package.variants)

AtWork == {"version", "checksum", "variants", "run", "making", "record", "claim", "unpacking",
           "reopened", "register"}

\* Two processes never work in the directory at once, although each closes and
\* opens the state file again for every target (open_statefile's flock), unless
\* one of them has replaced it.
AtWorkAlone ==
  \A p, q \in Proc : pc[p] \in AtWork /\ pc[q] \in AtWork => p = q \/ Because({"shared"})

\* A destroot that is recorded as completed, and not claimed for an archive, is
\* whole in the directory: the file loses its name before what it speaks of
\* goes (target_run, and delete in open_statefile and clean_work).
RecordedIsThere ==
  name # NoInode /\ "destroot" \in lines[name].targets =>
    made["destroot"].whole \/ lines[name].claimed \/ Because({"shared", "amid"})

\* "Skipping unarchive since destroot completed" (portunarchive.tcl:79): what is
\* there then is whole.
SkippedIsComplete ==
  \A p \in Proc :
    pc[p] = "run" /\ Head(todo[p]) = "unarchive" /\ Destrooted(p) => made["destroot"].whole
=============================================================================
