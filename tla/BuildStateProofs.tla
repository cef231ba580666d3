--------------------------- MODULE BuildStateProofs ---------------------------
(***************************************************************************)
(* Theorems about BuildState, for any number of processes, state files,    *)
(* Portfiles, selections of variants, starts and edits.                    *)
(*                                                                         *)
(* The invariant is a conjunction of parts, each proved from those before: *)
(*   IInv           types, and where a process may be with its target, its *)
(*                  lock and its state file;                               *)
(*   Alone          while nothing is shared, one process is at work, on    *)
(*                  the state file that has the name;                      *)
(*   There          what is recorded, and what a target relies on, is in   *)
(*                  the directory, in the archives and in the images;      *)
(*   Installed, Wholes   what is registered is there, and whole;           *)
(*   NothingLeft, VariantsFit   no directory without its state file has    *)
(*                  anything in it, and all in it is of one selection;     *)
(*   PortfilesFit   and of one Portfile.                                   *)
(* Each part but the first says nothing once an event has happened that    *)
(* excuses it, and no event is forgotten (ExcusesStay).                    *)
(***************************************************************************)
EXTENDS BuildState, FiniteSetTheorems, FunctionTheorems, TLAPS

USE BuildStateAssumption

Opening == {"check", "discard", "emptying", "open", "flock", "version", "checksum"}
Working == {"run", "making", "record", "claim", "unpacking", "reopened", "register"}
Busy == AtWork \cup {"swap"}

\* The target that p is at.
Task(p) == IF todo[p] = <<>> THEN "none" ELSE Head(todo[p])

\* The targets at which a process may be where it is.
Tasks(l, t) ==
  CASE l \in {"idle", "clean", "cleaning", "variants", "targets"} -> {"none"}
    [] l \in Opening -> IF t = "variants" THEN {"none"}
                        ELSE IF t = "run" THEN Target ELSE {"unarchive"}
    [] l = "run" -> Target
    [] l = "next" -> Target \cup {"none"}
    [] l = "making" -> Phase
    [] l = "record" -> {"archivefetch", "fetch", "build", "destroot"}
    [] l = "claim" -> {"archivefetch"}
    [] l = "register" -> {"install"}
    [] OTHER -> {"unarchive"}

\* Of the targets that rely on the one before them, one that then is recorded.
Later == {"unarchive", "build", "destroot", "install", "pkg"}
Before(t) == CASE t = "unarchive" -> {"archivefetch", "destroot"}
               [] t = "build" -> {"fetch"}
               [] t = "destroot" -> {"build"}
               [] OTHER -> {"destroot"}

Ordered(s) == \A i \in 2..Len(s) : s[i] \in Later => s[i - 1] \in Before(s[i])

Shape(p) ==
  /\ fd[p] # NoInode <=> pc[p] \in AtWork \cup {"flock"}
  /\ pc[p] \in AtWork => holder[fd[p]] = p
  /\ Task(p) \in Tasks(pc[p], then[p])
  /\ Ordered(todo[p])
  /\ pc[p] \in {"discard", "emptying", "version", "checksum"} => sees[p].fresh
  /\ pc[p] \notin {"idle", "clean", "cleaning"} => job[p].goal # "clean"
  /\ pc[p] \in Working => then[p] \in {"run", "reopened"}

-----------------------------------------------------------------------------
(* What a step leaves alone *)

\* A step of a process changes what it is doing and not what others do.
LEMMA OnlyOwn ==
  ASSUME TypeOK, NEW p \in Proc, NEW o \in Proc, o # p,
         Step(p) \/ Ends(p) \/ \E v \in Selection, goal \in Goal : Start(p, v, goal)
  PROVE  /\ pc'[o] = pc[o] /\ job'[o] = job[o] /\ fd'[o] = fd[o]
         /\ sees'[o] = sees[o] /\ then'[o] = then[o] /\ todo'[o] = todo[o]
  <1> USE DEF TypeOK, Goes, Finishes, Closes, Opens
  <1>1. CASE Check(p) \/ Unnames(p) \/ Empties(p)
    BY <1>1 DEF Check, Unnames, Empties
  <1>2. CASE OpenFile(p) \/ Flock(p) \/ WriteVersion(p) \/ WriteChecksum(p)
    BY <1>2 DEF OpenFile, Flock, WriteVersion, WriteChecksum
  <1>3. CASE check_variants(p) \/ eval_targets(p) \/ NextTarget(p)
    BY <1>3 DEF check_variants, eval_targets, NextTarget
  <1>4. CASE Skipped(p) \/ RecordTarget(p) \/ Fetch(p) \/ Made(p) \/ \E t \in Phase : Make(p, t)
    BY <1>4 DEF Skipped, RecordTarget, Fetch, Made, Make, Done
  <1>5. CASE ArchiveFetch(p) \/ Claim(p) \/ SkipsUnarchive(p) \/ Unpack(p) \/ Unpacked(p)
    BY <1>5 DEF ArchiveFetch, Claim, SkipsUnarchive, Unpack, Unpacked, Done
  <1>6. CASE unarchive_finish(p) \/ Reopened(p)
    BY <1>6 DEF unarchive_finish, Reopened, Done
  <1>7. CASE install_main(p) \/ Register(p) \/ pkg_main(p)
    BY <1>7 DEF install_main, Register, pkg_main, Done
  <1>8. CASE Ends(p)
    BY <1>8 DEF Ends
  <1>9. CASE \E v \in Selection, goal \in Goal : Start(p, v, goal)
    BY <1>9 DEF Start
  <1> QED BY <1>1, <1>2, <1>3, <1>4, <1>5, <1>6, <1>7, <1>8, <1>9 DEF Step

\* Nothing that excuses is forgotten.
LEMMA ExcusesStay ==
  ASSUME [Next]_vars
  PROVE  excuse \subseteq excuse'
  <1> USE DEF Excused
  <1>1. ASSUME NEW p \in Proc, Step(p) PROVE excuse \subseteq excuse'
    <2>1. CASE Check(p) \/ Unnames(p) \/ Empties(p)
      BY <2>1 DEF Check, Unnames, Empties
    <2>2. CASE OpenFile(p) \/ Flock(p) \/ WriteVersion(p) \/ WriteChecksum(p)
      BY <2>2 DEF OpenFile, Flock, WriteVersion, WriteChecksum
    <2>3. CASE check_variants(p) \/ eval_targets(p) \/ NextTarget(p)
      BY <2>3 DEF check_variants, eval_targets, NextTarget
    <2>4. CASE Skipped(p) \/ RecordTarget(p) \/ Fetch(p) \/ Made(p) \/ \E t \in Phase : Make(p, t)
      BY <2>4 DEF Skipped, RecordTarget, Fetch, Made, Make
    <2>5. CASE ArchiveFetch(p) \/ Claim(p) \/ SkipsUnarchive(p) \/ Unpack(p) \/ Unpacked(p)
      BY <2>5 DEF ArchiveFetch, Claim, SkipsUnarchive, Unpack, Unpacked
    <2>6. CASE unarchive_finish(p) \/ Reopened(p)
      BY <2>6 DEF unarchive_finish, Reopened
    <2>7. CASE install_main(p) \/ Register(p) \/ pkg_main(p)
      BY <2>7 DEF install_main, Register, pkg_main
    <2> QED BY <1>1, <2>1, <2>2, <2>3, <2>4, <2>5, <2>6, <2>7 DEF Step
  <1>2. ASSUME NEW p \in Proc, Ends(p) PROVE excuse \subseteq excuse'
    BY <1>2 DEF Ends
  <1>3. ASSUME NEW p \in Proc, NEW v \in Selection, NEW goal \in Goal, Start(p, v, goal)
        PROVE  excuse \subseteq excuse'
    BY <1>3 DEF Start
  <1>4. ASSUME NEW content \in Portfile, NEW newer \in BOOLEAN, Edit(content, newer)
        PROVE  excuse \subseteq excuse'
    BY <1>4 DEF Edit
  <1> QED BY <1>1, <1>2, <1>3, <1>4 DEF Next, vars

-----------------------------------------------------------------------------
(* Types *)

\* There is always another state file to make.
LEMMA FreeExists ==
  ASSUME TypeOK, NEW p \in Proc, fd[p] = NoInode
  PROVE  /\ FreeInode \in Inode /\ FreeInode # name
         /\ \A o \in Proc : fd[o] # FreeInode
  <1> DEFINE open == {fd[o] : o \in Proc \ {p}}
  <1>1. /\ IsFiniteSet(Proc \ {p}) /\ Cardinality(Proc \ {p}) = Cardinality(Proc) - 1
    BY FS_RemoveElement
  <1>2. IsFiniteSet(open) /\ Cardinality(open) <= Cardinality(Proc \ {p})
    <2> DEFINE f == [o \in Proc \ {p} |-> fd[o]]
    <2>1. f \in Surjection(Proc \ {p}, open)
      BY DEF Surjection
    <2> HIDE DEF f, open
    <2> QED BY <1>1, <2>1, FS_Surjection
  <1>3. IsFiniteSet(open \cup {name}) /\ Cardinality(open \cup {name}) <= Cardinality(open) + 1
    <2> HIDE DEF open
    <2>1. Cardinality(open) \in Nat
      BY <1>2, FS_CardinalityType
    <2>2. /\ IsFiniteSet(open \cup {name})
          /\ Cardinality(open \cup {name}) =
               IF name \in open THEN Cardinality(open) ELSE Cardinality(open) + 1
      BY <1>2, FS_AddElement
    <2> QED BY <2>1, <2>2
  <1>4. Cardinality(open \cup {name}) < Cardinality(Inode)
    BY <1>1, <1>2, <1>3, FS_CardinalityType
  <1>5. ~(Inode \subseteq open \cup {name})
    BY <1>3, <1>4, FS_Subset, FS_CardinalityType
  <1>6. \E i \in Inode : i # name /\ \A o \in Proc : fd[o] # i
    BY <1>5
  <1> QED BY <1>6 DEF FreeInode

\* What is written into a state file leaves the rest of it as it is.
LEMMA Written ==
  ASSUME NEW l \in Lines
  PROVE  /\ [l EXCEPT !.version = TRUE] \in Lines
         /\ \A sum \in Portfile \cup {Elsewhere, NoSum} : [l EXCEPT !.checksum = sum] \in Lines
         /\ \A v \in Selection : [l EXCEPT !.variants = v] \in Lines
         /\ \A T \in SUBSET Target : [l EXCEPT !.targets = T] \in Lines
         /\ \A T \in SUBSET Target : [l EXCEPT !.targets = T, !.claimed = TRUE] \in Lines
  BY DEF Lines

IInv == TypeOK /\ \A p \in Proc : Shape(p)

\* The parts of TypeOK.
ProcessTypes ==
  /\ pc \in [Proc -> Label] /\ then \in [Proc -> {"variants", "run", "reopened"}]
  /\ job \in [Proc -> [portfile : Portfile \cup {Elsewhere}, variants : Selection, goal : Goal]]
  /\ fd \in [Proc -> Inode \cup {NoInode}]
  /\ sees \in [Proc -> [sum : Portfile \cup {NoSum}, fresh : BOOLEAN]]
  /\ todo \in [Proc -> Seq(Target)]
  /\ holder \in [Inode -> Proc \cup {NoProc}]

DirectoryTypes ==
  /\ name \in Inode \cup {NoInode}
  /\ lines \in [Inode -> Lines] /\ older \in [Inode -> BOOLEAN]
  /\ made \in [Phase -> Tree] /\ plus \in Lines

ProductTypes ==
  /\ incoming \in [Selection -> Archive] /\ image \in [Selection -> Archive]
  /\ registered \subseteq Selection
  /\ package \in [tree : Tree, by : Portfile \cup {Elsewhere}, variants : Selection]

OtherTypes ==
  /\ portfile \in Portfile
  /\ excuse \subseteq {"shared", "leftover", "headless", "amid", "claimed", "mixed"}
  /\ starts \in 0..MaxStarts /\ edits \in 0..MaxEdits

\* What there is to begin with.
LEMMA NothingTypes ==
  /\ NoLines \in Lines /\ NoTree \in Tree /\ NoTrees \in [Phase -> Tree] /\ NoArchive \in Archive
  /\ NoJob \in [portfile : Portfile \cup {Elsewhere}, variants : Selection, goal : Goal]
  /\ NoSight \in [sum : Portfile \cup {NoSum}, fresh : BOOLEAN]
  /\ NoPackage \in [tree : Tree, by : Portfile \cup {Elsewhere}, variants : Selection]
  /\ \A v \in Selection, sum \in Portfile \cup {Elsewhere} : Fetched(v, sum) \in Archive
  BY DEF NoLines, Lines, NoTree, Tree, NoTrees, NoArchive, Archive, NoJob, Goal, NoSight,
     NoPackage,
         Fetched, Recipe, Target

\* Idle processes are typed.
LEMMA FinishedTypes ==
  ASSUME TypeOK, NEW p \in Proc, Finishes(p), UNCHANGED <<fd, holder>>
  PROVE  ProcessTypes'
  <1>1. /\ NoJob \in [portfile : Portfile \cup {Elsewhere}, variants : Selection, goal : Goal]
        /\ NoSight \in [sum : Portfile \cup {NoSum}, fresh : BOOLEAN]
    BY NothingTypes
  <1>2. <<>> \in Seq(Target)
    OBVIOUS
  <1> QED BY <1>1, <1>2 DEF Finishes, Goes, ProcessTypes, TypeOK, Label

\* What a process does next, and with which file.
LEMMA StepProcessTypes ==
  ASSUME IInv, NEW p \in Proc, Step(p)
  PROVE  ProcessTypes'
  <1> USE DEF IInv, TypeOK, ProcessTypes, Goes, Finishes, Closes, Opens, Label
  <1>0. Shape(p)
    OBVIOUS
  <1>1. CASE Check(p)
    BY <1>1 DEF Check
  <1>14. CASE Unnames(p)
    BY <1>14 DEF Unnames
  <1>2. CASE Empties(p)
    <2>1. CASE Finishes(p)
      <3> HIDE DEF Finishes
      <3> QED BY <1>2, <2>1, FinishedTypes DEF Empties
    <2>2. CASE pc[p] = "emptying" /\ Goes(p, "open") /\ UNCHANGED <<job, sees, then, todo>>
      BY <1>2, <2>2 DEF Empties
    <2> QED BY <1>2, <2>1, <2>2 DEF Empties
  <1>3. CASE OpenFile(p)
    <2>1. fd[p] = NoInode
      BY <1>0, <1>3 DEF Shape, OpenFile, AtWork
    <2>2. FreeInode \in Inode
      BY <2>1, FreeExists
    <2> QED BY <1>3, <2>2 DEF OpenFile
  <1>4. CASE Flock(p)
    BY <1>0, <1>4 DEF Flock, Shape
  <1>15. CASE WriteVersion(p)
    BY <1>15 DEF WriteVersion
  <1>16. CASE WriteChecksum(p)
    BY <1>16 DEF WriteChecksum
  <1>5. CASE check_variants(p)
    <2>1. /\ NoJob \in [portfile : Portfile \cup {Elsewhere}, variants : Selection, goal : Goal]
          /\ NoSight \in [sum : Portfile \cup {NoSum}, fresh : BOOLEAN]
          /\ <<>> \in Seq(Target)
      BY NothingTypes
    <2>2. fd[p] \in Inode
      BY <1>0, <1>5 DEF check_variants, Shape, AtWork
    <2>3. /\ holder' \in [Inode -> Proc \cup {NoProc}]
          /\ fd' \in [Proc -> Inode \cup {NoInode}]
      BY <1>5, <2>2 DEF check_variants
    <2>4. CASE Goes(p, "targets") /\ UNCHANGED <<job, sees, then, todo>>
      BY <2>3, <2>4
    <2>5. CASE Finishes(p)
      BY <2>1, <2>3, <2>5
    <2> QED BY <1>5, <2>4, <2>5 DEF check_variants
  <1>6. CASE eval_targets(p)
    <2>1. TargetsOf(job[p].goal) \in Seq(Target)
      <3>1. /\ <<"fetch", "build", "destroot">> \in Seq(Target)
            /\ <<"archivefetch", "fetch", "build", "destroot", "install">> \in Seq(Target)
            /\ <<"archivefetch", "unarchive", "fetch", "build", "destroot", "pkg">> \in Seq(Target)
        BY DEF Target
      <3>2. job[p].goal \in {"destroot", "install", "pkg"}
        BY <1>0, <1>6 DEF eval_targets, Shape, Goal
      <3> QED BY <3>1, <3>2 DEF TargetsOf
    <2> QED BY <1>6, <2>1 DEF eval_targets
  <1>7. CASE NextTarget(p)
    <2>1. CASE Finishes(p)
      <3> HIDE DEF Finishes
      <3> QED BY <1>7, <2>1, FinishedTypes DEF NextTarget
    <2>2. CASE todo[p] # <<>> /\ Opens(p, "run") /\ UNCHANGED <<job, sees, todo>>
      BY <1>7, <2>2 DEF NextTarget
    <2>3. CASE Goes(p, "clean") /\ UNCHANGED <<job, sees, then, todo>>
      BY <1>7, <2>3 DEF NextTarget
    <2> QED BY <1>7, <2>1, <2>2, <2>3 DEF NextTarget
  <1>8. ASSUME Done(p), pc[p] \in AtWork, Task(p) # "none",
               UNCHANGED <<job, sees, then>>
        PROVE  ProcessTypes'
    <2>1. todo[p] # <<>> /\ Tail(todo[p]) \in Seq(Target)
      BY <1>8 DEF Task
    <2>2. fd[p] \in Inode
      BY <1>0, <1>8 DEF Shape
    <2> QED BY <1>8, <2>1, <2>2 DEF Done
  <1>9. CASE Skipped(p) \/ SkipsUnarchive(p) \/ Reopened(p) \/ RecordTarget(p) \/ Register(p)
             \/ pkg_main(p)
    BY <1>0, <1>8, <1>9 DEF Skipped, SkipsUnarchive, Reopened, RecordTarget, Register, pkg_main,
       Due, Shape, Tasks, Target, AtWork, Opening
  <1>10. CASE Fetch(p) \/ Made(p) \/ \E t \in Phase : Make(p, t)
    BY <1>10 DEF Fetch, Made, Make
  <1>11. CASE ArchiveFetch(p) \/ Claim(p) \/ Unpack(p) \/ install_main(p)
    BY <1>11 DEF ArchiveFetch, Claim, Unpack, install_main
  <1>12. CASE Unpacked(p)
    BY <1>0, <1>12 DEF Unpacked, Shape, AtWork
  <1>13. CASE unarchive_finish(p)
    BY <1>13 DEF unarchive_finish
  <1> QED BY <1>1, <1>2, <1>3, <1>4, <1>5, <1>6, <1>7, <1>9, <1>10, <1>11, <1>12, <1>13, <1>14,
            <1>15, <1>16 DEF Step

\* What is in the work directory.
LEMMA StepDirectoryTypes ==
  ASSUME IInv, NEW p \in Proc, Step(p)
  PROVE  DirectoryTypes'
  <1> USE DEF IInv, TypeOK, DirectoryTypes
  <1>0. Shape(p)
    OBVIOUS
  <1>1. CASE UNCHANGED dir
    BY <1>1 DEF dir
  <1>2. CASE Unnames(p)
    BY <1>2 DEF Unnames
  <1>3. CASE Empties(p)
    BY <1>3, NothingTypes DEF Empties
  <1>4. CASE OpenFile(p)
    <2>1. fd[p] = NoInode
      BY <1>0, <1>4 DEF Shape, OpenFile, AtWork
    <2>2. FreeInode \in Inode
      BY <2>1, FreeExists
    <2>3. CASE UNCHANGED <<name, lines, older>>
      BY <1>4, <2>3 DEF OpenFile
    <2>4. CASE Named(FreeInode, NoLines)
      BY <1>4, <2>2, <2>4, NothingTypes DEF OpenFile, Named
    <2> QED BY <1>4, <2>3, <2>4 DEF OpenFile
  <1>5. ASSUME NEW i \in Inode, NEW l \in Lines, write_statefile(i, l), UNCHANGED <<name, made, plus>>
        PROVE  DirectoryTypes'
    BY <1>5 DEF write_statefile
  <1>6. ASSUME pc[p] \in AtWork PROVE fd[p] \in Inode /\ Recorded(p) \in Lines
    BY <1>0, <1>6 DEF Shape, Recorded
  <1>7. CASE WriteVersion(p)
    BY <1>5, <1>6, <1>7, Written DEF WriteVersion, AtWork
  <1>8. CASE WriteChecksum(p)
    <2>1. [Recorded(p) EXCEPT !.checksum = IF @ = NoSum THEN sees[p].sum ELSE @] \in Lines
      <3>1. Recorded(p) \in Lines
        BY <1>6, <1>8 DEF WriteChecksum, AtWork
      <3>2. (IF Recorded(p).checksum = NoSum THEN sees[p].sum ELSE Recorded(p).checksum)
              \in Portfile \cup {Elsewhere, NoSum}
        BY <3>1 DEF Lines
      <3> QED BY <3>1, <3>2, Written
    <2> QED BY <1>5, <1>6, <1>8, <2>1 DEF WriteChecksum, AtWork
  <1>9. CASE check_variants(p)
    <2>1. [Recorded(p) EXCEPT !.variants = job[p].variants] \in Lines
      BY <1>6, <1>9, Written DEF check_variants, AtWork
    <2> QED BY <1>5, <1>6, <1>9, <2>1 DEF check_variants, AtWork
  <1>10. CASE RecordTarget(p)
    <2>1. Head(todo[p]) \in Target
      BY <1>0, <1>10 DEF RecordTarget, Shape, Task, Tasks, Opening, Target
    <2>2. [Recorded(p) EXCEPT !.targets = @ \cup {Head(todo[p])}] \in Lines
      <3>1. Recorded(p) \in Lines
        BY <1>6, <1>10 DEF RecordTarget, AtWork
      <3>2. Recorded(p).targets \cup {Head(todo[p])} \in SUBSET Target
        BY <2>1, <3>1 DEF Lines
      <3> QED BY <3>1, <3>2, Written
    <2> QED BY <1>5, <1>6, <1>10, <2>2 DEF RecordTarget, AtWork
  <1>11. CASE Claim(p)
    <2>1. ASSUME NEW i \in DOMAIN Claimed
          PROVE [Recorded(p) EXCEPT !.targets = @ \cup {Claimed[i]}, !.claimed = TRUE] \in Lines
      <3>1. Claimed[i] \in Target
        <4>1. i \in 1..3
          BY DEF Claimed
        <4> QED BY <4>1 DEF Claimed, Target
      <3>2. Recorded(p) \in Lines
        BY <1>6, <1>11 DEF Claim, AtWork
      <3>3. Recorded(p).targets \cup {Claimed[i]} \in SUBSET Target
        BY <3>1, <3>2 DEF Lines
      <3> QED BY <3>2, <3>3, Written
    <2> QED BY <1>5, <1>6, <1>11, <2>1 DEF Claim, AtWork
  <1>12. ASSUME NEW t \in Phase, NEW tree \in Tree, made' = [made EXCEPT ![t] = tree],
                UNCHANGED <<name, lines, older>>, plus' \in Lines
         PROVE  DirectoryTypes'
    BY <1>12
  <1>13. RecipeOf(p) \in Recipe
    BY DEF RecipeOf, Recipe
  <1>14. ASSUME NEW t \in Phase, Make(p, t) PROVE DirectoryTypes'
    <2>1. [whole |-> FALSE, of |-> made[t].of \cup {RecipeOf(p)}
                                 \cup (IF t = "destroot" THEN made["build"].of ELSE {})] \in Tree
      BY <1>13 DEF Tree, Phase
    <2> QED BY <1>12, <1>14, <2>1 DEF Make
  <1>15. CASE Made(p)
    <2>1. Head(todo[p]) \in Phase
      BY <1>0, <1>15 DEF Made, Shape, Task, Tasks, Opening, Phase
    <2>2. [whole |-> made[Head(todo[p])] # NoTree /\ (Head(todo[p]) = "destroot" => made["build"].whole),
           of |-> made[Head(todo[p])].of \cup {RecipeOf(p)}] \in Tree
      BY <1>13, <2>1 DEF Tree
    <2> QED BY <1>12, <1>15, <2>1, <2>2 DEF Made
  <1>16. find_portarchive(p) \in Archive
    BY DEF find_portarchive
  <1>17. CASE Unpack(p)
    <2>1. [whole |-> FALSE, of |-> made["destroot"].of \cup find_portarchive(p).tree.of] \in Tree
      BY <1>16 DEF Tree, Phase, Archive
    <2> QED BY <1>12, <1>17, <2>1 DEF Unpack, Phase
  <1>18. CASE Unpacked(p)
    <2>1. [whole |-> made["destroot"].of # {} /\ find_portarchive(p).tree.whole,
           of |-> made["destroot"].of] \in Tree
      BY <1>16 DEF Tree, Phase, Archive
    <2>2. find_portarchive(p).state \in Lines
      BY <1>16 DEF Archive
    <2> QED BY <1>12, <1>18, <2>1, <2>2 DEF Unpacked, Phase
  <1>19. CASE unarchive_finish(p)
    <2>1. fd[p] = NoInode
      BY <1>0, <1>19 DEF Shape, unarchive_finish, AtWork
    <2>2. FreeInode \in Inode
      BY <2>1, FreeExists
    <2> QED BY <1>19, <2>2, NothingTypes DEF unarchive_finish, Named
  <1> QED BY <1>1, <1>2, <1>3, <1>4, <1>7, <1>8, <1>9, <1>10, <1>11, <1>14, <1>15, <1>17, <1>18, <1>19
    DEF Step, Check, Flock, eval_targets, NextTarget, Skipped, Fetch, ArchiveFetch,
       SkipsUnarchive,
        Reopened, install_main, Register, pkg_main

\* What is made of it.
LEMMA StepProductTypes ==
  ASSUME IInv, NEW p \in Proc, Step(p)
  PROVE  ProductTypes'
  <1> USE DEF IInv, TypeOK, ProductTypes
  <1>1. CASE UNCHANGED products
    BY <1>1 DEF products
  <1>2. CASE ArchiveFetch(p)
    <2>1. \A sum \in {portfile, Elsewhere} : Fetched(job[p].variants, sum) \in Archive
      BY NothingTypes
    <2>2. job[p].variants \in Selection
      OBVIOUS
    <2>3. incoming' \in [Selection -> Archive]
      BY <1>2, <2>1, <2>2 DEF ArchiveFetch
    <2> QED BY <1>2, <2>3 DEF ArchiveFetch
  <1>3. CASE install_main(p)
    <2>1. NoArchive \in Archive
      BY NothingTypes
    <2>2. ASSUME name # NoInode
          PROVE  [tree |-> made["destroot"], state |-> lines[name], by |-> job[p].portfile] \in Archive
      BY <2>2 DEF Archive, Phase
    <2>3. /\ incoming' \in [Selection -> Archive]
          /\ image' \in [Selection -> Archive]
      <3>1. CASE incoming[job[p].variants] # NoArchive
        <4>1. /\ image' = [image EXCEPT ![job[p].variants] = incoming[job[p].variants]]
              /\ incoming' = [incoming EXCEPT ![job[p].variants] = NoArchive]
          BY <1>3, <3>1 DEF install_main
        <4> QED BY <2>1, <4>1
      <3>2. CASE incoming[job[p].variants] = NoArchive
        <4>1. PICK a \in Archive : a = [tree |-> made["destroot"], state |-> lines[name],
                                       by |-> job[p].portfile]
          BY <1>3, <2>2, <3>2 DEF install_main
        <4>2. image' = [image EXCEPT ![job[p].variants] = a] /\ incoming' = incoming
          BY <1>3, <3>2, <4>1 DEF install_main
        <4> QED BY <4>1, <4>2
      <3> QED BY <3>1, <3>2
    <2> QED BY <1>3, <2>3 DEF install_main
  <1>4. CASE Register(p)
    BY <1>4 DEF Register
  <1>5. CASE pkg_main(p)
    BY <1>5 DEF pkg_main, Phase
  <1> QED BY <1>1, <1>2, <1>3, <1>4, <1>5
    DEF Step, Check, Unnames, Empties, OpenFile, Flock, WriteVersion, WriteChecksum,
       check_variants,
        eval_targets, NextTarget, Skipped, RecordTarget, Fetch, Make, Made, Claim, SkipsUnarchive,
        Unpack, Unpacked, unarchive_finish, Reopened

\* Every step keeps the types.
LEMMA TypesHold ==
  ASSUME IInv, [Next]_vars
  PROVE  TypeOK'
  <1> USE DEF IInv
  <1>1. ASSUME NEW p \in Proc, Step(p) PROVE TypeOK'
    <2>1. UNCHANGED <<portfile, bounds>>
      BY <1>1 DEF Step, Check, Unnames, Empties, OpenFile, Flock, WriteVersion, WriteChecksum,
         check_variants, eval_targets, NextTarget, Skipped, RecordTarget, Fetch, Make, Made,
         ArchiveFetch, Claim, SkipsUnarchive, Unpack, Unpacked, unarchive_finish, Reopened,
         install_main, Register, pkg_main
    <2>2. excuse' \subseteq {"shared", "leftover", "headless", "amid", "claimed", "mixed"}
      BY <1>1 DEF Step, Check, Unnames, Empties, OpenFile, Flock, WriteVersion, WriteChecksum,
         check_variants, eval_targets, NextTarget, Skipped, RecordTarget, Fetch, Make, Made,
         ArchiveFetch, Claim, SkipsUnarchive, Unpack, Unpacked, unarchive_finish, Reopened,
         install_main, Register, pkg_main, Excused, TypeOK
    <2>3. OtherTypes'
      BY <2>1, <2>2 DEF OtherTypes, TypeOK, bounds
    <2>4. ProcessTypes' /\ DirectoryTypes' /\ ProductTypes'
      BY <1>1, StepProcessTypes, StepDirectoryTypes, StepProductTypes
    <2> QED BY <2>3, <2>4 DEF TypeOK, ProcessTypes, DirectoryTypes,
                             ProductTypes, OtherTypes
  <1>2. ASSUME NEW p \in Proc, Ends(p) PROVE TypeOK'
    <2>1. /\ NoJob \in [portfile : Portfile \cup {Elsewhere}, variants : Selection, goal : Goal]
          /\ NoSight \in [sum : Portfile \cup {NoSum}, fresh : BOOLEAN]
          /\ <<>> \in Seq(Target)
      BY NothingTypes
    <2>2. ProcessTypes'
      BY <1>2, <2>1 DEF Ends, TypeOK, ProcessTypes, Finishes, Goes, Label
    <2>3. DirectoryTypes' /\ ProductTypes' /\ OtherTypes'
      BY <1>2 DEF Ends, TypeOK, DirectoryTypes, ProductTypes, OtherTypes, dir, products, bounds
    <2> QED BY <2>2, <2>3 DEF TypeOK, ProcessTypes, DirectoryTypes,
                             ProductTypes, OtherTypes
  <1>3. ASSUME NEW p \in Proc, NEW v \in Selection, NEW goal \in Goal, Start(p, v, goal)
        PROVE  TypeOK'
    <2>1. ProcessTypes'
      BY <1>3 DEF Start, TypeOK, ProcessTypes, Goes, Opens, Label
    <2>2. DirectoryTypes' /\ ProductTypes' /\ OtherTypes'
      BY <1>3 DEF Start, Excused, TypeOK, DirectoryTypes, ProductTypes, OtherTypes, dir, products
    <2> QED BY <2>1, <2>2 DEF TypeOK, ProcessTypes, DirectoryTypes,
                             ProductTypes, OtherTypes
  <1>4. ASSUME NEW content \in Portfile, NEW newer \in BOOLEAN, Edit(content, newer)
        PROVE  TypeOK'
    BY <1>4 DEF Edit, TypeOK, Excused, products
  <1>5. CASE UNCHANGED vars
    BY <1>5 DEF vars, TypeOK, dir, products, bounds
  <1> QED BY <1>1, <1>2, <1>3, <1>4, <1>5 DEF Next

-----------------------------------------------------------------------------
(* Where a process is *)

\* What is left of the targets is in order.
LEMMA OrderedTail ==
  ASSUME NEW s \in Seq(Target), s # <<>>, Ordered(s)
  PROVE  /\ Tail(s) \in Seq(Target) /\ Ordered(Tail(s))
         /\ Tail(s) # <<>> => /\ Head(Tail(s)) \in Target
                              /\ Head(Tail(s)) \in Later => Head(s) \in Before(Head(Tail(s)))
  <1>1. Tail(s) \in Seq(Target) /\ Len(Tail(s)) = Len(s) - 1 /\ Len(s) \in Nat \ {0}
    OBVIOUS
  <1>2. \A i \in 1..Len(Tail(s)) : Tail(s)[i] = s[i + 1]
    OBVIOUS
  <1>3. Ordered(Tail(s))
    <2> SUFFICES ASSUME NEW i \in 2..Len(Tail(s)), Tail(s)[i] \in Later
                 PROVE  Tail(s)[i - 1] \in Before(Tail(s)[i])
      BY DEF Ordered
    <2>1. i - 1 \in 1..Len(Tail(s)) /\ i \in 1..Len(Tail(s)) /\ i + 1 \in 2..Len(s)
      BY <1>1
    <2>2. Tail(s)[i] = s[i + 1] /\ Tail(s)[i - 1] = s[i]
      BY <1>1, <1>2, <2>1
    <2>3. s[i + 1] \in Later => s[i + 1 - 1] \in Before(s[i + 1])
      BY <2>1 DEF Ordered
    <2> QED BY <2>2, <2>3, <1>1
  <1>4. ASSUME Tail(s) # <<>>
        PROVE  /\ Head(Tail(s)) \in Target
               /\ Head(Tail(s)) \in Later => Head(s) \in Before(Head(Tail(s)))
    <2>1. Len(s) >= 2 /\ Head(Tail(s)) = s[2] /\ Head(s) = s[1] /\ s[2] \in Target
      BY <1>1, <1>2, <1>4
    <2>2. s[2] \in Later => s[2 - 1] \in Before(s[2])
      BY <1>1, <2>1 DEF Ordered
    <2> QED BY <2>1, <2>2
  <1> QED BY <1>1, <1>3, <1>4

\* Every goal's targets are in order, and none relies on what is not there.
LEMMA OrderedGoals ==
  ASSUME NEW goal \in Goal \ {"clean"}
  PROVE  /\ TargetsOf(goal) \in Seq(Target) /\ Ordered(TargetsOf(goal))
         /\ TargetsOf(goal) # <<>> /\ Head(TargetsOf(goal)) \in Target \ Later
  <1> DEFINE a == <<"fetch", "build", "destroot">>
             b == <<"archivefetch", "fetch", "build", "destroot", "install">>
             c == <<"archivefetch", "unarchive", "fetch", "build", "destroot", "pkg">>
  <1>1. a \in Seq(Target) /\ b \in Seq(Target) /\ c \in Seq(Target)
    BY DEF Target
  <1>2. Ordered(a)
    <2>1. \A i \in 2..3 : a[i] \in Later => a[i - 1] \in Before(a[i])
      <3> SUFFICES ASSUME NEW i \in 2..3 PROVE a[i] \in Later => a[i - 1] \in Before(a[i])
        OBVIOUS
      <3>1. i = 2 \/ i = 3
        OBVIOUS
      <3> QED BY <3>1 DEF Before, Later
    <2> QED BY <2>1 DEF Ordered
  <1>3. Ordered(b)
    <2>1. \A i \in 2..5 : b[i] \in Later => b[i - 1] \in Before(b[i])
      <3> SUFFICES ASSUME NEW i \in 2..5 PROVE b[i] \in Later => b[i - 1] \in Before(b[i])
        OBVIOUS
      <3>1. i = 2 \/ i = 3 \/ i = 4 \/ i = 5
        OBVIOUS
      <3> QED BY <3>1 DEF Before, Later
    <2> QED BY <2>1 DEF Ordered
  <1>4. Ordered(c)
    <2>1. \A i \in 2..6 : c[i] \in Later => c[i - 1] \in Before(c[i])
      <3> SUFFICES ASSUME NEW i \in 2..6 PROVE c[i] \in Later => c[i - 1] \in Before(c[i])
        OBVIOUS
      <3>1. i = 2 \/ i = 3 \/ i = 4 \/ i = 5 \/ i = 6
        OBVIOUS
      <3> QED BY <3>1 DEF Before, Later
    <2> QED BY <2>1 DEF Ordered
  <1>5. /\ a # <<>> /\ Head(a) \in Target \ Later
        /\ b # <<>> /\ Head(b) \in Target \ Later
        /\ c # <<>> /\ Head(c) \in Target \ Later
    BY DEF Target, Later
  <1>6. TargetsOf(goal) = a \/ TargetsOf(goal) = b \/ TargetsOf(goal) = c
    BY DEF Goal, TargetsOf
  <1> HIDE DEF a, b, c
  <1> QED BY <1>1, <1>2, <1>3, <1>4, <1>5, <1>6

\* The next target, if there is one, relies on the one that is done.
LEMMA NextTask ==
  ASSUME TypeOK, NEW p \in Proc, Task(p) # "none", Ordered(todo[p]), todo'[p] = Tail(todo[p])
  PROVE  /\ Ordered(todo'[p])
         /\ Task(p)' \in Target \cup {"none"}
         /\ Task(p)' \in Later => Task(p) \in Before(Task(p)')
  <1>1. todo[p] \in Seq(Target) /\ todo[p] # <<>> /\ Task(p) = Head(todo[p])
    BY DEF Task, TypeOK
  <1>2. Task(p)' = IF Tail(todo[p]) = <<>> THEN "none" ELSE Head(Tail(todo[p]))
    BY DEF Task
  <1>3. "none" \notin Later
    BY DEF Later
  <1> QED BY <1>1, <1>2, <1>3, OrderedTail

\* Nobody loses a lock through the step of another.
LEMMA LocksKept ==
  ASSUME IInv, NEW p \in Proc, NEW o \in Proc, o # p, pc[o] \in AtWork,
         Step(p) \/ Ends(p) \/ \E v \in Selection, goal \in Goal : Start(p, v, goal)
  PROVE  holder'[fd[o]] = o
  <1> USE DEF IInv, TypeOK
  <1>0. /\ holder[fd[o]] = o /\ fd[o] \in Inode /\ o # NoProc
        /\ pc[p] \in AtWork => fd[p] \in Inode /\ holder[fd[p]] = p
        /\ pc[p] = "flock" => fd[p] \in Inode
    BY DEF Shape
  <1>1. CASE UNCHANGED holder
    BY <1>0, <1>1
  <1>2. CASE Flock(p)
    BY <1>0, <1>2 DEF Flock
  <1>3. CASE pc[p] \in AtWork /\ Closes(p)
    BY <1>0, <1>3 DEF Closes
  <1>4. CASE Ends(p)
    BY <1>0, <1>4 DEF Ends
  <1> QED BY <1>1, <1>2, <1>3, <1>4
    DEF Step, Check, Unnames, Empties, OpenFile, WriteVersion, WriteChecksum,
         check_variants, eval_targets, NextTarget, Skipped, RecordTarget, Fetch, Make, Made,
         ArchiveFetch, Claim, SkipsUnarchive, Unpack, Unpacked, unarchive_finish, Reopened,
         install_main, Register, pkg_main, Due, Done, AtWork, Start

\* The step of one process leaves the others where they may be.
LEMMA OthersShape ==
  ASSUME IInv, NEW p \in Proc, NEW o \in Proc, o # p,
         Step(p) \/ Ends(p) \/ \E v \in Selection, goal \in Goal : Start(p, v, goal)
  PROVE  Shape(o)'
  <1>1. /\ pc'[o] = pc[o] /\ job'[o] = job[o] /\ fd'[o] = fd[o]
        /\ sees'[o] = sees[o] /\ then'[o] = then[o] /\ todo'[o] = todo[o]
    BY OnlyOwn DEF IInv
  <1>2. pc[o] \in AtWork => holder'[fd[o]] = o
    BY LocksKept
  <1> QED BY <1>1, <1>2 DEF Shape, Task, IInv

\* A process gets to where its target and its lock allow it to be.
LEMMA StepShape ==
  ASSUME IInv, NEW p \in Proc, Step(p)
  PROVE  Shape(p)'
  <1> USE DEF IInv, TypeOK, Goes, Opens
  <1>0. Shape(p) /\ <<>> \in Seq(Target) /\ Ordered(<<>>)
    BY DEF Ordered
  <1>1. CASE Check(p)
    BY <1>0, <1>1 DEF Check, Shape, AtWork, Working, Task, Tasks, Opening
  <1>2. CASE Unnames(p)
    BY <1>0, <1>2 DEF Unnames, Shape, AtWork, Working, Task, Tasks, Opening
  <1>3. ASSUME Finishes(p), fd'[p] = NoInode PROVE Shape(p)'
    BY <1>0, <1>3 DEF Finishes, Shape, AtWork, Working, Task, Tasks, Opening
  <1>4. CASE Empties(p)
    <2>1. CASE Finishes(p)
      BY <1>0, <1>3, <1>4, <2>1 DEF Empties, Shape, AtWork
    <2>2. CASE pc[p] = "emptying" /\ Goes(p, "open") /\ UNCHANGED <<job, sees, then, todo>>
      BY <1>0, <1>4, <2>2 DEF Empties, Shape, AtWork, Working, Task, Tasks, Opening
    <2> QED BY <1>4, <2>1, <2>2 DEF Empties
  <1>5. CASE OpenFile(p)
    <2>1. fd[p] = NoInode
      BY <1>0, <1>5 DEF Shape, OpenFile, AtWork
    <2>2. fd'[p] \in Inode
      BY <1>5, <2>1, FreeExists DEF OpenFile
    <2> QED BY <1>0, <1>5, <2>2 DEF OpenFile, Shape, AtWork, Working, Task, Tasks, Opening
  <1>6. CASE Flock(p)
    BY <1>0, <1>6 DEF Flock, Shape, AtWork, Working, Task, Tasks, Opening
  <1>7. CASE WriteVersion(p) \/ WriteChecksum(p)
    BY <1>0, <1>7 DEF WriteVersion, WriteChecksum, Shape, AtWork, Working, Task, Tasks, Opening
  <1>8. CASE check_variants(p)
    <2>1. fd'[p] = NoInode
      BY <1>8 DEF check_variants, Closes
    <2>2. CASE Finishes(p)
      BY <1>3, <2>1, <2>2
    <2>3. CASE Goes(p, "targets") /\ UNCHANGED <<job, sees, then, todo>>
      BY <1>0, <1>8, <2>1, <2>3 DEF check_variants, Shape, AtWork, Working, Task, Tasks, Opening
    <2> QED BY <1>8, <2>2, <2>3 DEF check_variants
  <1>9. CASE eval_targets(p)
    <2>1. job[p].goal \in Goal \ {"clean"}
      BY <1>0, <1>9 DEF eval_targets, Shape
    <2>2. Ordered(todo'[p]) /\ Task(p)' \in Target \cup {"none"}
      BY <1>0, <1>9, <2>1, OrderedGoals DEF eval_targets, Task
    <2> QED BY <1>0, <1>9, <2>2 DEF eval_targets, Shape, AtWork, Working, Tasks, Opening
  <1>10. CASE NextTarget(p)
    <2>1. CASE Finishes(p)
      BY <1>0, <1>3, <1>10, <2>1 DEF NextTarget, Shape, AtWork
    <2>2. CASE todo[p] # <<>> /\ Opens(p, "run") /\ UNCHANGED <<job, sees, todo>>
      BY <1>0, <1>10, <2>2 DEF NextTarget, Shape, AtWork, Working, Task, Tasks, Opening
    <2>3. CASE todo[p] = <<>> /\ Goes(p, "clean") /\ UNCHANGED <<job, sees, then, todo>>
      BY <1>0, <1>10, <2>3 DEF NextTarget, Shape, AtWork, Working, Task, Tasks, Opening
    <2> QED BY <1>10, <2>1, <2>2, <2>3 DEF NextTarget
  <1>11. ASSUME Done(p), pc[p] \in AtWork, Task(p) # "none", UNCHANGED <<job, sees, then>>,
                pc[p] \in Working
         PROVE  Shape(p)'
    <2>1. todo'[p] = Tail(todo[p]) /\ pc'[p] = "next" /\ fd'[p] = NoInode
      BY <1>11 DEF Done, Closes
    <2>2. Ordered(todo'[p]) /\ Task(p)' \in Target \cup {"none"}
      BY <1>0, <1>11, <2>1, NextTask DEF Shape
    <2> QED BY <1>0, <1>11, <2>1, <2>2 DEF Shape, AtWork, Working, Tasks, Opening
  <1>12. CASE Skipped(p) \/ SkipsUnarchive(p) \/ Reopened(p) \/ RecordTarget(p) \/ Register(p)
             \/ pkg_main(p)
    BY <1>0, <1>11, <1>12 DEF Skipped, SkipsUnarchive, Reopened, RecordTarget, Register, pkg_main,
       Due, Shape, Tasks, Target, AtWork, Opening, Working
  <1>13. CASE Fetch(p)
    BY <1>0, <1>13 DEF Fetch, Due, Shape, AtWork, Working, Task, Tasks, Opening, Target
  <1>14. ASSUME NEW t \in Phase, Make(p, t) PROVE Shape(p)'
    BY <1>0, <1>14 DEF Make, Due, Shape, AtWork, Working, Task, Tasks, Opening, Target
  <1>15. CASE Made(p)
    BY <1>0, <1>15 DEF Made, Shape, AtWork, Working, Task, Tasks, Opening, Phase
  <1>16. CASE ArchiveFetch(p)
    BY <1>0, <1>16 DEF ArchiveFetch, Due, Shape, AtWork, Working, Task, Tasks, Opening, Target
  <1>17. CASE Claim(p)
    <2>1. /\ pc[p] = "claim" /\ (Goes(p, "record") \/ pc' = pc)
          /\ UNCHANGED <<holder, job, fd, sees, then, todo>>
      BY <1>17 DEF Claim
    <2> QED BY <1>0, <2>1 DEF Shape, AtWork, Working, Task, Tasks, Opening
  <1>18. CASE Unpack(p)
    BY <1>0, <1>18 DEF Unpack, Due, Shape, AtWork, Working, Task, Tasks, Opening, Target
  <1>19. CASE Unpacked(p)
    BY <1>0, <1>19 DEF Unpacked, Closes, Shape, AtWork, Working, Task, Tasks, Opening
  <1>20. CASE unarchive_finish(p)
    BY <1>0, <1>20 DEF unarchive_finish, Shape, AtWork, Working, Task, Tasks, Opening
  <1>21. CASE install_main(p)
    BY <1>0, <1>21 DEF install_main, Due, Shape, AtWork, Working, Task, Tasks, Opening, Target
  <1> QED BY <1>1, <1>2, <1>4, <1>5, <1>6, <1>7, <1>8, <1>9, <1>10, <1>12, <1>13, <1>14, <1>15,
             <1>16, <1>17, <1>18, <1>19, <1>20, <1>21
          DEF Step

\* The types, and where each process is, stay.
LEMMA IInvHolds ==
  ASSUME IInv, [Next]_vars
  PROVE  IInv'
  <1>1. TypeOK'
    BY TypesHold
  <1>2. ASSUME NEW p \in Proc, NEW q \in Proc, Step(q) PROVE Shape(p)'
    BY <1>2, StepShape, OthersShape
  <1>3. ASSUME NEW p \in Proc, NEW q \in Proc, Ends(q) PROVE Shape(p)'
    <2>1. CASE p # q
      BY <1>3, <2>1, OthersShape
    <2>2. CASE p = q
      BY <1>3, <2>2 DEF IInv, TypeOK, Ends, Finishes, Goes, Shape, AtWork, Working, Task, Tasks,
         Opening, Ordered
    <2> QED BY <2>1, <2>2
  <1>4. ASSUME NEW p \in Proc, NEW q \in Proc, NEW v \in Selection, NEW goal \in Goal,
               Start(q, v, goal)
        PROVE  Shape(p)'
    <2>1. CASE p # q
      BY <1>4, <2>1, OthersShape
    <2>2. CASE p = q
      <3>1. Shape(p)
        BY DEF IInv
      <3> QED BY <1>4, <2>2, <3>1 DEF IInv, TypeOK, Start, Goes, Opens, Shape, AtWork, Working,
         Task, Tasks,
         Opening, Ordered
    <2> QED BY <2>1, <2>2
  <1>5. ASSUME UNCHANGED <<holder, pc, job, fd, sees, then, todo>>, NEW p \in Proc
        PROVE  Shape(p)'
    BY <1>5 DEF IInv, Shape, Task
  <1> QED BY <1>1, <1>2, <1>3, <1>4, <1>5 DEF Next, vars, Edit, IInv

-----------------------------------------------------------------------------
(* One process at a time *)

\* As long as nothing was shared: the state file that somebody has open is the
\* one with the name, one process is at work, and nobody is active beside a
\* process that removes the directory.
Alone ==
  "shared" \notin excuse =>
    /\ \A p \in Proc : fd[p] \in {name, NoInode}
    /\ \A p, q \in Proc : pc[p] \in Busy /\ pc[q] \in Busy => p = q
    /\ \A p, q \in Proc : pc[p] \in {"emptying", "cleaning"} /\ p # q => pc[q] = "idle"

\* What the invariant says of a process at work.
LEMMA AtWorkOnName ==
  ASSUME IInv, Alone, "shared" \notin excuse, NEW p \in Proc, pc[p] \in AtWork
  PROVE  /\ name # NoInode /\ fd[p] = name /\ Recorded(p) = lines[name] /\ holder[name] = p
         /\ \A q \in Proc \ {p} : pc[q] \notin Busy
  BY DEF IInv, Shape, Alone, Busy, Recorded

\* Whoever replaces the state file, while nothing is shared, is alone.
LEMMA StepAlone ==
  ASSUME IInv, Alone, NEW p \in Proc, Step(p)
  PROVE  Alone'
  <1> SUFFICES ASSUME "shared" \notin excuse'
               PROVE  Alone'
    BY DEF Alone
  <1> USE DEF IInv, TypeOK
  <1>0. "shared" \notin excuse /\ Shape(p) /\ Shape(p)'
    BY ExcusesStay, IInvHolds DEF Next
  <1>1. \A o \in Proc \ {p} : pc'[o] = pc[o] /\ fd'[o] = fd[o]
    BY OnlyOwn
  <1>2. \A o, q \in Proc :
          /\ fd[o] \in {name, NoInode}
          /\ pc[o] \in Busy /\ pc[q] \in Busy => o = q
          /\ pc[o] \in {"emptying", "cleaning"} /\ o # q => pc[q] = "idle"
    BY <1>0 DEF Alone
  <1>3. ASSUME pc'[p] \in Busy => pc[p] \in Busy, pc'[p] \notin {"emptying", "cleaning"},
               pc[p] # "idle", pc[p] \notin {"emptying", "cleaning"},
               fd'[p] \in {name, NoInode}, name' = name
        PROVE  Alone'
    <2>1. \A o \in Proc : fd'[o] \in {name', NoInode}
      BY <1>1, <1>2, <1>3
    <2>2. \A o, q \in Proc : pc'[o] \in Busy /\ pc'[q] \in Busy => o = q
      BY <1>1, <1>2, <1>3
    <2>3. \A o, q \in Proc : pc'[o] \in {"emptying", "cleaning"} /\ o # q => pc'[q] = "idle"
      BY <1>1, <1>2, <1>3
    <2> QED BY <2>1, <2>2, <2>3 DEF Alone
  <1>4. CASE Check(p) \/ check_variants(p) \/ eval_targets(p) \/ NextTarget(p)
    <2>1. CASE Check(p)
      BY <1>0, <1>2, <1>3, <2>1 DEF Check, Goes, Busy, AtWork, dir
    <2>2. CASE check_variants(p)
      <3>1. pc[p] = "variants" /\ pc'[p] \in {"targets", "idle"} /\ fd'[p] = NoInode /\ name' = name
        BY <2>2 DEF check_variants, Goes, Finishes, Closes
      <3> QED BY <1>3, <3>1 DEF Busy, AtWork
    <2>3. CASE eval_targets(p)
      BY <1>0, <1>2, <1>3, <2>3 DEF eval_targets, Goes, Busy, AtWork, dir
    <2>4. CASE NextTarget(p)
      <3>1. pc[p] = "next" /\ pc'[p] \in {"check", "idle", "clean"} /\ fd' = fd /\ name' = name
        BY <2>4 DEF NextTarget, Goes, Opens, Finishes, dir
      <3> QED BY <1>2, <1>3, <3>1 DEF Busy, AtWork
    <2> QED BY <1>4, <2>1, <2>2, <2>3, <2>4
  <1>5. CASE WriteVersion(p) \/ WriteChecksum(p)
    BY <1>0, <1>2, <1>3, <1>5 DEF WriteVersion, WriteChecksum, Goes, Busy, AtWork
  <1>6. CASE Skipped(p) \/ SkipsUnarchive(p) \/ Reopened(p) \/ RecordTarget(p) \/ Register(p)
             \/ pkg_main(p)
    BY <1>0, <1>2, <1>3, <1>6 DEF Skipped, SkipsUnarchive, Reopened, RecordTarget, Register,
       pkg_main,
       Due, Done, Closes, Goes, Busy, AtWork, dir
  <1>7. CASE Fetch(p) \/ Made(p) \/ \E t \in Phase : Make(p, t)
    BY <1>0, <1>2, <1>3, <1>7 DEF Fetch, Made, Make, Due, Goes, Busy, AtWork, dir
  <1>8. CASE ArchiveFetch(p) \/ Claim(p) \/ Unpack(p) \/ Unpacked(p) \/ install_main(p)
    BY <1>0, <1>2, <1>3, <1>8 DEF ArchiveFetch, Claim, Unpack, Unpacked, install_main, Due,
       Closes, Goes,
       Busy, AtWork, dir
  <1>9. ASSUME \A o \in Proc \ {p} : pc[o] = "idle",
               fd[p] = NoInode, fd'[p] = NoInode
        PROVE  Alone'
    <2>1. \A o \in Proc \ {p} : fd[o] = NoInode
      BY <1>9 DEF Shape, AtWork
    <2>2. \A o \in Proc : fd'[o] \in {name', NoInode}
      BY <1>1, <1>9, <2>1
    <2>3. \A o, q \in Proc : pc'[o] \in Busy /\ pc'[q] \in Busy => o = q
      BY <1>1, <1>9 DEF Busy, AtWork
    <2>4. \A o, q \in Proc : pc'[o] \in {"emptying", "cleaning"} /\ o # q => pc'[q] = "idle"
      BY <1>1, <1>9
    <2> QED BY <2>2, <2>3, <2>4 DEF Alone
  <1>10. CASE Unnames(p)
    BY <1>0, <1>9, <1>10 DEF Unnames, Excused, Others, Active, Shape, AtWork
  <1>11. CASE Empties(p)
    BY <1>0, <1>9, <1>11 DEF Empties, Others, Active, Shape, AtWork
  <1>12. CASE unarchive_finish(p)
    BY <1>0, <1>9, <1>12 DEF unarchive_finish, Excused, Others, Active, Shape, AtWork
  <1>13. CASE OpenFile(p)
    <2>1. CASE name # NoInode
      BY <1>2, <1>3, <1>13, <2>1 DEF OpenFile, Goes, Busy, AtWork
    <2>2. CASE name = NoInode
      <3>1. fd'[p] = name' /\ pc'[p] = "flock" /\ pc[p] = "open"
        BY <1>13, <2>2 DEF OpenFile, Named, Goes
      <3>2. \A o \in Proc : fd[o] = NoInode
        BY <1>2, <2>2
      <3>3. \A o \in Proc : fd'[o] \in {name', NoInode}
        BY <1>1, <3>1, <3>2
      <3>4. \A o, q \in Proc : pc'[o] \in Busy /\ pc'[q] \in Busy => o = q
        BY <1>1, <1>2, <3>1 DEF Busy, AtWork
      <3>5. \A o, q \in Proc : pc'[o] \in {"emptying", "cleaning"} /\ o # q => pc'[q] = "idle"
        BY <1>1, <1>2, <3>1
      <3> QED BY <3>3, <3>4, <3>5 DEF Alone
    <2> QED BY <2>1, <2>2
  <1>14. CASE Flock(p)
    <2>1. /\ fd[p] = name /\ fd'[p] = name /\ name' = name /\ name # NoInode
          /\ holder[name] = NoProc /\ pc[p] = "flock"
          /\ pc'[p] \notin {"emptying", "cleaning"}
      BY <1>0, <1>2, <1>14 DEF Flock, Shape, dir, Goes
    <2>2. \A o \in Proc : pc[o] # "swap"
      BY <1>0, <1>14 DEF Flock
    <2>3. \A o \in Proc : pc[o] \notin AtWork
      BY <1>2, <2>1 DEF Shape
    <2>4. \A o \in Proc : fd'[o] \in {name', NoInode}
      BY <1>1, <1>2, <2>1
    <2>5. \A o, q \in Proc : pc'[o] \in Busy /\ pc'[q] \in Busy => o = q
      BY <1>1, <2>2, <2>3 DEF Busy
    <2>6. \A o, q \in Proc : pc'[o] \in {"emptying", "cleaning"} /\ o # q => pc'[q] = "idle"
      BY <1>1, <1>2, <2>1
    <2> QED BY <2>4, <2>5, <2>6 DEF Alone
  <1> QED BY <1>4, <1>5, <1>6, <1>7, <1>8, <1>10, <1>11, <1>12, <1>13, <1>14 DEF Step

\* Nobody joins a process at work, unless the excuse says so.
LEMMA AloneHolds ==
  ASSUME IInv, Alone, [Next]_vars
  PROVE  Alone'
  <1> SUFFICES ASSUME "shared" \notin excuse'
               PROVE  Alone'
    BY DEF Alone
  <1> USE DEF IInv, TypeOK
  <1>0. "shared" \notin excuse
    BY ExcusesStay
  <1>1. \A o, q \in Proc :
          /\ fd[o] \in {name, NoInode}
          /\ pc[o] \in Busy /\ pc[q] \in Busy => o = q
          /\ pc[o] \in {"emptying", "cleaning"} /\ o # q => pc[q] = "idle"
    BY <1>0 DEF Alone
  <1>2. ASSUME NEW p \in Proc, Step(p) PROVE Alone'
    BY <1>2, StepAlone
  <1>3. ASSUME NEW p \in Proc, Ends(p) PROVE Alone'
    <2>1. name' = name /\ fd'[p] = NoInode /\ pc'[p] = "idle"
      BY <1>3 DEF Ends, Finishes, Goes, dir
    <2>2. \A o \in Proc \ {p} : pc'[o] = pc[o] /\ fd'[o] = fd[o]
      BY <1>3, OnlyOwn
    <2> QED BY <1>1, <2>1, <2>2 DEF Alone, Busy, AtWork
  <1>4. ASSUME NEW p \in Proc, NEW v \in Selection, NEW goal \in Goal, Start(p, v, goal)
        PROVE  Alone'
    <2>1. /\ name' = name /\ fd' = fd /\ pc'[p] \in {"clean", "check"}
          /\ \A o \in Proc : pc[o] \notin {"emptying", "cleaning"}
      BY <1>0, <1>4 DEF Start, Goes, Opens, dir, Excused
    <2>2. \A o \in Proc \ {p} : pc'[o] = pc[o]
      BY <1>4, OnlyOwn
    <2> QED BY <1>1, <2>1, <2>2 DEF Alone, Busy, AtWork
  <1>5. ASSUME UNCHANGED <<name, pc, fd>> PROVE Alone'
    BY <1>1, <1>5 DEF Alone
  <1> QED BY <1>2, <1>3, <1>4, <1>5 DEF Next, vars, dir, Edit

\* Nobody is at work to begin with.
LEMMA InitHolds == Init => IInv /\ Alone
  <1> SUFFICES ASSUME Init PROVE IInv /\ Alone
    OBVIOUS
  <1>1. TypeOK
    BY NothingTypes DEF Init, TypeOK, Label
  <1>2. \A p \in Proc : Shape(p)
    BY DEF Init, Shape, AtWork, Working, Task, Tasks, Opening, Ordered
  <1>3. Alone
    BY DEF Init, Alone, Busy, AtWork
  <1> QED BY <1>1, <1>2, <1>3 DEF IInv

\* And never two at once.
LEMMA AlwaysAlone == Spec => [](IInv /\ Alone)
  <1> QED BY InitHolds, IInvHolds, AloneHolds, PTL DEF Spec

\* State files, trees and archives have their parts, whoever has written them.
THEOREM BuildStateTypeOK == Spec => []TypeOK
  <1>1. IInv => TypeOK
    BY DEF IInv
  <1> QED BY <1>1, AlwaysAlone, PTL

\* Two processes are never at work in the directory at once, unless one of them
\* has replaced the state file.
THEOREM BuildStateAtWorkAlone == Spec => []AtWorkAlone
  <1>1. Alone => AtWorkAlone
    BY DEF Alone, AtWorkAlone, Busy, Because
  <1> QED BY <1>1, AlwaysAlone, PTL

-----------------------------------------------------------------------------
(* What is recorded is there *)

L == lines[name]
Calm == ~Because({"shared", "amid"})

TreesFilled == \A t \in Phase : made[t].whole => made[t].of # {}

\* What a target relies on is recorded.
Progressed(p) ==
  Task(p) \in Later /\ pc[p] # "emptying" =>
    name # NoInode /\ Before(Task(p)) \cap L.targets # {}

Built ==
  name # NoInode /\ "build" \in L.targets =>
    made["build"].whole \/ L.claimed \/ "destroot" \in L.targets

Staged ==
  name # NoInode /\ "destroot" \in L.targets => made["destroot"].whole \/ L.claimed

\* What is there while a process makes it.
Underway(p) ==
  /\ pc[p] = "record" /\ Task(p) \in Phase => made[Task(p)].whole \/ L.claimed
  /\ pc[p] = "making" => made[Task(p)].of # {} /\ Task(p) \notin L.targets
  /\ pc[p] = "unpacking" => made["destroot"].of # {} /\ ~made["destroot"].whole
  /\ pc[p] = "swap" => "destroot" \in plus.targets /\ (made["destroot"].whole \/ plus.claimed)

\* An archive has what was staged, whole if its state file says so.
Full(a) ==
  a # NoArchive =>
    a.tree.of # {} /\ "destroot" \in a.state.targets /\ (a.tree.whole \/ a.state.claimed)

Kept == \A v \in Selection : Full(incoming[v]) /\ Full(image[v])

There ==
  /\ TreesFilled
  /\ Calm => Built /\ Staged /\ Kept /\ \A p \in Proc : Progressed(p) /\ Underway(p)

\* Without targets there is no task.
LEMMA NoTask ==
  ASSUME NEW p \in Proc, Shape(p),
         \/ pc[p] \in {"idle", "clean", "cleaning", "variants", "targets"}
         \/ pc[p] \in Opening /\ then[p] = "variants"
  PROVE  Task(p) = "none"
  BY DEF Shape, Tasks, Opening

\* What happens is no excuse for what was before.
LEMMA CalmBefore ==
  ASSUME [Next]_vars, Calm'
  PROVE  Calm /\ "shared" \notin excuse /\ "shared" \notin excuse' /\ "amid" \notin excuse'
  BY ExcusesStay DEF Calm, Because

\* Where a process does no more than look, or lies, the directory stays as it is.
LEMMA OnlyLooks ==
  ASSUME NEW p \in Proc,
         \/ Check(p) \/ Flock(p) \/ eval_targets(p) \/ NextTarget(p) \/ Skipped(p) \/ Fetch(p)
         \/ SkipsUnarchive(p) \/ Reopened(p) \/ Ends(p)
         \/ \E v \in Selection, goal \in Goal : Start(p, v, goal)
  PROVE  UNCHANGED <<name, lines, made, plus, incoming, image, registered, package, portfile>>
  <1> USE DEF dir, products
  <1>1. CASE Check(p) \/ Flock(p) \/ eval_targets(p) \/ NextTarget(p) \/ Skipped(p)
    BY <1>1 DEF Check, Flock, eval_targets, NextTarget, Skipped
  <1>2. CASE Fetch(p) \/ SkipsUnarchive(p) \/ Reopened(p) \/ Ends(p)
    BY <1>2 DEF Fetch, SkipsUnarchive, Reopened, Ends
  <1>3. CASE \E v \in Selection, goal \in Goal : Start(p, v, goal)
    BY <1>3 DEF Start
  <1> QED BY <1>1, <1>2, <1>3

\* Whoever is not at work, and not alone, leaves the directory to the others.
LEMMA IdleHands ==
  ASSUME IInv, NEW p \in Proc, Step(p), "shared" \notin excuse',
         Others(p), pc[p] \notin Busy
  PROVE  /\ UNCHANGED <<made, plus, incoming, image, registered, package>>
         /\ name # NoInode => name' = name /\ lines'[name] = lines[name]
  <1> USE DEF IInv, TypeOK, products
  <1>1. CASE Check(p) \/ Flock(p) \/ eval_targets(p) \/ NextTarget(p) \/ Skipped(p) \/ Fetch(p)
             \/ SkipsUnarchive(p) \/ Reopened(p)
    BY <1>1, OnlyLooks
  <1>2. CASE Unnames(p) \/ Empties(p) \/ unarchive_finish(p)
    BY <1>2 DEF Unnames, Empties, unarchive_finish, Excused
  <1>3. CASE OpenFile(p)
    BY <1>3 DEF OpenFile, Named
  <1>4. CASE WriteVersion(p) \/ WriteChecksum(p) \/ check_variants(p) \/ RecordTarget(p) \/ Made(p)
             \/ Claim(p) \/ Unpacked(p) \/ Register(p)
    BY <1>4 DEF Busy, AtWork, WriteVersion, WriteChecksum, check_variants, RecordTarget, Made,
       Claim,
       Unpacked, Register
  <1>5. CASE (\E t \in Phase : Make(p, t)) \/ ArchiveFetch(p) \/ Unpack(p) \/ install_main(p)
             \/ pkg_main(p)
    BY <1>5 DEF Busy, AtWork, Make, ArchiveFetch, Unpack, install_main, pkg_main, Due
  <1> QED BY <1>1, <1>2, <1>3, <1>4, <1>5 DEF Step

\* What is recorded stays recorded, as long as somebody else looks.
LEMMA RecordsGrow ==
  ASSUME IInv, Alone, NEW p \in Proc, Step(p), "shared" \notin excuse', Others(p),
         name # NoInode
  PROVE  /\ name' = name
         /\ L.targets \subseteq lines'[name].targets
         /\ L.claimed => lines'[name].claimed
  <1> USE DEF IInv, TypeOK
  <1>0. "shared" \notin excuse
    BY ExcusesStay DEF Next
  <1>1. CASE pc[p] \notin Busy
    BY <1>1, IdleHands DEF L
  <1>2. CASE pc[p] = "swap"
    <2>1. unarchive_finish(p)
      BY <1>2 DEF Step, Check, Unnames, Empties, OpenFile, Flock, WriteVersion, WriteChecksum,
         check_variants, eval_targets, NextTarget, Skipped, RecordTarget, Fetch, Make, Made,
         ArchiveFetch, Claim, SkipsUnarchive, Unpack, Unpacked, Reopened, install_main, Register,
         pkg_main, Due
    <2> QED BY <2>1 DEF unarchive_finish, Excused
  <1>3. CASE pc[p] \in AtWork
    <2>1. fd[p] = name /\ Recorded(p) = lines[name] /\ lines[name] \in Lines
      BY <1>0, <1>3, AtWorkOnName
    <2>2. CASE Skipped(p) \/ Fetch(p) \/ SkipsUnarchive(p) \/ Reopened(p)
      BY <2>2, OnlyLooks DEF L
    <2>3. CASE WriteVersion(p) \/ WriteChecksum(p) \/ check_variants(p)
      <3>1. CASE WriteVersion(p)
        BY <2>1, <3>1 DEF L, Lines, WriteVersion, write_statefile
      <3>2. CASE WriteChecksum(p)
        BY <2>1, <3>2 DEF L, Lines, WriteChecksum, write_statefile
      <3>3. CASE check_variants(p)
        <4>1. CASE UNCHANGED lines
          BY <3>3, <4>1 DEF L, check_variants
        <4>2. CASE lines' = [lines EXCEPT ![name] =
                     [lines[name] EXCEPT !.variants = job[p].variants]]
          BY <2>1, <3>3, <4>2 DEF L, Lines, check_variants
        <4> QED BY <2>1, <3>3, <4>1, <4>2 DEF check_variants, write_statefile
      <3> QED BY <2>3, <3>1, <3>2, <3>3
    <2>4. CASE RecordTarget(p)
      BY <2>1, <2>4 DEF L, Lines, RecordTarget, write_statefile
    <2>5. CASE Claim(p)
      <3>1. name' = name
        BY <2>5 DEF Claim
      <3>2. CASE UNCHANGED lines
        BY <3>2, <3>1 DEF L
      <3>3. CASE ~UNCHANGED lines
        <4>1. PICK i \in DOMAIN Claimed :
                lines' = [lines EXCEPT ![name] =
                  [lines[name] EXCEPT !.targets = @ \cup {Claimed[i]}, !.claimed = TRUE]]
          BY <2>1, <2>5, <3>3 DEF Claim, write_statefile
        <4> QED BY <2>1, <3>1, <4>1 DEF L, Lines
      <3> QED BY <3>2, <3>3
    <2>6. CASE Made(p) \/ Unpack(p) \/ Unpacked(p) \/ \E t \in Phase : Make(p, t)
      BY <2>6 DEF L, Made, Unpack, Unpacked, Make
    <2>7. CASE ArchiveFetch(p) \/ install_main(p) \/ Register(p) \/ pkg_main(p)
      BY <2>7 DEF L, dir, ArchiveFetch, install_main, Register, pkg_main
    <2>8. CASE Check(p) \/ Unnames(p) \/ Empties(p) \/ OpenFile(p) \/ Flock(p) \/ eval_targets(p)
               \/ NextTarget(p) \/ unarchive_finish(p)
      BY <1>3, <2>8 DEF AtWork, Check, Unnames, Empties, OpenFile, Flock, eval_targets,
         NextTarget,
         unarchive_finish
    <2> QED BY <2>2, <2>3, <2>4, <2>5, <2>6, <2>7, <2>8 DEF Step
  <1> QED BY <1>1, <1>2, <1>3 DEF Busy

\* What others are about is not disturbed.
LEMMA OthersThere ==
  ASSUME IInv, Alone, There, Calm, NEW p \in Proc, NEW o \in Proc, o # p,
         "shared" \notin excuse',
         \/ Step(p) \/ Ends(p) \/ \E v \in Selection, goal \in Goal : Start(p, v, goal)
  PROVE  Progressed(o)' /\ Underway(o)'
  <1> USE DEF IInv, TypeOK
  <1>0. /\ pc'[o] = pc[o] /\ todo'[o] = todo[o] /\ Task(o)' = Task(o)
        /\ Progressed(o) /\ Underway(o) /\ Shape(o) /\ "shared" \notin excuse
    BY OnlyOwn DEF There, Task, Calm, Because
  <1>1. CASE ~Step(p)
    <2>1. UNCHANGED <<name, lines, made, plus>>
      BY <1>1, OnlyLooks
    <2> QED BY <1>0, <2>1 DEF Progressed, Underway, L
  <1>2. CASE Step(p) /\ pc[o] = "idle"
    BY <1>0, <1>2, NoTask DEF Progressed, Underway, Later
  <1>3. CASE Step(p) /\ pc[o] # "idle"
    <2>1. Others(p)
      BY <1>3 DEF Others, Active
    <2>2. Progressed(o)'
      <3> SUFFICES ASSUME Task(o) \in Later, pc[o] # "emptying"
                   PROVE  name' # NoInode /\ Before(Task(o)) \cap L'.targets # {}
        BY <1>0 DEF Progressed
      <3>1. name # NoInode /\ Before(Task(o)) \cap L.targets # {}
        BY <1>0 DEF Progressed
      <3>2. name' = name /\ L.targets \subseteq lines'[name].targets
        BY <1>3, <2>1, <3>1, RecordsGrow
      <3> QED BY <3>1, <3>2 DEF L
    <2>3. CASE pc[o] \notin Busy
      BY <1>0, <2>2, <2>3 DEF Underway, Busy, AtWork
    <2>4. CASE pc[o] \in Busy
      <3>1. pc[p] \notin Busy
        BY <1>0, <2>4 DEF Alone
      <3>2. made' = made /\ plus' = plus
            /\ (name # NoInode => name' = name /\ lines'[name] = lines[name])
        BY <1>3, <2>1, <3>1, IdleHands
      <3>3. CASE pc[o] = "swap"
        <4>1. "destroot" \in plus.targets /\ (made["destroot"].whole \/ plus.claimed)
          BY <1>0, <3>3 DEF Underway
        <4>2. pc'[o] = "swap"
          BY <1>0, <3>3
        <4> HIDE DEF TypeOK, IInv
        <4>3. Underway(o)'
          BY <3>2, <4>1, <4>2 DEF Underway
        <4> QED BY <2>2, <4>3
      <3>4. CASE pc[o] \in AtWork
        <4>1. name # NoInode
          BY <1>0, <3>4, AtWorkOnName
        <4>2. L' = L
          BY <3>2, <4>1 DEF L
        <4> QED BY <1>0, <2>2, <3>2, <4>2 DEF Underway
      <3> QED BY <2>4, <3>3, <3>4 DEF Busy
    <2> QED BY <2>2, <2>3, <2>4
  <1> QED BY <1>1, <1>2, <1>3

\* Trees are filled before they are whole.
LEMMA StepTreesFilled ==
  ASSUME IInv, TreesFilled, [Next]_vars
  PROVE  TreesFilled'
  <1> USE DEF IInv, TypeOK, TreesFilled
  <1>1. CASE UNCHANGED made
    BY <1>1
  <1>2. ASSUME NEW p \in Proc, Empties(p) PROVE TreesFilled'
    BY <1>2 DEF Empties, NoTrees, NoTree
  <1>3. ASSUME NEW p \in Proc, NEW t \in Phase, Make(p, t) PROVE TreesFilled'
    BY <1>3 DEF Make
  <1>4. ASSUME NEW p \in Proc, Made(p) PROVE TreesFilled'
    BY <1>4 DEF Made
  <1>5. ASSUME NEW p \in Proc, Unpack(p) \/ Unpacked(p) PROVE TreesFilled'
    <2>1. CASE Unpack(p)
      BY <2>1 DEF Unpack
    <2>2. CASE Unpacked(p)
      BY <2>2 DEF Unpacked
    <2> QED BY <1>5, <2>1, <2>2
  <1>6. ASSUME NEW p \in Proc, Step(p) PROVE TreesFilled'
    <2>1. CASE \/ Check(p) \/ Flock(p) \/ eval_targets(p) \/ NextTarget(p) \/ Skipped(p)
               \/ Fetch(p) \/ SkipsUnarchive(p) \/ Reopened(p)
      BY <1>1, <2>1, OnlyLooks
    <2>2. CASE \/ Unnames(p) \/ OpenFile(p) \/ WriteVersion(p) \/ WriteChecksum(p)
               \/ check_variants(p) \/ RecordTarget(p) \/ Claim(p) \/ unarchive_finish(p)
      BY <1>1, <2>2 DEF Unnames, OpenFile, WriteVersion, WriteChecksum, check_variants,
         RecordTarget,
         Claim, unarchive_finish
    <2>3. CASE ArchiveFetch(p) \/ install_main(p) \/ Register(p) \/ pkg_main(p)
      BY <1>1, <2>3 DEF ArchiveFetch, install_main, Register, pkg_main, dir
    <2> QED BY <1>6, <1>2, <1>3, <1>4, <1>5, <2>1, <2>2, <2>3 DEF Step
  <1>7. ASSUME NEW p \in Proc, Ends(p) \/ \E v \in Selection, goal \in Goal : Start(p, v, goal)
        PROVE  TreesFilled'
    BY <1>1, <1>7, OnlyLooks
  <1>8. ASSUME NEW content \in Portfile, NEW newer \in BOOLEAN, Edit(content, newer)
        PROVE  TreesFilled'
    BY <1>1, <1>8 DEF Edit
  <1>9. CASE UNCHANGED vars
    BY <1>1, <1>9 DEF vars, dir
  <1> HIDE DEF TypeOK, TreesFilled, IInv
  <1> QED BY <1>6, <1>7, <1>8, <1>9 DEF Next

\* What is written about a version, a checksum or variants leaves the targets as
\* they are.
LEMMA LabelsOnly ==
  ASSUME IInv, Alone, "shared" \notin excuse, NEW p \in Proc,
         WriteVersion(p) \/ WriteChecksum(p) \/ check_variants(p)
  PROVE  /\ name # NoInode /\ name' = name
         /\ L'.targets = L.targets /\ L'.claimed = L.claimed
         /\ UNCHANGED <<made, plus, incoming, image, registered, package, portfile>>
  <1> USE DEF IInv, TypeOK
  <1>1. pc[p] \in AtWork
    BY DEF WriteVersion, WriteChecksum, check_variants, AtWork
  <1>2. name # NoInode /\ fd[p] = name /\ Recorded(p) = lines[name] /\ lines[name] \in Lines
    BY <1>1, AtWorkOnName
  <1>3. CASE WriteVersion(p)
    BY <1>2, <1>3 DEF L, Lines, WriteVersion, write_statefile, products
  <1>4. CASE WriteChecksum(p)
    BY <1>2, <1>4 DEF L, Lines, WriteChecksum, write_statefile, products
  <1>5. CASE check_variants(p)
    <2>1. name' = name /\ UNCHANGED <<made, plus, incoming, image, registered, package, portfile>>
      BY <1>5 DEF check_variants, products
    <2>2. CASE UNCHANGED lines
      BY <1>2, <2>1, <2>2 DEF L
    <2>3. CASE lines' = [lines EXCEPT ![name] = [lines[name] EXCEPT !.variants = job[p].variants]]
      BY <1>2, <2>1, <2>3 DEF L, Lines
    <2> QED BY <1>2, <1>5, <2>2, <2>3 DEF check_variants, write_statefile
  <1> QED BY <1>3, <1>4, <1>5

\* What recording a target does.
LEMMA TargetRecorded ==
  ASSUME IInv, Alone, "shared" \notin excuse, NEW p \in Proc, RecordTarget(p)
  PROVE  /\ name # NoInode /\ name' = name /\ Task(p) = Head(todo[p])
         /\ L'.targets = L.targets \cup {Task(p)} /\ L'.claimed = L.claimed
         /\ L'.version = L.version /\ L'.checksum = L.checksum /\ L'.variants = L.variants
         /\ UNCHANGED <<made, plus, incoming, image, registered, package, portfile>>
  <1> USE DEF IInv, TypeOK
  <1>1. name # NoInode /\ fd[p] = name /\ Recorded(p) = lines[name] /\ lines[name] \in Lines
    BY AtWorkOnName DEF RecordTarget, AtWork
  <1>2. name' = name /\ UNCHANGED <<made, plus, incoming, image, registered, package, portfile>>
    BY DEF RecordTarget, products
  <1>3. Task(p) # "none" /\ Task(p) = Head(todo[p])
    BY DEF RecordTarget, Shape, Task, Tasks, Opening
  <1>4. lines' = [lines EXCEPT ![name] = [lines[name] EXCEPT !.targets = @ \cup {Task(p)}]]
    BY <1>1, <1>3 DEF RecordTarget, write_statefile
  <1> QED BY <1>1, <1>2, <1>3, <1>4 DEF L, Lines

\* What claiming a target does.
LEMMA TargetClaimed ==
  ASSUME IInv, Alone, "shared" \notin excuse, NEW p \in Proc, Claim(p)
  PROVE  /\ name # NoInode /\ name' = name
         /\ UNCHANGED <<made, plus, incoming, image, registered, package, portfile, todo>>
         /\ \/ L' = L /\ pc'[p] = "record"
            \/ /\ pc'[p] = pc[p] /\ L'.claimed
               /\ \E t \in {"fetch", "build", "destroot"} :
                    t \notin L.targets /\ L'.targets = L.targets \cup {t}
               /\ L'.version = L.version /\ L'.checksum = L.checksum /\ L'.variants = L.variants
  <1> USE DEF IInv, TypeOK
  <1>1. name # NoInode /\ fd[p] = name /\ Recorded(p) = lines[name] /\ lines[name] \in Lines
    BY AtWorkOnName DEF Claim, AtWork
  <1>2. name' = name
        /\ UNCHANGED <<made, plus, incoming, image, registered, package, portfile, todo>>
    BY DEF Claim, products
  <1>3. CASE UNCHANGED lines /\ Goes(p, "record")
    BY <1>1, <1>2, <1>3 DEF L, Goes
  <1>4. CASE ~(UNCHANGED lines /\ Goes(p, "record"))
    <2>1. PICK i \in DOMAIN Claimed :
            /\ Claimed[i] \notin lines[name].targets
            /\ lines' = [lines EXCEPT ![name] =
                  [lines[name] EXCEPT !.targets = @ \cup {Claimed[i]}, !.claimed = TRUE]]
      BY <1>1, <1>4 DEF Claim, write_statefile
    <2>2. Claimed[i] \in {"fetch", "build", "destroot"}
      BY DEF Claimed
    <2>3. pc' = pc
      BY <1>4 DEF Claim
    <2>4. /\ L'.claimed /\ L'.targets = L.targets \cup {Claimed[i]}
          /\ L'.version = L.version /\ L'.checksum = L.checksum /\ L'.variants = L.variants
      BY <1>1, <1>2, <2>1 DEF L, Lines
    <2> QED BY <1>1, <1>2, <2>1, <2>2, <2>3, <2>4 DEF L
  <1> QED BY <1>3, <1>4

\* What is recorded as built or staged is there behind every step.
LEMMA StepRecords ==
  ASSUME IInv, Alone, There, Calm, NEW p \in Proc, Step(p)
  PROVE  Built' /\ Staged'
  <1> USE DEF IInv, TypeOK
  <1>0. /\ Built /\ Staged /\ Underway(p) /\ Shape(p) /\ Kept /\ TreesFilled
        /\ "shared" \notin excuse
    BY DEF There, Calm, Because
  <1>1. CASE UNCHANGED <<name, lines, made>>
    BY <1>0, <1>1 DEF Built, Staged, L
  <1>2. CASE Check(p) \/ Flock(p) \/ eval_targets(p) \/ NextTarget(p) \/ Skipped(p)
             \/ Fetch(p) \/ SkipsUnarchive(p) \/ Reopened(p)
    BY <1>1, <1>2, OnlyLooks
  <1>3. CASE ArchiveFetch(p) \/ install_main(p) \/ Register(p) \/ pkg_main(p)
    BY <1>1, <1>3 DEF ArchiveFetch, install_main, Register, pkg_main, dir
  <1>4. CASE Unnames(p) \/ Empties(p)
    BY <1>4 DEF Unnames, Empties, Built, Staged
  <1>5. CASE OpenFile(p)
    <2>1. CASE name # NoInode
      BY <1>1, <1>5, <2>1 DEF OpenFile
    <2>2. CASE name = NoInode
      <3>1. fd[p] = NoInode
        BY <1>0, <1>5 DEF OpenFile, Shape, AtWork
      <3>2. lines' = [lines EXCEPT ![FreeInode] = NoLines] /\ name' = FreeInode /\ FreeInode \in Inode
        BY <1>5, <2>2, <3>1, FreeExists DEF OpenFile, Named
      <3>3. L' = NoLines
        BY <3>2 DEF L
      <3> QED BY <3>3 DEF Built, Staged, NoLines
    <2> QED BY <2>1, <2>2
  <1>6. CASE WriteVersion(p) \/ WriteChecksum(p) \/ check_variants(p)
    BY <1>0, <1>6, LabelsOnly DEF Built, Staged
  <1>7. CASE RecordTarget(p)
    <2>1. pc[p] = "record"
      BY <1>7 DEF RecordTarget
    <2> HIDE DEF TypeOK
    <2> QED BY <1>0, <1>7, <2>1, TargetRecorded DEF Built, Staged, Underway, Phase
  <1>8. CASE Claim(p)
    BY <1>0, <1>8, TargetClaimed DEF Built, Staged
  <1>9. ASSUME NEW t \in Phase, Make(p, t) PROVE Built' /\ Staged'
    <2>1. t \notin L.targets /\ name' = name /\ L' = L
      BY <1>0, <1>9, AtWorkOnName DEF Make, Due, L, AtWork
    <2>2. \A s \in Phase \ {t} : made'[s] = made[s]
      BY <1>9 DEF Make
    <2> QED BY <1>0, <2>1, <2>2 DEF Built, Staged, Phase
  <1>10. CASE Made(p)
    <2>1. Task(p) \in Phase /\ Task(p) = Head(todo[p]) /\ Task(p) \notin L.targets
      BY <1>0, <1>10 DEF Made, Underway, Shape, Tasks, Opening, Task, Phase
    <2>2. name' = name /\ L' = L /\ \A s \in Phase \ {Task(p)} : made'[s] = made[s]
      BY <1>10, <2>1 DEF Made, L
    <2> QED BY <1>0, <2>1, <2>2 DEF Built, Staged, Phase
  <1>11. CASE Unpack(p)
    <2>1. /\ name # NoInode /\ Recorded(p) = L /\ name' = name /\ L' = L
          /\ made'["build"] = made["build"]
      BY <1>0, <1>11, AtWorkOnName DEF Unpack, Due, AtWork, L, Phase
    <2>2. "destroot" \in L.targets => L.claimed
      BY <1>0, <1>11, <2>1 DEF Unpack, Destrooted, Staged, NoTree
    <2> QED BY <1>0, <2>1, <2>2 DEF Built, Staged
  <1>12. CASE Unpacked(p)
    <2>1. name' = name /\ L' = L /\ made'["build"] = made["build"]
      BY <1>12 DEF Unpacked, L, Phase
    <2>2. name # NoInode /\ "destroot" \in L.targets => L.claimed
      BY <1>0, <1>12 DEF Unpacked, Staged, Underway
    <2> QED BY <1>0, <2>1, <2>2 DEF Built, Staged
  <1>13. CASE unarchive_finish(p)
    <2>1. fd[p] = NoInode
      BY <1>0, <1>13 DEF unarchive_finish, Shape, AtWork
    <2>2. /\ lines' = [lines EXCEPT ![FreeInode] = plus] /\ name' = FreeInode /\ FreeInode \in Inode
          /\ made' = made
      BY <1>13, <2>1, FreeExists DEF unarchive_finish, Named
    <2>3. L' = plus
      BY <2>2 DEF L
    <2>4. "destroot" \in plus.targets /\ (made["destroot"].whole \/ plus.claimed)
      BY <1>0, <1>13 DEF unarchive_finish, Underway
    <2> QED BY <2>2, <2>3, <2>4 DEF Built, Staged
  <1> QED BY <1>2, <1>3, <1>4, <1>5, <1>6, <1>7, <1>8, <1>9, <1>10, <1>11, <1>12, <1>13 DEF Step

\* A step keeps what a process relies on recorded.
LEMMA StepProgressed ==
  ASSUME IInv, Alone, There, Calm, NEW p \in Proc, Step(p), Calm'
  PROVE  Progressed(p)'
  <1> USE DEF IInv
  <1>0. /\ Progressed(p) /\ Underway(p) /\ Shape(p) /\ Shape(p)'
        /\ "shared" \notin excuse /\ "shared" \notin excuse' /\ "amid" \notin excuse'
    BY StepShape DEF There, Calm, Because
  <1>1. ASSUME Task(p)' \in Later => Task(p)' = Task(p) /\ pc[p] # "emptying",
               name # NoInode => name' = name /\ L.targets \subseteq L'.targets
        PROVE  Progressed(p)'
    BY <1>0, <1>1 DEF Progressed
  <1>2. ASSUME todo'[p] = Tail(todo[p]), name' = name, L.targets \subseteq L'.targets,
               name # NoInode, Task(p) # "none",
               Task(p) \in L'.targets \/ Task(p) \in {"unarchive", "install", "pkg"}
        PROVE  Progressed(p)'
    <2>1. Task(p)' \in Later => Task(p) \in Before(Task(p)')
      BY <1>0, <1>2, NextTask DEF Shape
    <2>2. Task(p)' \in Later => Task(p) \in L'.targets
      BY <1>2, <2>1 DEF Before, Later
    <2> QED BY <1>2, <2>1, <2>2 DEF Progressed
  <1>3. CASE Check(p) \/ Flock(p) \/ NextTarget(p) \/ Fetch(p)
    <2>1. pc[p] # "emptying" /\ (todo'[p] = todo[p] \/ todo'[p] = <<>>)
      <3>1. CASE Check(p) \/ Flock(p) \/ Fetch(p)
        BY <3>1 DEF Check, Flock, Fetch, Due
      <3>2. CASE NextTarget(p)
        BY <3>2 DEF NextTarget, Finishes, TypeOK
      <3> QED BY <1>3, <3>1, <3>2
    <2> QED BY <1>1, <1>3, <2>1, OnlyLooks DEF Task, L, Later
  <1>4. CASE eval_targets(p)
    <2>1. Task(p)' \notin Later
      <3>1. /\ todo'[p] = <<>> \/ todo'[p] = TargetsOf(job[p].goal)
            /\ job[p].goal \in Goal \ {"clean"}
        BY <1>0, <1>4 DEF eval_targets, TypeOK, Shape
      <3>2. CASE todo'[p] = <<>>
        BY <3>2 DEF Task, Later
      <3>3. CASE todo'[p] = TargetsOf(job[p].goal)
        BY <3>1, <3>3, OrderedGoals DEF Task
      <3> QED BY <3>1, <3>2, <3>3
    <2> QED BY <1>1, <1>4, <2>1, OnlyLooks DEF L
  <1>5. CASE Skipped(p) \/ SkipsUnarchive(p) \/ Reopened(p)
    <2>1. pc[p] \in AtWork /\ todo'[p] = Tail(todo[p])
      BY <1>5 DEF Skipped, SkipsUnarchive, Reopened, Due, Done, AtWork, TypeOK
    <2>2. name # NoInode /\ Recorded(p) = L
      BY <1>0, <2>1, AtWorkOnName DEF L
    <2>3. Task(p) # "none" /\ Task(p) = Head(todo[p])
          /\ (Task(p) \in L.targets \/ Task(p) = "unarchive")
      BY <1>0, <1>5, <2>2 DEF Skipped, SkipsUnarchive, Reopened, Due, Shape, Tasks, Task, Target,
         Opening
    <2> QED BY <1>2, <1>5, <2>1, <2>2, <2>3, OnlyLooks DEF L
  <1>6. CASE RecordTarget(p)
    <2>1. todo'[p] = Tail(todo[p]) /\ Task(p) # "none"
      BY <1>0, <1>6 DEF RecordTarget, Done, TypeOK, Shape, Tasks, Opening
    <2> QED BY <1>0, <1>2, <1>6, <2>1, TargetRecorded
  <1>7. CASE Register(p) \/ pkg_main(p)
    <2>1. pc[p] \in AtWork /\ todo'[p] = Tail(todo[p]) /\ name' = name /\ L' = L
      BY <1>7 DEF Register, pkg_main, Due, Done, AtWork, TypeOK, dir, L
    <2>2. name # NoInode
      BY <1>0, <2>1, AtWorkOnName
    <2>3. Task(p) \in {"install", "pkg"}
      BY <1>0, <1>7 DEF Register, pkg_main, Due, Shape, Tasks, Task, Opening, Target
    <2> QED BY <1>2, <2>1, <2>2, <2>3
  <1>8. CASE Unnames(p)
    <2>1. pc'[p] = "emptying" \/ Task(p) = "none"
      BY <1>0, <1>8, NoTask DEF Unnames, Goes, TypeOK
    <2>2. Task(p)' = Task(p)
      BY <1>8 DEF Unnames, Task
    <2> QED BY <2>1, <2>2 DEF Progressed, Later
  <1>9. CASE Empties(p)
    <2>1. Task(p)' = "none"
      <3>1. CASE pc[p] = "cleaning"
        BY <1>9, <3>1 DEF Empties, Finishes, TypeOK, Task
      <3>2. CASE pc[p] = "emptying"
        <4>1. then[p] = "variants" /\ todo'[p] = todo[p]
          BY <1>0, <1>9, <3>2 DEF Empties
        <4> QED BY <1>0, <3>2, <4>1, NoTask DEF Task, Opening
      <3> QED BY <1>9, <3>1, <3>2 DEF Empties
    <2> QED BY <2>1 DEF Progressed, Later
  <1>10. CASE OpenFile(p)
    <2>1. Task(p)' = Task(p) /\ pc[p] = "open"
      BY <1>10 DEF OpenFile, Task
    <2>2. name # NoInode => name' = name /\ L' = L
      BY <1>10 DEF OpenFile, L
    <2> QED BY <1>1, <2>1, <2>2
  <1>11. CASE WriteVersion(p) \/ WriteChecksum(p) \/ check_variants(p)
    <2>1. pc[p] # "emptying" /\ (todo'[p] = todo[p] \/ todo'[p] = <<>>)
      <3>1. CASE WriteVersion(p) \/ WriteChecksum(p)
        BY <3>1 DEF WriteVersion, WriteChecksum
      <3>2. CASE check_variants(p)
        BY <3>2 DEF check_variants, Finishes, TypeOK
      <3> QED BY <1>11, <3>1, <3>2
    <2> QED BY <1>0, <1>1, <1>11, <2>1, LabelsOnly DEF Task, Later
  <1>12. CASE Claim(p)
    <2>1. pc[p] # "emptying"
      BY <1>12 DEF Claim
    <2> QED BY <1>0, <1>1, <1>12, <2>1, TargetClaimed DEF Task
  <1>13. CASE (\E t \in Phase : Make(p, t)) \/ Made(p) \/ Unpack(p) \/ Unpacked(p)
    <2>1. todo' = todo /\ name' = name /\ L' = L /\ pc[p] # "emptying"
      BY <1>13 DEF Make, Made, Unpack, Unpacked, Due, L
    <2> QED BY <1>1, <2>1 DEF Task
  <1>14. CASE ArchiveFetch(p) \/ install_main(p)
    <2>1. todo' = todo /\ name' = name /\ L' = L /\ pc[p] # "emptying"
      BY <1>14 DEF ArchiveFetch, install_main, Due, L, dir
    <2> QED BY <1>1, <2>1 DEF Task
  <1>15. CASE unarchive_finish(p)
    <2>1. fd[p] = NoInode /\ Task(p) = "unarchive" /\ "destroot" \in plus.targets
      BY <1>0, <1>15 DEF unarchive_finish, Shape, AtWork, Tasks, Opening, Underway
    <2>2. /\ lines' = [lines EXCEPT ![FreeInode] = plus] /\ name' = FreeInode /\ FreeInode \in Inode
          /\ todo' = todo
      BY <1>15, <2>1, FreeExists DEF unarchive_finish, Named
    <2>3. L' = plus /\ name' # NoInode /\ Task(p)' = "unarchive"
      BY <2>1, <2>2 DEF L, TypeOK, Task
    <2> QED BY <2>1, <2>3 DEF Progressed, Before
  <1> QED BY <1>3, <1>4, <1>5, <1>6, <1>7, <1>8, <1>9, <1>10, <1>11, <1>12, <1>13, <1>14,
  <1>15 DEF Step

\* The archive that a process finds is as good as all are.
LEMMA FoundFull ==
  ASSUME TypeOK, Kept, NEW p \in Proc
  PROVE  find_portarchive(p) \in Archive /\ Full(find_portarchive(p))
  BY DEF TypeOK, Kept, find_portarchive

\* What a process is making is there behind every step of its own.
LEMMA StepUnderway ==
  ASSUME IInv, Alone, There, Calm, NEW p \in Proc, Step(p)
  PROVE  Underway(p)'
  <1> USE DEF IInv
  <1>0. /\ Progressed(p) /\ Underway(p) /\ Shape(p) /\ Shape(p)' /\ Built /\ Kept /\ TreesFilled
        /\ "shared" \notin excuse
    BY StepShape DEF There, Calm, Because
  <1>1. ASSUME pc'[p] \notin {"making", "unpacking", "swap"},
               pc'[p] = "record" => Task(p)' \notin Phase
        PROVE  Underway(p)'
    BY <1>1 DEF Underway
  <1>2. CASE Check(p) \/ Unnames(p) \/ Empties(p) \/ OpenFile(p)
    <2>1. pc'[p] \notin {"making", "unpacking", "swap", "record"}
      BY <1>2 DEF Check, Unnames, Empties, OpenFile, Goes, Finishes, TypeOK
    <2> QED BY <1>1, <2>1
  <1>3. CASE Flock(p)
    <2>1. pc'[p] \notin {"making", "unpacking", "swap", "record"}
      BY <1>3 DEF Flock, Goes, TypeOK
    <2> QED BY <1>1, <2>1
  <1>4. CASE WriteVersion(p) \/ WriteChecksum(p)
    <2>1. pc'[p] \notin {"making", "unpacking", "swap", "record"}
      BY <1>4 DEF WriteVersion, WriteChecksum, Goes, TypeOK
    <2> QED BY <1>1, <2>1
  <1>5. CASE check_variants(p) \/ eval_targets(p) \/ NextTarget(p)
    <2>1. pc'[p] \notin {"making", "unpacking", "swap", "record"}
      <3>1. CASE check_variants(p)
        BY <3>1 DEF check_variants, Goes, Finishes, TypeOK
      <3>2. CASE eval_targets(p)
        BY <3>2 DEF eval_targets, Goes, TypeOK
      <3>3. CASE NextTarget(p)
        BY <3>3 DEF NextTarget, Goes, Opens, Finishes, TypeOK
      <3> QED BY <1>5, <3>1, <3>2, <3>3
    <2> QED BY <1>1, <2>1
  <1>6. CASE Skipped(p) \/ RecordTarget(p) \/ SkipsUnarchive(p) \/ Reopened(p) \/ Register(p)
             \/ pkg_main(p)
    <2>1. pc'[p] = "next"
      BY <1>6 DEF Skipped, RecordTarget, SkipsUnarchive, Reopened, Register, pkg_main, Done,
         Goes, TypeOK
    <2> QED BY <1>1, <2>1
  <1>7. CASE Fetch(p) \/ ArchiveFetch(p)
    <2>1. pc'[p] \in {"record", "claim"} /\ todo' = todo /\ Head(todo[p]) \in {"fetch", "archivefetch"}
      BY <1>7 DEF Fetch, ArchiveFetch, Due, Goes, TypeOK
    <2>2. Task(p)' \notin Phase
      BY <2>1 DEF Task, Phase
    <2> QED BY <1>1, <2>1, <2>2
  <1>8. CASE Claim(p)
    <2>1. pc[p] = "claim" /\ Task(p) = "archivefetch"
      BY <1>0, <1>8 DEF Claim, Shape, Tasks, Opening
    <2>2. pc'[p] \in {"record", "claim"} /\ todo' = todo
      BY <1>0, <1>8, <2>1, TargetClaimed
    <2> QED BY <1>1, <2>1, <2>2 DEF Task, Phase
  <1>9. CASE install_main(p)
    <2>1. pc'[p] = "register"
      BY <1>9 DEF install_main, Goes, TypeOK
    <2> QED BY <1>1, <2>1
  <1>10. CASE unarchive_finish(p)
    <2>1. pc'[p] = "check"
      BY <1>10 DEF unarchive_finish, Opens, Goes, TypeOK
    <2> QED BY <1>1, <2>1
  <1>11. ASSUME NEW t \in Phase, Make(p, t) PROVE Underway(p)'
    <2>1. pc'[p] = "making" /\ todo' = todo /\ Head(todo[p]) = t /\ L' = L /\ pc[p] \in AtWork
      BY <1>11 DEF Make, Due, Goes, TypeOK, L, AtWork
    <2>2. Task(p) = t
      BY <1>0, <1>11, <2>1 DEF Make, Due, Shape, Tasks, Opening, Task, Target
    <2>3. t \notin L.targets
      BY <1>0, <1>11, <2>1, AtWorkOnName DEF Make, Due, L
    <2>4. made'[t].of # {}
      BY <1>11 DEF Make, TypeOK
    <2> QED BY <2>1, <2>2, <2>3, <2>4 DEF Underway, Task
  <1>12. CASE Made(p)
    <2>1. /\ pc[p] = "making" /\ pc'[p] = "record" /\ todo' = todo /\ L' = L
          /\ Task(p) \in Phase /\ Head(todo[p]) = Task(p)
      BY <1>0, <1>12 DEF Made, Goes, TypeOK, L, Shape, Tasks, Opening, Task, Phase
    <2>2. made[Task(p)] # NoTree /\ Task(p) \notin L.targets
      BY <1>0, <2>1 DEF Underway, NoTree
    <2>3. Task(p) = "destroot" => made["build"].whole \/ L.claimed
      BY <1>0, <2>1, <2>2 DEF Progressed, Before, Later, Built
    <2>4. made'[Task(p)].whole \/ L.claimed
      BY <1>12, <2>1, <2>2, <2>3 DEF Made, TypeOK
    <2> QED BY <2>1, <2>4 DEF Underway, Task
  <1>13. CASE Unpack(p)
    <2>1. Full(find_portarchive(p)) /\ find_portarchive(p) # NoArchive
      BY <1>0, <1>13, FoundFull DEF Unpack
    <2>2. made'["destroot"].of # {} /\ ~made'["destroot"].whole
      BY <1>13, <2>1 DEF Unpack, Full, TypeOK, Phase
    <2>3. pc'[p] = "unpacking"
      BY <1>13 DEF Unpack, Goes, TypeOK
    <2> QED BY <2>2, <2>3 DEF Underway
  <1>14. CASE Unpacked(p)
    <2>1. Full(find_portarchive(p)) /\ find_portarchive(p) # NoArchive
      BY <1>0, <1>14, FoundFull DEF Unpacked
    <2>2. made["destroot"].of # {}
      BY <1>0, <1>14 DEF Unpacked, Underway
    <2>3. made'["destroot"].whole = find_portarchive(p).tree.whole
      <3>1. find_portarchive(p).tree \in Tree
        BY <1>0, FoundFull DEF Archive
      <3> QED BY <1>14, <2>2, <3>1 DEF Unpacked, TypeOK, Phase, Tree
    <2>4. pc'[p] = "swap" /\ plus' = find_portarchive(p).state
      BY <1>14 DEF Unpacked, Goes, TypeOK
    <2> QED BY <2>1, <2>3, <2>4 DEF Underway, Full
  <1> QED BY <1>2, <1>3, <1>4, <1>5, <1>6, <1>7, <1>8, <1>9, <1>10, <1>11, <1>12, <1>13,
  <1>14 DEF Step

\* Archives and images are full behind every step.
LEMMA StepKept ==
  ASSUME IInv, Alone, There, Calm, NEW p \in Proc, Step(p)
  PROVE  Kept'
  <1> USE DEF IInv
  <1>0. /\ Progressed(p) /\ Underway(p) /\ Shape(p) /\ Staged /\ Kept /\ TreesFilled
        /\ "shared" \notin excuse
    BY DEF There, Calm, Because
  <1>1. CASE UNCHANGED <<incoming, image>>
    BY <1>0, <1>1 DEF Kept
  <1>2. CASE ArchiveFetch(p)
    <2>1. CASE UNCHANGED incoming
      BY <1>1, <1>2, <2>1 DEF ArchiveFetch
    <2>2. CASE ~UNCHANGED incoming
      <3>1. PICK sum \in {portfile, Elsewhere} :
              incoming' = [incoming EXCEPT ![job[p].variants] = Fetched(job[p].variants, sum)]
        BY <1>2, <2>2 DEF ArchiveFetch
      <3>2. Full(Fetched(job[p].variants, sum))
        BY DEF Full, Fetched
      <3>3. image' = image
        BY <1>2 DEF ArchiveFetch
      <3>4. \A v \in Selection :
              incoming'[v] = incoming[v] \/ incoming'[v] = Fetched(job[p].variants, sum)
        BY <3>1 DEF TypeOK
      <3> QED BY <1>0, <3>2, <3>3, <3>4 DEF Kept
    <2> QED BY <2>1, <2>2
  <1>3. CASE install_main(p)
    <2> DEFINE v == job[p].variants
               a == [tree |-> made["destroot"], state |-> lines[name], by |-> job[p].portfile]
    <2>1. Full(NoArchive) /\ v \in Selection
      BY DEF Full, TypeOK
    <2>2. CASE incoming[v] # NoArchive
      <3>1. /\ image' = [image EXCEPT ![v] = incoming[v]]
            /\ incoming' = [incoming EXCEPT ![v] = NoArchive]
        BY <1>3, <2>2 DEF install_main
      <3>2. /\ \A u \in Selection : image'[u] = image[u] \/ image'[u] = incoming[v]
            /\ \A u \in Selection : incoming'[u] = incoming[u] \/ incoming'[u] = NoArchive
        BY <3>1 DEF TypeOK
      <3> QED BY <1>0, <2>1, <3>2 DEF Kept
    <2>3. CASE incoming[v] = NoArchive
      <3>1. /\ image' = [image EXCEPT ![v] = a] /\ incoming' = incoming
            /\ made["destroot"] # NoTree /\ name # NoInode
        BY <1>3, <2>3 DEF install_main
      <3>2. pc[p] = "run" /\ Task(p) = "install"
        BY <1>0, <1>3 DEF install_main, Due, Shape, Tasks, Opening, Task, Target
      <3>3. "destroot" \in L.targets
        BY <1>0, <3>2 DEF Progressed, Before, Later
      <3>4. made["destroot"].whole \/ L.claimed
        BY <1>0, <3>1, <3>3 DEF Staged
      <3>5. made["destroot"].of # {}
        BY <1>0, <3>1 DEF TreesFilled, TypeOK, Tree, NoTree, Phase
      <3>6. Full(a)
        BY <3>3, <3>4, <3>5 DEF Full, L
      <3> HIDE DEF a
      <3>7. \A u \in Selection : image'[u] = image[u] \/ image'[u] = a
        BY <3>1 DEF TypeOK
      <3> QED BY <1>0, <3>1, <3>6, <3>7 DEF Kept
    <2> QED BY <2>2, <2>3
  <1>4. CASE \/ Check(p) \/ Flock(p) \/ eval_targets(p) \/ NextTarget(p) \/ Skipped(p)
             \/ Fetch(p) \/ SkipsUnarchive(p) \/ Reopened(p)
    BY <1>1, <1>4, OnlyLooks
  <1>5. CASE \/ Unnames(p) \/ OpenFile(p) \/ WriteVersion(p) \/ WriteChecksum(p)
             \/ check_variants(p) \/ RecordTarget(p) \/ Claim(p) \/ unarchive_finish(p)
    BY <1>1, <1>5 DEF Unnames, OpenFile, WriteVersion, WriteChecksum, check_variants,
       RecordTarget,
       Claim, unarchive_finish, products
  <1>6. CASE \/ Empties(p) \/ Made(p) \/ Unpack(p) \/ Unpacked(p) \/ Register(p) \/ pkg_main(p)
             \/ \E t \in Phase : Make(p, t)
    BY <1>1, <1>6 DEF Empties, Made, Unpack, Unpacked, Register, pkg_main, Make, products
  <1> QED BY <1>2, <1>3, <1>4, <1>5, <1>6 DEF Step

\* There is inductive together with the shape of the processes.
LEMMA ThereHolds ==
  ASSUME IInv, Alone, There, [Next]_vars
  PROVE  There'
  <1>1. TreesFilled'
    BY StepTreesFilled DEF There
  <1> SUFFICES ASSUME Calm'
               PROVE  Built' /\ Staged' /\ Kept' /\ \A p \in Proc : Progressed(p)' /\ Underway(p)'
    BY <1>1 DEF There
  <1>2. /\ Calm /\ "shared" \notin excuse' /\ Built /\ Staged /\ Kept
        /\ \A p \in Proc : Progressed(p) /\ Underway(p)
    BY CalmBefore DEF There
  <1>3. ASSUME NEW p \in Proc, Step(p)
        PROVE  Built' /\ Staged' /\ Kept' /\ \A o \in Proc : Progressed(o)' /\ Underway(o)'
    <2>1. \A o \in Proc \ {p} : Progressed(o)' /\ Underway(o)'
      BY <1>2, <1>3, OthersThere
    <2>2. Progressed(p)' /\ Underway(p)'
      BY <1>2, <1>3, StepProgressed, StepUnderway
    <2>3. Built' /\ Staged' /\ Kept'
      BY <1>2, <1>3, StepRecords, StepKept
    <2> QED BY <2>1, <2>2, <2>3
  <1>4. ASSUME NEW p \in Proc, Ends(p) \/ \E v \in Selection, goal \in Goal : Start(p, v, goal)
        PROVE  Built' /\ Staged' /\ Kept' /\ \A o \in Proc : Progressed(o)' /\ Underway(o)'
    <2>1. \A o \in Proc \ {p} : Progressed(o)' /\ Underway(o)'
      BY <1>2, <1>4, OthersThere
    <2>2. UNCHANGED <<name, lines, made, plus, incoming, image>>
      BY <1>4, OnlyLooks
    <2>3. pc'[p] \in {"idle", "clean", "check"} /\ Task(p)' = "none"
      <3>1. CASE Ends(p)
        BY <3>1 DEF Ends, Finishes, Goes, IInv, TypeOK, Task
      <3>2. ASSUME NEW v \in Selection, NEW goal \in Goal, Start(p, v, goal)
            PROVE  pc'[p] \in {"idle", "clean", "check"} /\ Task(p)' = "none"
        <4>1. Task(p) = "none" /\ Task(p)' = Task(p)
          BY <3>2, NoTask DEF Start, IInv, Task
        <4> QED BY <3>2, <4>1 DEF Start, Goes, Opens, IInv, TypeOK
      <3> QED BY <1>4, <3>1, <3>2
    <2>4. Progressed(p)' /\ Underway(p)'
      BY <2>3 DEF Progressed, Underway, Later
    <2>5. Built' /\ Staged' /\ Kept'
      BY <1>2, <2>2 DEF Built, Staged, Kept, L
    <2> QED BY <2>1, <2>4, <2>5
  <1>5. CASE UNCHANGED <<name, lines, made, plus, incoming, image, pc, todo>>
    <2>1. \A p \in Proc : Task(p)' = Task(p)
      BY <1>5 DEF Task
    <2> QED BY <1>2, <1>5, <2>1 DEF Built, Staged, Kept, Progressed, Underway, L
  <1> QED BY <1>3, <1>4, <1>5 DEF Next, vars, dir, products, Edit

-----------------------------------------------------------------------------
(* What is installed and packaged is whole *)

\* What is registered has its image.
Installed ==
  /\ \A v \in registered : image[v] # NoArchive
  /\ \A p \in Proc : pc[p] = "register" => image[job[p].variants] # NoArchive

StagedWhole == made["destroot"].whole

\* Of what is recorded, no half is there, except while an archive is unpacked.
WholeRecords ==
  /\ name # NoInode /\ "build" \in L.targets =>
       made["build"].whole \/ made["build"] = NoTree \/ "destroot" \in L.targets
  /\ name # NoInode /\ "destroot" \in L.targets =>
       \/ StagedWhole
       \/ L.claimed /\ (made["destroot"] = NoTree \/ \E p \in Proc : pc[p] = "unpacking")

WholeWork(p) ==
  /\ pc[p] = "record" /\ Task(p) \in Phase => made[Task(p)].whole
  /\ pc[p] = "making" /\ Task(p) = "destroot" => made["build"].whole
  /\ pc[p] = "swap" => StagedWhole

WholeProducts ==
  /\ \A v \in Selection : /\ incoming[v] # NoArchive => incoming[v].tree.whole
                          /\ image[v] # NoArchive => image[v].tree.whole
  /\ package # NoPackage => package.tree.whole

NothingClaimed == ~Because({"shared", "amid", "claimed"})

Wholes ==
  NothingClaimed => WholeRecords /\ WholeProducts /\ \A p \in Proc : WholeWork(p)

\* No step takes away an image.
LEMMA InstalledHolds ==
  ASSUME IInv, Installed, [Next]_vars
  PROVE  Installed'
  <1> USE DEF IInv
  <1>1. ASSUME NEW p \in Proc, UNCHANGED <<registered, image>>, pc'[p] # "register",
               \A o \in Proc \ {p} : pc'[o] = pc[o] /\ job'[o] = job[o]
        PROVE  Installed'
    BY <1>1 DEF Installed
  <1>2. ASSUME NEW p \in Proc, Step(p) PROVE Installed'
    <2>0. \A o \in Proc \ {p} : pc'[o] = pc[o] /\ job'[o] = job[o]
      BY <1>2, OnlyOwn
    <2>1. CASE install_main(p)
      <3> DEFINE v == job[p].variants
      <3>1. \A u \in Selection : image'[u] = image[u] \/ image'[u] # NoArchive
        <4>1. CASE incoming[v] # NoArchive
          BY <2>1, <4>1 DEF install_main, TypeOK
        <4>2. CASE incoming[v] = NoArchive
          BY <2>1, <4>2 DEF install_main, TypeOK, NoArchive
        <4> QED BY <4>1, <4>2
      <3>2. image'[v] # NoArchive
        <4>1. CASE incoming[v] # NoArchive
          BY <2>1, <4>1 DEF install_main, TypeOK
        <4>2. CASE incoming[v] = NoArchive
          BY <2>1, <4>2 DEF install_main, TypeOK, NoArchive
        <4> QED BY <4>1, <4>2
      <3>3. registered' = registered /\ job' = job
        BY <2>1 DEF install_main
      <3> QED BY <2>0, <3>1, <3>2, <3>3 DEF Installed, TypeOK
    <2>2. CASE Register(p)
      <3>1. /\ registered' = registered \cup {job[p].variants} /\ image' = image
            /\ pc[p] = "register" /\ pc'[p] = "next"
        BY <2>2 DEF Register, Done, Goes, TypeOK
      <3> QED BY <2>0, <3>1 DEF Installed
    <2>3. CASE \/ Check(p) \/ Flock(p) \/ eval_targets(p) \/ NextTarget(p) \/ Skipped(p) \/ Fetch(p)
               \/ SkipsUnarchive(p) \/ Reopened(p)
      <3>1. UNCHANGED <<registered, image>>
        BY <2>3, OnlyLooks
      <3>2. pc'[p] # "register"
        <4>1. CASE Check(p) \/ Flock(p) \/ eval_targets(p)
          BY <4>1 DEF Check, Flock, eval_targets, Goes, TypeOK
        <4>2. CASE NextTarget(p)
          BY <4>2 DEF NextTarget, Goes, Opens, Finishes, TypeOK
        <4>3. CASE Skipped(p) \/ Fetch(p) \/ SkipsUnarchive(p) \/ Reopened(p)
          BY <4>3 DEF Skipped, Fetch, SkipsUnarchive, Reopened, Done, Goes, TypeOK
        <4> QED BY <2>3, <4>1, <4>2, <4>3
      <3> QED BY <1>1, <2>0, <3>1, <3>2
    <2>4. CASE Unnames(p) \/ Empties(p) \/ OpenFile(p) \/ unarchive_finish(p)
      <3>1. UNCHANGED <<registered, image>> /\ pc'[p] # "register"
        BY <2>4 DEF Unnames, Empties, OpenFile, unarchive_finish, Opens, Goes, Finishes,
           TypeOK, products
      <3> QED BY <1>1, <2>0, <3>1
    <2>5. CASE WriteVersion(p) \/ WriteChecksum(p) \/ RecordTarget(p)
      <3>1. UNCHANGED <<registered, image>> /\ pc'[p] # "register"
        BY <2>5 DEF WriteVersion, WriteChecksum, RecordTarget, Done, Goes, TypeOK, products
      <3> QED BY <1>1, <2>0, <3>1
    <2>6. CASE check_variants(p)
      <3>1. UNCHANGED <<registered, image>> /\ pc'[p] # "register"
        BY <2>6 DEF check_variants, Finishes, Goes, TypeOK, products
      <3> QED BY <1>1, <2>0, <3>1
    <2>7. CASE Claim(p)
      <3>1. UNCHANGED <<registered, image>> /\ pc'[p] # "register"
        BY <2>7 DEF Claim, Goes, TypeOK, products
      <3> QED BY <1>1, <2>0, <3>1
    <2>8. CASE Made(p) \/ ArchiveFetch(p) \/ Unpack(p) \/ Unpacked(p) \/ \E t \in Phase : Make(p, t)
      <3>1. UNCHANGED <<registered, image>> /\ pc'[p] # "register"
        BY <2>8 DEF Made, ArchiveFetch, Unpack, Unpacked, Make, Goes, TypeOK, products
      <3> QED BY <1>1, <2>0, <3>1
    <2>9. CASE pkg_main(p)
      <3>1. UNCHANGED <<registered, image>> /\ pc'[p] # "register"
        BY <2>9 DEF pkg_main, Done, Goes, TypeOK
      <3> QED BY <1>1, <2>0, <3>1
    <2> QED BY <1>2, <2>1, <2>2, <2>3, <2>4, <2>5, <2>6, <2>7, <2>8, <2>9 DEF Step
  <1>3. ASSUME NEW p \in Proc, Ends(p) \/ \E v \in Selection, goal \in Goal : Start(p, v, goal)
        PROVE  Installed'
    <2>1. pc'[p] # "register"
      BY <1>3 DEF Ends, Start, Finishes, Opens, Goes, TypeOK
    <2>2. \A o \in Proc \ {p} : pc'[o] = pc[o] /\ job'[o] = job[o]
      BY <1>3, OnlyOwn
    <2> QED BY <1>1, <1>3, <2>1, <2>2, OnlyLooks
  <1>4. CASE UNCHANGED <<registered, image, pc, job>>
    BY <1>4 DEF Installed
  <1> QED BY <1>2, <1>3, <1>4 DEF Next, vars, products, Edit

\* What others make is as whole behind the step of a process as before it.
LEMMA OthersWhole ==
  ASSUME IInv, Alone, Calm, NEW p \in Proc, NEW o \in Proc, o # p, WholeWork(o),
         "shared" \notin excuse',
         \/ Step(p) \/ Ends(p) \/ \E v \in Selection, goal \in Goal : Start(p, v, goal)
  PROVE  WholeWork(o)'
  <1> USE DEF IInv
  <1>0. /\ pc'[o] = pc[o] /\ Task(o)' = Task(o) /\ "shared" \notin excuse
    BY OnlyOwn DEF Task, Calm, Because
  <1>1. CASE pc[o] \notin Busy
    BY <1>0, <1>1 DEF WholeWork, Busy, AtWork
  <1>2. CASE pc[o] \in Busy /\ ~Step(p)
    <2>1. made' = made
      BY <1>2, OnlyLooks
    <2> QED BY <1>0, <2>1 DEF WholeWork, StagedWhole
  <1>3. CASE pc[o] \in Busy /\ Step(p)
    <2>1. Others(p)
      BY <1>3 DEF Others, Active, Busy, AtWork
    <2>2. pc[p] \notin Busy
      BY <1>0, <1>3 DEF Alone
    <2>3. made' = made
      BY <1>3, <2>1, <2>2, IdleHands
    <2> QED BY <1>0, <2>3 DEF WholeWork, StagedWhole
  <1> QED BY <1>1, <1>2, <1>3

\* A step leaves no half behind what it records.
LEMMA StepWholeRecords ==
  ASSUME IInv, Alone, There, Calm, NothingClaimed, WholeRecords, WholeProducts,
         NEW p \in Proc, WholeWork(p), Step(p), NothingClaimed'
  PROVE  WholeRecords'
  <1> USE DEF IInv
  <1>0. /\ Underway(p) /\ Shape(p) /\ Kept /\ Staged /\ "shared" \notin excuse
    BY DEF There, Calm, Because
  <1> DEFINE U == \E q \in Proc : pc[q] = "unpacking"
  <1>1. pc[p] # "unpacking" /\ U => U'
    BY OnlyOwn
  <1>2. CASE UNCHANGED <<name, lines, made>> /\ pc[p] # "unpacking"
    BY <1>1, <1>2 DEF WholeRecords, StagedWhole, L
  <1>3. CASE Check(p) \/ Flock(p) \/ eval_targets(p) \/ NextTarget(p) \/ Skipped(p)
             \/ Fetch(p) \/ SkipsUnarchive(p) \/ Reopened(p)
    <2>1. pc[p] # "unpacking"
      BY <1>3 DEF Check, Flock, eval_targets, NextTarget, Skipped, Fetch, SkipsUnarchive,
         Reopened, Due
    <2> QED BY <1>2, <1>3, <2>1, OnlyLooks
  <1>4. CASE ArchiveFetch(p) \/ install_main(p) \/ Register(p) \/ pkg_main(p)
    BY <1>2, <1>4 DEF ArchiveFetch, install_main, Register, pkg_main, Due, dir
  <1>5. CASE Unnames(p) \/ Empties(p)
    BY <1>5 DEF Unnames, Empties, WholeRecords
  <1>6. CASE OpenFile(p)
    <2>1. CASE name # NoInode
      BY <1>2, <1>6, <2>1 DEF OpenFile
    <2>2. CASE name = NoInode
      <3>1. fd[p] = NoInode
        BY <1>0, <1>6 DEF OpenFile, Shape, AtWork
      <3>2. lines' = [lines EXCEPT ![FreeInode] = NoLines] /\ name' = FreeInode /\ FreeInode \in Inode
        BY <1>6, <2>2, <3>1, FreeExists DEF OpenFile, Named
      <3>3. L' = NoLines
        BY <3>2 DEF L, TypeOK
      <3> QED BY <3>3 DEF WholeRecords, NoLines
    <2> QED BY <2>1, <2>2
  <1>7. CASE WriteVersion(p) \/ WriteChecksum(p) \/ check_variants(p)
    <2>1. pc[p] # "unpacking"
      BY <1>7 DEF WriteVersion, WriteChecksum, check_variants
    <2> HIDE DEF U
    <2>2. /\ name # NoInode /\ name' = name /\ L'.targets = L.targets /\ L'.claimed = L.claimed
          /\ made' = made
      BY <1>0, <1>7, LabelsOnly
    <2> QED BY <1>1, <2>1, <2>2 DEF WholeRecords, StagedWhole, U
  <1>8. CASE RecordTarget(p)
    <2>1. pc[p] = "record"
      BY <1>8 DEF RecordTarget
    <2>2. /\ name # NoInode /\ name' = name /\ L'.claimed = L.claimed /\ made' = made
          /\ L'.targets = L.targets \cup {Task(p)}
      BY <1>0, <1>8, TargetRecorded
    <2>3. Task(p) \in Phase => made[Task(p)].whole
      BY <2>1 DEF WholeWork
    <2> QED BY <1>1, <2>1, <2>2, <2>3 DEF WholeRecords, StagedWhole, Phase
  <1>9. CASE Claim(p)
    <2>1. pc[p] = "claim"
      BY <1>9 DEF Claim
    <2>2. CASE L' = L /\ name' = name /\ made' = made
      BY <1>1, <2>1, <2>2 DEF WholeRecords, StagedWhole
    <2>3. CASE L' # L
      <3>1. made = NoTrees
        BY <1>9, <2>3 DEF Claim, Excused, NothingClaimed, Because, L
      <3>2. name' = name /\ made' = made /\ L'.claimed
        BY <1>0, <1>9, <2>3, TargetClaimed
      <3> QED BY <3>1, <3>2 DEF WholeRecords, NoTrees, Phase
    <2> QED BY <1>0, <1>9, <2>2, <2>3, TargetClaimed
  <1>10. ASSUME NEW t \in Phase, Make(p, t) PROVE WholeRecords'
    <2>1. t \notin L.targets /\ name' = name /\ L' = L /\ pc[p] # "unpacking"
      BY <1>0, <1>10, AtWorkOnName DEF Make, Due, L, AtWork
    <2>2. \A s \in Phase \ {t} : made'[s] = made[s]
      BY <1>10 DEF Make, TypeOK
    <2> QED BY <1>1, <2>1, <2>2 DEF WholeRecords, StagedWhole, Phase
  <1>11. CASE Made(p)
    <2>1. Task(p) \in Phase /\ Task(p) = Head(todo[p]) /\ Task(p) \notin L.targets
      BY <1>0, <1>11 DEF Made, Underway, Shape, Tasks, Opening, Task, Phase
    <2>2. /\ name' = name /\ L' = L /\ \A s \in Phase \ {Task(p)} : made'[s] = made[s]
          /\ pc[p] # "unpacking"
      BY <1>11, <2>1 DEF Made, L, TypeOK
    <2> QED BY <1>1, <2>1, <2>2 DEF WholeRecords, StagedWhole, Phase
  <1>12. CASE Unpack(p)
    <2>1. /\ name # NoInode /\ Recorded(p) = L /\ name' = name /\ L' = L
          /\ made'["build"] = made["build"] /\ pc'[p] = "unpacking"
      BY <1>0, <1>12, AtWorkOnName DEF Unpack, Due, AtWork, L, Phase, Goes, TypeOK
    <2>2. "destroot" \in L.targets => L.claimed
      BY <1>0, <1>12, <2>1 DEF Unpack, Destrooted, Staged, NoTree
    <2> QED BY <2>1, <2>2 DEF WholeRecords
  <1>13. CASE Unpacked(p)
    <2>1. name' = name /\ L' = L /\ made'["build"] = made["build"]
      BY <1>13 DEF Unpacked, L, Phase, TypeOK
    <2>2. find_portarchive(p).tree.whole
      BY <1>13 DEF Unpacked, find_portarchive, WholeProducts, TypeOK
    <2>3. made["destroot"].of # {}
      BY <1>0, <1>13 DEF Unpacked, Underway
    <2>4. made'["destroot"].whole
      BY <1>13, <2>2, <2>3 DEF Unpacked, TypeOK, Phase
    <2> QED BY <2>1, <2>4 DEF WholeRecords, StagedWhole
  <1>14. CASE unarchive_finish(p)
    <2>1. fd[p] = NoInode
      BY <1>0, <1>14 DEF unarchive_finish, Shape, AtWork
    <2>2. /\ lines' = [lines EXCEPT ![FreeInode] = plus] /\ name' = FreeInode /\ FreeInode \in Inode
          /\ made' = made
      BY <1>14, <2>1, FreeExists DEF unarchive_finish, Named
    <2>3. L' = plus
      BY <2>2 DEF L, TypeOK
    <2>4. "destroot" \in plus.targets /\ StagedWhole
      BY <1>0, <1>14 DEF unarchive_finish, Underway, WholeWork
    <2> QED BY <2>2, <2>3, <2>4 DEF WholeRecords, StagedWhole
  <1> QED BY <1>3, <1>4, <1>5, <1>6, <1>7, <1>8, <1>9, <1>10, <1>11, <1>12, <1>13, <1>14 DEF Step

\* What a process has made is whole.
LEMMA StepWholeWork ==
  ASSUME IInv, Alone, There, Calm, WholeRecords, WholeProducts,
         NEW p \in Proc, WholeWork(p), Step(p)
  PROVE  WholeWork(p)'
  <1> USE DEF IInv
  <1>0. /\ Progressed(p) /\ Underway(p) /\ Underway(p)' /\ Shape(p) /\ Shape(p)' /\ Kept
        /\ "shared" \notin excuse
    BY StepShape, StepUnderway DEF There, Calm, Because
  <1>1. ASSUME pc'[p] \notin {"making", "swap"}, pc'[p] = "record" => Task(p)' \notin Phase
        PROVE  WholeWork(p)'
    BY <1>1 DEF WholeWork
  <1>2. CASE Check(p) \/ Unnames(p) \/ Empties(p) \/ OpenFile(p) \/ Flock(p)
    <2>1. pc'[p] \notin {"making", "swap", "record"}
      <3>1. CASE Check(p) \/ Unnames(p) \/ Empties(p) \/ OpenFile(p)
        BY <3>1 DEF Check, Unnames, Empties, OpenFile, Goes, Finishes, TypeOK
      <3>2. CASE Flock(p)
        BY <3>2 DEF Flock, Goes, TypeOK
      <3> QED BY <1>2, <3>1, <3>2
    <2> QED BY <1>1, <2>1
  <1>3. CASE WriteVersion(p) \/ WriteChecksum(p) \/ check_variants(p) \/ eval_targets(p)
             \/ NextTarget(p)
    <2>1. pc'[p] \notin {"making", "swap", "record"}
      <3>1. CASE WriteVersion(p) \/ WriteChecksum(p) \/ eval_targets(p)
        BY <3>1 DEF WriteVersion, WriteChecksum, eval_targets, Goes, TypeOK
      <3>2. CASE check_variants(p)
        BY <3>2 DEF check_variants, Goes, Finishes, TypeOK
      <3>3. CASE NextTarget(p)
        BY <3>3 DEF NextTarget, Goes, Opens, Finishes, TypeOK
      <3> QED BY <1>3, <3>1, <3>2, <3>3
    <2> QED BY <1>1, <2>1
  <1>4. CASE Skipped(p) \/ RecordTarget(p) \/ SkipsUnarchive(p) \/ Reopened(p) \/ Register(p)
             \/ pkg_main(p)
    <2>1. pc'[p] = "next"
      BY <1>4 DEF Skipped, RecordTarget, SkipsUnarchive, Reopened, Register, pkg_main, Done,
         Goes, TypeOK
    <2> QED BY <1>1, <2>1
  <1>5. CASE Fetch(p) \/ ArchiveFetch(p)
    <2>1. pc'[p] \in {"record", "claim"} /\ todo' = todo /\ Head(todo[p]) \in {"fetch", "archivefetch"}
      BY <1>5 DEF Fetch, ArchiveFetch, Due, Goes, TypeOK
    <2>2. Task(p)' \notin Phase
      BY <2>1 DEF Task, Phase
    <2> QED BY <1>1, <2>1, <2>2
  <1>6. CASE Claim(p)
    <2>1. pc[p] = "claim" /\ Task(p) = "archivefetch"
      BY <1>0, <1>6 DEF Claim, Shape, Tasks, Opening
    <2>2. pc'[p] \in {"record", "claim"} /\ todo' = todo
      BY <1>0, <1>6, <2>1, TargetClaimed
    <2> QED BY <1>1, <2>1, <2>2 DEF Task, Phase
  <1>7. CASE install_main(p) \/ unarchive_finish(p) \/ Unpack(p)
    <2>1. pc'[p] \in {"register", "check", "unpacking"}
      BY <1>7 DEF install_main, unarchive_finish, Unpack, Opens, Goes, TypeOK
    <2> QED BY <1>1, <2>1
  <1>8. ASSUME NEW t \in Phase, Make(p, t) PROVE WholeWork(p)'
    <2>1. pc'[p] = "making" /\ todo' = todo /\ Head(todo[p]) = t /\ L' = L /\ pc[p] = "run"
      BY <1>8 DEF Make, Due, Goes, TypeOK, L
    <2>2. Task(p) = t
      BY <1>0, <2>1 DEF Shape, Tasks, Opening, Task, Target
    <2>3. t = "destroot" => made'["build"] = made["build"]
      BY <1>8 DEF Make, TypeOK, Phase
    <2>4. t = "destroot" => made["build"].whole
      <3> SUFFICES ASSUME t = "destroot"
                   PROVE  made["build"].whole
        OBVIOUS
      <3>1. made["build"] # NoTree
        BY <1>8 DEF Make
      <3>2. name # NoInode /\ "build" \in L.targets
        BY <1>0, <2>1, <2>2 DEF Progressed, Before, Later
      <3>3. "destroot" \notin L.targets
        BY <1>0, <1>8, <2>1, AtWorkOnName DEF Make, Due, L, AtWork
      <3> QED BY <3>1, <3>2, <3>3 DEF WholeRecords
    <2> QED BY <2>1, <2>2, <2>3, <2>4 DEF WholeWork, Task
  <1>9. CASE Made(p)
    <2>1. /\ pc[p] = "making" /\ pc'[p] = "record" /\ todo' = todo
          /\ Task(p) \in Phase /\ Head(todo[p]) = Task(p)
      BY <1>0, <1>9 DEF Made, Goes, TypeOK, Shape, Tasks, Opening, Task, Phase
    <2>2. made[Task(p)] # NoTree
      BY <1>0, <2>1 DEF Underway, NoTree
    <2>3. Task(p) = "destroot" => made["build"].whole
      BY <2>1 DEF WholeWork
    <2>4. made'[Task(p)].whole
      BY <1>9, <2>1, <2>2, <2>3 DEF Made, TypeOK
    <2> QED BY <2>1, <2>4 DEF WholeWork, Task
  <1>10. CASE Unpacked(p)
    <2>1. find_portarchive(p).tree.whole
      BY <1>10 DEF Unpacked, find_portarchive, WholeProducts, TypeOK
    <2>2. made["destroot"].of # {}
      BY <1>0, <1>10 DEF Unpacked, Underway
    <2>3. made'["destroot"].whole
      BY <1>10, <2>1, <2>2 DEF Unpacked, TypeOK, Phase
    <2>4. pc'[p] = "swap"
      BY <1>10 DEF Unpacked, Goes, TypeOK
    <2> QED BY <2>3, <2>4 DEF WholeWork, StagedWhole
  <1> QED BY <1>2, <1>3, <1>4, <1>5, <1>6, <1>7, <1>8, <1>9, <1>10 DEF Step

\* An installation or a package finds the whole of what is staged.
LEMMA StagedForUse ==
  ASSUME IInv, Alone, "shared" \notin excuse, WholeRecords, NEW p \in Proc, Progressed(p),
         Shape(p), pc[p] = "run", Head(todo[p]) \in {"install", "pkg"}, made["destroot"] # NoTree
  PROVE  StagedWhole
  <1>1. Task(p) = Head(todo[p])
    BY DEF Shape, Tasks, Opening, Task, Target
  <1>2. name # NoInode /\ "destroot" \in L.targets
    BY <1>1 DEF Progressed, Before, Later
  <1>3. \A q \in Proc : pc[q] # "unpacking"
    BY AtWorkOnName DEF AtWork, Busy
  <1> QED BY <1>2, <1>3 DEF WholeRecords

\* What a step installs or packages is whole.
LEMMA StepWholeProducts ==
  ASSUME IInv, Alone, There, Calm, WholeRecords, WholeProducts, NEW p \in Proc, Step(p)
  PROVE  WholeProducts'
  <1> USE DEF IInv
  <1>0. Progressed(p) /\ Shape(p) /\ "shared" \notin excuse
    BY DEF There, Calm, Because
  <1>1. CASE UNCHANGED <<incoming, image, package>>
    BY <1>1 DEF WholeProducts
  <1>2. CASE ArchiveFetch(p)
    <2>1. image' = image /\ package' = package
      BY <1>2 DEF ArchiveFetch
    <2>2. CASE UNCHANGED incoming
      BY <1>1, <2>1, <2>2
    <2>3. CASE ~UNCHANGED incoming
      <3>1. PICK sum \in {portfile, Elsewhere} :
              incoming' = [incoming EXCEPT ![job[p].variants] = Fetched(job[p].variants, sum)]
        BY <1>2, <2>3 DEF ArchiveFetch
      <3>2. Fetched(job[p].variants, sum).tree.whole
        BY DEF Fetched
      <3>3. \A v \in Selection :
              incoming'[v] = incoming[v] \/ incoming'[v] = Fetched(job[p].variants, sum)
        BY <3>1 DEF TypeOK
      <3> QED BY <2>1, <3>2, <3>3 DEF WholeProducts
    <2> QED BY <2>2, <2>3
  <1>3. CASE install_main(p)
    <2> DEFINE v == job[p].variants
               a == [tree |-> made["destroot"], state |-> lines[name], by |-> job[p].portfile]
    <2>0. package' = package
      BY <1>3 DEF install_main
    <2>1. CASE incoming[v] # NoArchive
      <3>1. /\ image' = [image EXCEPT ![v] = incoming[v]]
            /\ incoming' = [incoming EXCEPT ![v] = NoArchive]
        BY <1>3, <2>1 DEF install_main
      <3>2. /\ \A u \in Selection : image'[u] = image[u] \/ (image'[u] = incoming[v] /\ u = v)
            /\ \A u \in Selection : incoming'[u] = incoming[u] \/ incoming'[u] = NoArchive
        BY <3>1 DEF TypeOK
      <3> QED BY <2>0, <2>1, <3>2 DEF WholeProducts
    <2>2. CASE incoming[v] = NoArchive
      <3>1. /\ image' = [image EXCEPT ![v] = a] /\ incoming' = incoming
            /\ made["destroot"] # NoTree /\ pc[p] = "run" /\ Head(todo[p]) = "install"
        BY <1>3, <2>2 DEF install_main, Due
      <3>2. StagedWhole
        BY <1>0, <3>1, StagedForUse
      <3>3. a.tree.whole
        BY <3>2 DEF StagedWhole
      <3> HIDE DEF a
      <3>4. \A u \in Selection : image'[u] = image[u] \/ image'[u] = a
        BY <3>1 DEF TypeOK
      <3> QED BY <2>0, <3>1, <3>3, <3>4 DEF WholeProducts
    <2> QED BY <2>1, <2>2
  <1>4. CASE pkg_main(p)
    <2>1. /\ incoming' = incoming /\ image' = image /\ package'.tree = made["destroot"]
          /\ made["destroot"] # NoTree /\ pc[p] = "run" /\ Head(todo[p]) = "pkg"
      BY <1>4 DEF pkg_main, Due
    <2>2. StagedWhole
      BY <1>0, <2>1, StagedForUse
    <2> QED BY <2>1, <2>2 DEF WholeProducts, StagedWhole
  <1>5. CASE \/ Check(p) \/ Flock(p) \/ eval_targets(p) \/ NextTarget(p) \/ Skipped(p)
             \/ Fetch(p) \/ SkipsUnarchive(p) \/ Reopened(p)
    BY <1>1, <1>5, OnlyLooks
  <1>6. CASE \/ Unnames(p) \/ OpenFile(p) \/ WriteVersion(p) \/ WriteChecksum(p)
             \/ check_variants(p) \/ RecordTarget(p) \/ Claim(p) \/ unarchive_finish(p)
    BY <1>1, <1>6 DEF Unnames, OpenFile, WriteVersion, WriteChecksum, check_variants,
       RecordTarget,
       Claim, unarchive_finish, products
  <1>7. CASE \/ Empties(p) \/ Made(p) \/ Unpack(p) \/ Unpacked(p) \/ Register(p)
             \/ \E t \in Phase : Make(p, t)
    BY <1>1, <1>7 DEF Empties, Made, Unpack, Unpacked, Register, Make, products
  <1> QED BY <1>2, <1>3, <1>4, <1>5, <1>6, <1>7 DEF Step

\* Products stay whole, while nothing is claimed for an archive.
LEMMA WholesHolds ==
  ASSUME IInv, Alone, There, Wholes, [Next]_vars
  PROVE  Wholes'
  <1> SUFFICES ASSUME NothingClaimed'
               PROVE  WholeRecords' /\ WholeProducts' /\ \A p \in Proc : WholeWork(p)'
    BY DEF Wholes
  <1>1. /\ NothingClaimed /\ Calm /\ "shared" \notin excuse' /\ "claimed" \notin excuse'
        /\ WholeRecords /\ WholeProducts /\ \A p \in Proc : WholeWork(p)
    BY ExcusesStay DEF Wholes, NothingClaimed, Calm, Because
  <1>2. ASSUME NEW p \in Proc, Step(p)
        PROVE  WholeRecords' /\ WholeProducts' /\ \A o \in Proc : WholeWork(o)'
    <2>1. \A o \in Proc \ {p} : WholeWork(o)'
      BY <1>1, <1>2, OthersWhole
    <2>2. WholeWork(p)'
      BY <1>1, <1>2, StepWholeWork
    <2>3. WholeRecords' /\ WholeProducts'
      BY <1>1, <1>2, StepWholeRecords, StepWholeProducts
    <2> QED BY <2>1, <2>2, <2>3
  <1>3. ASSUME NEW p \in Proc, Ends(p) \/ \E v \in Selection, goal \in Goal : Start(p, v, goal)
        PROVE  WholeRecords' /\ WholeProducts' /\ \A o \in Proc : WholeWork(o)'
    <2>1. \A o \in Proc \ {p} : WholeWork(o)' /\ pc'[o] = pc[o]
      BY <1>1, <1>3, OthersWhole, OnlyOwn DEF IInv
    <2>2. UNCHANGED <<name, lines, made, plus, incoming, image, package>>
      BY <1>3, OnlyLooks
    <2>3. pc'[p] \in {"idle", "clean", "check"}
      BY <1>3 DEF Ends, Start, Finishes, Goes, Opens, IInv, TypeOK
    <2>4. pc[p] = "unpacking" /\ name # NoInode => ~L.claimed
      <3>1. CASE Ends(p)
        BY <1>1, <3>1 DEF Ends, L
      <3>2. CASE ~Ends(p)
        BY <1>3, <3>2 DEF Start
      <3> QED BY <3>1, <3>2
    <2>5. WholeRecords'
      BY <1>1, <2>1, <2>2, <2>4 DEF WholeRecords, StagedWhole, L
    <2>6. WholeWork(p)' /\ WholeProducts'
      BY <1>1, <2>2, <2>3 DEF WholeWork, WholeProducts
    <2> QED BY <2>1, <2>5, <2>6
  <1>4. CASE UNCHANGED <<name, lines, made, incoming, image, package, pc, todo>>
    <2>1. \A p \in Proc : Task(p)' = Task(p)
      BY <1>4 DEF Task
    <2> QED BY <1>1, <1>4, <2>1 DEF WholeRecords, WholeProducts, WholeWork, StagedWhole, L
  <1> QED BY <1>2, <1>3, <1>4 DEF Next, vars, dir, products, Edit

-----------------------------------------------------------------------------
(* Variants *)

\* What writing the version does.
LEMMA VersionWritten ==
  ASSUME IInv, Alone, "shared" \notin excuse, NEW p \in Proc, WriteVersion(p)
  PROVE  /\ L'.version
         /\ L'.checksum = L.checksum /\ L'.variants = L.variants /\ L'.targets = L.targets
  <1>1. name # NoInode /\ fd[p] = name /\ Recorded(p) = lines[name] /\ lines[name] \in Lines
    BY AtWorkOnName DEF WriteVersion, AtWork, IInv, TypeOK
  <1>2. lines' = [lines EXCEPT ![name] = [lines[name] EXCEPT !.version = TRUE]] /\ name' = name
    BY <1>1 DEF WriteVersion, write_statefile
  <1> QED BY <1>1, <1>2 DEF L, Lines, IInv, TypeOK

\* A checksum that is there stays.
LEMMA ChecksumWritten ==
  ASSUME IInv, Alone, "shared" \notin excuse, NEW p \in Proc, WriteChecksum(p)
  PROVE  /\ L'.version = L.version /\ L'.variants = L.variants /\ L'.targets = L.targets
         /\ L'.checksum = IF L.checksum = NoSum THEN sees[p].sum ELSE L.checksum
  <1>1. name # NoInode /\ fd[p] = name /\ Recorded(p) = lines[name] /\ lines[name] \in Lines
    BY AtWorkOnName DEF WriteChecksum, AtWork, IInv, TypeOK
  <1>2. /\ lines' = [lines EXCEPT ![name] =
              [lines[name] EXCEPT !.checksum = IF @ = NoSum THEN sees[p].sum ELSE @]]
        /\ name' = name
    BY <1>1 DEF WriteChecksum, write_statefile
  <1> QED BY <1>1, <1>2 DEF L, Lines, IInv, TypeOK

\* Variants are written over others only where nothing is recorded.
LEMMA VariantsWritten ==
  ASSUME IInv, Alone, "shared" \notin excuse, NEW p \in Proc, check_variants(p)
  PROVE  \/ L' = L /\ Finishes(p)
         \/ /\ Fits(L, job[p].variants) /\ pc'[p] = "targets"
            /\ UNCHANGED <<job, sees, then, todo>>
            /\ \A q \in Proc : "shared" \notin excuse' /\ Active(q)
                                => job[q].variants = job[p].variants
            /\ L'.variants = job[p].variants
            /\ L'.version = L.version /\ L'.checksum = L.checksum /\ L'.targets = L.targets
  <1>1. name # NoInode /\ fd[p] = name /\ Recorded(p) = lines[name] /\ lines[name] \in Lines
    BY AtWorkOnName DEF check_variants, AtWork, IInv, TypeOK
  <1>2. name' = name
    BY DEF check_variants
  <1>3. CASE Finishes(p) /\ UNCHANGED lines
    BY <1>2, <1>3 DEF L
  <1>4. CASE ~(Finishes(p) /\ UNCHANGED lines)
    <2>1. /\ lines' = [lines EXCEPT ![name] = [lines[name] EXCEPT !.variants = job[p].variants]]
          /\ Fits(L, job[p].variants) /\ Goes(p, "targets")
          /\ UNCHANGED <<job, sees, then, todo>>
          /\ Excused("shared", \E q \in Proc : Active(q) /\ job[q].variants # job[p].variants)
      BY <1>1, <1>4 DEF check_variants, write_statefile, L
    <2>2. /\ L'.variants = job[p].variants
          /\ L'.version = L.version /\ L'.checksum = L.checksum /\ L'.targets = L.targets
      BY <1>1, <1>2, <2>1 DEF L, Lines, IInv, TypeOK
    <2>3. \A q \in Proc : "shared" \notin excuse' /\ Active(q) => job[q].variants = job[p].variants
      BY <2>1 DEF Excused
    <2> QED BY <2>1, <2>2, <2>3 DEF Goes, IInv, TypeOK
  <1> QED BY <1>3, <1>4

\* A state file that has gone has taken with it all that was made.
NothingLeft ==
  ~Because({"shared", "leftover"}) =>
     (name = NoInode => made = NoTrees \/ \E p \in Proc : pc[p] \in {"emptying", "cleaning"})

Of(tree, v) == \A r \in tree.of : r.variants = v

\* Whatever is there is of the variants in the state file.
VariantsThere ==
  name # NoInode =>
    /\ L.targets = {} => made = NoTrees
    /\ \A t \in Phase : Of(made[t], L.variants)

\* They are those that a process wants.
VariantsMeant(p) ==
  /\ (pc[p] = "targets" \/ Task(p) # "none") /\ pc[p] # "emptying" =>
       name # NoInode /\ L.variants = job[p].variants
  /\ pc[p] = "swap" => plus.variants = job[p].variants

VariantsInside(a, v) == a # NoArchive => a.state.variants = v /\ Of(a.tree, v)

VariantsKept ==
  /\ \A v \in Selection : VariantsInside(incoming[v], v) /\ VariantsInside(image[v], v)
  /\ package # NoPackage => Of(package.tree, package.variants)

NothingMixed == ~Because({"shared", "amid", "leftover"})

VariantsFit ==
  NothingMixed => VariantsThere /\ VariantsKept /\ \A p \in Proc : VariantsMeant(p)

\* Only a removal that is not finished leaves something without its state file.
LEMMA NothingLeftHolds ==
  ASSUME IInv, Alone, NothingLeft, [Next]_vars
  PROVE  NothingLeft'
  <1> SUFFICES ASSUME ~Because({"shared", "leftover"})', name' = NoInode
               PROVE  made' = NoTrees \/ \E p \in Proc : pc'[p] \in {"emptying", "cleaning"}
    BY DEF NothingLeft
  <1> USE DEF IInv
  <1>1. /\ "shared" \notin excuse /\ "shared" \notin excuse' /\ "leftover" \notin excuse'
        /\ name = NoInode => made = NoTrees \/ \E p \in Proc : pc[p] \in {"emptying", "cleaning"}
    BY ExcusesStay DEF NothingLeft, Because
  <1>2. ASSUME NEW p \in Proc, pc[p] # "idle", made' = made, name' = name,
               pc[p] \notin {"emptying", "cleaning"},
               \A o \in Proc \ {p} : pc'[o] = pc[o]
        PROVE  made' = NoTrees \/ \E o \in Proc : pc'[o] \in {"emptying", "cleaning"}
    BY <1>1, <1>2
  <1>3. ASSUME NEW p \in Proc, Step(p)
        PROVE  made' = NoTrees \/ \E o \in Proc : pc'[o] \in {"emptying", "cleaning"}
    <2>0. \A o \in Proc \ {p} : pc'[o] = pc[o]
      BY <1>3, OnlyOwn
    <2>1. CASE pc[p] \in AtWork
      <3>1. name # NoInode
        BY <1>1, <2>1, AtWorkOnName
      <3>2. name' = name
        BY <1>3, <2>1 DEF Step, Check, Unnames, Empties, OpenFile, Flock, WriteVersion,
           WriteChecksum,
           check_variants, eval_targets, NextTarget, Skipped, RecordTarget, Fetch, Make, Made,
           ArchiveFetch, Claim, SkipsUnarchive, Unpack, Unpacked, unarchive_finish, Reopened,
           install_main, Register, pkg_main, dir, AtWork
      <3> QED BY <3>1, <3>2
    <2>2. CASE Unnames(p)
      <3>1. pc'[p] \in {"emptying", "cleaning"}
        BY <2>2 DEF Unnames, Goes, TypeOK
      <3> QED BY <3>1
    <2>3. CASE Empties(p)
      BY <2>3 DEF Empties
    <2>4. CASE OpenFile(p)
      <3>1. Shape(p) /\ pc[p] = "open" /\ made' = made
        BY <2>4 DEF OpenFile
      <3>2. name' # NoInode
        <4>1. CASE name # NoInode
          BY <2>4, <4>1 DEF OpenFile
        <4>2. CASE name = NoInode
          BY <2>4, <3>1, <4>2, FreeExists DEF OpenFile, Named, Shape, AtWork
        <4> QED BY <4>1, <4>2
      <3> QED BY <3>2
    <2>5. CASE unarchive_finish(p)
      BY <2>5, FreeExists DEF unarchive_finish, Named, Shape, AtWork
    <2>6. CASE Check(p) \/ Flock(p) \/ eval_targets(p) \/ NextTarget(p)
      <3>1. pc[p] \in {"check", "flock", "targets", "next"}
        BY <2>6 DEF Check, Flock, eval_targets, NextTarget
      <3> QED BY <1>2, <2>0, <2>6, <3>1, OnlyLooks
    <2>7. CASE pc[p] \notin AtWork
      <3>1. \/ Check(p) \/ Unnames(p) \/ Empties(p) \/ OpenFile(p) \/ Flock(p) \/ eval_targets(p)
            \/ NextTarget(p) \/ unarchive_finish(p)
        BY <1>3, <2>7 DEF Step, WriteVersion, WriteChecksum,
           check_variants, Skipped, RecordTarget, Fetch, Make, Made,
           ArchiveFetch, Claim, SkipsUnarchive, Unpack, Unpacked, Reopened,
           install_main, Register, pkg_main, Due, AtWork
      <3> QED BY <3>1, <2>2, <2>3, <2>4, <2>5, <2>6
    <2> QED BY <2>1, <2>7
  <1>4. ASSUME NEW p \in Proc, Ends(p)
        PROVE  made' = NoTrees \/ \E o \in Proc : pc'[o] \in {"emptying", "cleaning"}
    <2>1. UNCHANGED <<name, made>> /\ \A o \in Proc \ {p} : pc'[o] = pc[o]
      BY <1>4, OnlyLooks, OnlyOwn
    <2>2. pc[p] \notin {"emptying", "cleaning"} /\ pc[p] # "idle"
      BY <1>1, <1>4 DEF Ends, Active
    <2> QED BY <1>2, <2>1, <2>2
  <1>5. ASSUME NEW p \in Proc, NEW v \in Selection, NEW goal \in Goal, Start(p, v, goal)
        PROVE  made' = NoTrees \/ \E o \in Proc : pc'[o] \in {"emptying", "cleaning"}
    <2>1. UNCHANGED <<name, made>> /\ \A o \in Proc \ {p} : pc'[o] = pc[o]
      BY <1>5, OnlyLooks, OnlyOwn
    <2>2. \A q \in Proc : pc[q] \notin {"emptying", "cleaning"}
      BY <1>1, <1>5 DEF Start, Excused
    <2> QED BY <1>1, <2>1, <2>2
  <1>6. CASE UNCHANGED <<name, made, pc>>
    BY <1>1, <1>6
  <1> QED BY <1>3, <1>4, <1>5, <1>6 DEF Next, vars, dir, Edit

\* While somebody else is at a target, the variants stay, or everybody means the
\* new ones.
LEMMA VariantsStay ==
  ASSUME IInv, Alone, NEW p \in Proc, Step(p), "shared" \notin excuse', Others(p),
         name # NoInode
  PROVE  \/ L'.variants = L.variants
         \/ L'.variants = job[p].variants
            /\ \A q \in Proc : Active(q) => job[q].variants = job[p].variants
  <1> USE DEF IInv
  <1>0. "shared" \notin excuse
    BY ExcusesStay DEF Next
  <1>1. CASE pc[p] \notin Busy
    BY <1>1, IdleHands DEF L
  <1>2. CASE unarchive_finish(p)
    BY <1>2 DEF unarchive_finish, Excused
  <1>3. CASE \/ Check(p) \/ Flock(p) \/ eval_targets(p) \/ NextTarget(p) \/ Skipped(p)
             \/ Fetch(p) \/ SkipsUnarchive(p) \/ Reopened(p)
    BY <1>3, OnlyLooks DEF L
  <1>4. CASE Unnames(p) \/ Empties(p) \/ OpenFile(p)
    BY <1>1, <1>4 DEF Unnames, Empties, OpenFile, Busy, AtWork
  <1>5. CASE WriteVersion(p) \/ WriteChecksum(p)
    BY <1>0, <1>5, VersionWritten, ChecksumWritten
  <1>6. CASE check_variants(p)
    BY <1>0, <1>6, VariantsWritten
  <1>7. CASE RecordTarget(p) \/ Claim(p)
    <2>1. L'.variants = L.variants
      BY <1>0, <1>7, TargetRecorded, TargetClaimed
    <2> QED BY <2>1
  <1>8. CASE Made(p) \/ Unpack(p) \/ Unpacked(p) \/ \E t \in Phase : Make(p, t)
    BY <1>8 DEF L, Made, Unpack, Unpacked, Make
  <1>9. CASE ArchiveFetch(p) \/ install_main(p) \/ Register(p) \/ pkg_main(p)
    BY <1>9 DEF L, dir, ArchiveFetch, install_main, Register, pkg_main
  <1> QED BY <1>2, <1>3, <1>4, <1>5, <1>6, <1>7, <1>8, <1>9 DEF Step

\* What others mean is not disturbed.
LEMMA OthersMeant ==
  ASSUME IInv, Alone, Calm, NEW p \in Proc, NEW o \in Proc, o # p, VariantsMeant(o),
         "shared" \notin excuse',
         \/ Step(p) \/ Ends(p) \/ \E v \in Selection, goal \in Goal : Start(p, v, goal)
  PROVE  VariantsMeant(o)'
  <1> USE DEF IInv
  <1>0. /\ pc'[o] = pc[o] /\ Task(o)' = Task(o) /\ job'[o] = job[o] /\ "shared" \notin excuse
        /\ Shape(o)
    BY OnlyOwn DEF Task, Calm, Because
  <1>1. CASE ~Step(p)
    <2>1. UNCHANGED <<name, lines, plus>>
      BY <1>1, OnlyLooks
    <2> QED BY <1>0, <2>1 DEF VariantsMeant, L
  <1>2. CASE pc[o] = "idle"
    <2>1. Task(o) = "none"
      BY <1>0, <1>2, NoTask
    <2> QED BY <1>0, <1>2, <2>1 DEF VariantsMeant
  <1>3. CASE Step(p) /\ pc[o] # "idle"
    <2>1. Others(p) /\ Active(o)
      BY <1>3 DEF Others, Active
    <2>2. ASSUME pc[o] = "targets" \/ Task(o) # "none", pc[o] # "emptying"
          PROVE  name' # NoInode /\ L'.variants = job[o].variants
      <3>1. name # NoInode /\ L.variants = job[o].variants
        BY <2>2 DEF VariantsMeant
      <3>2. name' = name
        BY <1>3, <2>1, <3>1, RecordsGrow
      <3>3. L'.variants = job[o].variants
        BY <1>3, <2>1, <3>1, VariantsStay
      <3> QED BY <3>1, <3>2, <3>3
    <2>3. pc[o] = "swap" => plus' = plus
      <3> SUFFICES ASSUME pc[o] = "swap" PROVE plus' = plus
        OBVIOUS
      <3>1. pc[p] \notin Busy
        BY <1>0 DEF Alone, Busy
      <3> QED BY <1>3, <2>1, <3>1, IdleHands
    <2> QED BY <1>0, <2>2, <2>3 DEF VariantsMeant
  <1> QED BY <1>1, <1>2, <1>3

\* A process at a target that relies on another finds that one recorded.
LEMMA SomethingRecorded ==
  ASSUME NEW p \in Proc, Progressed(p), Task(p) \in Later, pc[p] # "emptying"
  PROVE  L.targets # {}
  BY DEF Progressed

\* What a step leaves in the directory is of the variants that are recorded.
LEMMA StepVariantsThere ==
  ASSUME IInv, Alone, There, Calm, NothingLeft, NothingMixed, VariantsThere, VariantsKept,
         NEW p \in Proc, VariantsMeant(p), Step(p), Calm'
  PROVE  VariantsThere'
  <1> USE DEF IInv
  <1>0. /\ Underway(p) /\ Progressed(p) /\ Shape(p) /\ "shared" \notin excuse
        /\ "shared" \notin excuse'
    BY DEF There, Calm, Because
  <1>1. CASE UNCHANGED <<name, lines, made>>
    BY <1>1 DEF VariantsThere, L
  <1>2. CASE \/ Check(p) \/ Flock(p) \/ eval_targets(p) \/ NextTarget(p) \/ Skipped(p)
             \/ Fetch(p) \/ SkipsUnarchive(p) \/ Reopened(p)
    BY <1>1, <1>2, OnlyLooks
  <1>3. CASE ArchiveFetch(p) \/ install_main(p) \/ Register(p) \/ pkg_main(p)
    BY <1>1, <1>3 DEF ArchiveFetch, install_main, Register, pkg_main, dir
  <1>4. CASE Unnames(p) \/ Empties(p)
    BY <1>4 DEF Unnames, Empties, VariantsThere
  <1>5. CASE OpenFile(p)
    <2>1. CASE name # NoInode
      BY <1>1, <1>5, <2>1 DEF OpenFile
    <2>2. CASE name = NoInode
      <3>1. \A q \in Proc : pc[q] \notin {"emptying", "cleaning"}
        BY <1>0, <1>5 DEF OpenFile, Alone
      <3>2. made = NoTrees /\ made' = made
        BY <1>0, <1>5, <2>2, <3>1 DEF NothingLeft, NothingMixed, Because, OpenFile
      <3> QED BY <3>2 DEF VariantsThere, NoTrees, NoTree, Of, Phase
    <2> QED BY <2>1, <2>2
  <1>6. ASSUME name' = name, made' = made, L'.variants = L.variants, L.targets \subseteq L'.targets
        PROVE  VariantsThere'
    BY <1>6 DEF VariantsThere
  <1>7. CASE WriteVersion(p) \/ WriteChecksum(p)
    BY <1>0, <1>6, <1>7, LabelsOnly, VersionWritten, ChecksumWritten
  <1>8. CASE RecordTarget(p) \/ Claim(p)
    <2>1. L'.variants = L.variants
      BY <1>0, <1>8, TargetRecorded, TargetClaimed
    <2>2. name' = name /\ made' = made /\ L.targets \subseteq L'.targets
      BY <1>0, <1>8, TargetRecorded, TargetClaimed
    <2> QED BY <1>6, <2>1, <2>2
  <1>9. CASE check_variants(p)
    <2>1. name' = name /\ made' = made /\ L'.targets = L.targets /\ name # NoInode
      BY <1>0, <1>9, LabelsOnly
    <2>2. CASE L' = L
      BY <1>6, <2>1, <2>2
    <2>3. CASE Fits(L, job[p].variants) /\ L'.variants = job[p].variants
      <3>1. CASE L.targets = {}
        BY <2>1, <3>1 DEF VariantsThere, NoTrees, NoTree, Of, Phase
      <3>2. CASE L.targets # {}
        BY <1>6, <2>1, <2>3, <3>2 DEF Fits
      <3> QED BY <3>1, <3>2
    <2> QED BY <1>0, <1>9, <2>2, <2>3, VariantsWritten
  <1>10. ASSUME NEW t \in Phase, Make(p, t) PROVE VariantsThere'
    <2>1. name' = name /\ L' = L /\ pc[p] = "run" /\ Head(todo[p]) = t
      BY <1>10 DEF Make, Due, L
    <2>2. Task(p) = t
      BY <1>0, <2>1 DEF Shape, Tasks, Opening, Task, Target
    <2>3. name # NoInode /\ L.variants = job[p].variants
      BY <2>1, <2>2 DEF VariantsMeant, Phase
    <2>4. L.targets # {}
      BY <1>0, <2>1, <2>2, SomethingRecorded DEF Later, Phase
    <2>5. \A s \in Phase : Of(made[s], L.variants)
      BY <2>3 DEF VariantsThere
    <2>6. \A s \in Phase \ {t} : made'[s] = made[s]
      BY <1>10 DEF Make, TypeOK
    <2>7. made'[t].of \subseteq made[t].of \cup {RecipeOf(p)} \cup made["build"].of
      BY <1>10 DEF Make, TypeOK
    <2>8. Of(made'[t], L.variants)
      BY <2>3, <2>5, <2>7 DEF Of, RecipeOf, Phase
    <2> QED BY <2>1, <2>4, <2>5, <2>6, <2>8 DEF VariantsThere
  <1>11. CASE Made(p)
    <2>1. /\ name' = name /\ L' = L /\ pc[p] = "making"
          /\ Task(p) \in Phase /\ Head(todo[p]) = Task(p)
      BY <1>0, <1>11 DEF Made, L, Shape, Tasks, Opening, Task, Phase
    <2>2. name # NoInode /\ L.variants = job[p].variants
      BY <2>1 DEF VariantsMeant, Phase
    <2>3. L.targets # {}
      BY <1>0, <2>1, SomethingRecorded DEF Later, Phase
    <2>4. \A s \in Phase : Of(made[s], L.variants)
      BY <2>2 DEF VariantsThere
    <2>5. \A s \in Phase \ {Task(p)} : made'[s] = made[s]
      BY <1>11, <2>1 DEF Made, TypeOK
    <2>6. made'[Task(p)].of = made[Task(p)].of \cup {RecipeOf(p)}
      BY <1>11, <2>1 DEF Made, TypeOK
    <2>7. Of(made'[Task(p)], L.variants)
      BY <2>1, <2>2, <2>4, <2>6 DEF Of, RecipeOf
    <2> QED BY <2>1, <2>3, <2>4, <2>5, <2>7 DEF VariantsThere
  <1>12. CASE Unpack(p)
    <2>1. name' = name /\ L' = L /\ pc[p] = "run" /\ Head(todo[p]) = "unarchive"
      BY <1>12 DEF Unpack, Due, L
    <2>2. Task(p) = "unarchive"
      BY <1>0, <2>1 DEF Shape, Tasks, Opening, Task, Target
    <2>3. name # NoInode /\ L.variants = job[p].variants
      BY <2>1, <2>2 DEF VariantsMeant
    <2>4. L.targets # {}
      BY <1>0, <2>1, <2>2, SomethingRecorded DEF Later
    <2>5. \A s \in Phase : Of(made[s], L.variants)
      BY <2>3 DEF VariantsThere
    <2>6. Of(find_portarchive(p).tree, L.variants)
      BY <1>12, <2>3 DEF Unpack, find_portarchive, VariantsKept, VariantsInside, TypeOK
    <2>7. \A s \in Phase \ {"destroot"} : made'[s] = made[s]
      BY <1>12 DEF Unpack, TypeOK
    <2>8. made'["destroot"].of = made["destroot"].of \cup find_portarchive(p).tree.of
      BY <1>12 DEF Unpack, TypeOK, Phase
    <2>9. Of(made'["destroot"], L.variants)
      BY <2>5, <2>6, <2>8 DEF Of, Phase
    <2> QED BY <2>1, <2>4, <2>5, <2>7, <2>9 DEF VariantsThere
  <1>13. CASE Unpacked(p)
    <2>1. name' = name /\ L' = L /\ pc[p] = "unpacking"
      BY <1>13 DEF Unpacked, L
    <2>2. Task(p) = "unarchive"
      BY <1>0, <2>1 DEF Shape, Tasks, Opening
    <2>3. L.targets # {} /\ name # NoInode
      BY <1>0, <2>1, <2>2, SomethingRecorded DEF Later, Progressed
    <2>4. \A s \in Phase : made'[s].of = made[s].of
      BY <1>13 DEF Unpacked, TypeOK
    <2> QED BY <2>1, <2>3, <2>4 DEF VariantsThere, Of
  <1>14. CASE unarchive_finish(p)
    <2>1. fd[p] = NoInode /\ pc[p] = "swap" /\ Task(p) = "unarchive"
      BY <1>0, <1>14 DEF unarchive_finish, Shape, AtWork, Tasks, Opening
    <2>2. /\ lines' = [lines EXCEPT ![FreeInode] = plus] /\ name' = FreeInode /\ FreeInode \in Inode
          /\ made' = made
      BY <1>14, <2>1, FreeExists DEF unarchive_finish, Named
    <2>3. L' = plus
      BY <2>2 DEF L, TypeOK
    <2>4. "destroot" \in plus.targets /\ plus.variants = job[p].variants
          /\ name # NoInode /\ L.variants = job[p].variants
      BY <1>0, <2>1 DEF Underway, VariantsMeant
    <2> QED BY <2>2, <2>3, <2>4 DEF VariantsThere
  <1> QED BY <1>2, <1>3, <1>4, <1>5, <1>7, <1>8, <1>9, <1>10, <1>11, <1>12, <1>13, <1>14 DEF Step

\* What is recorded behind a step is what the process means.
LEMMA StepVariantsMeant ==
  ASSUME IInv, Alone, There, Calm, VariantsKept, NEW p \in Proc, VariantsMeant(p), Step(p), Calm'
  PROVE  VariantsMeant(p)'
  <1> USE DEF IInv
  <1>0. /\ Shape(p) /\ Shape(p)' /\ "shared" \notin excuse
        /\ "shared" \notin excuse' /\ "amid" \notin excuse'
    BY StepShape DEF Calm, Because
  <1> DEFINE at == (pc[p] = "targets" \/ Task(p) # "none") /\ pc[p] # "emptying"
  <1>1. ASSUME pc'[p] # "swap", at' => at,
               at => name' = name /\ L'.variants = L.variants /\ job'[p] = job[p]
        PROVE  VariantsMeant(p)'
    BY <1>1 DEF VariantsMeant
  <1>2. ASSUME pc'[p] # "swap", ~at'
        PROVE  VariantsMeant(p)'
    BY <1>2 DEF VariantsMeant
  <1>3. CASE Check(p) \/ Flock(p) \/ Fetch(p)
    <2>1. pc'[p] \notin {"swap", "targets"} /\ UNCHANGED <<todo, job>> /\ pc[p] # "emptying"
      BY <1>3 DEF Check, Flock, Fetch, Due, Goes, TypeOK
    <2> QED BY <1>1, <1>3, <2>1, OnlyLooks DEF Task, L
  <1>4. CASE eval_targets(p)
    <2>1. pc[p] = "targets" /\ pc'[p] = "next" /\ job' = job
      BY <1>4 DEF eval_targets, Goes, TypeOK
    <2> QED BY <1>1, <1>4, <2>1, OnlyLooks DEF L
  <1>5. CASE NextTarget(p)
    <2>1. CASE Finishes(p)
      <3>1. pc'[p] = "idle" /\ Task(p)' = "none"
        BY <2>1 DEF Finishes, Goes, TypeOK, Task
      <3> QED BY <1>2, <3>1
    <2>2. CASE ~Finishes(p)
      <3>1. pc'[p] \in {"check", "clean"} /\ UNCHANGED <<todo, job>> /\ pc[p] = "next"
        BY <1>5, <2>2 DEF NextTarget, Goes, Opens, TypeOK
      <3> QED BY <1>1, <1>5, <3>1, OnlyLooks DEF Task, L
    <2> QED BY <2>1, <2>2
  <1>6. CASE Skipped(p) \/ SkipsUnarchive(p) \/ Reopened(p)
    <2>1. pc'[p] = "next" /\ job' = job /\ pc[p] \in {"run", "reopened"}
      BY <1>6 DEF Skipped, SkipsUnarchive, Reopened, Due, Done, Goes, TypeOK
    <2>2. Task(p) # "none"
      BY <1>0, <2>1 DEF Shape, Tasks, Opening, Target
    <2> QED BY <1>1, <1>6, <2>1, <2>2, OnlyLooks DEF L
  <1>7. CASE RecordTarget(p)
    <2>1. pc'[p] = "next" /\ job' = job /\ pc[p] = "record"
      BY <1>7 DEF RecordTarget, Done, Goes, TypeOK
    <2>2. Task(p) # "none"
      BY <1>0, <2>1 DEF Shape, Tasks, Opening
    <2> QED BY <1>0, <1>1, <1>7, <2>1, <2>2, TargetRecorded
  <1>8. CASE Register(p) \/ pkg_main(p)
    <2>1. pc'[p] = "next" /\ job' = job /\ pc[p] \in {"run", "register"} /\ name' = name /\ L' = L
      BY <1>8 DEF Register, pkg_main, Due, Done, Goes, TypeOK, dir, L
    <2>2. Task(p) # "none"
      BY <1>0, <2>1 DEF Shape, Tasks, Opening, Target
    <2> QED BY <1>1, <2>1, <2>2
  <1>9. CASE Unnames(p)
    <2>1. pc'[p] \in {"emptying", "cleaning"}
      BY <1>9 DEF Unnames, Goes, TypeOK
    <2>2. pc'[p] = "cleaning" => Task(p)' = "none"
      BY <1>0 DEF Shape, Tasks, Opening
    <2> QED BY <1>2, <2>1, <2>2
  <1>10. CASE Empties(p)
    <2>1. pc'[p] \in {"idle", "open"} /\ Task(p)' = "none"
      <3>1. CASE pc[p] = "cleaning"
        BY <1>10, <3>1 DEF Empties, Finishes, Goes, TypeOK, Task
      <3>2. CASE pc[p] = "emptying"
        <4>1. then[p] = "variants" /\ todo'[p] = todo[p] /\ pc'[p] = "open"
          BY <1>0, <1>10, <3>2 DEF Empties, Goes, TypeOK
        <4> QED BY <1>0, <3>2, <4>1, NoTask DEF Task, Opening
      <3> QED BY <1>10, <3>1, <3>2 DEF Empties
    <2> QED BY <1>2, <2>1
  <1>11. CASE OpenFile(p)
    <2>1. pc[p] = "open" /\ pc'[p] = "flock" /\ UNCHANGED <<todo, job>>
      BY <1>11 DEF OpenFile, Goes, TypeOK
    <2>2. at => name # NoInode
      BY DEF VariantsMeant
    <2>3. name # NoInode => name' = name /\ L' = L
      BY <1>11 DEF OpenFile, L
    <2> QED BY <1>1, <2>1, <2>2, <2>3 DEF Task
  <1>12. CASE WriteVersion(p) \/ WriteChecksum(p)
    <2>1. pc'[p] \notin {"swap", "targets"} /\ UNCHANGED <<todo, job>>
          /\ pc[p] \in {"version", "checksum"}
      BY <1>12 DEF WriteVersion, WriteChecksum, Goes, TypeOK
    <2> QED BY <1>0, <1>1, <1>12, <2>1, LabelsOnly, VersionWritten, ChecksumWritten DEF Task
  <1>13. CASE check_variants(p)
    <2>1. CASE Finishes(p)
      <3>1. pc'[p] = "idle" /\ Task(p)' = "none"
        BY <2>1 DEF Finishes, Goes, TypeOK, Task
      <3> QED BY <1>2, <3>1
    <2>2. CASE ~Finishes(p)
      <3>1. pc'[p] = "targets" /\ L'.variants = job[p].variants /\ job' = job
        BY <1>0, <1>13, <2>2, VariantsWritten
      <3>2. name' # NoInode
        BY <1>0, <1>13, LabelsOnly
      <3> QED BY <3>1, <3>2 DEF VariantsMeant
    <2> QED BY <2>1, <2>2
  <1>14. CASE ArchiveFetch(p) \/ install_main(p)
    <2>1. /\ pc'[p] # "swap" /\ pc'[p] # "targets" /\ pc[p] # "emptying"
          /\ UNCHANGED <<todo, job>> /\ name' = name /\ L' = L
      BY <1>14 DEF ArchiveFetch, install_main, Due, Goes, TypeOK, dir, L
    <2> QED BY <1>1, <2>1 DEF Task
  <1>15. CASE Made(p) \/ Unpack(p) \/ \E t \in Phase : Make(p, t)
    <2>1. /\ pc'[p] # "swap" /\ pc'[p] # "targets" /\ pc[p] # "emptying"
          /\ UNCHANGED <<todo, job>> /\ name' = name /\ L' = L
      BY <1>15 DEF Made, Unpack, Make, Due, Goes, TypeOK, L
    <2> QED BY <1>1, <2>1 DEF Task
  <1>16. CASE Claim(p)
    <2>1. pc[p] = "claim" /\ job' = job
      BY <1>16 DEF Claim
    <2>2. /\ pc'[p] \in {"record", "claim"} /\ todo' = todo /\ name' = name
          /\ L'.variants = L.variants
      BY <1>0, <1>16, <2>1, TargetClaimed
    <2> QED BY <1>1, <2>1, <2>2 DEF Task
  <1>17. CASE Unpacked(p)
    <2>1. /\ pc[p] = "unpacking" /\ pc'[p] = "swap" /\ UNCHANGED <<todo, job>> /\ name' = name
          /\ L' = L /\ plus' = find_portarchive(p).state
      BY <1>17 DEF Unpacked, Goes, TypeOK, L
    <2>2. find_portarchive(p).state.variants = job[p].variants
      BY <1>17 DEF Unpacked, find_portarchive, VariantsKept, VariantsInside, TypeOK
    <2> QED BY <2>1, <2>2 DEF VariantsMeant, Task
  <1>18. CASE unarchive_finish(p)
    <2>1. fd[p] = NoInode /\ pc[p] = "swap" /\ pc'[p] = "check" /\ job' = job
      BY <1>0, <1>18 DEF unarchive_finish, Shape, AtWork, Opens, Goes, TypeOK
    <2>2. lines' = [lines EXCEPT ![FreeInode] = plus] /\ name' = FreeInode /\ FreeInode \in Inode
      BY <1>18, <2>1, FreeExists DEF unarchive_finish, Named
    <2>3. L' = plus /\ name' # NoInode
      BY <2>2 DEF L, TypeOK
    <2> QED BY <2>1, <2>3 DEF VariantsMeant
  <1> HIDE DEF at
  <1> QED BY <1>3, <1>4, <1>5, <1>6, <1>7, <1>8, <1>9, <1>10, <1>11, <1>12, <1>13, <1>14, <1>15,
             <1>16, <1>17, <1>18 DEF Step

\* What a step brings, installs or packages is of the variants that it is for.
LEMMA StepVariantsKept ==
  ASSUME IInv, Alone, "shared" \notin excuse, VariantsThere, VariantsKept,
         NEW p \in Proc, VariantsMeant(p), Step(p)
  PROVE  VariantsKept'
  <1> USE DEF IInv
  <1>0. Shape(p)
    OBVIOUS
  <1>1. CASE UNCHANGED <<incoming, image, package>>
    BY <1>1 DEF VariantsKept
  <1> DEFINE v == job[p].variants
  <1>2. CASE ArchiveFetch(p)
    <2>1. image' = image /\ package' = package
      BY <1>2 DEF ArchiveFetch
    <2>2. CASE UNCHANGED incoming
      BY <1>1, <2>1, <2>2
    <2>3. CASE ~UNCHANGED incoming
      <3>1. PICK sum \in {portfile, Elsewhere} : incoming' = [incoming EXCEPT ![v] = Fetched(v, sum)]
        BY <1>2, <2>3 DEF ArchiveFetch
      <3>2. VariantsInside(Fetched(v, sum), v)
        BY DEF VariantsInside, Fetched, Of
      <3>3. \A u \in Selection :
              incoming'[u] = incoming[u] \/ (incoming'[u] = Fetched(v, sum) /\ u = v)
        BY <3>1 DEF TypeOK
      <3> QED BY <2>1, <3>2, <3>3 DEF VariantsKept
    <2> QED BY <2>2, <2>3
  <1>3. ASSUME pc[p] = "run", Head(todo[p]) \in {"install", "pkg"}
        PROVE  L.variants = v /\ Of(made["destroot"], v)
    <2>1. Task(p) # "none"
      BY <1>0, <1>3 DEF Shape, Tasks, Opening, Target
    <2> QED BY <1>3, <2>1 DEF VariantsMeant, VariantsThere, Phase
  <1>4. CASE install_main(p)
    <2> DEFINE a == [tree |-> made["destroot"], state |-> lines[name], by |-> job[p].portfile]
    <2>0. package' = package
      BY <1>4 DEF install_main
    <2>1. CASE incoming[v] # NoArchive
      <3>1. /\ image' = [image EXCEPT ![v] = incoming[v]]
            /\ incoming' = [incoming EXCEPT ![v] = NoArchive]
        BY <1>4, <2>1 DEF install_main
      <3>2. /\ \A u \in Selection : image'[u] = image[u] \/ (image'[u] = incoming[u])
            /\ \A u \in Selection : incoming'[u] = incoming[u] \/ incoming'[u] = NoArchive
        BY <3>1 DEF TypeOK
      <3> QED BY <2>0, <3>2 DEF VariantsKept, VariantsInside
    <2>2. CASE incoming[v] = NoArchive
      <3>1. /\ image' = [image EXCEPT ![v] = a] /\ incoming' = incoming
            /\ pc[p] = "run" /\ Head(todo[p]) = "install"
        BY <1>4, <2>2 DEF install_main, Due
      <3>2. VariantsInside(a, v)
        BY <1>3, <3>1 DEF VariantsInside, L
      <3> HIDE DEF a
      <3>3. \A u \in Selection : image'[u] = image[u] \/ (image'[u] = a /\ u = v)
        BY <3>1 DEF TypeOK
      <3> QED BY <2>0, <3>1, <3>2, <3>3 DEF VariantsKept
    <2> QED BY <2>1, <2>2
  <1>5. CASE pkg_main(p)
    <2>1. /\ incoming' = incoming /\ image' = image
          /\ package'.tree = made["destroot"] /\ package'.variants = v
          /\ pc[p] = "run" /\ Head(todo[p]) = "pkg"
      BY <1>5 DEF pkg_main, Due
    <2> QED BY <1>3, <2>1 DEF VariantsKept
  <1>6. CASE \/ Check(p) \/ Flock(p) \/ eval_targets(p) \/ NextTarget(p) \/ Skipped(p)
             \/ Fetch(p) \/ SkipsUnarchive(p) \/ Reopened(p)
    BY <1>1, <1>6, OnlyLooks
  <1>7. CASE \/ Unnames(p) \/ OpenFile(p) \/ WriteVersion(p) \/ WriteChecksum(p)
             \/ check_variants(p) \/ RecordTarget(p) \/ Claim(p) \/ unarchive_finish(p)
    BY <1>1, <1>7 DEF Unnames, OpenFile, WriteVersion, WriteChecksum, check_variants,
       RecordTarget,
       Claim, unarchive_finish, products
  <1>8. CASE \/ Empties(p) \/ Made(p) \/ Unpack(p) \/ Unpacked(p) \/ Register(p)
             \/ \E t \in Phase : Make(p, t)
    BY <1>1, <1>8 DEF Empties, Made, Unpack, Unpacked, Register, Make, products
  <1> QED BY <1>2, <1>4, <1>5, <1>6, <1>7, <1>8 DEF Step

\* What is there, meant and kept is of the same variants.
LEMMA VariantsFitHolds ==
  ASSUME IInv, Alone, There, NothingLeft, VariantsFit, [Next]_vars
  PROVE  VariantsFit'
  <1> SUFFICES ASSUME NothingMixed'
               PROVE  VariantsThere' /\ VariantsKept' /\ \A p \in Proc : VariantsMeant(p)'
    BY DEF VariantsFit
  <1>1. /\ NothingMixed /\ Calm /\ Calm' /\ "shared" \notin excuse /\ "shared" \notin excuse'
        /\ VariantsThere /\ VariantsKept /\ \A p \in Proc : VariantsMeant(p)
    BY ExcusesStay DEF VariantsFit, NothingMixed, Calm, Because
  <1>2. ASSUME NEW p \in Proc, Step(p)
        PROVE  VariantsThere' /\ VariantsKept' /\ \A o \in Proc : VariantsMeant(o)'
    <2>1. \A o \in Proc \ {p} : VariantsMeant(o)'
      BY <1>1, <1>2, OthersMeant
    <2>2. VariantsMeant(p)'
      BY <1>1, <1>2, StepVariantsMeant
    <2>3. VariantsThere'
      BY <1>1, <1>2, StepVariantsThere
    <2>4. VariantsKept'
      BY <1>1, <1>2, StepVariantsKept
    <2> QED BY <2>1, <2>2, <2>3, <2>4
  <1>3. ASSUME NEW p \in Proc, Ends(p) \/ \E v \in Selection, goal \in Goal : Start(p, v, goal)
        PROVE  VariantsThere' /\ VariantsKept' /\ \A o \in Proc : VariantsMeant(o)'
    <2>1. \A o \in Proc \ {p} : VariantsMeant(o)'
      BY <1>1, <1>3, OthersMeant
    <2>2. UNCHANGED <<name, lines, made, incoming, image, package>>
      BY <1>3, OnlyLooks
    <2>3. pc'[p] \in {"idle", "clean", "check"} /\ Task(p)' = "none"
      <3>1. CASE Ends(p)
        BY <3>1 DEF Ends, Finishes, Goes, IInv, TypeOK, Task
      <3>2. ASSUME NEW v \in Selection, NEW goal \in Goal, Start(p, v, goal)
            PROVE  pc'[p] \in {"idle", "clean", "check"} /\ Task(p)' = "none"
        <4>1. Task(p) = "none" /\ Task(p)' = Task(p)
          BY <3>2, NoTask DEF Start, IInv, Task
        <4> QED BY <3>2, <4>1 DEF Start, Goes, Opens, IInv, TypeOK
      <3> QED BY <1>3, <3>1, <3>2
    <2>4. VariantsMeant(p)'
      BY <2>3 DEF VariantsMeant
    <2> QED BY <1>1, <2>1, <2>2, <2>4 DEF VariantsThere, VariantsKept, L
  <1>4. CASE UNCHANGED <<name, lines, made, plus, incoming, image, package, pc, job, todo>>
    <2>1. \A p \in Proc : Task(p)' = Task(p)
      BY <1>4 DEF Task
    <2> QED BY <1>1, <1>4, <2>1 DEF VariantsThere, VariantsKept, VariantsMeant, L
  <1> QED BY <1>2, <1>3, <1>4 DEF Next, vars, dir, products, Edit

-----------------------------------------------------------------------------
(* Portfiles *)

UpToDate == L.version /\ L.checksum = portfile

From(tree, f) == \A r \in tree.of : r.portfile \in {f, Elsewhere}

\* While a process is at a target, the state file is of the Portfile that it has
\* read.
PortfileMeant(p) ==
  /\ Active(p) => job[p].portfile = portfile
  /\ pc[p] \in Opening \ {"check"} => sees[p].sum = portfile
  /\ sees[p].fresh /\ pc[p] \in {"open", "flock", "version", "checksum"} /\ name # NoInode =>
       L.checksum \in {NoSum, portfile}
  /\ pc[p] \in {"checksum", "variants"} => L.version
  /\ ~sees[p].fresh /\ pc[p] \in {"open", "flock"} /\ then[p] # "variants" =>
       name # NoInode /\ UpToDate
  /\ pc[p] \in Working \cup {"swap"} => name # NoInode /\ UpToDate
  /\ pc[p] \in {"targets", "next"} \/ (pc[p] = "check" /\ then[p] # "variants") =>
       name # NoInode /\ L.version

\* An archive is unpacked where nothing was.
PortfileUnpacked(p) ==
  /\ pc[p] = "unpacking" =>
       /\ find_portarchive(p) # NoArchive
       /\ made["build"] = NoTree /\ made["destroot"].of = find_portarchive(p).tree.of
  /\ pc[p] = "swap" =>
       made["build"] = NoTree /\ plus.version /\ From(made["destroot"], plus.checksum)

PortfileThere ==
  name # NoInode /\ (\A p \in Proc : pc[p] \notin {"unpacking", "swap"}) =>
    \A t \in Phase : From(made[t], L.checksum)

PortfileInside(a) ==
  a # NoArchive => a.state.version /\ From(a.tree, a.by) /\ From(a.tree, a.state.checksum)

PortfileKept ==
  /\ \A v \in Selection : PortfileInside(incoming[v]) /\ PortfileInside(image[v])
  /\ package # NoPackage => From(package.tree, package.by)

OnePortfile == ~Because({"shared", "headless", "leftover", "mixed"})

PortfilesFit ==
  OnePortfile =>
    PortfileThere /\ PortfileKept /\ \A p \in Proc : PortfileMeant(p) /\ PortfileUnpacked(p)

\* What others have read is not disturbed.
LEMMA OthersPortfile ==
  ASSUME IInv, Alone, "shared" \notin excuse, "shared" \notin excuse',
         NEW p \in Proc, NEW o \in Proc, o # p, PortfileMeant(p), PortfileMeant(o),
         \/ Step(p) \/ Ends(p) \/ \E v \in Selection, goal \in Goal : Start(p, v, goal)
  PROVE  PortfileMeant(o)'
  <1> USE DEF IInv
  <1>0. /\ pc'[o] = pc[o] /\ job'[o] = job[o] /\ sees'[o] = sees[o] /\ then'[o] = then[o]
        /\ Shape(o)
    BY OnlyOwn
  <1>1. CASE UNCHANGED <<name, portfile>> /\ L'.version = L.version /\ L'.checksum = L.checksum
    BY <1>0, <1>1 DEF PortfileMeant, Active, UpToDate
  <1>2. CASE ~Step(p)
    BY <1>1, <1>2, OnlyLooks DEF L
  <1>3. CASE pc[o] = "idle"
    BY <1>0, <1>3 DEF PortfileMeant, Active, Opening, Working
  <1>4. CASE Step(p) /\ pc[o] # "idle"
    <2>1. Others(p)
      BY <1>4 DEF Others, Active
    <2>2. CASE Unnames(p) \/ Empties(p) \/ unarchive_finish(p)
      BY <2>1, <2>2 DEF Unnames, Empties, unarchive_finish, Excused
    <2>3. CASE \/ Check(p) \/ Flock(p) \/ eval_targets(p) \/ NextTarget(p) \/ Skipped(p) \/ Fetch(p)
               \/ SkipsUnarchive(p) \/ Reopened(p)
      BY <1>1, <2>3, OnlyLooks DEF L
    <2>4. CASE \/ ArchiveFetch(p) \/ install_main(p) \/ Register(p) \/ pkg_main(p) \/ Made(p)
               \/ Unpack(p) \/ Unpacked(p) \/ \E t \in Phase : Make(p, t)
      BY <1>1, <2>4 DEF ArchiveFetch, install_main, Register, pkg_main, Made, Unpack, Unpacked,
         Make,
         dir, L
    <2>5. CASE RecordTarget(p) \/ Claim(p)
      BY <1>1, <2>5, TargetRecorded, TargetClaimed
    <2>6. CASE check_variants(p)
      BY <1>1, <2>6, LabelsOnly, VariantsWritten
    <2>7. CASE OpenFile(p)
      <3>0. portfile' = portfile
        BY <2>7 DEF OpenFile
      <3>1. CASE name # NoInode
        BY <1>1, <2>7, <3>0, <3>1 DEF OpenFile, L
      <3>2. CASE name = NoInode
        <4>1. fd[p] = NoInode
          BY <2>7 DEF OpenFile, Shape, AtWork
        <4>2. lines' = [lines EXCEPT ![FreeInode] = NoLines] /\ name' = FreeInode
              /\ FreeInode \in Inode
          BY <2>7, <3>2, <4>1, FreeExists DEF OpenFile, Named
        <4>3. L'.checksum = NoSum
          BY <4>2 DEF L, TypeOK, NoLines
        <4>4. pc[o] \notin AtWork
          BY <3>2, AtWorkOnName
        <4>5. pc[o] \notin Working \cup {"swap", "targets", "next", "checksum", "variants"}
          BY <3>2, <4>4 DEF PortfileMeant, AtWork, Working
        <4> QED BY <1>0, <3>0, <3>2, <4>3, <4>5 DEF PortfileMeant, Active, UpToDate
      <3> QED BY <3>1, <3>2
    <2>8. CASE WriteVersion(p)
      <3>1. /\ pc[p] = "version" /\ UNCHANGED <<name, portfile>> /\ L'.version
            /\ L'.checksum = L.checksum
        BY <2>8, VersionWritten DEF WriteVersion
      <3> QED BY <1>0, <3>1 DEF PortfileMeant, Active, UpToDate
    <2>9. CASE WriteChecksum(p)
      <3>1. /\ pc[p] = "checksum" /\ UNCHANGED <<name, portfile>> /\ L'.version = L.version
            /\ L'.checksum = IF L.checksum = NoSum THEN sees[p].sum ELSE L.checksum
        BY <2>9, ChecksumWritten DEF WriteChecksum
      <3>2. sees[p].sum = portfile
        BY <3>1 DEF PortfileMeant, Opening
      <3>3. portfile # NoSum
        BY DEF TypeOK
      <3> QED BY <1>0, <3>1, <3>2, <3>3 DEF PortfileMeant, Active, UpToDate
    <2> QED BY <1>4, <2>2, <2>3, <2>4, <2>5, <2>6, <2>7, <2>8, <2>9 DEF Step
  <1> QED BY <1>2, <1>3, <1>4

\* Nor is what they unpack.
LEMMA OthersUnpacked ==
  ASSUME IInv, Alone, "shared" \notin excuse, "shared" \notin excuse',
         NEW p \in Proc, NEW o \in Proc, o # p, PortfileUnpacked(o),
         \/ Step(p) \/ Ends(p) \/ \E v \in Selection, goal \in Goal : Start(p, v, goal)
  PROVE  PortfileUnpacked(o)'
  <1> USE DEF IInv
  <1>0. pc'[o] = pc[o] /\ job'[o] = job[o]
    BY OnlyOwn
  <1>1. CASE UNCHANGED <<made, plus, incoming, image, registered>>
    <2>1. find_portarchive(o)' = find_portarchive(o)
      BY <1>0, <1>1 DEF find_portarchive
    <2> QED BY <1>0, <1>1, <2>1 DEF PortfileUnpacked
  <1>2. CASE ~Step(p)
    BY <1>1, <1>2, OnlyLooks
  <1>3. CASE pc[o] \notin {"unpacking", "swap"}
    BY <1>0, <1>3 DEF PortfileUnpacked
  <1>4. CASE Step(p) /\ pc[o] \in {"unpacking", "swap"}
    <2>1. Others(p)
      BY <1>4 DEF Others, Active
    <2>2. pc[p] \notin Busy
      BY <1>4 DEF Alone, Busy, AtWork
    <2> QED BY <1>1, <1>4, <2>1, <2>2, IdleHands
  <1> QED BY <1>2, <1>3, <1>4

\* What a process reads and records is of one Portfile.
LEMMA StepPortfileMeant ==
  ASSUME IInv, Alone, "shared" \notin excuse, OnePortfile', NEW p \in Proc,
         PortfileMeant(p), PortfileUnpacked(p), Step(p)
  PROVE  PortfileMeant(p)'
  <1> USE DEF IInv
  <1>0. /\ Shape(p) /\ Shape(p)' /\ portfile # NoSum
        /\ "shared" \notin excuse' /\ "headless" \notin excuse'
    BY StepShape DEF OnePortfile, Because, TypeOK
  <1>1. portfile' = portfile
    BY DEF Step, Check, Unnames, Empties, OpenFile, Flock, WriteVersion, WriteChecksum,
       check_variants, eval_targets, NextTarget, Skipped, RecordTarget, Fetch, Make, Made,
       ArchiveFetch, Claim, SkipsUnarchive, Unpack, Unpacked, unarchive_finish, Reopened,
       install_main, Register, pkg_main
  <1>2. ASSUME pc'[p] \in {"idle", "clean", "cleaning"}, Active(p), job'[p] = job[p] \/ pc'[p] = "idle"
        PROVE  PortfileMeant(p)'
    BY <1>1, <1>2 DEF PortfileMeant, Active, Opening, Working
  <1>3. ASSUME pc'[p] \in {"next", "targets"}, Active(p), job'[p] = job[p], name' = name,
               name # NoInode, L'.version
        PROVE  PortfileMeant(p)'
    BY <1>1, <1>3 DEF PortfileMeant, Active, Opening, Working
  <1>4. ASSUME pc'[p] \in Working \cup {"swap"}, Active(p), job'[p] = job[p], name' = name,
               name # NoInode, L'.version, L'.checksum = portfile
        PROVE  PortfileMeant(p)'
    BY <1>1, <1>4 DEF PortfileMeant, Active, Opening, Working, UpToDate
  <1>5. CASE Check(p)
    <2>1. /\ pc[p] = "check" /\ name' = name /\ L' = L /\ job' = job /\ then' = then
          /\ sees'[p].sum = portfile
          /\ sees'[p].fresh = (name = NoInode \/ (name # NoInode /\ PortfileChanged))
          /\ pc'[p] = IF name # NoInode /\ PortfileChanged THEN "discard" ELSE "open"
      BY <1>5 DEF Check, Goes, TypeOK, dir, L
    <2>2. CASE pc'[p] = "discard"
      BY <1>1, <2>1, <2>2 DEF PortfileMeant, Active, Working
    <2>3. CASE pc'[p] = "open"
      <3>1. sees'[p].fresh <=> name = NoInode
        BY <2>1, <2>3
      <3>2. ~sees'[p].fresh /\ then[p] # "variants" => UpToDate
        BY <2>1, <2>3, <3>1 DEF PortfileMeant, PortfileChanged, UpToDate, L
      <3> QED BY <1>1, <2>1, <2>3, <3>1, <3>2 DEF PortfileMeant, Active, Working, UpToDate
    <2> QED BY <2>1, <2>2, <2>3
  <1>6. CASE Unnames(p)
    <2>1. pc[p] \in {"discard", "clean"} /\ job' = job /\ sees' = sees
          /\ pc'[p] = IF pc[p] = "clean" THEN "cleaning" ELSE "emptying"
      BY <1>6 DEF Unnames, Goes, TypeOK
    <2> QED BY <1>1, <1>2, <2>1 DEF PortfileMeant, Active, Opening, Working
  <1>7. CASE Empties(p)
    <2>1. CASE pc[p] = "cleaning"
      BY <1>2, <1>7, <2>1 DEF Empties, Finishes, Goes, TypeOK, Active
    <2>2. CASE pc[p] = "emptying"
      <3>1. pc'[p] = "open" /\ job' = job /\ sees' = sees /\ name' = NoInode
        BY <1>7, <2>2 DEF Empties, Goes, TypeOK
      <3>2. sees[p].fresh
        BY <1>0, <2>2 DEF Shape
      <3> QED BY <1>1, <2>2, <3>1, <3>2 DEF PortfileMeant, Active, Opening, Working
    <2> QED BY <1>7, <2>1, <2>2 DEF Empties
  <1>8. CASE OpenFile(p)
    <2>1. pc[p] = "open" /\ pc'[p] = "flock" /\ job' = job /\ sees' = sees /\ then' = then
      BY <1>8 DEF OpenFile, Goes, TypeOK
    <2>2. CASE name # NoInode
      <3>1. name' = name /\ L' = L
        BY <1>8, <2>2 DEF OpenFile, L
      <3> QED BY <1>1, <2>1, <3>1 DEF PortfileMeant, Active, Opening, Working, UpToDate
    <2>3. CASE name = NoInode
      <3>1. fd[p] = NoInode
        BY <1>0, <2>1 DEF Shape, AtWork
      <3>2. lines' = [lines EXCEPT ![FreeInode] = NoLines] /\ name' = FreeInode
            /\ FreeInode \in Inode
        BY <1>8, <2>3, <3>1, FreeExists DEF OpenFile, Named
      <3>3. L'.checksum = NoSum
        BY <3>2 DEF L, TypeOK, NoLines
      <3>4. sees[p].fresh \/ then[p] = "variants"
        BY <2>1, <2>3 DEF PortfileMeant
      <3> QED BY <1>1, <2>1, <3>3, <3>4 DEF PortfileMeant, Active, Opening, Working
    <2> QED BY <2>2, <2>3
  <1>9. CASE Flock(p)
    <2>1. /\ pc[p] = "flock" /\ name' = name /\ L' = L /\ job' = job /\ sees' = sees
          /\ pc'[p] = IF sees[p].fresh THEN "version" ELSE then[p]
      BY <1>9 DEF Flock, Goes, TypeOK, dir, L
    <2>2. fd[p] = name /\ name # NoInode
      BY <1>0, <2>1 DEF Shape, Alone
    <2>3. CASE sees[p].fresh
      BY <1>1, <2>1, <2>3 DEF PortfileMeant, Active, Opening, Working
    <2>4. CASE ~sees[p].fresh /\ then[p] = "variants"
      <3>1. L.version
        BY <1>0, <1>9, <2>2, <2>4 DEF Flock, Recorded, L
      <3> QED BY <1>1, <2>1, <2>4, <3>1 DEF PortfileMeant, Active, Opening, Working
    <2>5. CASE ~sees[p].fresh /\ then[p] # "variants"
      <3>1. pc'[p] \in Working
        BY <2>1, <2>5 DEF TypeOK, Working
      <3>2. UpToDate
        BY <2>1, <2>5 DEF PortfileMeant
      <3> QED BY <1>4, <2>1, <2>2, <3>1, <3>2 DEF UpToDate, Active
    <2> QED BY <2>3, <2>4, <2>5
  <1>10. CASE WriteVersion(p)
    <2>1. pc[p] = "version" /\ pc'[p] = "checksum" /\ UNCHANGED <<name, job, sees>>
      BY <1>10 DEF WriteVersion, Goes, TypeOK
    <2>2. L'.version /\ L'.checksum = L.checksum /\ name # NoInode
      BY <1>0, <1>10, VersionWritten, LabelsOnly
    <2>3. sees[p].fresh
      BY <1>0, <2>1 DEF Shape
    <2> QED BY <1>1, <2>1, <2>2, <2>3 DEF PortfileMeant, Active, Opening, Working
  <1>11. CASE WriteChecksum(p)
    <2>1. pc[p] = "checksum" /\ pc'[p] = then[p] /\ UNCHANGED <<name, job>>
      BY <1>11 DEF WriteChecksum, Goes, TypeOK
    <2>2. /\ L'.version = L.version /\ name # NoInode
          /\ L'.checksum = IF L.checksum = NoSum THEN sees[p].sum ELSE L.checksum
      BY <1>0, <1>11, ChecksumWritten, LabelsOnly
    <2>3. sees[p].fresh
      BY <1>0, <2>1 DEF Shape
    <2>4. L'.version /\ L'.checksum = portfile
      BY <2>1, <2>2, <2>3 DEF PortfileMeant, Opening
    <2>5. CASE then[p] = "variants"
      BY <1>1, <2>1, <2>4, <2>5 DEF PortfileMeant, Active, Opening, Working
    <2>6. CASE then[p] # "variants"
      <3>1. pc'[p] \in Working
        BY <2>1, <2>6 DEF TypeOK, Working
      <3> QED BY <1>4, <2>1, <2>2, <2>4, <3>1 DEF Active
    <2> QED BY <2>5, <2>6
  <1>12. CASE check_variants(p)
    <2>1. pc[p] = "variants" /\ name' = name /\ name # NoInode
      BY <1>0, <1>12, LabelsOnly DEF check_variants
    <2>2. CASE Finishes(p)
      BY <1>2, <2>1, <2>2 DEF Finishes, Goes, TypeOK, Active
    <2>3. CASE ~Finishes(p)
      BY <1>0, <1>3, <1>12, <2>1, <2>3, VariantsWritten DEF PortfileMeant, Active
    <2> QED BY <2>2, <2>3
  <1>13. CASE eval_targets(p)
    <2>1. pc[p] = "targets" /\ pc'[p] = "next" /\ name' = name /\ L' = L /\ job' = job
      BY <1>13 DEF eval_targets, Goes, TypeOK, dir, L
    <2> QED BY <1>3, <2>1 DEF PortfileMeant, Active
  <1>14. CASE NextTarget(p)
    <2>1. pc[p] = "next" /\ name' = name /\ L' = L
      BY <1>14 DEF NextTarget, dir, L
    <2>2. CASE Finishes(p)
      BY <1>2, <2>1, <2>2 DEF Finishes, Goes, TypeOK, Active
    <2>3. CASE ~Finishes(p)
      <3>1. pc'[p] \in {"check", "clean"} /\ job' = job
        BY <1>14, <2>3 DEF NextTarget, Goes, Opens, TypeOK
      <3> QED BY <1>1, <2>1, <3>1 DEF PortfileMeant, Active, Opening, Working
    <2> QED BY <2>2, <2>3
  <1>15. CASE Skipped(p) \/ SkipsUnarchive(p) \/ Reopened(p) \/ Register(p) \/ pkg_main(p)
    <2>1. pc[p] \in {"run", "reopened", "register"} /\ pc'[p] = "next" /\ name' = name /\ L' = L
          /\ job' = job
      BY <1>15 DEF Skipped, SkipsUnarchive, Reopened, Register, pkg_main, Due, Done, Goes,
         TypeOK, dir, L
    <2> QED BY <1>3, <2>1 DEF PortfileMeant, Active, Working, UpToDate
  <1>16. CASE RecordTarget(p)
    <2>1. pc[p] = "record" /\ pc'[p] = "next" /\ job' = job
      BY <1>16 DEF RecordTarget, Done, Goes, TypeOK
    <2> QED BY <1>0, <1>3, <1>16, <2>1, TargetRecorded DEF PortfileMeant, Active, Working,
       UpToDate
  <1>17. CASE Claim(p)
    <2>1. pc[p] = "claim" /\ job' = job
      BY <1>17 DEF Claim
    <2>2. /\ pc'[p] \in {"record", "claim"} /\ name # NoInode /\ name' = name
          /\ L'.version = L.version /\ L'.checksum = L.checksum
      BY <1>0, <1>17, <2>1, TargetClaimed
    <2> QED BY <1>4, <2>1, <2>2 DEF PortfileMeant, Active, Working, UpToDate
  <1>18. CASE Fetch(p) \/ ArchiveFetch(p) \/ install_main(p)
    <2>1. pc[p] = "run" /\ pc'[p] \in Working /\ name' = name /\ L' = L /\ job' = job
      BY <1>18 DEF Fetch, ArchiveFetch, install_main, Due, Goes, TypeOK, dir, L, Working
    <2> QED BY <1>4, <2>1 DEF PortfileMeant, Active, Working, UpToDate
  <1>19. CASE Made(p) \/ Unpack(p) \/ Unpacked(p) \/ \E t \in Phase : Make(p, t)
    <2>1. /\ pc[p] \in {"run", "making", "unpacking"} /\ pc'[p] \in Working \cup {"swap"}
          /\ name' = name /\ L' = L /\ job' = job
      BY <1>19 DEF Made, Unpack, Unpacked, Make, Due, Goes, TypeOK, L, Working
    <2> QED BY <1>4, <2>1 DEF PortfileMeant, Active, Working, UpToDate
  <1>20. CASE unarchive_finish(p)
    <2>1. fd[p] = NoInode /\ pc[p] = "swap" /\ pc'[p] = "check" /\ job' = job
      BY <1>0, <1>20 DEF unarchive_finish, Shape, AtWork, Opens, Goes, TypeOK
    <2>2. lines' = [lines EXCEPT ![FreeInode] = plus] /\ name' = FreeInode /\ FreeInode \in Inode
      BY <1>20, <2>1, FreeExists DEF unarchive_finish, Named
    <2>3. L' = plus /\ name' # NoInode /\ plus.version
      BY <2>1, <2>2 DEF L, TypeOK, PortfileUnpacked
    <2> QED BY <1>1, <2>1, <2>3 DEF PortfileMeant, Active, Opening, Working
  <1> QED BY <1>5, <1>6, <1>7, <1>8, <1>9, <1>10, <1>11, <1>12, <1>13, <1>14, <1>15, <1>16, <1>17,
             <1>18, <1>19, <1>20 DEF Step

\* What a process unpacks it unpacks where nothing was.
LEMMA StepPortfileUnpacked ==
  ASSUME IInv, Alone, "shared" \notin excuse, OnePortfile', PortfileKept, NEW p \in Proc,
         PortfileUnpacked(p), Step(p)
  PROVE  PortfileUnpacked(p)'
  <1> USE DEF IInv
  <1>1. CASE Unpack(p)
    <2>1. made = NoTrees
      BY <1>1 DEF Unpack, Excused, OnePortfile, Because
    <2>2. /\ made'["build"] = NoTree
          /\ made'["destroot"].of = find_portarchive(p).tree.of
      BY <1>1, <2>1 DEF Unpack, TypeOK, Phase, NoTrees, NoTree
    <2>3. /\ find_portarchive(p)' = find_portarchive(p) /\ pc'[p] = "unpacking"
          /\ find_portarchive(p) # NoArchive
      BY <1>1 DEF Unpack, find_portarchive, products, Goes, TypeOK
    <2> QED BY <2>2, <2>3 DEF PortfileUnpacked
  <1>2. CASE Unpacked(p)
    <2>1. /\ find_portarchive(p) # NoArchive /\ made["build"] = NoTree
          /\ made["destroot"].of = find_portarchive(p).tree.of
      BY <1>2 DEF Unpacked, PortfileUnpacked
    <2>2. PortfileInside(find_portarchive(p))
      BY DEF PortfileKept, find_portarchive, TypeOK
    <2>3. /\ made'["build"] = NoTree /\ made'["destroot"].of = made["destroot"].of
          /\ plus' = find_portarchive(p).state /\ pc'[p] = "swap"
      BY <1>2, <2>1 DEF Unpacked, TypeOK, Phase, Goes
    <2> QED BY <2>1, <2>2, <2>3 DEF PortfileUnpacked, PortfileInside, From
  <1>3. CASE ~Unpack(p) /\ ~Unpacked(p)
    <2>1. pc'[p] \notin {"unpacking", "swap"}
      <3>1. CASE Check(p) \/ Unnames(p) \/ Empties(p) \/ OpenFile(p)
        BY <3>1 DEF Check, Unnames, Empties, OpenFile, Goes, Finishes, TypeOK
      <3>2. CASE Flock(p)
        BY <3>2 DEF Flock, Goes, TypeOK
      <3>3. CASE WriteVersion(p) \/ WriteChecksum(p) \/ eval_targets(p)
        BY <3>3 DEF WriteVersion, WriteChecksum, eval_targets, Goes, TypeOK
      <3>4. CASE check_variants(p)
        BY <3>4 DEF check_variants, Goes, Finishes, TypeOK
      <3>5. CASE NextTarget(p)
        BY <3>5 DEF NextTarget, Goes, Opens, Finishes, TypeOK
      <3>6. CASE Skipped(p) \/ RecordTarget(p) \/ SkipsUnarchive(p) \/ Reopened(p) \/ Register(p)
                 \/ pkg_main(p)
        BY <3>6 DEF Skipped, RecordTarget, SkipsUnarchive, Reopened, Register, pkg_main, Done,
           Goes,
           TypeOK
      <3>7. CASE Fetch(p) \/ ArchiveFetch(p) \/ install_main(p) \/ Made(p) \/ \E t \in Phase : Make(p, t)
        BY <3>7 DEF Fetch, ArchiveFetch, install_main, Made, Make, Goes, TypeOK
      <3>8. CASE Claim(p)
        <4>1. pc[p] = "claim"
          BY <3>8 DEF Claim
        <4> QED BY <3>8, <4>1, TargetClaimed
      <3>9. CASE unarchive_finish(p)
        BY <3>9 DEF unarchive_finish, Opens, Goes, TypeOK
      <3> QED BY <1>3, <3>1, <3>2, <3>3, <3>4, <3>5, <3>6, <3>7, <3>8, <3>9 DEF Step
    <2> QED BY <2>1 DEF PortfileUnpacked
  <1> QED BY <1>1, <1>2, <1>3

\* What a step leaves in the directory is of the Portfile that is recorded.
LEMMA StepPortfileThere ==
  ASSUME IInv, Alone, "shared" \notin excuse, OnePortfile, NothingLeft, PortfileThere,
         NEW p \in Proc, PortfileMeant(p), PortfileUnpacked(p), Step(p)
  PROVE  PortfileThere'
  <1> USE DEF IInv
  <1> SUFFICES ASSUME name' # NoInode, \A q \in Proc : pc'[q] \notin {"unpacking", "swap"},
                      NEW t \in Phase
               PROVE  From(made'[t], L'.checksum)
    BY DEF PortfileThere
  <1>0. Shape(p) /\ \A q \in Proc \ {p} : pc[q] \notin {"unpacking", "swap"}
    BY OnlyOwn
  <1>1. ASSUME name # NoInode, pc[p] \notin {"unpacking", "swap"}
        PROVE  \A s \in Phase : From(made[s], L.checksum)
    BY <1>0, <1>1 DEF PortfileThere
  <1>2. ASSUME name' = name, L'.checksum = L.checksum, made' = made,
               pc[p] \notin {"unpacking", "swap"}
        PROVE  From(made'[t], L'.checksum)
    BY <1>1, <1>2
  <1>3. CASE \/ Check(p) \/ Flock(p) \/ eval_targets(p) \/ NextTarget(p) \/ Skipped(p)
             \/ Fetch(p) \/ SkipsUnarchive(p) \/ Reopened(p)
    <2>1. pc[p] \notin {"unpacking", "swap"}
      BY <1>3 DEF Check, Flock, eval_targets, NextTarget, Skipped, Fetch, SkipsUnarchive,
         Reopened, Due
    <2> QED BY <1>2, <1>3, <2>1, OnlyLooks DEF L
  <1>4. CASE ArchiveFetch(p) \/ install_main(p) \/ Register(p) \/ pkg_main(p)
    BY <1>2, <1>4 DEF ArchiveFetch, install_main, Register, pkg_main, Due, dir, L
  <1>5. CASE Unnames(p) \/ Empties(p)
    BY <1>5 DEF Unnames, Empties
  <1>6. CASE OpenFile(p)
    <2>1. CASE name # NoInode
      BY <1>2, <1>6, <2>1 DEF OpenFile, L
    <2>2. CASE name = NoInode
      <3>1. \A q \in Proc : pc[q] \notin {"emptying", "cleaning"}
        BY <1>6 DEF OpenFile, Alone
      <3>2. made = NoTrees /\ made' = made
        BY <1>6, <2>2, <3>1 DEF NothingLeft, OnePortfile, Because, OpenFile
      <3> QED BY <3>2 DEF NoTrees, NoTree, From
    <2> QED BY <2>1, <2>2
  <1>7. CASE WriteVersion(p) \/ check_variants(p)
    <2>1. name' = name /\ made' = made /\ L'.checksum = L.checksum
      BY <1>7, LabelsOnly, VersionWritten, VariantsWritten
    <2>2. pc[p] \notin {"unpacking", "swap"}
      BY <1>7 DEF WriteVersion, check_variants
    <2> QED BY <1>2, <2>1, <2>2
  <1>8. CASE WriteChecksum(p)
    <2>1. name' = name /\ made' = made /\ name # NoInode /\ pc[p] = "checksum"
      BY <1>8, LabelsOnly DEF WriteChecksum
    <2>2. L'.checksum = IF L.checksum = NoSum THEN sees[p].sum ELSE L.checksum
      BY <1>8, ChecksumWritten
    <2>3. From(made[t], L.checksum)
      BY <1>1, <2>1
    <2>4. \A r \in made[t].of : r.portfile # NoSum
      BY DEF TypeOK, Tree, Recipe
    <2>5. L.checksum = NoSum => \A r \in made[t].of : r.portfile = Elsewhere
      BY <2>3, <2>4 DEF From
    <2> QED BY <2>1, <2>2, <2>3, <2>5 DEF From
  <1>9. CASE RecordTarget(p) \/ Claim(p)
    <2>1. name' = name /\ made' = made /\ L'.checksum = L.checksum
      BY <1>9, TargetRecorded, TargetClaimed
    <2>2. pc[p] \notin {"unpacking", "swap"}
      BY <1>9 DEF RecordTarget, Claim
    <2> QED BY <1>2, <2>1, <2>2
  <1>10. ASSUME pc[p] \in {"run", "making"}
         PROVE  /\ \A s \in Phase : From(made[s], portfile)
                /\ RecipeOf(p).portfile = portfile /\ L.checksum = portfile
    BY <1>1, <1>10 DEF PortfileMeant, Working, UpToDate, RecipeOf, Active
  <1>11. ASSUME NEW s \in Phase, Make(p, s) PROVE From(made'[t], L'.checksum)
    <2>1. L' = L /\ pc[p] = "run"
      BY <1>11 DEF Make, Due, L
    <2>2. made'[t].of \subseteq made[t].of \cup {RecipeOf(p)} \cup made["build"].of
      BY <1>11 DEF Make, TypeOK
    <2> QED BY <1>10, <2>1, <2>2 DEF From, Phase
  <1>12. CASE Made(p)
    <2>1. /\ L' = L /\ pc[p] = "making"
          /\ Task(p) \in Phase /\ Head(todo[p]) = Task(p)
      BY <1>0, <1>12 DEF Made, L, Shape, Tasks, Opening, Task, Phase
    <2>2. made'[t].of \subseteq made[t].of \cup {RecipeOf(p)}
      BY <1>12, <2>1 DEF Made, TypeOK
    <2> QED BY <1>10, <2>1, <2>2 DEF From
  <1>13. CASE Unpack(p) \/ Unpacked(p)
    BY <1>13 DEF Unpack, Unpacked, Goes, TypeOK
  <1>14. CASE unarchive_finish(p)
    <2>1. fd[p] = NoInode /\ pc[p] = "swap" /\ made' = made
      BY <1>0, <1>14 DEF unarchive_finish, Shape, AtWork
    <2>2. lines' = [lines EXCEPT ![FreeInode] = plus] /\ name' = FreeInode /\ FreeInode \in Inode
      BY <1>14, <2>1, FreeExists DEF unarchive_finish, Named
    <2>3. L' = plus
      BY <2>2 DEF L, TypeOK
    <2>4. made["build"] = NoTree /\ From(made["destroot"], plus.checksum)
      BY <2>1 DEF PortfileUnpacked
    <2> QED BY <2>1, <2>3, <2>4 DEF From, NoTree, Phase
  <1> QED BY <1>3, <1>4, <1>5, <1>6, <1>7, <1>8, <1>9, <1>11, <1>12, <1>13, <1>14 DEF Step

\* What a step brings, installs or packages is of the Portfile of whoever made it.
LEMMA StepPortfileKept ==
  ASSUME IInv, Alone, "shared" \notin excuse, PortfileThere, PortfileKept, NEW p \in Proc,
         PortfileMeant(p), Step(p)
  PROVE  PortfileKept'
  <1> USE DEF IInv
  <1>1. CASE UNCHANGED <<incoming, image, package>>
    BY <1>1 DEF PortfileKept
  <1> DEFINE v == job[p].variants
  <1>2. CASE ArchiveFetch(p)
    <2>1. image' = image /\ package' = package
      BY <1>2 DEF ArchiveFetch
    <2>2. CASE UNCHANGED incoming
      BY <1>1, <2>1, <2>2
    <2>3. CASE ~UNCHANGED incoming
      <3>1. PICK sum \in {portfile, Elsewhere} : incoming' = [incoming EXCEPT ![v] = Fetched(v, sum)]
        BY <1>2, <2>3 DEF ArchiveFetch
      <3>2. PortfileInside(Fetched(v, sum))
        BY DEF PortfileInside, Fetched, From
      <3>3. \A u \in Selection : incoming'[u] = incoming[u] \/ incoming'[u] = Fetched(v, sum)
        BY <3>1 DEF TypeOK
      <3> QED BY <2>1, <3>2, <3>3 DEF PortfileKept
    <2> QED BY <2>2, <2>3
  <1>3. ASSUME pc[p] = "run"
        PROVE  From(made["destroot"], job[p].portfile) /\ L.version /\ L.checksum = job[p].portfile
    <2>1. \A q \in Proc : pc[q] \notin {"unpacking", "swap"}
      BY <1>3, AtWorkOnName DEF AtWork, Busy
    <2> QED BY <1>3, <2>1 DEF PortfileMeant, PortfileThere, Working, UpToDate, Active, Phase
  <1>4. CASE install_main(p)
    <2> DEFINE a == [tree |-> made["destroot"], state |-> lines[name], by |-> job[p].portfile]
    <2>0. package' = package
      BY <1>4 DEF install_main
    <2>1. CASE incoming[v] # NoArchive
      <3>1. /\ image' = [image EXCEPT ![v] = incoming[v]]
            /\ incoming' = [incoming EXCEPT ![v] = NoArchive]
        BY <1>4, <2>1 DEF install_main
      <3>2. /\ \A u \in Selection : image'[u] = image[u] \/ image'[u] = incoming[u]
            /\ \A u \in Selection : incoming'[u] = incoming[u] \/ incoming'[u] = NoArchive
        BY <3>1 DEF TypeOK
      <3> QED BY <2>0, <3>2 DEF PortfileKept, PortfileInside
    <2>2. CASE incoming[v] = NoArchive
      <3>1. image' = [image EXCEPT ![v] = a] /\ incoming' = incoming /\ pc[p] = "run"
        BY <1>4, <2>2 DEF install_main, Due
      <3>2. PortfileInside(a)
        BY <1>3, <3>1 DEF PortfileInside, L
      <3> HIDE DEF a
      <3>3. \A u \in Selection : image'[u] = image[u] \/ image'[u] = a
        BY <3>1 DEF TypeOK
      <3> QED BY <2>0, <3>1, <3>2, <3>3 DEF PortfileKept
    <2> QED BY <2>1, <2>2
  <1>5. CASE pkg_main(p)
    <2>1. /\ incoming' = incoming /\ image' = image
          /\ package'.tree = made["destroot"] /\ package'.by = job[p].portfile /\ pc[p] = "run"
      BY <1>5 DEF pkg_main, Due
    <2> QED BY <1>3, <2>1 DEF PortfileKept
  <1>6. CASE \/ Check(p) \/ Flock(p) \/ eval_targets(p) \/ NextTarget(p) \/ Skipped(p)
             \/ Fetch(p) \/ SkipsUnarchive(p) \/ Reopened(p)
    BY <1>1, <1>6, OnlyLooks
  <1>7. CASE \/ Unnames(p) \/ OpenFile(p) \/ WriteVersion(p) \/ WriteChecksum(p)
             \/ check_variants(p) \/ RecordTarget(p) \/ Claim(p) \/ unarchive_finish(p)
    BY <1>1, <1>7 DEF Unnames, OpenFile, WriteVersion, WriteChecksum, check_variants,
       RecordTarget,
       Claim, unarchive_finish, products
  <1>8. CASE \/ Empties(p) \/ Made(p) \/ Unpack(p) \/ Unpacked(p) \/ Register(p)
             \/ \E t \in Phase : Make(p, t)
    BY <1>1, <1>8 DEF Empties, Made, Unpack, Unpacked, Register, Make, products
  <1> QED BY <1>2, <1>4, <1>5, <1>6, <1>7, <1>8 DEF Step

\* All that is there and kept is of one Portfile each.
LEMMA PortfilesFitHolds ==
  ASSUME IInv, Alone, NothingLeft, PortfilesFit, [Next]_vars
  PROVE  PortfilesFit'
  <1> SUFFICES ASSUME OnePortfile'
               PROVE  /\ PortfileThere' /\ PortfileKept'
                      /\ \A p \in Proc : PortfileMeant(p)' /\ PortfileUnpacked(p)'
    BY DEF PortfilesFit
  <1>1. /\ OnePortfile /\ "shared" \notin excuse /\ "shared" \notin excuse'
        /\ PortfileThere /\ PortfileKept /\ \A p \in Proc : PortfileMeant(p) /\ PortfileUnpacked(p)
    BY ExcusesStay DEF PortfilesFit, OnePortfile, Because
  <1>2. ASSUME NEW p \in Proc, Step(p)
        PROVE  /\ PortfileThere' /\ PortfileKept'
               /\ \A o \in Proc : PortfileMeant(o)' /\ PortfileUnpacked(o)'
    <2>1. \A o \in Proc \ {p} : PortfileMeant(o)' /\ PortfileUnpacked(o)'
      BY <1>1, <1>2, OthersPortfile, OthersUnpacked
    <2>2. PortfileMeant(p)' /\ PortfileUnpacked(p)'
      BY <1>1, <1>2, StepPortfileMeant, StepPortfileUnpacked
    <2>3. PortfileThere' /\ PortfileKept'
      BY <1>1, <1>2, StepPortfileThere, StepPortfileKept
    <2> QED BY <2>1, <2>2, <2>3
  <1>3. ASSUME NEW p \in Proc, Ends(p) \/ \E v \in Selection, goal \in Goal : Start(p, v, goal)
        PROVE  /\ PortfileThere' /\ PortfileKept'
               /\ \A o \in Proc : PortfileMeant(o)' /\ PortfileUnpacked(o)'
    <2>1. \A o \in Proc \ {p} : PortfileMeant(o)' /\ PortfileUnpacked(o)' /\ pc'[o] = pc[o]
      BY <1>1, <1>3, OthersPortfile, OthersUnpacked, OnlyOwn DEF IInv
    <2>2. UNCHANGED <<name, lines, made, plus, incoming, image, package, portfile>>
      BY <1>3, OnlyLooks
    <2>3. pc[p] \notin {"unpacking", "swap"}
      <3>1. CASE Ends(p)
        BY <1>1, <3>1 DEF Ends, OnePortfile, Because
      <3>2. CASE ~Ends(p)
        BY <1>3, <3>2 DEF Start
      <3> QED BY <3>1, <3>2
    <2>4. PortfileMeant(p)' /\ PortfileUnpacked(p)'
      <3>1. CASE Ends(p)
        <4>1. pc'[p] = "idle"
          BY <3>1 DEF Ends, Finishes, Goes, IInv, TypeOK
        <4> QED BY <4>1 DEF PortfileMeant, PortfileUnpacked, Active, Opening, Working
      <3>2. ASSUME NEW v \in Selection, NEW goal \in Goal, Start(p, v, goal)
            PROVE  PortfileMeant(p)' /\ PortfileUnpacked(p)'
        <4>1. /\ pc'[p] = "clean" \/ (pc'[p] = "check" /\ then'[p] = "variants")
              /\ job'[p].portfile = portfile
          BY <3>2 DEF Start, Goes, Opens, IInv, TypeOK
        <4> QED BY <2>2, <4>1 DEF PortfileMeant, PortfileUnpacked, Active, Opening, Working
      <3> QED BY <1>3, <3>1, <3>2
    <2>5. PortfileThere' /\ PortfileKept'
      BY <1>1, <2>1, <2>2, <2>3 DEF PortfileThere, PortfileKept, L
    <2> QED BY <2>1, <2>4, <2>5
  <1>4. ASSUME NEW content \in Portfile, NEW newer \in BOOLEAN, Edit(content, newer)
        PROVE  /\ PortfileThere' /\ PortfileKept'
               /\ \A o \in Proc : PortfileMeant(o)' /\ PortfileUnpacked(o)'
    <2>1. \A p \in Proc : pc[p] = "idle"
      BY <1>1, <1>4 DEF Edit, Excused, Active
    <2>2. UNCHANGED <<name, lines, made, incoming, image, package, pc>>
      BY <1>4 DEF Edit, products
    <2>3. \A p \in Proc : PortfileMeant(p)' /\ PortfileUnpacked(p)'
      BY <2>1, <2>2 DEF PortfileMeant, PortfileUnpacked, Active, Opening, Working
    <2>4. PortfileThere' /\ PortfileKept'
      BY <1>1, <2>2 DEF PortfileThere, PortfileKept, L
    <2> QED BY <2>3, <2>4
  <1>5. CASE UNCHANGED vars
    <2>1. /\ UNCHANGED <<name, lines, made, plus, incoming, image, registered, package>>
          /\ UNCHANGED <<pc, portfile, job, sees, then>>
      BY <1>5 DEF vars, dir, products
    <2>2. \A p \in Proc : find_portarchive(p)' = find_portarchive(p)
      BY <2>1 DEF find_portarchive
    <2> QED BY <1>1, <2>1, <2>2 DEF PortfileThere, PortfileKept, PortfileMeant, PortfileUnpacked,
               L, Active, UpToDate
  <1> QED BY <1>2, <1>3, <1>4, <1>5 DEF Next

-----------------------------------------------------------------------------
(* The specification *)

\* Everything holds to begin with.
LEMMA InitFits ==
  ASSUME Init
  PROVE  There /\ Installed /\ Wholes /\ NothingLeft /\ VariantsFit /\ PortfilesFit
  <1> USE DEF Init
  <1>1. There
    BY DEF There, TreesFilled, NoTrees, NoTree, Built, Staged, Kept, Full, Progressed,
       Underway, Task,
       Later, Phase
  <1>2. Installed /\ Wholes /\ NothingLeft
    BY DEF Installed, Wholes, WholeRecords, WholeProducts, WholeWork, NothingLeft
  <1>3. VariantsFit
    BY DEF VariantsFit, VariantsThere, VariantsKept, VariantsInside, VariantsMeant, Task
  <1>4. PortfilesFit
    BY DEF PortfilesFit, PortfileThere, PortfileKept, PortfileInside, PortfileMeant,
       PortfileUnpacked,
       Active, Opening, Working
  <1> QED BY <1>1, <1>2, <1>3, <1>4

\* And always.
LEMMA AlwaysFits ==
  Spec => [](IInv /\ Alone /\ There /\ Installed /\ Wholes /\ NothingLeft /\ VariantsFit
             /\ PortfilesFit)
  <1> QED BY InitHolds, InitFits, IInvHolds, AloneHolds, ThereHolds, InstalledHolds, WholesHolds,
             NothingLeftHolds, VariantsFitHolds, PortfilesFitHolds, PTL DEF Spec

\* A destroot that is recorded, and not claimed for an archive, is whole in the
\* directory, unless the state file was replaced under somebody.
THEOREM BuildStateRecordedIsThere == Spec => []RecordedIsThere
  <1>1. There => RecordedIsThere
    BY DEF There, Staged, RecordedIsThere, Calm, Because, L
  <1> QED BY <1>1, AlwaysFits, PTL

\* Whatever fails, dies, is tried again, edited or run side by side, what is
\* registered and what is packaged is a whole destroot of the variants asked for
\* and of the Portfile that was read, unless one of the excusing events happened.
THEOREM BuildStateProductsAreRight == Spec => []ProductsAreRight
  <1>1. ASSUME IInv, Installed, Wholes, VariantsFit, PortfilesFit, NEW v \in registered
        PROVE  Right(image[v].tree, image[v].by, v)
    <2>1. image[v] # NoArchive /\ v \in Selection
      BY <1>1 DEF Installed, IInv, TypeOK
    <2>2. image[v].tree.whole \/ Because({"shared", "claimed", "amid"})
      BY <1>1, <2>1 DEF Wholes, WholeProducts, NothingClaimed, Because
    <2>3. Of(image[v].tree, v) \/ Because({"shared", "amid", "leftover"})
      BY <1>1, <2>1 DEF VariantsFit, VariantsKept, VariantsInside, NothingMixed
    <2>4. \/ From(image[v].tree, image[v].by)
          \/ Because({"shared", "headless", "leftover", "mixed"})
      BY <1>1, <2>1 DEF PortfilesFit, PortfileKept, PortfileInside, OnePortfile
    <2> QED BY <2>2, <2>3, <2>4 DEF Right, Of, From
  <1>2. ASSUME Wholes, VariantsFit, PortfilesFit, package # NoPackage
        PROVE  Right(package.tree, package.by, package.variants)
    <2>1. package.tree.whole \/ Because({"shared", "claimed", "amid"})
      BY <1>2 DEF Wholes, WholeProducts, NothingClaimed, Because
    <2>2. Of(package.tree, package.variants) \/ Because({"shared", "amid", "leftover"})
      BY <1>2 DEF VariantsFit, VariantsKept, NothingMixed
    <2>3. \/ From(package.tree, package.by)
          \/ Because({"shared", "headless", "leftover", "mixed"})
      BY <1>2 DEF PortfilesFit, PortfileKept, OnePortfile
    <2> QED BY <2>1, <2>2, <2>3 DEF Right, Of, From
  <1>3. IInv /\ Installed /\ Wholes /\ VariantsFit /\ PortfilesFit => ProductsAreRight
    BY <1>1, <1>2 DEF ProductsAreRight
  <1> QED BY <1>3, AlwaysFits, PTL

=============================================================================
