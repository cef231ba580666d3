---------------------------- MODULE PortImageProofs ----------------------------
(***************************************************************************)
(* Proofs about PortImage for every value of its constants: any ports,     *)
(* images, number of processes, with or without the registry lock, any     *)
(* failure and any crash.                                                  *)
(*                                                                         *)
(* First the types, the one owner of a path and the refinement of          *)
(* PortImageFileMap; then what the registry says about a port: a port      *)
(* never has some of its files active; with the registry lock at most one  *)
(* version of a port is active, whatever fails or dies; and, when nobody   *)
(* dies, state and file rows agree between actions. At last what is on     *)
(* disk: a failed activation brings back what it replaced, the files of a  *)
(* port follow its rows, and those of the user survive.                    *)
(***************************************************************************)
EXTENDS PortImageFileMap, SequenceTheorems, TLAPS

USE DEF Op, Try, PC, Goal

-------------------------------------------------------------------------------
(* The registry operators *)

\* Home paths are paths.
LEMMA HomesTyped ==
  ASSUME NEW q \in Port
  PROVE  /\ ImageFiles[q] \subseteq File
         /\ Homes(q) \subseteq Path
  BY RegEntryAssumption DEF Homes, Home, Path, Stamp

\* The reg_entry_* updates keep the tables well formed.
LEMMA RegistryTyped ==
  ASSUME NEW r \in Registry, NEW q \in Port
  PROVE  /\ \A s \in {"imaged", "installed"} : SetState(r, q, s) \in Registry
         /\ \A F \in SUBSET File, s \in Stamp :
              reg_entry_activate(r, q, F, s) \in Registry
         /\ \A A : reg_entry_deactivate(r, q, A) \in Registry
         /\ reg_entry_files(r, q) \subseteq Path
  <1>1. \A s \in {"imaged", "installed"} : SetState(r, q, s) \in Registry
    BY DEF Registry, SetState
  <1>2. ASSUME NEW F \in SUBSET File, NEW s \in Stamp
        PROVE  reg_entry_activate(r, q, F, s) \in Registry
    <2>1. [x \in File |-> IF x \in F THEN <<x, s>> ELSE r.actual[q][x]]
            \in [File -> Path \cup {NoPath}]
      BY DEF Registry, Path
    <2> QED BY <2>1 DEF Registry, reg_entry_activate
  <1>3. ASSUME NEW A
        PROVE  reg_entry_deactivate(r, q, A) \in Registry
    <2>1. [x \in File |-> IF r.actual[q][x] \in A THEN NoPath ELSE r.actual[q][x]]
            \in [File -> Path \cup {NoPath}]
      BY DEF Registry
    <2> QED BY <2>1 DEF Registry, reg_entry_deactivate
  <1>4. reg_entry_files(r, q) \subseteq Path
    BY DEF Registry, reg_entry_files
  <1> QED BY <1>1, <1>2, <1>3, <1>4

-------------------------------------------------------------------------------
(* Frames *)

\* The frames of the processes and of their callers are well formed.
FramesOK ==
  /\ cur \in [Proc -> Frame \cup {Idle}]
  /\ callers \in [Proc -> Seq(Frame)]

\* A process that is somewhere in a call has a frame.
LEMMA BusyFrame ==
  ASSUME FramesOK, NEW p \in Proc, cur[p].pc # "idle"
  PROVE  cur[p] \in Frame
  BY DEF FramesOK, Idle

\* Idle, which is no frame, has no fields but its pc.
LEMMA IdleFrame == Idle \notin Frame /\ Idle.pc = "idle"
  BY DEF Idle, Frame

\* A new call is a well-formed frame.
LEMMA CallTyped ==
  ASSUME NEW op \in Op, NEW q \in Port, NEW t \in Try
  PROVE  Call(op, q, t) \in Frame
  BY RegEntryAssumption DEF Call, Frame, Stamp

\* The innermost caller is a frame and the others remain a sequence of frames.
LEMMA LastCaller ==
  ASSUME NEW s \in Seq(Frame), s # <<>>
  PROVE  /\ Len(s) \in Nat \ {0}
         /\ s[Len(s)] \in Frame
         /\ SubSeq(s, 1, Len(s) - 1) \in Seq(Frame)
  <1>1. Len(s) \in Nat /\ Len(s) # 0
    BY EmptySeq, LenProperties
  <1>2. Len(s) \in 1..Len(s)
    BY <1>1
  <1>3. s[Len(s)] \in Frame
    BY <1>2, ElementOfSeq
  <1>4. \A i \in 1..(Len(s) - 1) : s[i] \in Frame
    BY <1>1, ElementOfSeq
  <1>5. SubSeq(s, 1, Len(s) - 1) \in Seq(Frame)
    BY <1>1, <1>2, <1>4, SubSeqProperties
  <1> QED BY <1>1, <1>3, <1>5

\* A step within the current call leaves it a frame.
LEMMA GotoTyped ==
  ASSUME FramesOK, NEW p \in Proc, cur[p] \in Frame, UNCHANGED callers,
         NEW pc \in PC, NEW todo \in SUBSET Path, Goto(p, pc, todo)
  PROVE  FramesOK'
  BY DEF FramesOK, Goto, Frame

\* A call suspends its caller and starts a frame of its own.
LEMMA NestedTyped ==
  ASSUME FramesOK, NEW p \in Proc, cur[p] \in Frame,
         NEW op \in Op, NEW q \in Port, Nested(p, op, q)
  PROVE  FramesOK'
  <1>1. PICK t \in FirstTry : cur' = [cur EXCEPT ![p] = Call(op, q, t)]
    BY DEF Nested
  <1>2. Call(op, q, t) \in Frame
    BY CallTyped, PortImageAssumption
  <1>3. [cur[p] EXCEPT !.pend = @ \ {q}] \in Frame
    BY DEF Frame
  <1>4. Append(callers[p], [cur[p] EXCEPT !.pend = @ \ {q}]) \in Seq(Frame)
    BY <1>3, AppendProperties DEF FramesOK
  <1> QED BY <1>1, <1>2, <1>4 DEF FramesOK, Nested

\* The end of a call gives the process back to a suspended frame, or to nobody.
LEMMA ReturnTyped ==
  ASSUME FramesOK, NEW p \in Proc, Return(p)
  PROVE  FramesOK'
  <1>1. CASE callers[p] = <<>>
    BY <1>1 DEF FramesOK, Return
  <1>2. CASE callers[p] # <<>>
    <2>1. callers[p] \in Seq(Frame)
      BY DEF FramesOK
    <2>2. /\ callers[p][Len(callers[p])] \in Frame
          /\ SubSeq(callers[p], 1, Len(callers[p]) - 1) \in Seq(Frame)
      BY <1>2, <2>1, LastCaller
    <2> QED BY <1>2, <2>2 DEF FramesOK, Return
  <1> QED BY <1>1, <1>2

-------------------------------------------------------------------------------
(* Type correctness *)

\* The state of the database, the file system and the flags of the processes.
StoreOK ==
  /\ reg \in Registry
  /\ work \in Registry
  /\ writer \in Proc \cup {NoProc}
  /\ fs \in [Path -> Port \cup {User, Empty}]

FlagsOK ==
  /\ force \in [Proc -> BOOLEAN]
  /\ asked \in [Proc -> BOOLEAN]
  /\ lock \in Proc \cup {NoProc}

\* TypeOK, split by the variables that steps change together.
LEMMA TypeOKParts == TypeOK <=> StoreOK /\ FramesOK /\ FlagsOK
  BY DEF TypeOK, StoreOK, FramesOK, FlagsOK

\* Before the first action nothing is installed and nobody is in a call.
LEMMA InitTypeOK == Init => TypeOK
  <1> SUFFICES ASSUME Init PROVE TypeOK
    OBVIOUS
  <1>1. reg \in Registry
    BY DEF Init, Registry
  <1>2. callers \in [Proc -> Seq(Frame)]
    BY EmptySeq DEF Init
  <1> QED BY <1>1, <1>2 DEF Init, TypeOK

\* Backup names are paths.
LEMMA BackupTyped ==
  ASSUME NEW a \in Path, NEW s \in Stamp
  PROVE  a[1] \in File /\ Backup(a, s) \in Path
  BY DEF Backup, Path

\* The end of a call keeps the flags of the processes well formed.
LEMMA ReturnFlags ==
  ASSUME FlagsOK, NEW p \in Proc, Return(p), UNCHANGED force
  PROVE  FlagsOK'
  BY DEF FlagsOK, Return

\* Every step of a process keeps the frames well formed.
LEMMA StepFrames ==
  ASSUME TypeOK, NEW p \in Proc, Step(p)
  PROVE  FramesOK'
  <1> USE TypeOKParts
  <1>0. FramesOK
    OBVIOUS
  <1>1. cur[p] \in Frame
    <2>1. cur[p].pc # "idle"
      BY DEF Step, At, ActivateCheck, DeactivateOther, Extract, StartClaim,
        ClaimReplaced, ClaimFree, ClaimForced, ClaimFails, CommitClaim,
        DeactivateReplaced, StartTake, MoveFile, MoveFails, CommitTake,
        SetInstalled, Unmove, UnmoveDone, Unback, UnbackFails, UnbackDone,
        Reactivate, Rethrow, DeactivateCheck, StartRelease, RemoveFile,
        RemoveFails, CommitRelease, SetImaged, FailsButReached, Retry, Fail
    <2> QED BY <1>0, <2>1, BusyFrame
  <1>2. cur[p].port \in Port /\ Homes(cur[p].port) \subseteq Path
    BY <1>1, HomesTyped DEF Frame
  <1>a. ASSUME NEW pc \in PC, NEW todo \in SUBSET Path,
               Goto(p, pc, todo), UNCHANGED callers
        PROVE  FramesOK'
    BY <1>0, <1>1, <1>a, GotoTyped
  <1>b. ASSUME NEW op \in Op, NEW q \in Port, Nested(p, op, q)
        PROVE  FramesOK'
    BY <1>0, <1>1, <1>b, NestedTyped
  <1>c. ASSUME Return(p)
        PROVE  FramesOK'
    BY <1>0, <1>c, ReturnTyped
  <1>d. ASSUME NEW pc \in PC, NEW pend \in SUBSET Port, UNCHANGED callers,
               cur' = [cur EXCEPT ![p].pc = pc, ![p].pend = pend]
        PROVE  FramesOK'
    BY <1>0, <1>1, <1>d DEF FramesOK, Frame
  <1>e. ASSUME NEW a, UNCHANGED callers,
               cur' = [cur EXCEPT ![p].todo = @ \ {a}]
        PROVE  FramesOK'
    BY <1>0, <1>1, <1>e DEF FramesOK, Frame
  <1>3. CASE ActivateCheck(p)
    BY <1>3, <1>a, <1>d DEF ActivateCheck, reg_entry_installed, inCall
  <1>4. CASE DeactivateOther(p)
    BY <1>1, <1>4, <1>b DEF DeactivateOther, Frame
  <1>5. CASE Extract(p)
    BY <1>5, <1>a DEF Extract, inCall
  <1>6. CASE StartClaim(p)
    <2>1. PICK s \in Stamp :
            cur' = [cur EXCEPT ![p].pc = "claiming",
                               ![p].todo = Homes(cur[p].port), ![p].stamp = s]
      BY <1>6 DEF StartClaim
    <2>2. UNCHANGED callers
      BY <1>6 DEF StartClaim, inCall
    <2> QED BY <1>0, <1>1, <1>2, <2>1, <2>2 DEF FramesOK, Frame
  <1>7. CASE ClaimReplaced(p)
    <2>1. PICK a \in cur[p].todo, o \in Port :
            cur' = [cur EXCEPT ![p].todo = @ \ {a}, ![p].replaced = @ \cup {o}]
      BY <1>7 DEF ClaimReplaced, reg_entry_owner
    <2>2. UNCHANGED callers
      BY <1>7 DEF ClaimReplaced, inCall
    <2> QED BY <1>0, <1>1, <2>1, <2>2 DEF FramesOK, Frame
  <1>8. CASE ClaimFree(p)
    BY <1>8, <1>e DEF ClaimFree, inCall
  <1>9. CASE ClaimForced(p)
    <2>1. PICK a \in cur[p].todo : \E m \in BOOLEAN :
            cur' = [cur EXCEPT ![p].todo = @ \ {a},
                      ![p].backups = IF m THEN @ \cup {a} ELSE @]
      BY <1>9 DEF ClaimForced
    <2>2. PICK b \in {cur[p].backups, cur[p].backups \cup {a}} :
            cur' = [cur EXCEPT ![p].todo = @ \ {a}, ![p].backups = b]
      BY <2>1
    <2>3. UNCHANGED callers
      BY <1>9 DEF ClaimForced, inCall
    <2>4. a \in Path
      BY <1>1 DEF Frame
    <2> QED BY <1>0, <1>1, <2>2, <2>3, <2>4 DEF FramesOK, Frame
  <1>10. CASE ClaimFails(p)
    BY <1>10, <1>a DEF ClaimFails, inCall
  <1>11. CASE CommitClaim(p)
    BY <1>1, <1>11, <1>d DEF CommitClaim, inCall, Frame
  <1>12. CASE DeactivateReplaced(p)
    BY <1>1, <1>12, <1>b DEF DeactivateReplaced, Frame
  <1>13. CASE StartTake(p)
    BY <1>2, <1>13, <1>a DEF StartTake, inCall
  <1>14. CASE MoveFile(p)
    BY <1>14, <1>e DEF MoveFile, inCall
  <1>15. CASE MoveFails(p)
    BY <1>2, <1>15, <1>a DEF MoveFails, inCall
  <1>16. CASE CommitTake(p)
    BY <1>16, <1>a DEF CommitTake, inCall
  <1>17. CASE SetInstalled(p)
    BY <1>17, <1>c DEF SetInstalled
  <1>18. CASE Unmove(p)
    BY <1>18, <1>e DEF Unmove, inCall
  <1>19. CASE UnmoveDone(p)
    BY <1>19, <1>a DEF UnmoveDone, inCall
  <1>20. CASE Unback(p)
    <2>1. PICK a \in Path : cur' = [cur EXCEPT ![p].backups = @ \ {a}]
      BY <1>1, <1>20 DEF Unback, Frame
    <2>2. UNCHANGED callers
      BY <1>20 DEF Unback, inCall
    <2> QED BY <1>0, <1>1, <2>1, <2>2 DEF FramesOK, Frame
  <1>21. CASE UnbackFails(p)
    BY <1>21, <1>a DEF UnbackFails, inCall
  <1>22. CASE UnbackDone(p)
    BY <1>1, <1>22, <1>d DEF UnbackDone, inCall, Frame
  <1>23. CASE Reactivate(p)
    <2>1. PICK o \in cur[p].pend :
            IF reg.state[o] = "imaged"
            THEN Nested(p, "activate", o)
            ELSE cur' = [cur EXCEPT ![p].pend = @ \ {o}] /\ UNCHANGED callers
      BY <1>23 DEF Reactivate
    <2>2. o \in Port
      BY <1>1 DEF Frame
    <2>3. CASE reg.state[o] = "imaged"
      BY <2>1, <2>2, <2>3, <1>b
    <2>4. CASE reg.state[o] # "imaged"
      <3>1. cur' = [cur EXCEPT ![p].pend = @ \ {o}] /\ UNCHANGED callers
        BY <2>1, <2>4
      <3> QED BY <1>0, <1>1, <3>1 DEF FramesOK, Frame
    <2> QED BY <2>3, <2>4
  <1>24. CASE Rethrow(p)
    BY <1>24, <1>a DEF Rethrow, inCall
  <1>25. CASE DeactivateCheck(p)
    <2>1. reg_entry_files(reg, cur[p].port) \in SUBSET Path
      BY <1>2, RegistryTyped DEF StoreOK
    <2> QED BY <1>25, <2>1, <1>a DEF DeactivateCheck, inCall
  <1>26. CASE StartRelease(p)
    <2>1. cur[p].todo \in SUBSET Path
      BY <1>1 DEF Frame
    <2> QED BY <1>26, <2>1, <1>a DEF StartRelease, inCall
  <1>27. CASE RemoveFile(p)
    BY <1>27, <1>e DEF RemoveFile, inCall
  <1>28. CASE RemoveFails(p)
    BY <1>28, <1>a DEF RemoveFails, inCall
  <1>29. CASE CommitRelease(p)
    BY <1>29, <1>a DEF CommitRelease, inCall
  <1>30. CASE SetImaged(p)
    BY <1>30, <1>c DEF SetImaged
  <1>31. CASE FailsButReached(p)
    BY <1>31, <1>c DEF FailsButReached
  <1>32. CASE Retry(p)
    <2>1. Call(cur[p].op, cur[p].port, "direct") \in Frame
      BY <1>1, CallTyped DEF Frame
    <2> QED BY <1>0, <1>32, <2>1 DEF Retry, FramesOK, inCall
  <1>33. CASE Fail(p)
    <2>1. CASE callers[p] = <<>>
      BY <1>33, <1>c, <2>1 DEF Fail
    <2>2. CASE callers[p] # <<>>
      <3> DEFINE n == Len(callers[p])
      <3>1. /\ callers[p][n] \in Frame
            /\ SubSeq(callers[p], 1, n - 1) \in Seq(Frame)
        BY <1>0, <2>2, LastCaller DEF FramesOK
      <3>2. \A pc \in PC : [callers[p][n] EXCEPT !.pc = pc] \in Frame
        BY <3>1 DEF Frame
      <3> QED BY <1>0, <1>33, <2>2, <3>1, <3>2 DEF Fail, FramesOK
    <2> QED BY <2>1, <2>2
  <1> QED
    BY <1>3, <1>4, <1>5, <1>6, <1>7, <1>8, <1>9, <1>10, <1>11, <1>12, <1>13,
      <1>14, <1>15, <1>16, <1>17, <1>18, <1>19, <1>20, <1>21, <1>22, <1>23,
      <1>24, <1>25, <1>26, <1>27, <1>28, <1>29, <1>30, <1>31, <1>32, <1>33
    DEF Step

\* Every step of a process keeps the database and the file system well formed.
LEMMA StepStore ==
  ASSUME TypeOK, NEW p \in Proc, Step(p)
  PROVE  StoreOK'
  <1>0. StoreOK /\ FramesOK
    BY TypeOKParts
  <1>f. ASSUME cur[p].pc # "idle"
        PROVE  cur[p] \in Frame /\ cur[p].port \in Port
    BY <1>0, <1>f, BusyFrame DEF Frame
  <1>u. ASSUME UNCHANGED <<database, fs>>
        PROVE  StoreOK'
    BY <1>0, <1>u DEF StoreOK, database
  <1>r. ASSUME Rollback, UNCHANGED fs
        PROVE  StoreOK'
    BY <1>0, <1>r DEF StoreOK, Rollback
  <1>c. ASSUME Commit, UNCHANGED fs
        PROVE  StoreOK'
    BY <1>0, <1>c DEF StoreOK, Commit
  <1>s. ASSUME NEW r \in Registry, StartWrite(p, r), UNCHANGED fs
        PROVE  StoreOK'
    BY <1>0, <1>s DEF StoreOK, StartWrite
  <1>a. ASSUME NEW r \in Registry, Autocommit(r), UNCHANGED fs
        PROVE  StoreOK'
    BY <1>0, <1>a DEF StoreOK, Autocommit
  <1>w. ASSUME UNCHANGED database, NEW a \in Path, NEW c \in Port \cup {User, Empty},
               fs' = [fs EXCEPT ![a] = c]
        PROVE  StoreOK'
    BY <1>0, <1>w DEF StoreOK, database
  <1>1. CASE \/ ActivateCheck(p) \/ DeactivateOther(p) \/ Extract(p)
             \/ ClaimReplaced(p) \/ ClaimFree(p) \/ DeactivateReplaced(p)
             \/ UnmoveDone(p) \/ UnbackFails(p) \/ UnbackDone(p)
             \/ Reactivate(p) \/ Rethrow(p) \/ DeactivateCheck(p)
             \/ FailsButReached(p) \/ Retry(p) \/ Fail(p)
    BY <1>1, <1>u DEF ActivateCheck, DeactivateOther, Extract, ClaimReplaced,
      ClaimFree, DeactivateReplaced, UnmoveDone, UnbackFails, UnbackDone,
      Reactivate, Rethrow, DeactivateCheck, FailsButReached, Retry, Fail
  <1>2. CASE ClaimFails(p) \/ MoveFails(p) \/ RemoveFails(p)
    BY <1>2, <1>r DEF ClaimFails, MoveFails, RemoveFails
  <1>3. CASE CommitClaim(p) \/ CommitTake(p) \/ CommitRelease(p)
    BY <1>3, <1>c DEF CommitClaim, CommitTake, CommitRelease
  <1>4. CASE StartClaim(p)
    BY <1>0, <1>4, <1>s DEF StartClaim, StoreOK
  <1>5. CASE ClaimForced(p)
    <2> DEFINE q == cur[p].port
               s == cur[p].stamp
    <2>1. cur[p] \in Frame
      BY <1>5, <1>f DEF ClaimForced, At
    <2>2. PICK a \in cur[p].todo :
            /\ \/ UNCHANGED fs
               \/ fs' = [fs EXCEPT ![Backup(a, s)] = fs[a], ![a] = Empty]
            /\ \/ UNCHANGED work
               \/ \E o \in reg_entry_owner(work, a) :
                    work' = reg_entry_activate(reg_entry_deactivate(work, o, {a}),
                                               o, {a[1]}, s)
      BY <1>5 DEF ClaimForced
    <2>3. a \in Path /\ s \in Stamp
      BY <2>1 DEF Frame
    <2>4. a[1] \in File /\ Backup(a, s) \in Path
      BY <2>3, BackupTyped
    <2>5. work' \in Registry
      <3>1. CASE UNCHANGED work
        BY <1>0, <3>1 DEF StoreOK
      <3>2. ASSUME NEW o \in reg_entry_owner(work, a),
                   work' = reg_entry_activate(reg_entry_deactivate(work, o, {a}),
                                              o, {a[1]}, s)
            PROVE  work' \in Registry
        <4>1. o \in Port
          BY DEF reg_entry_owner
        <4>2. reg_entry_deactivate(work, o, {a}) \in Registry
          BY <1>0, <4>1, RegistryTyped DEF StoreOK
        <4> QED BY <2>3, <2>4, <3>2, <4>1, <4>2, RegistryTyped
      <3> QED BY <2>2, <3>1, <3>2
    <2>6. fs' \in [Path -> Port \cup {User, Empty}]
      BY <1>0, <2>2, <2>3, <2>4 DEF StoreOK
    <2> QED BY <1>0, <1>5, <2>5, <2>6 DEF StoreOK, ClaimForced
  <1>6. CASE StartTake(p)
    <2>1. cur[p].port \in Port
      BY <1>6, <1>f DEF StartTake, At
    <2>2. reg_entry_activate(reg, cur[p].port, ImageFiles[cur[p].port], 0) \in Registry
      BY <1>0, <2>1, HomesTyped, RegistryTyped, RegEntryAssumption DEF StoreOK, Stamp
    <2> QED BY <1>6, <1>s, <1>u, <2>2 DEF StartTake
  <1>7. CASE StartRelease(p)
    <2>1. cur[p].port \in Port
      BY <1>7, <1>f DEF StartRelease, At
    <2>2. reg_entry_deactivate(reg, cur[p].port, cur[p].todo) \in Registry
      BY <1>0, <2>1, RegistryTyped DEF StoreOK
    <2> QED BY <1>7, <1>s, <1>u, <2>2 DEF StartRelease
  <1>8. CASE MoveFile(p) \/ Unmove(p) \/ RemoveFile(p)
    <2>1. cur[p] \in Frame
      BY <1>8, <1>f DEF MoveFile, Unmove, RemoveFile, At
    <2>2. PICK a \in cur[p].todo, c \in Port \cup {User, Empty} :
            fs' = [fs EXCEPT ![a] = c]
      BY <1>8, <2>1 DEF MoveFile, Unmove, RemoveFile, Frame
    <2>3. a \in Path
      BY <2>1 DEF Frame
    <2> QED BY <1>8, <1>w, <2>2, <2>3 DEF MoveFile, Unmove, RemoveFile
  <1>9. CASE Unback(p)
    <2>1. cur[p] \in Frame
      BY <1>9, <1>f DEF Unback, At
    <2>2. PICK a \in cur[p].backups :
            fs' = [fs EXCEPT ![a] = fs[Backup(a, cur[p].stamp)],
                             ![Backup(a, cur[p].stamp)] = Empty]
      BY <1>9 DEF Unback
    <2>3. a \in Path /\ Backup(a, cur[p].stamp) \in Path
      BY <2>1, BackupTyped DEF Frame
    <2> QED BY <1>0, <1>9, <2>2, <2>3 DEF Unback, StoreOK, database
  <1>10. CASE SetInstalled(p) \/ SetImaged(p)
    <2>1. cur[p].port \in Port
      BY <1>10, <1>f DEF SetInstalled, SetImaged, At
    <2>2. \A s \in {"imaged", "installed"} : SetState(reg, cur[p].port, s) \in Registry
      BY <1>0, <2>1, RegistryTyped DEF StoreOK
    <2> QED BY <1>10, <1>a, <2>2 DEF SetInstalled, SetImaged
  <1> QED
    BY <1>1, <1>2, <1>3, <1>4, <1>5, <1>6, <1>7, <1>8, <1>9, <1>10 DEF Step

\* Every step of a process keeps its flags well formed.
LEMMA StepFlags ==
  ASSUME TypeOK, NEW p \in Proc, Step(p)
  PROVE  FlagsOK'
  <1>0. FlagsOK
    BY TypeOKParts
  <1>1. UNCHANGED force /\ (UNCHANGED <<asked, lock>> \/ Return(p))
    BY DEF Step, inCall, ActivateCheck, DeactivateOther, Extract, StartClaim,
      ClaimReplaced, ClaimFree, ClaimForced, ClaimFails, CommitClaim,
      DeactivateReplaced, StartTake, MoveFile, MoveFails, CommitTake,
      SetInstalled, Unmove, UnmoveDone, Unback, UnbackFails, UnbackDone,
      Reactivate, Rethrow, DeactivateCheck, StartRelease, RemoveFile,
      RemoveFails, CommitRelease, SetImaged, FailsButReached, Retry, Fail
  <1> QED BY <1>0, <1>1, ReturnFlags DEF FlagsOK

\* The steps that are not the process's own: a new action, a crash, the user.
LEMMA OtherTypeOK ==
  ASSUME TypeOK,
         \/ \E p \in Proc : \E op \in Op, q \in Port, asks \in ForceModes :
              Start(p, op, q, asks)
         \/ \E p \in Proc : Crash(p)
         \/ \E x \in File : UserCreates(x)
         \/ \E a \in Path : UserDeletes(a)
  PROVE  TypeOK'
  <1>1. CASE \E p \in Proc : \E op \in Op, q \in Port, asks \in ForceModes :
               Start(p, op, q, asks)
    <2> PICK p \in Proc, op \in Op, q \in Port, asks \in ForceModes :
          Start(p, op, q, asks)
      BY <1>1
    <2>1. PICK t \in Try : cur' = [cur EXCEPT ![p] = Call(op, q, t)]
      BY PortImageAssumption DEF Start
    <2>2. Call(op, q, t) \in Frame
      BY CallTyped
    <2>3. asks \in BOOLEAN
      BY PortImageAssumption
    <2> QED BY <2>1, <2>2, <2>3 DEF Start, TypeOK, database
  <1>2. CASE \E p \in Proc : Crash(p)
    <2> PICK p \in Proc : Crash(p)
      BY <1>2
    <2>1. <<>> \in Seq(Frame)
      BY EmptySeq
    <2> QED BY <2>1 DEF Crash, TypeOK, database, Rollback
  <1>3. CASE (\E x \in File : UserCreates(x)) \/ \E a \in Path : UserDeletes(a)
    <2>1. fs' \in [Path -> Port \cup {User, Empty}]
      BY <1>3 DEF UserCreates, UserDeletes, TypeOK
    <2> QED BY <1>3, <2>1 DEF UserCreates, UserDeletes, TypeOK, database, inCall
  <1> QED BY <1>1, <1>2, <1>3

\* No step of a process, crash or act of the user breaks the types.
LEMMA NextTypeOK == TypeOK /\ [Next]_vars => TypeOK'
  <1> SUFFICES ASSUME TypeOK, [Next]_vars PROVE TypeOK'
    OBVIOUS
  <1>1. ASSUME NEW p \in Proc, Step(p) PROVE TypeOK'
    <2>1. StoreOK' /\ FramesOK' /\ FlagsOK'
      BY <1>1, StepStore, StepFrames, StepFlags
    <2> QED BY <2>1 DEF TypeOK, StoreOK, FramesOK, FlagsOK
  <1>2. CASE UNCHANGED vars
    BY <1>2 DEF vars, TypeOK
  <1> QED BY <1>1, <1>2, OtherTypeOK DEF Next

\* Type correctness of image mode.
THEOREM PortImageTypeOK == Spec => []TypeOK
  <1> QED BY InitTypeOK, NextTypeOK, PTL DEF Spec

-------------------------------------------------------------------------------
(* Unique owners *)

\* Activating free paths keeps the active paths distinct.
LEMMA ActivateUnique ==
  ASSUME NEW r \in Registry, NEW q \in Port, NEW F \in SUBSET File,
         NEW s \in Stamp, UniqueActual(r), MayActivate(r, q, F, s)
  PROVE  UniqueActual(reg_entry_activate(r, q, F, s))
  <1> DEFINE n == reg_entry_activate(r, q, F, s)
  <1>1. \A o \in Port : \A x \in File :
          n.actual[o][x] = IF o = q /\ x \in F THEN <<x, s>> ELSE r.actual[o][x]
    BY DEF reg_entry_activate, Registry
  <1>2. \A x \in F : \A o \in Port : \A y \in File : r.actual[o][y] # <<x, s>>
    BY DEF MayActivate, reg_entry_owner
  <1> HIDE DEF n
  <1>3. ASSUME NEW q1 \in Port, NEW q2 \in Port, NEW f1 \in File, NEW f2 \in File,
               n.actual[q1][f1] = n.actual[q2][f2], n.actual[q1][f1] # NoPath
        PROVE  q1 = q2 /\ f1 = f2
    <2>1. CASE q1 = q /\ f1 \in F /\ q2 = q /\ f2 \in F
      <3>1. <<f1, s>> = <<f2, s>>
        BY <1>1, <1>3, <2>1
      <3> QED BY <2>1, <3>1
    <2>2. CASE q1 = q /\ f1 \in F /\ ~(q2 = q /\ f2 \in F)
      <3>1. <<f1, s>> = r.actual[q2][f2]
        BY <1>1, <1>3, <2>2
      <3> QED BY <1>2, <2>2, <3>1
    <2>3. CASE ~(q1 = q /\ f1 \in F) /\ q2 = q /\ f2 \in F
      <3>1. r.actual[q1][f1] = <<f2, s>>
        BY <1>1, <1>3, <2>3
      <3> QED BY <1>2, <2>3, <3>1
    <2>4. CASE ~(q1 = q /\ f1 \in F) /\ ~(q2 = q /\ f2 \in F)
      <3>1. r.actual[q1][f1] = r.actual[q2][f2] /\ r.actual[q1][f1] # NoPath
        BY <1>1, <1>3, <2>4
      <3> QED BY <3>1 DEF UniqueActual
    <2> QED BY <2>1, <2>2, <2>3, <2>4
  <1>4. UniqueActual(n)
    BY <1>3 DEF UniqueActual
  <1> QED BY <1>4 DEF n

\* Deactivating paths, and setting a state, keep the active paths distinct.
LEMMA DeactivateUnique ==
  ASSUME NEW r \in Registry, NEW q \in Port, UniqueActual(r)
  PROVE  /\ \A A : UniqueActual(reg_entry_deactivate(r, q, A))
         /\ \A s : UniqueActual(SetState(r, q, s))
  <1>1. ASSUME NEW A
        PROVE  UniqueActual(reg_entry_deactivate(r, q, A))
    <2> DEFINE n == reg_entry_deactivate(r, q, A)
    <2>1. \A o \in Port : \A x \in File : n.actual[o][x] \in {r.actual[o][x], NoPath}
      BY DEF reg_entry_deactivate, Registry
    <2> QED BY <2>1 DEF UniqueActual
  <1>2. ASSUME NEW s
        PROVE  UniqueActual(SetState(r, q, s))
    <2>1. SetState(r, q, s).actual = r.actual
      BY DEF SetState, Registry
    <2> QED BY <2>1 DEF UniqueActual
  <1> QED BY <1>1, <1>2

\* Before the first action no path is active.
LEMMA InitOneOwner == Init => OneOwner
  BY DEF Init, OneOwner, UniqueActual

\* Every step of a process keeps the active paths distinct, in the database
\* and in the open transaction.
LEMMA StepOneOwner ==
  ASSUME TypeOK, OneOwner, NEW p \in Proc, Step(p)
  PROVE  OneOwner'
  <1>0. StoreOK /\ FramesOK
    BY TypeOKParts
  <1>f. ASSUME cur[p].pc # "idle"
        PROVE  cur[p] \in Frame /\ cur[p].port \in Port
    BY <1>0, <1>f, BusyFrame DEF Frame
  <1>1. CASE UNCHANGED <<reg, work>> \/ Rollback \/ Commit
    BY <1>1 DEF OneOwner, UniqueActual, Rollback, Commit
  <1>2. CASE \/ ActivateCheck(p) \/ DeactivateOther(p) \/ Extract(p)
             \/ ClaimReplaced(p) \/ ClaimFree(p) \/ DeactivateReplaced(p)
             \/ MoveFile(p) \/ Unmove(p) \/ Unback(p) \/ RemoveFile(p)
             \/ UnmoveDone(p) \/ UnbackFails(p) \/ UnbackDone(p)
             \/ Reactivate(p) \/ Rethrow(p) \/ DeactivateCheck(p)
             \/ FailsButReached(p) \/ Retry(p) \/ Fail(p)
             \/ ClaimFails(p) \/ MoveFails(p) \/ RemoveFails(p)
             \/ CommitClaim(p) \/ CommitTake(p) \/ CommitRelease(p)
    BY <1>1, <1>2 DEF ActivateCheck, DeactivateOther, Extract, ClaimReplaced,
      ClaimFree, DeactivateReplaced, UnmoveDone, UnbackFails, UnbackDone,
      Reactivate, Rethrow, DeactivateCheck, FailsButReached, Retry, Fail,
      MoveFile, Unmove, Unback, RemoveFile, ClaimFails, MoveFails, RemoveFails,
      CommitClaim, CommitTake, CommitRelease, database
  <1>3. CASE StartClaim(p)
    BY <1>3 DEF StartClaim, StartWrite, OneOwner, UniqueActual
  <1>4. CASE ClaimForced(p)
    <2> DEFINE s == cur[p].stamp
    <2>1. cur[p] \in Frame
      BY <1>4, <1>f DEF ClaimForced, At
    <2>2. PICK a \in cur[p].todo :
            \/ UNCHANGED work
            \/ \E o \in reg_entry_owner(work, a) :
                 LET cleared == reg_entry_deactivate(work, o, {a}) IN
                 /\ MayActivate(cleared, o, {a[1]}, s)
                 /\ work' = reg_entry_activate(cleared, o, {a[1]}, s)
      BY <1>4 DEF ClaimForced
    <2>3. a[1] \in File /\ s \in Stamp
      BY <2>1, BackupTyped DEF Frame
    <2>4. UniqueActual(work')
      <3>1. CASE UNCHANGED work
        BY <3>1 DEF OneOwner, UniqueActual
      <3>2. ASSUME NEW o \in Port,
                   MayActivate(reg_entry_deactivate(work, o, {a}), o, {a[1]}, s),
                   work' = reg_entry_activate(reg_entry_deactivate(work, o, {a}),
                                              o, {a[1]}, s)
            PROVE  UniqueActual(work')
        <4> DEFINE cleared == reg_entry_deactivate(work, o, {a})
        <4>1. cleared \in Registry /\ UniqueActual(cleared)
          BY <1>0, RegistryTyped, DeactivateUnique DEF StoreOK, OneOwner
        <4>2. {a[1]} \in SUBSET File
          BY <2>3
        <4>3. UniqueActual(reg_entry_activate(cleared, o, {a[1]}, s))
          BY <2>3, <3>2, <4>1, <4>2, ActivateUnique
        <4> QED BY <3>2, <4>3
      <3> QED BY <2>2, <3>1, <3>2 DEF reg_entry_owner
    <2> QED BY <1>4, <2>4 DEF ClaimForced, OneOwner, UniqueActual
  <1>5. CASE StartTake(p)
    <2> DEFINE q == cur[p].port
    <2>1. q \in Port /\ ImageFiles[q] \in SUBSET File /\ 0 \in Stamp
      BY <1>5, <1>f, HomesTyped, RegEntryAssumption DEF StartTake, At, Stamp
    <2>2. MayActivate(reg, q, ImageFiles[q], 0)
            => UniqueActual(reg_entry_activate(reg, q, ImageFiles[q], 0))
      BY <1>0, <2>1, ActivateUnique DEF StoreOK, OneOwner
    <2> QED BY <1>1, <1>5, <2>2
      DEF StartTake, StartWrite, OneOwner, UniqueActual, database
  <1>6. CASE StartRelease(p)
    <2> DEFINE q == cur[p].port
    <2>1. q \in Port
      BY <1>6, <1>f DEF StartRelease, At
    <2>2. UniqueActual(reg_entry_deactivate(reg, q, cur[p].todo))
      BY <1>0, <2>1, DeactivateUnique DEF StoreOK, OneOwner
    <2> QED BY <1>1, <1>6, <2>2
      DEF StartRelease, StartWrite, OneOwner, UniqueActual, database
  <1>7. CASE SetInstalled(p) \/ SetImaged(p)
    <2> DEFINE q == cur[p].port
    <2>1. q \in Port
      BY <1>7, <1>f DEF SetInstalled, SetImaged, At
    <2>2. \A s : UniqueActual(SetState(reg, q, s))
      BY <1>0, <2>1, DeactivateUnique DEF StoreOK, OneOwner
    <2> QED BY <1>7, <2>2
      DEF SetInstalled, SetImaged, Autocommit, OneOwner, UniqueActual
  <1> QED BY <1>2, <1>3, <1>4, <1>5, <1>6, <1>7 DEF Step

\* Only commits and statements change the rows; they keep paths apart.
LEMMA NextOneOwner == TypeOK /\ OneOwner /\ [Next]_vars => OneOwner'
  <1> SUFFICES ASSUME TypeOK, OneOwner, [Next]_vars PROVE OneOwner'
    OBVIOUS
  <1>1. ASSUME NEW p \in Proc, Step(p) PROVE OneOwner'
    BY <1>1, StepOneOwner
  <1>2. ASSUME NEW p \in Proc, Crash(p) PROVE OneOwner'
    BY <1>2 DEF Crash, Rollback, database, OneOwner, UniqueActual
  <1>3. CASE \/ UNCHANGED vars
             \/ \E p \in Proc, op \in Op, q \in Port, asks \in ForceModes :
                  Start(p, op, q, asks)
             \/ \E x \in File : UserCreates(x)
             \/ \E a \in Path : UserDeletes(a)
    BY <1>3 DEF Start, UserCreates, UserDeletes, vars, database, OneOwner, UniqueActual
  <1> QED BY <1>1, <1>2, <1>3 DEF Next

\* reg_entry_owner has one answer: whatever the processes do, with or without
\* the registry lock, no two active rows of registry.files share a path.
THEOREM PortImageOneOwner == Spec => []OneOwner
  <1>1. Init => TypeOK /\ OneOwner
    BY InitTypeOK, InitOneOwner
  <1>2. (TypeOK /\ OneOwner) /\ [Next]_vars => (TypeOK /\ OneOwner)'
    BY NextTypeOK, NextOneOwner
  <1> QED BY <1>1, <1>2, PTL DEF Spec
-------------------------------------------------------------------------------
(* PortImage implements FileMap.  The inductive invariant is WorkingCopy with *)
(* TypeOK and OneOwner: a commit publishes the working copy, so what a commit *)
(* does to the database is what the open transaction may have done to its     *)
(* copy.                                                                      *)

-------------------------------------------------------------------------------
(* The parts of WorkingCopy *)

WriterInTxn == \A p \in Proc : InTxn(cur[p]) <=> writer = p

CallersWait ==
  \A p \in Proc : \A i \in 1..Len(callers[p]) : ~InTxn(callers[p][i])

WorkOK ==
  /\ writer = NoProc => work = reg
  /\ \A p \in Proc : writer = p => WorkOf(cur[p])

NamesOK == OwnNames(reg) /\ OwnNames(work)

\* WorkingCopy, split by what the steps of one process can disturb.
LEMMA WorkingCopyParts ==
  WorkingCopy <=> WriterInTxn /\ CallersWait /\ WorkOK /\ NamesOK
  BY DEF WorkingCopy, WriterInTxn, CallersWait, WorkOK, NamesOK

\* Before the first action no transaction is open.
LEMMA InitWorkingCopy == Init => WorkingCopy
  <1> SUFFICES ASSUME Init PROVE WorkingCopy
    OBVIOUS
  <1>1. \A p \in Proc : Len(callers[p]) = 0
    BY EmptySeq DEF Init
  <1>2. CallersWait
    BY <1>1 DEF CallersWait
  <1>3. WriterInTxn /\ WorkOK
    BY PortImageAssumption DEF Init, WriterInTxn, WorkOK, InTxn, Idle
  <1>4. NamesOK
    BY DEF Init, NamesOK, OwnNames
  <1> QED BY <1>2, <1>3, <1>4, WorkingCopyParts

-------------------------------------------------------------------------------
(* The rows keep the names of their files *)

\* reg_entry_activate gives the rows of p their own files' names.
LEMMA ActivateNames ==
  ASSUME NEW r \in Registry, NEW q \in Port, NEW F \in SUBSET File,
         NEW s \in Stamp, OwnNames(r)
  PROVE  OwnNames(reg_entry_activate(r, q, F, s))
  <1> DEFINE n == reg_entry_activate(r, q, F, s)
  <1>1. \A o \in Port : \A x \in File :
          n.actual[o][x] = IF o = q /\ x \in F THEN <<x, s>> ELSE r.actual[o][x]
    BY DEF reg_entry_activate, Registry
  <1> HIDE DEF n
  <1>2. ASSUME NEW o \in Port, NEW x \in File
        PROVE  n.actual[o][x] \in ({x} \X Stamp) \cup {NoPath}
    <2>1. CASE o = q /\ x \in F
      <3>1. <<x, s>> \in {x} \X Stamp
        OBVIOUS
      <3> QED BY <1>1, <2>1, <3>1
    <2>2. CASE ~(o = q /\ x \in F)
      <3>1. n.actual[o][x] = r.actual[o][x]
        BY <1>1, <2>2
      <3> QED BY <3>1 DEF OwnNames
    <2> QED BY <2>1, <2>2
  <1>3. OwnNames(n)
    BY <1>2 DEF OwnNames
  <1> QED BY <1>3 DEF n

\* reg_entry_deactivate leaves the rows that it does not clear as they were.
LEMMA DeactivateNames ==
  ASSUME NEW r \in Registry, NEW q \in Port, OwnNames(r)
  PROVE  /\ \A A : OwnNames(reg_entry_deactivate(r, q, A))
         /\ \A s : OwnNames(SetState(r, q, s))
  <1>1. ASSUME NEW A
        PROVE  OwnNames(reg_entry_deactivate(r, q, A))
    <2> DEFINE n == reg_entry_deactivate(r, q, A)
    <2>1. \A o \in Port : \A x \in File : n.actual[o][x] \in {r.actual[o][x], NoPath}
      BY DEF reg_entry_deactivate, Registry
    <2> QED BY <2>1 DEF OwnNames
  <1>2. ASSUME NEW s
        PROVE  OwnNames(SetState(r, q, s))
    <2>1. SetState(r, q, s).actual = r.actual
      BY DEF SetState, Registry
    <2> QED BY <2>1 DEF OwnNames
  <1> QED BY <1>1, <1>2

-------------------------------------------------------------------------------
(* Moving one row aside *)

\* One forced claim: the row of file x of port o, active at a, gets the path
\* <<x, s>>; the working copy still differs from the database by such moves.
LEMMA OneMoreAside ==
  ASSUME TypeOK, NamesOK, NEW s \in Stamp, MovedAside(s),
         NEW a \in Path, NEW o \in reg_entry_owner(work, a), UNCHANGED reg,
         LET cleared == reg_entry_deactivate(work, o, {a}) IN
           /\ MayActivate(cleared, o, {a[1]}, s)
           /\ work' = reg_entry_activate(cleared, o, {a[1]}, s)
  PROVE  MovedAside(s)' /\ NamesOK'
  <1> DEFINE x == a[1]
             cleared == reg_entry_deactivate(work, o, {a})
  <1>1. o \in Port /\ x \in File /\ {x} \in SUBSET File
    BY BackupTyped DEF reg_entry_owner
  <1>2. work \in Registry /\ reg \in Registry
    BY DEF TypeOK
  <1>3. cleared \in Registry /\ OwnNames(cleared)
    BY <1>1, <1>2, RegistryTyped, DeactivateNames DEF NamesOK
  <1>4. work.actual[o][x] = a
    <2>1. PICK y \in File : work.actual[o][y] = a
      BY DEF reg_entry_owner
    <2>2. a \in {y} \X Stamp
      BY <1>1, <2>1, RegEntryAssumption DEF NamesOK, OwnNames
    <2> QED BY <2>1, <2>2
  <1>5. \A q \in Port : \A y \in File :
          cleared.actual[q][y] = IF q = o /\ work.actual[o][y] = a THEN NoPath
                                 ELSE work.actual[q][y]
    BY <1>2 DEF reg_entry_deactivate, Registry
  <1>6. \A q \in Port : \A y \in File :
          work'.actual[q][y] = IF q = o /\ y \in {x} THEN <<y, s>>
                               ELSE cleared.actual[q][y]
    BY <1>1, <1>3 DEF reg_entry_activate, Registry
  <1>7. NamesOK'
    <2>1. OwnNames(work')
      BY <1>1, <1>3, ActivateNames
    <2> QED BY <2>1 DEF NamesOK, OwnNames
  <1>8. \A q \in Port : \A y \in File : cleared.actual[q][y] # <<x, s>>
    BY DEF MayActivate, reg_entry_owner
  <1> HIDE DEF cleared, x
  <1>9. ASSUME NEW q \in Port, NEW y \in File, ~(q = o /\ y = x)
        PROVE  work'.actual[q][y] = work.actual[q][y]
    <2>1. work'.actual[q][y] = cleared.actual[q][y]
      BY <1>6, <1>9
    <2>2. ~(q = o /\ work.actual[o][y] = a)
      <3>1. ASSUME q = o, work.actual[o][y] = a PROVE FALSE
        <4>1. a \in {y} \X Stamp
          BY <1>1, <3>1, RegEntryAssumption DEF NamesOK, OwnNames
        <4> QED BY <1>9, <3>1, <4>1 DEF x
      <3> QED BY <3>1
    <2> QED BY <1>5, <2>1, <2>2
  <1>10. work'.actual[o][x] = <<x, s>>
    BY <1>1, <1>6
  <1>11. reg.actual[o][x] # NoPath
    <2>1. a # NoPath
      BY RegEntryAssumption
    <2> QED BY <1>1, <1>4, <2>1 DEF MovedAside
  <1>12. ASSUME reg.actual[o][x] # <<x, s>>
         PROVE  reg_entry_owner(reg, <<x, s>>) = {}
    <2>1. ASSUME NEW q \in Port, NEW y \in File, reg.actual[q][y] = <<x, s>>
          PROVE  FALSE
      <3>1. <<x, s>> # NoPath /\ <<x, s>> \in Path
        BY <1>1, RegEntryAssumption DEF Path
      <3>2. <<x, s>> \in {y} \X Stamp
        BY <2>1, <3>1 DEF NamesOK, OwnNames
      <3>3. x = y
        BY <3>2
      <3>4. work.actual[q][x] = <<x, s>>
        BY <1>1, <2>1, <3>3 DEF MovedAside
      <3>5. q # o
        BY <1>12, <2>1, <3>3
      <3>6. cleared.actual[q][x] = <<x, s>>
        BY <1>1, <1>5, <3>4, <3>5
      <3> QED BY <1>1, <1>8, <3>6
    <2> QED BY <2>1 DEF reg_entry_owner
  <1>13. MovedAside(s)'
    <2> SUFFICES ASSUME NEW q \in Port, NEW y \in File,
                        work'.actual[q][y] # reg.actual[q][y]
                 PROVE  /\ reg.actual[q][y] # NoPath
                        /\ work'.actual[q][y] = <<y, s>>
                        /\ reg_entry_owner(reg, <<y, s>>) = {}
      BY DEF MovedAside, reg_entry_owner
    <2>1. CASE q = o /\ y = x
      BY <1>10, <1>11, <1>12, <2>1
    <2>2. CASE ~(q = o /\ y = x)
      BY <1>9, <2>2 DEF MovedAside
    <2> QED BY <2>1, <2>2
  <1> QED BY <1>7, <1>13

-------------------------------------------------------------------------------
(* The steps of a process, by what they do to the open transaction *)

\* What the other processes see of a step of p that moves p to frame.
OnlyMoves(p) == \A o \in Proc \ {p} : cur'[o] = cur[o]

\* A step outside the body of a transaction that leaves the database alone.
LEMMA QuietStep ==
  ASSUME TypeOK, WriterInTxn, WorkOK, NEW p \in Proc, UNCHANGED database,
         ~InTxn(cur[p]), ~InTxn(cur'[p]), OnlyMoves(p)
  PROVE  WriterInTxn' /\ WorkOK'
  <1>1. writer # p
    BY DEF WriterInTxn
  <1>2. WriterInTxn'
    BY <1>1 DEF WriterInTxn, OnlyMoves, InTxn, database
  <1>3. WorkOK'
    <2>1. \A o \in Proc : writer = o => WorkOf(cur[o])'
      BY <1>1 DEF WorkOK, OnlyMoves, WorkOf, MovedAside, MayActivate,
        reg_entry_owner, reg_entry_activate, reg_entry_deactivate, database
    <2> QED BY <2>1 DEF WorkOK, database
  <1> QED BY <1>2, <1>3

\* A transaction ends, or there was none: the copies agree and nobody writes.
LEMMA EndStep ==
  ASSUME TypeOK, WriterInTxn, NEW p \in Proc, writer \in {p, NoProc},
         writer' = NoProc, work' = reg', ~InTxn(cur'[p]), OnlyMoves(p)
  PROVE  WriterInTxn' /\ WorkOK'
  <1>1. NoProc \notin Proc
    BY PortImageAssumption
  <1>2. WriterInTxn'
    BY <1>1 DEF WriterInTxn, OnlyMoves, InTxn
  <1> QED BY <1>1, <1>2 DEF WorkOK

\* A transaction starts, or goes on: p is the writer and its copy is right.
LEMMA BodyStep ==
  ASSUME TypeOK, WriterInTxn, NEW p \in Proc, writer \in {p, NoProc},
         writer' = p, InTxn(cur'[p]), WorkOf(cur[p])', OnlyMoves(p)
  PROVE  WriterInTxn' /\ WorkOK'
  <1>1. NoProc \notin Proc
    BY PortImageAssumption
  <1>2. WriterInTxn'
    BY <1>1 DEF WriterInTxn, OnlyMoves, InTxn
  <1> QED BY <1>1, <1>2 DEF WorkOK

-------------------------------------------------------------------------------
(* Calls and returns stay outside the bodies of transactions *)

\* A step of p changes no other process's current call.
LEMMA StepOnlyMoves ==
  ASSUME TypeOK, NEW p \in Proc, Step(p)
  PROVE  OnlyMoves(p)
  <1>1. ASSUME NEW c, cur' = [cur EXCEPT ![p] = c] PROVE OnlyMoves(p)
    BY <1>1 DEF OnlyMoves, TypeOK
  <1>2. ASSUME Return(p) PROVE OnlyMoves(p)
    BY <1>1, <1>2 DEF Return
  <1>3. \E c : cur' = [cur EXCEPT ![p] = c] \/ Return(p)
    BY DEF Step, Goto, Nested, ActivateCheck, DeactivateOther, Extract,
      StartClaim, ClaimReplaced, ClaimFree, ClaimForced, ClaimFails, CommitClaim,
      DeactivateReplaced, StartTake, MoveFile, MoveFails, CommitTake,
      SetInstalled, Unmove, UnmoveDone, Unback, UnbackFails, UnbackDone,
      Reactivate, Rethrow, DeactivateCheck, StartRelease, RemoveFile,
      RemoveFails, CommitRelease, SetImaged, FailsButReached, Retry, Fail
  <1> QED BY <1>1, <1>2, <1>3

\* Without the innermost call, the suspended calls are still outside transactions.
LEMMA PoppedWaits ==
  ASSUME TypeOK, CallersWait, NEW p \in Proc, callers[p] # <<>>,
         callers' = [callers EXCEPT ![p] = SubSeq(callers[p], 1, Len(callers[p]) - 1)]
  PROVE  CallersWait'
  <1> DEFINE s == callers[p]
             t == SubSeq(s, 1, Len(s) - 1)
  <1>1. s \in Seq(Frame) /\ Len(s) \in Nat \ {0} /\ Len(s) \in 1..Len(s)
    BY LastCaller DEF TypeOK
  <1>2. /\ Len(t) = Len(s) - 1
        /\ \A i \in 1..(Len(s) - 1) : t[i] = s[i]
    BY <1>1
  <1>3. \A i \in 1..Len(s) : ~InTxn(s[i])
    BY DEF CallersWait
  <1>4. callers' = [callers EXCEPT ![p] = t]
    OBVIOUS
  <1> HIDE DEF s, t
  <1>5. ASSUME NEW i \in 1..Len(t) PROVE ~InTxn(t[i])
    <2>1. i \in 1..(Len(s) - 1) /\ i \in 1..Len(s)
      BY <1>1, <1>2
    <2>2. t[i] = s[i]
      BY <1>2, <2>1
    <2> QED BY <1>3, <2>1, <2>2
  <1> QED BY <1>4, <1>5 DEF CallersWait, TypeOK

\* After the end of a call the suspended calls are outside transactions.
LEMMA ReturnWaits ==
  ASSUME TypeOK, CallersWait, NEW p \in Proc, Return(p)
  PROVE  CallersWait' /\ ~InTxn(cur'[p])
  <1>1. CASE callers[p] = <<>>
    BY <1>1 DEF Return, TypeOK, CallersWait, InTxn, Idle
  <1>2. CASE callers[p] # <<>>
    <2> DEFINE s == callers[p]
    <2>1. s \in Seq(Frame) /\ Len(s) \in Nat \ {0} /\ Len(s) \in 1..Len(s)
      BY <1>2, LastCaller DEF TypeOK
    <2>2. /\ cur'[p] = s[Len(s)]
          /\ callers' = [callers EXCEPT ![p] = SubSeq(s, 1, Len(s) - 1)]
      BY <1>2 DEF Return, TypeOK
    <2>3. ~InTxn(s[Len(s)])
      BY <2>1 DEF CallersWait
    <2>4. CallersWait'
      BY <1>2, <2>2, PoppedWaits
    <2> QED BY <2>2, <2>3, <2>4
  <1> QED BY <1>1, <1>2

\* A call made outside a transaction suspends a frame that is outside one.
LEMMA NestedWaits ==
  ASSUME TypeOK, CallersWait, NEW p \in Proc, cur[p] \in Frame, ~InTxn(cur[p]),
         NEW op \in Op, NEW q \in Port, Nested(p, op, q)
  PROVE  CallersWait' /\ ~InTxn(cur'[p])
  <1> DEFINE s == callers[p]
             e == [cur[p] EXCEPT !.pend = @ \ {q}]
  <1>1. s \in Seq(Frame) /\ e \in Frame /\ ~InTxn(e)
    BY DEF TypeOK, Frame, InTxn
  <1>2. callers' = [callers EXCEPT ![p] = Append(s, e)]
    BY DEF Nested
  <1>3. ~InTxn(cur'[p])
    BY DEF Nested, Call, InTxn, TypeOK
  <1> HIDE DEF e
  <1>4. \A i \in 1..Len(s) : ~InTxn(s[i])
    BY DEF CallersWait
  <1>5. \A i \in 1..Len(Append(s, e)) : ~InTxn(Append(s, e)[i])
    BY <1>1, <1>4, AppendProperties
  <1>6. CallersWait'
    BY <1>2, <1>5 DEF CallersWait, TypeOK
  <1> QED BY <1>3, <1>6

\* So is the frame to which a failed call returns.
LEMMA FailWaits ==
  ASSUME TypeOK, CallersWait, NEW p \in Proc, Fail(p)
  PROVE  CallersWait' /\ ~InTxn(cur'[p])
  <1>1. CASE callers[p] = <<>>
    BY <1>1, ReturnWaits DEF Fail
  <1>2. CASE callers[p] # <<>>
    <2> DEFINE s == callers[p]
    <2>1. s \in Seq(Frame) /\ Len(s) \in Nat \ {0} /\ s[Len(s)] \in Frame
      BY <1>2, LastCaller DEF TypeOK
    <2>2. callers' = [callers EXCEPT ![p] = SubSeq(s, 1, Len(s) - 1)]
      BY <1>2 DEF Fail
    <2>3. PICK pc \in {"unback", "failed"} :
            cur' = [cur EXCEPT ![p] = [s[Len(s)] EXCEPT !.pc = pc]]
      BY <1>2 DEF Fail
    <2>4. ~InTxn(cur'[p])
      BY <2>1, <2>3 DEF TypeOK, Frame, InTxn
    <2>5. CallersWait'
      BY <1>2, <2>2, PoppedWaits
    <2> QED BY <2>4, <2>5
  <1> QED BY <1>1, <1>2

-------------------------------------------------------------------------------
(* Every step of a process keeps WorkingCopy *)

\* Action by action: where a transaction starts, goes on, ends, or is not open.
LEMMA StepWorkingCopy ==
  ASSUME TypeOK, WorkingCopy, NEW p \in Proc, Step(p)
  PROVE  WorkingCopy'
  <1>0. WriterInTxn /\ CallersWait /\ WorkOK /\ NamesOK /\ OnlyMoves(p)
    BY WorkingCopyParts, StepOnlyMoves
  <1>i. ASSUME WriterInTxn', CallersWait', WorkOK', NamesOK'
        PROVE  WorkingCopy'
    BY <1>i DEF WorkingCopy, WriterInTxn, CallersWait, WorkOK, NamesOK
  <1>c. ASSUME UNCHANGED callers PROVE CallersWait'
    BY <1>0, <1>c DEF CallersWait
  <1>n. ASSUME reg' \in {reg, work}, work' \in {reg, work} PROVE NamesOK'
    BY <1>0, <1>n DEF NamesOK, OwnNames
  <1>t. reg \in Registry /\ work \in Registry /\ 0 \in Stamp
    BY RegEntryAssumption DEF TypeOK, Stamp
  <1>f. ASSUME cur[p].pc # "idle"
        PROVE  /\ cur[p] \in Frame /\ cur[p].port \in Port
               /\ ImageFiles[cur[p].port] \in SUBSET File
    BY <1>f, BusyFrame, HomesTyped DEF TypeOK, FramesOK, Frame
  <1>g. ASSUME cur[p] \in Frame, NEW pc, pc \notin {"claiming", "moving", "removing"},
               NEW todo, Goto(p, pc, todo)
        PROVE  ~InTxn(cur'[p])
    BY <1>g DEF Goto, InTxn, TypeOK, Frame
  <1>h. ASSUME cur[p] \in Frame, NEW pc, pc \notin {"claiming", "moving", "removing"},
               NEW pend, cur' = [cur EXCEPT ![p].pc = pc, ![p].pend = pend]
        PROVE  ~InTxn(cur'[p])
    BY <1>h DEF InTxn, TypeOK, Frame
  \* Steps outside transactions.
  <1>e. ASSUME NEW op \in Op, NEW q \in Port, Nested(p, op, q), cur[p] \in Frame,
               ~InTxn(cur[p])
        PROVE  CallersWait' /\ ~InTxn(cur'[p])
    BY <1>0, <1>e, NestedWaits
  <1>1. ASSUME UNCHANGED database, ~InTxn(cur[p]), ~InTxn(cur'[p]), CallersWait'
        PROVE  WorkingCopy'
    BY <1>0, <1>1, <1>i, <1>n, QuietStep DEF database
  <1>2. CASE \/ ActivateCheck(p) \/ Extract(p) \/ Unmove(p) \/ UnmoveDone(p)
             \/ Unback(p) \/ UnbackFails(p) \/ UnbackDone(p) \/ Rethrow(p)
             \/ DeactivateCheck(p) \/ Retry(p)
    <2>1. UNCHANGED <<database, callers>> /\ cur[p] \in Frame /\ ~InTxn(cur[p])
      BY <1>2, <1>f DEF ActivateCheck, Extract, Unmove, UnmoveDone, Unback,
        UnbackFails, UnbackDone, Rethrow, DeactivateCheck, Retry, At, InTxn, inCall
    <2>3. ~InTxn(cur'[p])
      <3>1. CASE Unmove(p)
        <4>1. PICK a : cur' = [cur EXCEPT ![p].todo = @ \ {a}]
          BY <3>1 DEF Unmove
        <4> QED BY <2>1, <4>1 DEF TypeOK, Frame, InTxn
      <3>2. CASE Unback(p)
        <4>1. PICK a : cur' = [cur EXCEPT ![p].backups = @ \ {a}]
          BY <3>2 DEF Unback
        <4> QED BY <2>1, <4>1 DEF TypeOK, Frame, InTxn
      <3>3. CASE Retry(p)
        BY <2>1, <3>3 DEF Retry, Call, InTxn, TypeOK
      <3>4. CASE UnbackDone(p)
        BY <2>1, <3>4, <1>h DEF UnbackDone
      <3>5. CASE ActivateCheck(p)
        BY <2>1, <3>5, <1>g, <1>h DEF ActivateCheck
      <3>6. CASE Extract(p)
        BY <2>1, <3>6, <1>g DEF Extract
      <3>7. CASE UnmoveDone(p) \/ UnbackFails(p) \/ Rethrow(p)
        BY <2>1, <3>7, <1>g DEF UnmoveDone, UnbackFails, Rethrow
      <3>8. CASE DeactivateCheck(p)
        BY <2>1, <3>8, <1>g DEF DeactivateCheck
      <3> QED BY <1>2, <3>1, <3>2, <3>3, <3>4, <3>5, <3>6, <3>7, <3>8
    <2> QED BY <1>1, <1>c, <2>1, <2>3
  <1>3. CASE DeactivateOther(p) \/ DeactivateReplaced(p)
    <2>1. cur[p] \in Frame /\ ~InTxn(cur[p]) /\ UNCHANGED database
      BY <1>3, <1>f DEF DeactivateOther, DeactivateReplaced, At, InTxn
    <2>2. PICK q \in cur[p].pend : Nested(p, "deactivate", q)
      BY <1>3 DEF DeactivateOther, DeactivateReplaced
    <2>3. q \in Port
      BY <2>1 DEF Frame
    <2>4. CallersWait' /\ ~InTxn(cur'[p])
      BY <1>e, <2>1, <2>2, <2>3 DEF Op
    <2> QED BY <1>1, <2>1, <2>4
  <1>3a. CASE Reactivate(p)
    <2>1. cur[p] \in Frame /\ ~InTxn(cur[p]) /\ UNCHANGED database
      BY <1>3a, <1>f DEF Reactivate, At, InTxn
    <2>2. PICK o \in cur[p].pend :
            IF reg.state[o] = "imaged"
            THEN Nested(p, "activate", o)
            ELSE cur' = [cur EXCEPT ![p].pend = @ \ {o}] /\ UNCHANGED callers
      BY <1>3a DEF Reactivate
    <2>3. o \in Port
      BY <2>1 DEF Frame
    <2>4. CASE reg.state[o] = "imaged"
      <3>1. Nested(p, "activate", o)
        BY <2>2, <2>4
      <3>2. CallersWait' /\ ~InTxn(cur'[p])
        BY <1>e, <2>1, <2>3, <3>1 DEF Op
      <3> QED BY <1>1, <2>1, <3>2
    <2>5. CASE reg.state[o] # "imaged"
      <3>1. cur' = [cur EXCEPT ![p].pend = @ \ {o}] /\ UNCHANGED callers
        BY <2>2, <2>5
      <3>2. ~InTxn(cur'[p])
        BY <2>1, <3>1 DEF InTxn, TypeOK, Frame
      <3> QED BY <1>1, <1>c, <2>1, <3>1, <3>2
    <2> QED BY <2>4, <2>5
  <1>4. CASE FailsButReached(p)
    BY <1>0, <1>1, <1>4, ReturnWaits DEF FailsButReached, InTxn
  <1>5. CASE Fail(p)
    BY <1>0, <1>1, <1>5, FailWaits DEF Fail, InTxn
  \* Steps in the body that leave the working copy as it is.
  <1>6. CASE ClaimReplaced(p) \/ ClaimFree(p) \/ MoveFile(p) \/ RemoveFile(p)
    <2>1. /\ UNCHANGED <<database, callers>> /\ InTxn(cur[p]) /\ cur[p] \in Frame
      BY <1>6, <1>f DEF ClaimReplaced, ClaimFree, MoveFile, RemoveFile, At,
        InTxn, inCall
    <2>2. /\ cur'[p].pc = cur[p].pc
          /\ cur'[p].port = cur[p].port
          /\ cur'[p].stamp = cur[p].stamp
      <3>1. CASE ClaimReplaced(p)
        <4>1. PICK a, o : cur' = [cur EXCEPT ![p].todo = @ \ {a},
                                             ![p].replaced = @ \cup {o}]
          BY <3>1 DEF ClaimReplaced
        <4> QED BY <2>1, <4>1 DEF TypeOK, Frame
      <3>2. CASE ClaimFree(p) \/ MoveFile(p) \/ RemoveFile(p)
        <4>1. PICK a : cur' = [cur EXCEPT ![p].todo = @ \ {a}]
          BY <3>2 DEF ClaimFree, MoveFile, RemoveFile
        <4> QED BY <2>1, <4>1 DEF TypeOK, Frame
      <3> QED BY <1>6, <3>1, <3>2
    <2>3. writer = p /\ WorkOf(cur[p])
      BY <1>0, <2>1 DEF WriterInTxn, WorkOK
    <2>4. WorkOf(cur[p])' /\ InTxn(cur'[p])
      <3>1. reg' = reg /\ work' = work
        BY <2>1 DEF database
      <3>2. InTxn(cur'[p])
        BY <2>1, <2>2 DEF InTxn
      <3>3. CASE cur[p].pc = "claiming"
        BY <2>2, <2>3, <3>1, <3>2, <3>3 DEF WorkOf, MovedAside, reg_entry_owner
      <3>4. CASE cur[p].pc = "moving"
        BY <2>2, <2>3, <3>1, <3>2, <3>4 DEF WorkOf, MayActivate, reg_entry_owner,
          reg_entry_activate
      <3>5. CASE cur[p].pc = "removing"
        BY <2>2, <2>3, <3>1, <3>2, <3>5 DEF WorkOf, reg_entry_deactivate
      <3> QED BY <2>1, <3>2, <3>3, <3>4, <3>5 DEF InTxn
    <2>5. WriterInTxn' /\ WorkOK'
      BY <1>0, <2>1, <2>3, <2>4, BodyStep DEF database
    <2> QED BY <1>c, <1>i, <1>n, <2>1, <2>5 DEF database
  <1>7. CASE ClaimForced(p)
    <2>0. PICK s : s = cur[p].stamp
      OBVIOUS
    <2>1. cur[p] \in Frame /\ cur[p].pc = "claiming" /\ InTxn(cur[p])
      BY <1>7, <1>f DEF ClaimForced, At, InTxn
    <2>2. writer = p /\ MovedAside(s) /\ s \in Stamp
      BY <1>0, <2>0, <2>1 DEF WriterInTxn, WorkOK, WorkOf, Frame
    <2>3. reg' = reg /\ writer' = writer /\ callers' = callers
      BY <1>7 DEF ClaimForced, inCall
    <2>4. PICK a \in cur[p].todo :
            \/ UNCHANGED work
            \/ \E o \in reg_entry_owner(work, a) :
                 LET cleared == reg_entry_deactivate(work, o, {a}) IN
                 /\ MayActivate(cleared, o, {a[1]}, s)
                 /\ work' = reg_entry_activate(cleared, o, {a[1]}, s)
      BY <1>7, <2>0 DEF ClaimForced
    <2>5. a \in Path
      BY <2>1 DEF Frame
    <2>6. MovedAside(s)' /\ NamesOK'
      <3>1. CASE UNCHANGED work
        <4>1. reg' = reg /\ work' = work
          BY <2>3, <3>1
        <4>2. MovedAside(s) => MovedAside(s)'
          BY <4>1 DEF MovedAside, reg_entry_owner
        <4> QED BY <1>n, <2>2, <4>1, <4>2
      <3>2. CASE \E o \in reg_entry_owner(work, a) :
                   LET cleared == reg_entry_deactivate(work, o, {a}) IN
                   /\ MayActivate(cleared, o, {a[1]}, s)
                   /\ work' = reg_entry_activate(cleared, o, {a[1]}, s)
        <4>1. PICK o \in reg_entry_owner(work, a) :
                   LET cleared == reg_entry_deactivate(work, o, {a}) IN
                   /\ MayActivate(cleared, o, {a[1]}, s)
                   /\ work' = reg_entry_activate(cleared, o, {a[1]}, s)
          BY <3>2
        <4> QED BY <1>0, <2>2, <2>3, <2>5, <4>1, OneMoreAside
      <3> QED BY <2>4, <3>1, <3>2
    <2>7. cur'[p].pc = "claiming" /\ cur'[p].stamp = s
      BY <1>7, <2>0, <2>1 DEF ClaimForced, TypeOK, Frame
    <2>8. InTxn(cur'[p]) /\ WorkOf(cur[p])'
      BY <2>6, <2>7 DEF InTxn, WorkOf, MovedAside
    <2>9. WriterInTxn' /\ WorkOK'
      BY <1>0, <2>2, <2>3, <2>8, BodyStep
    <2> QED BY <1>c, <1>i, <2>3, <2>6, <2>9
  \* Steps that open a transaction.
  <1>8. CASE StartClaim(p)
    <2>1. /\ writer = NoProc /\ writer' = p /\ reg' = reg /\ work' = reg
          /\ UNCHANGED callers /\ cur[p] \in Frame
      BY <1>8, <1>f DEF StartClaim, StartWrite, At, inCall
    <2>2. cur'[p].pc = "claiming"
      BY <1>8, <2>1 DEF StartClaim, TypeOK, Frame
    <2>3. WorkOf(cur[p])' /\ InTxn(cur'[p])
      BY <2>1, <2>2 DEF WorkOf, MovedAside, InTxn
    <2>4. WriterInTxn' /\ WorkOK'
      BY <1>0, <2>1, <2>3, BodyStep
    <2> QED BY <1>c, <1>i, <1>n, <2>1, <2>4
  <1>9. CASE StartTake(p)
    <2> DEFINE q == cur[p].port
               F == ImageFiles[q]
    <2>1. /\ cur[p] \in Frame /\ q \in Port /\ F \in SUBSET File
          /\ ~InTxn(cur[p]) /\ UNCHANGED callers
      BY <1>9, <1>f DEF StartTake, At, InTxn, inCall
    <2>2. CASE MayActivate(reg, q, F, 0)
      <3>1. /\ writer = NoProc /\ writer' = p /\ reg' = reg
            /\ work' = reg_entry_activate(reg, q, F, 0)
        BY <1>9, <2>2 DEF StartTake, StartWrite
      <3>2. cur'[p].pc = "moving" /\ cur'[p].port = q
        BY <1>9, <2>1, <2>2 DEF StartTake, Goto, TypeOK, Frame
      <3>3. WorkOf(cur[p])' /\ InTxn(cur'[p])
        BY <2>2, <3>1, <3>2 DEF WorkOf, InTxn, MayActivate, reg_entry_owner,
          reg_entry_activate
      <3>4. NamesOK'
        BY <1>0, <1>t, <2>1, <3>1, ActivateNames DEF NamesOK
      <3>5. WriterInTxn' /\ WorkOK'
        BY <1>0, <3>1, <3>3, BodyStep
      <3> QED BY <1>c, <1>i, <2>1, <3>4, <3>5
    <2>3. CASE ~MayActivate(reg, q, F, 0)
      <3>1. UNCHANGED database /\ ~InTxn(cur'[p])
        BY <1>9, <2>1, <2>3 DEF StartTake, Goto, TypeOK, Frame, InTxn
      <3> QED BY <1>1, <1>c, <2>1, <3>1
    <2> QED BY <2>2, <2>3
  <1>10. CASE StartRelease(p)
    <2> DEFINE q == cur[p].port
               A == cur[p].todo
    <2>1. /\ cur[p] \in Frame /\ q \in Port /\ A \in SUBSET Path
          /\ ~InTxn(cur[p]) /\ UNCHANGED callers
      BY <1>10, <1>f DEF StartRelease, At, InTxn, inCall, Frame
    <2>2. CASE MayDeactivate(reg, q, A)
      <3>1. /\ writer = NoProc /\ writer' = p /\ reg' = reg
            /\ work' = reg_entry_deactivate(reg, q, A)
        BY <1>10, <2>2 DEF StartRelease, StartWrite
      <3>2. cur'[p].pc = "removing" /\ cur'[p].port = q
        BY <1>10, <2>1, <2>2 DEF StartRelease, Goto, TypeOK, Frame
      <3>3. WorkOf(cur[p])' /\ InTxn(cur'[p])
        BY <2>1, <3>1, <3>2 DEF WorkOf, InTxn, reg_entry_deactivate
      <3>4. NamesOK'
        BY <1>0, <1>t, <2>1, <3>1, DeactivateNames DEF NamesOK
      <3>5. WriterInTxn' /\ WorkOK'
        BY <1>0, <3>1, <3>3, BodyStep
      <3> QED BY <1>c, <1>i, <2>1, <3>4, <3>5
    <2>3. CASE ~MayDeactivate(reg, q, A)
      <3>1. UNCHANGED database /\ ~InTxn(cur'[p])
        BY <1>10, <2>1, <2>3 DEF StartRelease, Goto, TypeOK, Frame, InTxn
      <3> QED BY <1>1, <1>c, <2>1, <3>1
    <2> QED BY <2>2, <2>3
  \* Steps that end a transaction, or are one.
  <1>11. CASE \/ ClaimFails(p) \/ MoveFails(p) \/ RemoveFails(p)
              \/ CommitClaim(p) \/ CommitTake(p) \/ CommitRelease(p)
    <2>1. InTxn(cur[p]) /\ UNCHANGED callers /\ (Commit \/ Rollback)
      BY <1>11 DEF ClaimFails, MoveFails, RemoveFails, CommitClaim, CommitTake,
        CommitRelease, At, InTxn, inCall
    <2>2. ~InTxn(cur'[p])
      <3>1. cur[p] \in Frame
        BY <1>11, <1>f DEF ClaimFails, MoveFails, RemoveFails, CommitClaim,
          CommitTake, CommitRelease, At
      <3>2. CASE CommitClaim(p)
        BY <3>1, <3>2, <1>h DEF CommitClaim
      <3>3. CASE CommitTake(p) \/ CommitRelease(p)
        BY <3>1, <3>3, <1>g DEF CommitTake, CommitRelease
      <3>4. CASE ClaimFails(p) \/ MoveFails(p) \/ RemoveFails(p)
        BY <3>1, <3>4, <1>g DEF ClaimFails, MoveFails, RemoveFails
      <3> QED BY <1>11, <3>2, <3>3, <3>4
    <2>3. writer = p
      BY <1>0, <2>1 DEF WriterInTxn
    <2>4. /\ writer' = NoProc /\ work' = reg'
          /\ reg' \in {reg, work} /\ work' \in {reg, work}
      BY <2>1 DEF Commit, Rollback
    <2>5. WriterInTxn' /\ WorkOK'
      BY <1>0, <2>2, <2>3, <2>4, EndStep
    <2> QED BY <1>c, <1>i, <1>n, <2>1, <2>4, <2>5
  <1>12. CASE SetInstalled(p) \/ SetImaged(p)
    <2>1. cur[p].port \in Port /\ Return(p)
      BY <1>12, <1>f DEF SetInstalled, SetImaged, At
    <2>2. PICK st : /\ writer = NoProc /\ writer' = NoProc
                    /\ reg' = SetState(reg, cur[p].port, st) /\ work' = reg'
      BY <1>12 DEF SetInstalled, SetImaged, Autocommit
    <2>3. NamesOK'
      BY <1>0, <1>t, <2>1, <2>2, DeactivateNames DEF NamesOK
    <2>4. CallersWait' /\ ~InTxn(cur'[p])
      BY <1>0, <2>1, ReturnWaits
    <2>5. WriterInTxn' /\ WorkOK'
      BY <1>0, <2>2, <2>4, EndStep
    <2> QED BY <1>i, <2>3, <2>4, <2>5
  <1> QED
    BY <1>2, <1>3, <1>3a, <1>4, <1>5, <1>6, <1>7, <1>8, <1>9, <1>10, <1>11, <1>12 DEF Step

\* WorkingCopy, with the type invariant, is inductive.
LEMMA NextWorkingCopy == TypeOK /\ WorkingCopy /\ [Next]_vars => WorkingCopy'
  <1> SUFFICES ASSUME TypeOK, WorkingCopy, [Next]_vars PROVE WorkingCopy'
    OBVIOUS
  <1>0. WriterInTxn /\ CallersWait /\ WorkOK /\ NamesOK
    BY WorkingCopyParts
  <1>i. ASSUME WriterInTxn', CallersWait', WorkOK', NamesOK'
        PROVE  WorkingCopy'
    BY <1>i DEF WorkingCopy, WriterInTxn, CallersWait, WorkOK, NamesOK
  <1>1. ASSUME NEW p \in Proc, Step(p) PROVE WorkingCopy'
    BY <1>1, StepWorkingCopy
  <1>2. ASSUME NEW p \in Proc, NEW op \in Op, NEW q \in Port, NEW asks \in ForceModes,
               Start(p, op, q, asks)
        PROVE  WorkingCopy'
    <2>1. /\ UNCHANGED database /\ UNCHANGED callers
          /\ ~InTxn(cur[p]) /\ ~InTxn(cur'[p]) /\ OnlyMoves(p)
      BY <1>2 DEF Start, InTxn, Call, Idle, OnlyMoves, TypeOK
    <2>2. WriterInTxn' /\ WorkOK'
      BY <1>0, <2>1, QuietStep
    <2>3. CallersWait' /\ NamesOK'
      BY <1>0, <2>1 DEF CallersWait, NamesOK, OwnNames, database
    <2> QED BY <1>i, <2>2, <2>3
  <1>3. ASSUME NEW p \in Proc, Crash(p) PROVE WorkingCopy'
    <2>1. ~InTxn(cur'[p]) /\ OnlyMoves(p)
      BY <1>3 DEF Crash, InTxn, Idle, OnlyMoves, TypeOK
    <2>2. CallersWait'
      <3>1. \A o \in Proc : callers'[o] = IF o = p THEN <<>> ELSE callers[o]
        BY <1>3 DEF Crash, TypeOK
      <3>2. Len(<<>>) = 0
        BY EmptySeq
      <3> QED BY <1>0, <3>1, <3>2 DEF CallersWait
    <2>3. CASE writer = p
      <3>1. writer' = NoProc /\ work' = reg' /\ reg' = reg
        BY <1>3, <2>3 DEF Crash, Rollback
      <3>2. WriterInTxn' /\ WorkOK'
        BY <1>0, <2>1, <2>3, <3>1, EndStep
      <3>3. NamesOK'
        BY <1>0, <3>1 DEF NamesOK, OwnNames
      <3> QED BY <1>i, <2>2, <3>2, <3>3
    <2>4. CASE writer # p
      <3>1. UNCHANGED database /\ ~InTxn(cur[p])
        BY <1>0, <1>3, <2>4 DEF Crash, WriterInTxn
      <3>2. WriterInTxn' /\ WorkOK'
        BY <1>0, <2>1, <3>1, QuietStep
      <3>3. NamesOK'
        BY <1>0, <3>1 DEF NamesOK, OwnNames, database
      <3> QED BY <1>i, <2>2, <3>2, <3>3
    <2> QED BY <2>3, <2>4
  <1>4. CASE \/ UNCHANGED vars
             \/ \E x \in File : UserCreates(x)
             \/ \E a \in Path : UserDeletes(a)
    <2>1. reg' = reg /\ work' = work /\ writer' = writer /\ cur' = cur /\ callers' = callers
      BY <1>4 DEF UserCreates, UserDeletes, vars, database, inCall
    <2> QED BY <2>1 DEF WorkingCopy, InTxn, WorkOf, MovedAside, OwnNames,
      MayActivate, reg_entry_owner, reg_entry_activate, reg_entry_deactivate
  <1> QED BY <1>1, <1>2, <1>3, <1>4 DEF Next

\* Every write transaction is the body of one registry::write of one process,
\* and has changed nothing but what that body may change.
THEOREM PortImageWorkingCopy == Spec => []WorkingCopy
  <1>1. Init => TypeOK /\ WorkingCopy
    BY InitTypeOK, InitWorkingCopy
  <1>2. (TypeOK /\ WorkingCopy) /\ [Next]_vars => (TypeOK /\ WorkingCopy)'
    BY NextTypeOK, NextWorkingCopy
  <1> QED BY <1>1, <1>2, PTL DEF Spec

-------------------------------------------------------------------------------
(* The refinement *)

\* FileMap's instance has its own copies of the operators of RegEntry.
LEMMA SameOperators ==
  /\ FileMapOfRegistry!Path = Path
  /\ FileMapOfRegistry!Stamp = Stamp
  /\ \A x : FileMapOfRegistry!Home(x) = Home(x)
  BY DEF Path, Stamp, Home, FileMapOfRegistry!Path, FileMapOfRegistry!Stamp,
    FileMapOfRegistry!Home

\* The three commits, in the terms of FileMap.
LEMMA CommitClaimMoves ==
  ASSUME TypeOK, OneOwner, WorkingCopy, NEW p \in Proc, CommitClaim(p)
  PROVE  FileMapOfRegistry!Next
  <1>1. cur[p].pc = "claiming" /\ reg' = work
    BY DEF CommitClaim, At, Commit
  <1>2. writer = p
    BY <1>1 DEF WorkingCopy, InTxn
  <1>3. PICK s : s = cur[p].stamp
    OBVIOUS
  <1>4. s \in Stamp /\ MovedAside(s)
    <2>1. cur[p] \in Frame
      BY <1>1, BusyFrame DEF TypeOK, FramesOK
    <2> QED BY <1>1, <1>2, <1>3, <2>1 DEF WorkingCopy, WorkOf, Frame
  <1>5. work.actual \in [Port -> [File -> Path \cup {NoPath}]]
    BY DEF TypeOK, Registry
  <1>6. ASSUME NEW q \in Port, NEW x \in File, reg'.actual[q][x] # reg.actual[q][x]
        PROVE  /\ reg.actual[q][x] # NoPath
               /\ reg'.actual[q][x] = <<x, s>>
               /\ ~FileMapOfRegistry!Held(<<x, s>>)
    BY <1>1, <1>4, <1>6 DEF MovedAside, reg_entry_owner, FileMapOfRegistry!Held
  <1>7. ASSUME NEW q1 \in Port, NEW q2 \in Port, NEW x \in File,
               reg'.actual[q1][x] = <<x, s>>, reg'.actual[q2][x] = <<x, s>>
        PROVE  q1 = q2
    <2>1. <<x, s>> # NoPath
      BY <1>4, RegEntryAssumption DEF Path
    <2>2. /\ work.actual[q1][x] = work.actual[q2][x]
          /\ work.actual[q1][x] # NoPath
      BY <1>1, <1>7, <2>1
    <2> QED BY <2>2 DEF OneOwner, UniqueActual
  <1>8. FileMapOfRegistry!MoveAside(s)
    BY <1>1, <1>5, <1>6, <1>7, SameOperators DEF FileMapOfRegistry!MoveAside
  <1> QED BY <1>4, <1>8, SameOperators DEF FileMapOfRegistry!Next

\* The commit of the second transaction of an activation is Acquire.
LEMMA CommitTakeAcquires ==
  ASSUME TypeOK, WorkingCopy, NEW p \in Proc, CommitTake(p)
  PROVE  FileMapOfRegistry!Next
  <1> DEFINE q == cur[p].port
             F == ImageFiles[q]
  <1>1. cur[p].pc = "moving" /\ reg' = work
    BY DEF CommitTake, At, Commit
  <1>2. writer = p
    BY <1>1 DEF WorkingCopy, InTxn
  <1>3. MayActivate(reg, q, F, 0) /\ work = reg_entry_activate(reg, q, F, 0)
    BY <1>1, <1>2 DEF WorkingCopy, WorkOf
  <1>4. q \in Port
    BY <1>1, BusyFrame DEF TypeOK, FramesOK, Frame
  <1>5. \A x \in F : ~FileMapOfRegistry!Held(Home(x))
    BY <1>3 DEF MayActivate, reg_entry_owner, FileMapOfRegistry!Held, Home
  <1>6. reg'.actual = [reg.actual EXCEPT ![q] =
                         [x \in File |-> IF x \in F THEN Home(x) ELSE reg.actual[q][x]]]
    BY <1>1, <1>3 DEF reg_entry_activate, TypeOK, Registry, Home
  <1>7. FileMapOfRegistry!Acquire(q)
    BY <1>5, <1>6, SameOperators DEF FileMapOfRegistry!Acquire
  <1> QED BY <1>4, <1>7 DEF FileMapOfRegistry!Next

\* The commit of a deactivation is Release.
LEMMA CommitReleaseReleases ==
  ASSUME TypeOK, WorkingCopy, NEW p \in Proc, CommitRelease(p)
  PROVE  FileMapOfRegistry!Next
  <1> DEFINE q == cur[p].port
  <1>1. cur[p].pc = "removing" /\ reg' = work
    BY DEF CommitRelease, At, Commit
  <1>2. writer = p
    BY <1>1 DEF WorkingCopy, InTxn
  <1>3. PICK A \in SUBSET Path : work = reg_entry_deactivate(reg, q, A)
    BY <1>1, <1>2 DEF WorkingCopy, WorkOf
  <1>4. q \in Port
    BY <1>1, BusyFrame DEF TypeOK, FramesOK, Frame
  <1>5. reg'.actual = [reg.actual EXCEPT ![q] =
                         [x \in File |-> IF reg.actual[q][x] \in A THEN NoPath
                                         ELSE reg.actual[q][x]]]
    BY <1>1, <1>3 DEF reg_entry_deactivate, TypeOK, Registry
  <1>6. FileMapOfRegistry!Release(q)
    BY <1>5, SameOperators DEF FileMapOfRegistry!Release
  <1> QED BY <1>4, <1>6 DEF FileMapOfRegistry!Next

\* Every other step leaves the committed file rows alone.
LEMMA OthersStutter ==
  ASSUME TypeOK, [Next]_vars,
         ~ \E p \in Proc : CommitClaim(p) \/ CommitTake(p) \/ CommitRelease(p)
  PROVE  UNCHANGED reg.actual
  <1>1. ASSUME NEW p \in Proc, Step(p), ~(CommitClaim(p) \/ CommitTake(p) \/ CommitRelease(p))
        PROVE  UNCHANGED reg.actual
    <2>1. CASE SetInstalled(p) \/ SetImaged(p)
      <3>1. PICK q, st : reg' = SetState(reg, q, st)
        BY <2>1 DEF SetInstalled, SetImaged, Autocommit
      <3> QED BY <3>1 DEF SetState, TypeOK, Registry
    <2>2. CASE ~(SetInstalled(p) \/ SetImaged(p))
      <3>1. reg' = reg
        BY <1>1, <2>2 DEF Step, ActivateCheck, DeactivateOther, Extract, StartClaim,
          ClaimReplaced, ClaimFree, ClaimForced, ClaimFails, DeactivateReplaced,
          StartTake, MoveFile, MoveFails, Unmove, UnmoveDone, Unback, UnbackFails,
          UnbackDone, Reactivate, Rethrow, DeactivateCheck, StartRelease,
          RemoveFile, RemoveFails, FailsButReached, Retry, Fail, StartWrite,
          Rollback, database
      <3> QED BY <3>1
    <2> QED BY <2>1, <2>2
  <1>2. CASE ~ \E p \in Proc : Step(p)
    <2>1. reg' = reg
      BY <1>2 DEF Next, vars, Start, Crash, UserCreates, UserDeletes, Rollback, database
    <2> QED BY <2>1
  <1> QED BY <1>1, <1>2

\* Image mode implements the file map: in the committed registry paths are
\* acquired together and only when free, and nobody loses a path to another.
THEOREM PortImageImplementsFileMap == Spec => RegistryFollowsFileMap
  <1>1. Init => FileMapOfRegistry!Init
    BY DEF Init, FileMapOfRegistry!Init
  <1>2. TypeOK /\ OneOwner /\ WorkingCopy /\ [Next]_vars
          => [FileMapOfRegistry!Next]_(reg.actual)
    <2> SUFFICES ASSUME TypeOK, OneOwner, WorkingCopy, [Next]_vars
                 PROVE  FileMapOfRegistry!Next \/ UNCHANGED reg.actual
      OBVIOUS
    <2>1. CASE \E p \in Proc : CommitClaim(p) \/ CommitTake(p) \/ CommitRelease(p)
      BY <2>1, CommitClaimMoves, CommitTakeAcquires, CommitReleaseReleases
    <2> QED BY <2>1, OthersStutter
  <1> QED
    BY <1>1, <1>2, PortImageTypeOK, PortImageOneOwner, PortImageWorkingCopy, PTL
    DEF Spec, RegistryFollowsFileMap, FileMapOfRegistry!Spec

-------------------------------------------------------------------------------
(* How calls nest *)

\* A suspended call is an activation that waits in one of its three loops; in
\* the first two it waits for a deactivation, which calls nobody.
WaitsFor(s, i, fr) ==
  /\ s[i].op = "activate"
  /\ s[i].pc \in {"others", "replace", "reactivate"}
  /\ s[i].pc # "reactivate" => i = Len(s) /\ fr.op = "deactivate"

Nesting ==
  \A p \in Proc :
    /\ cur[p] = Idle => callers[p] = <<>>
    /\ \A i \in 1..Len(callers[p]) : WaitsFor(callers[p], i, cur[p])

\* The four things that a step of p does to its calls.
Within(p) ==
  /\ UNCHANGED callers
  /\ cur'[p] \in Frame
  /\ cur'[p].op = cur[p].op
  /\ cur'[p].port = cur[p].port

CallsFrom(p) ==
  /\ cur[p].op = "activate"
  /\ cur[p].pc \in {"others", "replace", "reactivate"}
  /\ \E op \in Op, q \in cur[p].pend :
       Nested(p, op, q) /\ (cur[p].pc # "reactivate" => op = "deactivate")

FailsTo(p) ==
  /\ callers[p] # <<>>
  /\ \E pc \in {"unback", "failed"} :
       cur' = [cur EXCEPT ![p] = [callers[p][Len(callers[p])] EXCEPT !.pc = pc]]
  /\ callers' = [callers EXCEPT ![p] = SubSeq(callers[p], 1, Len(callers[p]) - 1)]

\* The frame of p stays the same call, and goes on at one of the places pcs.
GoesTo(p, pcs) ==
  /\ UNCHANGED callers
  /\ cur'[p].op = cur[p].op
  /\ cur'[p].port = cur[p].port
  /\ cur'[p].pc \in pcs

\* The steps that end a call.
Ends(p) == SetInstalled(p) \/ SetImaged(p) \/ FailsButReached(p) \/ Fail(p)

\* What the updates of cur make of the frame of p.
LEMMA FrameUpdates ==
  ASSUME TypeOK, NEW p \in Proc, cur[p] \in Frame, UNCHANGED inCall
  PROVE  /\ \A pc, todo : Goto(p, pc, todo) =>
              GoesTo(p, {pc}) /\ cur'[p].todo = todo
         /\ \A pc, pend : cur' = [cur EXCEPT ![p].pc = pc, ![p].pend = pend] =>
              GoesTo(p, {pc}) /\ cur'[p].pend = pend
         /\ \A todo : cur' = [cur EXCEPT ![p].todo = todo] =>
              GoesTo(p, {cur[p].pc}) /\ cur'[p].todo = todo
  BY DEF Goto, GoesTo, inCall, TypeOK, Frame

\* A process takes steps only in a call.
LEMMA StepBusy ==
  ASSUME TypeOK, NEW p \in Proc, Step(p)
  PROVE  /\ cur[p] \in Frame
         /\ cur[p].port \in Port
         /\ FramesOK'
  <1>1. cur[p].pc # "idle"
    BY DEF Step, At, ActivateCheck, DeactivateOther, Extract, StartClaim,
      ClaimReplaced, ClaimFree, ClaimForced, ClaimFails, CommitClaim,
      DeactivateReplaced, StartTake, MoveFile, MoveFails, CommitTake,
      SetInstalled, Unmove, UnmoveDone, Unback, UnbackFails, UnbackDone,
      Reactivate, Rethrow, DeactivateCheck, StartRelease, RemoveFile,
      RemoveFails, CommitRelease, SetImaged, FailsButReached, Retry, Fail
  <1> QED BY <1>1, BusyFrame, TypeOKParts, StepFrames DEF Frame

\* The steps of a process that stay in its current call.
LEMMA StepsWithin ==
  ASSUME TypeOK, NEW p \in Proc, cur[p] \in Frame
  PROVE
    /\ ActivateCheck(p) =>
         \/ GoesTo(p, {"failed"})
         \/ /\ GoesTo(p, {"others"})
            /\ cur'[p].pend = reg_entry_installed(reg, NameOf[cur[p].port]) \ {cur[p].port}
    /\ Extract(p) => GoesTo(p, {"claim", "failed"})
    /\ StartClaim(p) => GoesTo(p, {"claiming"})
    /\ ClaimReplaced(p) \/ ClaimFree(p) \/ ClaimForced(p) => GoesTo(p, {"claiming"})
    /\ CommitClaim(p) => GoesTo(p, {"replace"})
    /\ StartTake(p) => GoesTo(p, {"moving", "unmove"})
    /\ MoveFile(p) => GoesTo(p, {"moving"})
    /\ CommitTake(p) => GoesTo(p, {"install"})
    /\ \/ ClaimFails(p) \/ MoveFails(p) \/ Unmove(p) \/ UnmoveDone(p) \/ Unback(p)
       \/ UnbackFails(p) \/ UnbackDone(p) \/ Rethrow(p) \/ RemoveFails(p) \/ Retry(p)
       => GoesTo(p, {"unback", "unmove", "failed", "reactivate", "check"})
    /\ DeactivateCheck(p) =>
         \/ GoesTo(p, {"failed"})
         \/ GoesTo(p, {"release"}) /\ cur'[p].todo = reg_entry_files(reg, cur[p].port)
    /\ StartRelease(p) => GoesTo(p, {"removing", "failed"})
    /\ RemoveFile(p) => GoesTo(p, {"removing"})
    /\ CommitRelease(p) => GoesTo(p, {"image"})
  <1>g. ASSUME UNCHANGED inCall, NEW pc, NEW todo, Goto(p, pc, todo)
        PROVE  GoesTo(p, {pc}) /\ cur'[p].todo = todo
    BY <1>g, FrameUpdates
  <1>h. ASSUME UNCHANGED inCall, NEW pc, NEW pend,
               cur' = [cur EXCEPT ![p].pc = pc, ![p].pend = pend]
        PROVE  GoesTo(p, {pc}) /\ cur'[p].pend = pend
    BY <1>h, FrameUpdates
  <1>t. ASSUME UNCHANGED inCall, NEW a, cur' = [cur EXCEPT ![p].todo = @ \ {a}]
        PROVE  GoesTo(p, {cur[p].pc})
    BY <1>t, FrameUpdates
  <1>s. ASSUME NEW pc, NEW pcs, pc \in pcs, GoesTo(p, {pc}) PROVE GoesTo(p, pcs)
    BY <1>s DEF GoesTo
  <1>1. ActivateCheck(p) =>
          \/ GoesTo(p, {"failed"})
          \/ /\ GoesTo(p, {"others"})
             /\ cur'[p].pend = reg_entry_installed(reg, NameOf[cur[p].port]) \ {cur[p].port}
    <2> SUFFICES ASSUME ActivateCheck(p)
                 PROVE  \/ GoesTo(p, {"failed"})
                        \/ /\ GoesTo(p, {"others"})
                           /\ cur'[p].pend =
                                reg_entry_installed(reg, NameOf[cur[p].port]) \ {cur[p].port}
      OBVIOUS
    <2> QED BY <1>g, <1>h DEF ActivateCheck
  <1>2. Extract(p) => GoesTo(p, {"claim", "failed"})
    <2>1. Extract(p) => GoesTo(p, {"claim"}) \/ GoesTo(p, {"failed"})
      BY <1>g DEF Extract
    <2> QED BY <2>1 DEF GoesTo
  <1>3. StartClaim(p) => GoesTo(p, {"claiming"})
    <2> SUFFICES ASSUME StartClaim(p) PROVE GoesTo(p, {"claiming"})
      OBVIOUS
    <2>1. PICK s : cur' = [cur EXCEPT ![p].pc = "claiming",
                             ![p].todo = Homes(cur[p].port), ![p].stamp = s]
      BY DEF StartClaim
    <2> QED BY <2>1 DEF StartClaim, TypeOK, Frame, GoesTo, inCall
  <1>4. ClaimReplaced(p) \/ ClaimFree(p) \/ ClaimForced(p) => GoesTo(p, {"claiming"})
    <2>1. ASSUME ClaimReplaced(p) PROVE GoesTo(p, {"claiming"})
      <3>1. PICK a, o : cur' = [cur EXCEPT ![p].todo = @ \ {a},
                                           ![p].replaced = @ \cup {o}]
        BY <2>1 DEF ClaimReplaced
      <3> QED BY <2>1, <3>1 DEF ClaimReplaced, At, inCall, TypeOK, Frame, GoesTo
    <2>2. ASSUME ClaimForced(p) PROVE GoesTo(p, {"claiming"})
      <3>1. PICK a \in cur[p].todo : \E m \in BOOLEAN :
              cur' = [cur EXCEPT ![p].todo = @ \ {a},
                        ![p].backups = IF m THEN @ \cup {a} ELSE @]
        BY <2>2 DEF ClaimForced
      <3>2. PICK b \in {cur[p].backups, cur[p].backups \cup {a}} :
              cur' = [cur EXCEPT ![p].todo = @ \ {a}, ![p].backups = b]
        BY <3>1
      <3> QED BY <2>2, <3>2 DEF ClaimForced, At, inCall, TypeOK, Frame, GoesTo
    <2>3. ASSUME ClaimFree(p) PROVE GoesTo(p, {"claiming"})
      BY <2>3, <1>t DEF ClaimFree, At
    <2> QED BY <2>1, <2>2, <2>3
  <1>5. CommitClaim(p) => GoesTo(p, {"replace"})
    BY <1>h DEF CommitClaim
  <1>6. StartTake(p) => GoesTo(p, {"moving", "unmove"})
    BY <1>g, <1>s DEF StartTake
  <1>7. MoveFile(p) => GoesTo(p, {"moving"})
    BY <1>t DEF MoveFile, At
  <1>8. CommitTake(p) => GoesTo(p, {"install"})
    BY <1>g DEF CommitTake
  <1>9. \/ ClaimFails(p) \/ MoveFails(p) \/ Unmove(p) \/ UnmoveDone(p) \/ Unback(p)
        \/ UnbackFails(p) \/ UnbackDone(p) \/ Rethrow(p) \/ RemoveFails(p) \/ Retry(p)
        => GoesTo(p, {"unback", "unmove", "failed", "reactivate", "check"})
    <2> DEFINE pcs == {"unback", "unmove", "failed", "reactivate", "check"}
    <2>1. ASSUME Unback(p) PROVE GoesTo(p, pcs)
      <3>1. PICK a : cur' = [cur EXCEPT ![p].backups = @ \ {a}]
        BY <2>1 DEF Unback
      <3> QED BY <2>1, <3>1 DEF Unback, At, inCall, TypeOK, Frame, GoesTo
    <2>2. ASSUME Unmove(p) PROVE GoesTo(p, pcs)
      <3>1. GoesTo(p, {"unmove"})
        BY <2>2, <1>t DEF Unmove, At
      <3> QED BY <3>1 DEF GoesTo
    <2>3. ASSUME Retry(p) PROVE GoesTo(p, pcs)
      BY <2>3 DEF Retry, Call, TypeOK, GoesTo, inCall
    <2>4. ASSUME ClaimFails(p) \/ MoveFails(p) \/ UnmoveDone(p) \/ UnbackFails(p)
                 \/ Rethrow(p) \/ RemoveFails(p)
          PROVE  GoesTo(p, pcs)
      <3>1. PICK todo : \E pc \in {"unback", "unmove", "failed"} : Goto(p, pc, todo)
        BY <2>4 DEF ClaimFails, MoveFails, UnmoveDone, UnbackFails, Rethrow, RemoveFails
      <3>2. UNCHANGED inCall
        BY <2>4 DEF ClaimFails, MoveFails, UnmoveDone, UnbackFails, Rethrow, RemoveFails
      <3>3. PICK pc \in {"unback", "unmove", "failed"} : Goto(p, pc, todo)
        BY <3>1
      <3>4. GoesTo(p, {pc})
        BY <1>g, <3>2, <3>3
      <3> QED BY <3>4 DEF GoesTo
    <2>5. ASSUME UnbackDone(p) PROVE GoesTo(p, pcs)
      <3>1. GoesTo(p, {"reactivate"})
        BY <2>5, <1>h DEF UnbackDone
      <3> QED BY <3>1 DEF GoesTo
    <2> QED BY <2>1, <2>2, <2>3, <2>4, <2>5
  <1>10. DeactivateCheck(p) =>
           \/ GoesTo(p, {"failed"})
           \/ GoesTo(p, {"release"}) /\ cur'[p].todo = reg_entry_files(reg, cur[p].port)
    <2> SUFFICES ASSUME DeactivateCheck(p)
                 PROVE  \/ GoesTo(p, {"failed"})
                        \/ /\ GoesTo(p, {"release"})
                           /\ cur'[p].todo = reg_entry_files(reg, cur[p].port)
      OBVIOUS
    <2> QED BY <1>g DEF DeactivateCheck
  <1>11. StartRelease(p) => GoesTo(p, {"removing", "failed"})
    BY <1>g, <1>s DEF StartRelease
  <1>12. RemoveFile(p) => GoesTo(p, {"removing"})
    BY <1>t DEF RemoveFile, At
  <1>13. CommitRelease(p) => GoesTo(p, {"image"})
    BY <1>g DEF CommitRelease
  <1> QED BY <1>1, <1>2, <1>3, <1>4, <1>5, <1>6, <1>7, <1>8, <1>9, <1>10, <1>11,
    <1>12, <1>13

\* A step of p stays in its call, makes another, or ends it.
LEMMA StepKinds ==
  ASSUME TypeOK, NEW p \in Proc, Step(p)
  PROVE  /\ GoesTo(p, PC) \/ CallsFrom(p) \/ Ends(p)
         /\ Ends(p) => Return(p) \/ FailsTo(p)
  <1>e. Ends(p) => Return(p) \/ FailsTo(p)
    <2>1. SetInstalled(p) \/ SetImaged(p) \/ FailsButReached(p) => Return(p)
      BY DEF SetInstalled, SetImaged, FailsButReached
    <2>2. Fail(p) => Return(p) \/ FailsTo(p)
      BY DEF Fail, FailsTo
    <2> QED BY <2>1, <2>2 DEF Ends
  <1> SUFFICES GoesTo(p, PC) \/ CallsFrom(p) \/ Ends(p)
    BY <1>e
  <1>0. cur[p] \in Frame
    BY StepBusy
  <1>s. ASSUME NEW pcs \in SUBSET PC, GoesTo(p, pcs) PROVE GoesTo(p, PC)
    BY <1>s DEF GoesTo
  <1>1. CASE \/ ActivateCheck(p) \/ Extract(p) \/ StartClaim(p) \/ ClaimReplaced(p)
             \/ ClaimFree(p) \/ ClaimForced(p) \/ CommitClaim(p) \/ StartTake(p)
             \/ MoveFile(p) \/ CommitTake(p)
             \/ ClaimFails(p) \/ MoveFails(p) \/ Unmove(p) \/ UnmoveDone(p)
             \/ Unback(p) \/ UnbackFails(p) \/ UnbackDone(p) \/ Rethrow(p)
             \/ RemoveFails(p) \/ Retry(p) \/ DeactivateCheck(p) \/ StartRelease(p)
             \/ RemoveFile(p) \/ CommitRelease(p)
    <2>1. \/ GoesTo(p, {"failed"}) \/ GoesTo(p, {"others"})
          \/ GoesTo(p, {"claim", "failed"}) \/ GoesTo(p, {"claiming"})
          \/ GoesTo(p, {"replace"}) \/ GoesTo(p, {"moving", "unmove"})
          \/ GoesTo(p, {"moving"}) \/ GoesTo(p, {"install"})
          \/ GoesTo(p, {"unback", "unmove", "failed", "reactivate", "check"})
          \/ GoesTo(p, {"release"}) \/ GoesTo(p, {"removing", "failed"})
          \/ GoesTo(p, {"removing"}) \/ GoesTo(p, {"image"})
      BY <1>0, <1>1, StepsWithin
    <2> QED BY <2>1 DEF GoesTo
  <1>2. CASE DeactivateOther(p) \/ DeactivateReplaced(p)
    <2>1. PICK q \in cur[p].pend : Nested(p, "deactivate", q)
      BY <1>2 DEF DeactivateOther, DeactivateReplaced
    <2> QED BY <1>2, <2>1 DEF DeactivateOther, DeactivateReplaced, At, CallsFrom
  <1>3. CASE Reactivate(p)
    <2>1. PICK o \in cur[p].pend :
            IF reg.state[o] = "imaged"
            THEN Nested(p, "activate", o)
            ELSE cur' = [cur EXCEPT ![p].pend = @ \ {o}] /\ UNCHANGED callers
      BY <1>3 DEF Reactivate
    <2>2. CASE reg.state[o] = "imaged"
      BY <1>3, <2>1, <2>2 DEF Reactivate, At, CallsFrom
    <2>3. CASE reg.state[o] # "imaged"
      BY <1>0, <1>3, <2>1, <2>3 DEF Reactivate, At, GoesTo, TypeOK, Frame
    <2> QED BY <2>2, <2>3
  <1> QED BY <1>1, <1>2, <1>3 DEF Step, Ends

\* The frame that the end of a call leads back to is the innermost caller.
LEMMA ReturnsTo ==
  ASSUME TypeOK, Nesting, NEW p \in Proc, Return(p) \/ FailsTo(p)
  PROVE  \/ /\ cur'[p] = Idle
            /\ callers[p] = <<>> /\ UNCHANGED callers
         \/ /\ Len(callers[p]) \in Nat \ {0}
            /\ callers[p][Len(callers[p])] \in Frame
            /\ callers'[p] = SubSeq(callers[p], 1, Len(callers[p]) - 1)
            /\ \A o \in Proc \ {p} : callers'[o] = callers[o]
            /\ WaitsFor(callers[p], Len(callers[p]), cur[p])
            /\ \/ cur'[p] = callers[p][Len(callers[p])]
               \/ /\ cur'[p].op = "activate"
                  /\ cur'[p].pc \in {"unback", "failed"}
                  /\ cur'[p] \in Frame
  <1> DEFINE s == callers[p]
  <1>1. CASE s = <<>>
    BY <1>1 DEF Return, FailsTo, TypeOK
  <1>2. CASE s # <<>>
    <2>1. Len(s) \in Nat \ {0} /\ s[Len(s)] \in Frame
      BY <1>2, LastCaller DEF TypeOK
    <2>2. /\ callers'[p] = SubSeq(s, 1, Len(s) - 1)
          /\ \A o \in Proc \ {p} : callers'[o] = callers[o]
      BY <1>2 DEF Return, FailsTo, TypeOK
    <2>3. WaitsFor(s, Len(s), cur[p])
      <3>1. Len(s) \in 1..Len(s)
        BY <2>1
      <3> QED BY <3>1 DEF Nesting
    <2>4. \/ cur'[p] = s[Len(s)]
          \/ /\ cur'[p].op = "activate"
             /\ cur'[p].pc \in {"unback", "failed"}
             /\ cur'[p] \in Frame
      <3>1. CASE Return(p)
        BY <1>2, <3>1 DEF Return, TypeOK
      <3>2. CASE FailsTo(p)
        <4>1. PICK pc \in {"unback", "failed"} :
                cur'[p] = [s[Len(s)] EXCEPT !.pc = pc]
          BY <3>2 DEF FailsTo, TypeOK
        <4>2. s[Len(s)].op = "activate"
          BY <2>3 DEF WaitsFor
        <4>3. PICK fr \in Frame : fr = s[Len(s)]
          BY <2>1
        <4>4. cur'[p] = [fr EXCEPT !.pc = pc] /\ fr.op = "activate"
          BY <4>1, <4>2, <4>3
        <4> QED BY <4>4 DEF Frame
      <3> QED BY <3>1, <3>2
    <2> QED BY <2>1, <2>2, <2>3, <2>4
  <1> QED BY <1>1, <1>2

\* Every step of a process keeps its calls nested.
LEMMA StepNesting ==
  ASSUME TypeOK, Nesting, NEW p \in Proc, Step(p)
  PROVE  Nesting'
  <1>0. cur[p] \in Frame /\ OnlyMoves(p) /\ FramesOK'
    BY StepBusy, StepOnlyMoves
  <1>o. ASSUME \A o \in Proc \ {p} : callers'[o] = callers[o],
               cur'[p] = Idle => callers'[p] = <<>>,
               \A i \in 1..Len(callers'[p]) : WaitsFor(callers'[p], i, cur'[p])
        PROVE  Nesting'
    BY <1>0, <1>o DEF Nesting, OnlyMoves
  <1>1. CASE GoesTo(p, PC)
    <2>1. cur'[p] # Idle
      BY <1>1, IdleFrame DEF GoesTo
    <2>2. \A i \in 1..Len(callers[p]) : WaitsFor(callers[p], i, cur'[p])
      BY <1>1 DEF Nesting, WaitsFor, GoesTo
    <2> QED BY <1>1, <1>o, <2>1, <2>2 DEF GoesTo
  <1>2. CASE CallsFrom(p)
    <2>1. PICK op \in Op, q \in cur[p].pend :
            Nested(p, op, q) /\ (cur[p].pc # "reactivate" => op = "deactivate")
      BY <1>2 DEF CallsFrom
    <2> DEFINE s == callers[p]
               e == [cur[p] EXCEPT !.pend = @ \ {q}]
    <2>2. /\ s \in Seq(Frame) /\ e \in Frame
          /\ e.op = "activate" /\ e.pc = cur[p].pc
          /\ cur[p].pc \in {"others", "replace", "reactivate"}
      BY <1>0, <1>2 DEF CallsFrom, TypeOK, Frame
    <2>3. callers' = [callers EXCEPT ![p] = Append(s, e)]
      BY <2>1 DEF Nested
    <2>4. cur'[p].op = op /\ cur'[p].pc = "check"
      BY <2>1 DEF Nested, Call, TypeOK
    <2> HIDE DEF e
    <2>5. \A i \in 1..Len(s) : s[i].pc = "reactivate" /\ s[i].op = "activate"
      <3>1. \A i \in 1..Len(s) : WaitsFor(s, i, cur[p])
        BY DEF Nesting
      <3>2. cur[p].op = "activate"
        BY <1>2 DEF CallsFrom
      <3> QED BY <3>1, <3>2 DEF WaitsFor
    <2>6. /\ Len(Append(s, e)) = Len(s) + 1
          /\ \A i \in 1..Len(s) : Append(s, e)[i] = s[i]
          /\ Append(s, e)[Len(s) + 1] = e
          /\ Len(s) \in Nat
      BY <2>2, AppendProperties, LenProperties
    <2>7. ASSUME NEW i \in 1..Len(Append(s, e))
          PROVE  WaitsFor(Append(s, e), i, cur'[p])
      <3>1. CASE i \in 1..Len(s)
        BY <2>5, <2>6, <3>1 DEF WaitsFor
      <3>2. CASE i = Len(s) + 1
        <4>1. Append(s, e)[i] = e /\ i = Len(Append(s, e))
          BY <2>6, <3>2
        <4> QED BY <2>1, <2>2, <2>4, <4>1 DEF WaitsFor
      <3> QED BY <2>6, <3>1, <3>2
    <2>8. callers'[p] = Append(s, e) /\ \A o \in Proc \ {p} : callers'[o] = callers[o]
      BY <2>3 DEF TypeOK
    <2>9. cur'[p] # Idle
      BY <2>4, IdleFrame
    <2> QED BY <1>o, <2>7, <2>8, <2>9
  <1>3. CASE Return(p) \/ FailsTo(p)
    <2> DEFINE s == callers[p]
    <2>1. CASE cur'[p] = Idle /\ s = <<>> /\ UNCHANGED callers
      <3>1. Len(s) = 0
        BY <2>1, EmptySeq
      <3> QED BY <1>o, <2>1, <3>1
    <2>2. CASE /\ Len(s) \in Nat \ {0}
               /\ s[Len(s)] \in Frame
               /\ callers'[p] = SubSeq(s, 1, Len(s) - 1)
               /\ \A o \in Proc \ {p} : callers'[o] = callers[o]
               /\ WaitsFor(s, Len(s), cur[p])
               /\ \/ cur'[p] = s[Len(s)]
                  \/ cur'[p].pc \in {"unback", "failed"}
      <3>1. cur'[p] # Idle
        BY <2>2, IdleFrame
      <3>2. s \in Seq(Frame) /\ \A i \in 1..Len(s) : WaitsFor(s, i, cur[p])
        BY DEF Nesting, TypeOK
      <3> DEFINE t == SubSeq(s, 1, Len(s) - 1)
      <3>3. /\ Len(t) = Len(s) - 1
            /\ \A i \in 1..(Len(s) - 1) : t[i] = s[i]
        BY <2>2, <3>2
      <3> HIDE DEF s, t
      <3>4. ASSUME NEW i \in 1..Len(t) PROVE WaitsFor(t, i, cur'[p])
        <4>1. i \in 1..Len(s) /\ i # Len(s) /\ t[i] = s[i]
          BY <2>2, <3>3
        <4> QED BY <3>2, <4>1 DEF WaitsFor
      <3> QED BY <1>o, <2>2, <3>1, <3>4 DEF s, t
    <2> QED BY <1>3, <2>1, <2>2, ReturnsTo
  <1> QED BY <1>1, <1>2, <1>3, StepKinds

\* Whatever the processes do, calls nest and an idle process has none.
LEMMA NextNesting == TypeOK /\ Nesting /\ [Next]_vars => Nesting'
  <1> SUFFICES ASSUME TypeOK, Nesting, [Next]_vars PROVE Nesting'
    OBVIOUS
  <1>0. Len(<<>>) = 0
    BY EmptySeq
  <1>1. ASSUME NEW p \in Proc, NEW op \in Op, NEW q \in Port, NEW asks \in ForceModes,
               Start(p, op, q, asks)
        PROVE  Nesting'
    <2>1. callers[p] = <<>> /\ UNCHANGED callers /\ OnlyMoves(p)
      BY <1>1 DEF Start, Nesting, OnlyMoves, TypeOK
    <2>2. \A i \in 1..Len(callers[p]) : FALSE
      BY <1>0, <2>1
    <2> QED BY <2>1, <2>2 DEF Nesting, OnlyMoves
  <1>2. ASSUME NEW p \in Proc, Crash(p) PROVE Nesting'
    <2>1. /\ callers'[p] = <<>> /\ cur'[p] = Idle
          /\ \A o \in Proc \ {p} : callers'[o] = callers[o] /\ cur'[o] = cur[o]
      BY <1>2 DEF Crash, TypeOK
    <2>2. \A i \in 1..Len(callers'[p]) : FALSE
      BY <1>0, <2>1
    <2> QED BY <2>1, <2>2 DEF Nesting
  <1>3. CASE UNCHANGED <<cur, callers>>
    BY <1>3 DEF Nesting
  <1> QED BY <1>1, <1>2, <1>3, StepNesting DEF Next, vars, UserCreates, UserDeletes, inCall

\* The one or two ways that lead to a place in a call.
LEMMA Arrivals ==
  ASSUME TypeOK, Nesting, NEW p \in Proc, Step(p)
  PROVE  /\ cur'[p].pc = "claim" => Extract(p)
         /\ cur'[p].pc = "claiming" =>
              StartClaim(p) \/ ClaimReplaced(p) \/ ClaimFree(p) \/ ClaimForced(p)
         /\ cur'[p].pc = "moving" => StartTake(p) \/ MoveFile(p)
         /\ cur'[p].pc = "install" => CommitTake(p)
         /\ cur'[p].pc = "release" => DeactivateCheck(p)
         /\ cur'[p].pc = "removing" => StartRelease(p) \/ RemoveFile(p)
         /\ cur'[p].pc = "image" => CommitRelease(p)
         /\ cur'[p].pc = "others" => ActivateCheck(p) \/ Ends(p)
         /\ cur'[p].pc = "replace" => CommitClaim(p) \/ Ends(p)
  <1>0. cur[p] \in Frame
    BY StepBusy
  <1>1. CASE Ends(p)
    <2>1. cur'[p].pc \in {"idle", "others", "replace", "reactivate", "unback", "failed"}
      BY <1>1, StepKinds, ReturnsTo, IdleFrame DEF WaitsFor
    <2> QED BY <1>1, <2>1
  <1>5. CASE \/ ActivateCheck(p) \/ Extract(p) \/ StartClaim(p) \/ ClaimReplaced(p)
             \/ ClaimFree(p) \/ ClaimForced(p) \/ CommitClaim(p) \/ StartTake(p)
             \/ MoveFile(p) \/ CommitTake(p)
             \/ ClaimFails(p) \/ MoveFails(p) \/ Unmove(p) \/ UnmoveDone(p)
             \/ Unback(p) \/ UnbackFails(p) \/ UnbackDone(p) \/ Rethrow(p)
             \/ RemoveFails(p) \/ Retry(p) \/ DeactivateCheck(p) \/ StartRelease(p)
             \/ RemoveFile(p) \/ CommitRelease(p)
    BY <1>0, <1>5, StepsWithin DEF GoesTo
  <1>6. CASE Reactivate(p)
    <2>1. PICK o \in cur[p].pend :
            IF reg.state[o] = "imaged"
            THEN Nested(p, "activate", o)
            ELSE cur' = [cur EXCEPT ![p].pend = @ \ {o}] /\ UNCHANGED callers
      BY <1>6 DEF Reactivate
    <2>2. cur'[p].pc \in {"check", "reactivate"}
      <3>1. CASE reg.state[o] = "imaged"
        BY <2>1, <3>1 DEF Nested, Call, TypeOK
      <3>2. CASE reg.state[o] # "imaged"
        BY <1>0, <1>6, <2>1, <3>2 DEF Reactivate, At, TypeOK, Frame
      <3> QED BY <3>1, <3>2
    <2> QED BY <2>2
  <1>7. CASE DeactivateOther(p) \/ DeactivateReplaced(p)
    <2>1. PICK q : Nested(p, "deactivate", q)
      BY <1>7 DEF DeactivateOther, DeactivateReplaced
    <2>2. cur'[p].pc = "check"
      BY <2>1 DEF Nested, Call, TypeOK
    <2> QED BY <2>2
  <1> QED BY <1>1, <1>5, <1>6, <1>7 DEF Step, Ends

-------------------------------------------------------------------------------
(* The files of a port become active together and inactive together *)

Active(r, q) == {x \in File : r.actual[q][x] # NoPath}

Whole(r) == \A q \in Port : Active(r, q) \in {{}, ImageFiles[q]}

\* A is empty or has a path for every image file of q.
Covers(A, q) == A = {} \/ \A x \in ImageFiles[q] : \E a \in A : a[1] = x

AllFilesOrNone ==
  /\ Whole(reg) /\ Whole(work)
  /\ \A p \in Proc : cur[p].pc = "release" => Covers(cur[p].todo, cur[p].port)

\* reg_entry_activate adds its files to the active ones of its port.
LEMMA ActivateActive ==
  ASSUME NEW r \in Registry, NEW q \in Port, NEW F \in SUBSET File, NEW s \in Stamp
  PROVE  /\ Active(reg_entry_activate(r, q, F, s), q) = Active(r, q) \cup F
         /\ \A o \in Port \ {q} : Active(reg_entry_activate(r, q, F, s), o) = Active(r, o)
  <1> DEFINE n == reg_entry_activate(r, q, F, s)
  <1>1. \A o \in Port : \A x \in File :
          n.actual[o][x] = IF o = q /\ x \in F THEN <<x, s>> ELSE r.actual[o][x]
    BY DEF reg_entry_activate, Registry
  <1>2. \A x \in File : <<x, s>> # NoPath
    BY RegEntryAssumption DEF Path
  <1> HIDE DEF n
  <1>3. Active(n, q) = Active(r, q) \cup F
    BY <1>1, <1>2 DEF Active
  <1>4. \A o \in Port \ {q} : Active(n, o) = Active(r, o)
    BY <1>1 DEF Active
  <1> QED BY <1>3, <1>4 DEF n

\* reg_entry_deactivate drops those whose path is listed.
LEMMA DeactivateActive ==
  ASSUME NEW r \in Registry, NEW q \in Port, NEW A
  PROVE  /\ Active(reg_entry_deactivate(r, q, A), q) =
              {x \in Active(r, q) : r.actual[q][x] \notin A}
         /\ \A o \in Port \ {q} : Active(reg_entry_deactivate(r, q, A), o) = Active(r, o)
  <1> DEFINE n == reg_entry_deactivate(r, q, A)
  <1>1. \A o \in Port : \A x \in File :
          n.actual[o][x] = IF o = q /\ r.actual[q][x] \in A THEN NoPath
                           ELSE r.actual[o][x]
    BY DEF reg_entry_deactivate, Registry
  <1> HIDE DEF n
  <1>2. Active(n, q) = {x \in Active(r, q) : r.actual[q][x] \notin A}
    BY <1>1 DEF Active
  <1>3. \A o \in Port \ {q} : Active(n, o) = Active(r, o)
    BY <1>1 DEF Active
  <1> QED BY <1>2, <1>3 DEF n

\* The state of an entry is not in its file rows.
LEMMA PropsetActive ==
  ASSUME NEW r \in Registry, NEW q \in Port, NEW st \in {"imaged", "installed"}
  PROVE  \A o \in Port : Active(SetState(r, q, st), o) = Active(r, o)
  <1>1. \A o \in Port : \A x \in File : SetState(r, q, st).actual[o][x] = r.actual[o][x]
    BY DEF SetState, Registry
  <1> QED BY <1>1 DEF Active

\* A forced claim changes paths of rows, and neither adds nor drops one.
LEMMA AsideActive ==
  ASSUME TypeOK, NEW s \in Stamp, NEW a \in Path, NEW o \in reg_entry_owner(work, a),
         OwnNames(work),
         work' = reg_entry_activate(reg_entry_deactivate(work, o, {a}), o, {a[1]}, s)
  PROVE  \A q \in Port : Active(work', q) = Active(work, q)
  <1> DEFINE x == a[1]
             cleared == reg_entry_deactivate(work, o, {a})
  <1>1. o \in Port /\ x \in File /\ {x} \in SUBSET File /\ work \in Registry
    BY BackupTyped DEF reg_entry_owner, TypeOK
  <1>2. cleared \in Registry
    BY <1>1, RegistryTyped
  <1>3. \A y \in File : work.actual[o][y] = a <=> y = x
    <2>1. \A y \in File : work.actual[o][y] = a => y = x
      <3>1. \A y \in File : a \in {y} \X Stamp => y = x
        OBVIOUS
      <3>2. a # NoPath
        BY RegEntryAssumption
      <3> QED BY <1>1, <3>1, <3>2 DEF OwnNames
    <2>2. PICK y \in File : work.actual[o][y] = a
      BY DEF reg_entry_owner
    <2> QED BY <2>1, <2>2
  <1>4. x \in Active(work, o)
    <2>1. a # NoPath
      BY RegEntryAssumption
    <2> QED BY <1>1, <1>3, <2>1 DEF Active
  <1>5. /\ Active(cleared, o) = {y \in Active(work, o) : work.actual[o][y] \notin {a}}
        /\ \A q \in Port \ {o} : Active(cleared, q) = Active(work, q)
    BY <1>1, DeactivateActive
  <1>w. work' = reg_entry_activate(cleared, o, {x}, s)
    OBVIOUS
  <1> HIDE DEF x, cleared
  <1>6. /\ Active(work', o) = Active(cleared, o) \cup {x}
        /\ \A q \in Port \ {o} : Active(work', q) = Active(cleared, q)
    <2>1. PICK X \in SUBSET File : X = {x}
      BY <1>1
    <2>2. /\ Active(reg_entry_activate(cleared, o, X, s), o) = Active(cleared, o) \cup X
          /\ \A q \in Port \ {o} :
               Active(reg_entry_activate(cleared, o, X, s), q) = Active(cleared, q)
      BY <1>1, <1>2, ActivateActive
    <2> QED BY <2>1, <2>2, <1>w
  <1>7. \A y \in Active(work, o) : y \in File
    BY DEF Active
  <1> QED BY <1>1, <1>3, <1>4, <1>5, <1>6, <1>7

\* The rows that are active decide which parts of Whole hold.
LEMMA WholeAs ==
  ASSUME NEW r, NEW n, Whole(r), \A q \in Port : Active(n, q) = Active(r, q)
  PROVE  Whole(n)
  BY DEF Whole

\* Taking the files of an image makes them all active.
LEMMA TakeWhole ==
  ASSUME NEW r \in Registry, NEW q \in Port, Whole(r)
  PROVE  /\ Active(reg_entry_activate(r, q, ImageFiles[q], 0), q) = ImageFiles[q]
         /\ Whole(reg_entry_activate(r, q, ImageFiles[q], 0))
  <1>1. ImageFiles[q] \in SUBSET File /\ 0 \in Stamp
    BY RegEntryAssumption DEF Stamp
  <1>2. /\ Active(reg_entry_activate(r, q, ImageFiles[q], 0), q)
            = Active(r, q) \cup ImageFiles[q]
        /\ \A o \in Port \ {q} :
             Active(reg_entry_activate(r, q, ImageFiles[q], 0), o) = Active(r, o)
    BY <1>1, ActivateActive
  <1> QED BY <1>2 DEF Whole

\* The paths of the active files of a port cover its image.
LEMMA FilesCover ==
  ASSUME NEW r \in Registry, NEW q \in Port, Whole(r), OwnNames(r)
  PROVE  Covers(reg_entry_files(r, q), q)
  <1>1. CASE Active(r, q) = {}
    BY <1>1 DEF Active, Covers, reg_entry_files
  <1>2. CASE Active(r, q) = ImageFiles[q]
    <2>1. ASSUME NEW x \in ImageFiles[q]
          PROVE  \E a \in reg_entry_files(r, q) : a[1] = x
      <3>1. x \in File /\ r.actual[q][x] # NoPath
        BY <1>2, <2>1 DEF Active
      <3>2. r.actual[q][x] \in {x} \X Stamp
        BY <3>1 DEF OwnNames
      <3>3. r.actual[q][x] \in reg_entry_files(r, q)
        BY <3>1 DEF reg_entry_files
      <3> QED BY <3>2, <3>3
    <2> QED BY <2>1 DEF Covers
  <1> QED BY <1>1, <1>2 DEF Whole

\* Releasing paths that cover an image, when none has moved, drops all or none.
LEMMA ReleaseWhole ==
  ASSUME NEW r \in Registry, NEW q \in Port, NEW A, Whole(r), Covers(A, q),
         MayDeactivate(r, q, A)
  PROVE  Whole(reg_entry_deactivate(r, q, A))
  <1>1. /\ Active(reg_entry_deactivate(r, q, A), q) =
             {x \in Active(r, q) : r.actual[q][x] \notin A}
        /\ \A o \in Port \ {q} : Active(reg_entry_deactivate(r, q, A), o) = Active(r, o)
    BY DeactivateActive
  <1>2. \A x \in Active(r, q) : A # {} => r.actual[q][x] \in A
    BY DEF Whole, Covers, MayDeactivate, Active
  <1>3. {x \in Active(r, q) : r.actual[q][x] \notin A} \in {{}, Active(r, q)}
    <2>1. CASE A = {}
      BY <2>1
    <2>2. CASE A # {}
      BY <1>2, <2>2
    <2> QED BY <2>1, <2>2
  <1>4. \A o \in Port : Active(reg_entry_deactivate(r, q, A), o) \in {{}, Active(r, o)}
    BY <1>1, <1>3
  <1> QED BY <1>4 DEF Whole

\* Before the first action no file is active.
LEMMA InitAllFilesOrNone == Init => AllFilesOrNone
  <1> SUFFICES ASSUME Init PROVE AllFilesOrNone
    OBVIOUS
  <1>1. \A q \in Port : Active(reg, q) = {}
    BY DEF Init, Active
  <1> QED BY <1>1, IdleFrame DEF Init, AllFilesOrNone, Whole

\* Every step of a process keeps ports whole.
LEMMA StepAllFilesOrNone ==
  ASSUME TypeOK, Nesting, WorkingCopy, AllFilesOrNone, NEW p \in Proc, Step(p)
  PROVE  AllFilesOrNone'
  <1>0. /\ cur[p] \in Frame /\ cur[p].port \in Port /\ OnlyMoves(p)
        /\ reg \in Registry /\ work \in Registry
        /\ OwnNames(reg) /\ OwnNames(work) /\ Whole(reg) /\ Whole(work)
    BY StepBusy, StepOnlyMoves DEF TypeOK, WorkingCopy, AllFilesOrNone
  <1>r. cur'[p].pc = "release" => Covers(cur'[p].todo, cur'[p].port)
    <2> SUFFICES ASSUME cur'[p].pc = "release"
                 PROVE  Covers(cur'[p].todo, cur'[p].port)
      OBVIOUS
    <2>1. GoesTo(p, {"release"}) /\ cur'[p].todo = reg_entry_files(reg, cur[p].port)
      BY <1>0, Arrivals, StepsWithin DEF GoesTo
    <2> QED BY <1>0, <2>1, FilesCover DEF GoesTo
  <1>i. ASSUME Whole(reg'), Whole(work') PROVE AllFilesOrNone'
    BY <1>i, <1>0, <1>r DEF AllFilesOrNone, OnlyMoves, Whole, Active, Covers
  <1>n. ASSUME reg' \in {reg, work}, work' \in {reg, work} PROVE AllFilesOrNone'
    BY <1>0, <1>i, <1>n
  <1>1. CASE UNCHANGED database \/ Rollback \/ Commit \/ StartWrite(p, reg)
    BY <1>1, <1>n DEF database, Rollback, Commit, StartWrite
  <1>2. CASE ClaimForced(p)
    <2>1. reg' = reg
      BY <1>2 DEF ClaimForced
    <2>2. PICK a \in cur[p].todo :
            \/ UNCHANGED work
            \/ \E o \in reg_entry_owner(work, a) :
                 work' = reg_entry_activate(reg_entry_deactivate(work, o, {a}),
                                            o, {a[1]}, cur[p].stamp)
      BY <1>2 DEF ClaimForced
    <2>3. CASE UNCHANGED work
      BY <1>n, <2>1, <2>3
    <2>4. CASE \E o \in reg_entry_owner(work, a) :
                 work' = reg_entry_activate(reg_entry_deactivate(work, o, {a}),
                                            o, {a[1]}, cur[p].stamp)
      <3>1. a \in Path /\ cur[p].stamp \in Stamp
        BY <1>0 DEF Frame
      <3>2. \A q \in Port : Active(work', q) = Active(work, q)
        BY <1>0, <2>4, <3>1, AsideActive
      <3>3. Whole(work')
        BY <1>0, <3>2, WholeAs
      <3> QED BY <1>0, <1>i, <2>1, <3>3
    <2> QED BY <2>2, <2>3, <2>4
  <1>3. CASE StartTake(p) /\ ~UNCHANGED database
    <2>1. reg' = reg /\ work' = reg_entry_activate(reg, cur[p].port, ImageFiles[cur[p].port], 0)
      BY <1>3 DEF StartTake, StartWrite
    <2>2. Whole(work')
      BY <1>0, <2>1, TakeWhole
    <2> QED BY <1>0, <1>i, <2>1, <2>2
  <1>4. CASE StartRelease(p) /\ ~UNCHANGED database
    <2>1. /\ reg' = reg /\ work' = reg_entry_deactivate(reg, cur[p].port, cur[p].todo)
          /\ MayDeactivate(reg, cur[p].port, cur[p].todo)
          /\ cur[p].pc = "release"
      BY <1>4 DEF StartRelease, StartWrite, At
    <2>2. Covers(cur[p].todo, cur[p].port)
      BY <2>1 DEF AllFilesOrNone
    <2>3. Whole(work')
      BY <1>0, <2>1, <2>2, ReleaseWhole
    <2> QED BY <1>0, <1>i, <2>1, <2>3
  <1>5. CASE SetInstalled(p) \/ SetImaged(p)
    <2>1. PICK st \in {"imaged", "installed"} :
            reg' = SetState(reg, cur[p].port, st) /\ work' = reg'
      BY <1>5 DEF SetInstalled, SetImaged, Autocommit
    <2>2. \A q \in Port : Active(reg', q) = Active(reg, q)
      BY <1>0, <2>1, PropsetActive
    <2>3. Whole(reg') /\ Whole(work')
      BY <1>0, <2>1, <2>2, WholeAs
    <2> QED BY <1>i, <2>3
  <1>6. \/ UNCHANGED database \/ Rollback \/ Commit \/ StartWrite(p, reg)
        \/ ClaimForced(p) \/ StartTake(p) \/ StartRelease(p)
        \/ SetInstalled(p) \/ SetImaged(p)
    BY DEF Step, ActivateCheck, DeactivateOther, Extract, StartClaim, ClaimReplaced,
      ClaimFree, ClaimFails, CommitClaim, DeactivateReplaced, MoveFile, MoveFails,
      CommitTake, Unmove, UnmoveDone, Unback, UnbackFails, UnbackDone, Reactivate,
      Rethrow, DeactivateCheck, RemoveFile, RemoveFails, CommitRelease,
      FailsButReached, Retry, Fail
  <1> QED BY <1>1, <1>2, <1>3, <1>4, <1>5, <1>6

\* Crashes undo transactions, and nobody else writes to the registry.
LEMMA NextAllFilesOrNone ==
  TypeOK /\ Nesting /\ WorkingCopy /\ AllFilesOrNone /\ [Next]_vars => AllFilesOrNone'
  <1> SUFFICES ASSUME TypeOK, Nesting, WorkingCopy, AllFilesOrNone, [Next]_vars
               PROVE  AllFilesOrNone'
    OBVIOUS
  <1>1. ASSUME NEW p \in Proc, NEW op \in Op, NEW q \in Port, NEW asks \in ForceModes,
               Start(p, op, q, asks)
        PROVE  AllFilesOrNone'
    <2>1. UNCHANGED database /\ OnlyMoves(p) /\ cur'[p].pc = "check"
      BY <1>1 DEF Start, OnlyMoves, Call, TypeOK
    <2> QED BY <2>1 DEF AllFilesOrNone, OnlyMoves, database, Whole, Active, Covers
  <1>2. ASSUME NEW p \in Proc, Crash(p) PROVE AllFilesOrNone'
    <2>1. /\ OnlyMoves(p) /\ cur'[p].pc = "idle"
          /\ reg' = reg /\ work' \in {reg, work}
      BY <1>2, IdleFrame DEF Crash, Rollback, database, OnlyMoves, TypeOK
    <2> QED BY <2>1 DEF AllFilesOrNone, OnlyMoves, Whole, Active, Covers
  <1>3. CASE UNCHANGED <<reg, work, cur>>
    BY <1>3 DEF AllFilesOrNone, Whole, Active, Covers
  <1> QED BY <1>1, <1>2, <1>3, StepAllFilesOrNone
    DEF Next, vars, UserCreates, UserDeletes, inCall, database

\* The calls nest, in every reachable state.
LEMMA PortImageNesting == Spec => []Nesting
  <1>1. Init => Nesting
    BY EmptySeq DEF Init, Nesting
  <1> QED BY <1>1, NextNesting, PortImageTypeOK, PTL DEF Spec

\* No committed transaction leaves a port with some of its files active: not
\* a failure, a crash or another process in between, with or without the lock.
THEOREM PortImageAllOrNothing == Spec => []AllOrNothing
  <1>1. TypeOK /\ AllFilesOrNone => AllOrNothing
    <2> SUFFICES ASSUME TypeOK, AllFilesOrNone, NEW q \in Port
                 PROVE  \/ reg_entry_files(reg, q) = {}
                        \/ \A x \in ImageFiles[q] : reg.actual[q][x] # NoPath
      BY DEF AllOrNothing
    <2> QED BY DEF AllFilesOrNone, Whole, Active, reg_entry_files
  <1>2. Spec => []AllFilesOrNone
    BY InitAllFilesOrNone, NextAllFilesOrNone, PortImageTypeOK, PortImageNesting,
      PortImageWorkingCopy, PTL DEF Spec
  <1> QED BY <1>1, <1>2, PortImageTypeOK, PTL

-------------------------------------------------------------------------------
(* With the registry lock one process is busy *)

OneBusy == \A p \in Proc : cur[p] # Idle => lock = p

\* Nobody but the writer of the state column changes it: the working copy of
\* an open transaction has the states of the database.
SameStates == work.state = reg.state

\* reg_entry_activate and reg_entry_deactivate leave the states alone.
LEMMA RowsKeepStates ==
  ASSUME NEW r \in Registry, NEW q \in Port
  PROVE  /\ \A F, s : reg_entry_activate(r, q, F, s).state = r.state
         /\ \A A : reg_entry_deactivate(r, q, A).state = r.state
  BY DEF reg_entry_activate, reg_entry_deactivate, Registry

\* Only the two statements outside transactions change the state of an entry.
LEMMA StepStates ==
  ASSUME TypeOK, SameStates, NEW p \in Proc, Step(p)
  PROVE  /\ SameStates'
         /\ SetInstalled(p) \/ SetImaged(p) \/ reg'.state = reg.state
  <1>0. cur[p] \in Frame /\ cur[p].port \in Port /\ reg \in Registry /\ work \in Registry
    BY StepBusy DEF TypeOK
  <1>1. CASE UNCHANGED database \/ Rollback \/ Commit \/ StartWrite(p, reg)
    BY <1>1 DEF SameStates, database, Rollback, Commit, StartWrite
  <1>2. CASE ClaimForced(p)
    <2>1. PICK a \in cur[p].todo :
            \/ UNCHANGED work
            \/ \E o \in reg_entry_owner(work, a) :
                 work' = reg_entry_activate(reg_entry_deactivate(work, o, {a}),
                                            o, {a[1]}, cur[p].stamp)
      BY <1>2 DEF ClaimForced
    <2>2. CASE UNCHANGED work
      BY <1>2, <2>2 DEF ClaimForced, SameStates
    <2>3. ASSUME NEW o \in reg_entry_owner(work, a),
                 work' = reg_entry_activate(reg_entry_deactivate(work, o, {a}),
                                            o, {a[1]}, cur[p].stamp)
          PROVE  work'.state = work.state
      <3>1. o \in Port
        BY DEF reg_entry_owner
      <3>2. reg_entry_deactivate(work, o, {a}) \in Registry
        BY <1>0, <3>1, RegistryTyped
      <3> QED BY <1>0, <2>3, <3>1, <3>2, RowsKeepStates
    <2> QED BY <1>2, <2>1, <2>2, <2>3 DEF ClaimForced, SameStates
  <1>3. CASE StartTake(p) \/ StartRelease(p)
    <2>1. /\ reg' = reg
          /\ \/ work' = work
             \/ \E F, s : work' = reg_entry_activate(reg, cur[p].port, F, s)
             \/ \E A : work' = reg_entry_deactivate(reg, cur[p].port, A)
      BY <1>3 DEF StartTake, StartRelease, StartWrite, database
    <2>2. work'.state \in {work.state, reg.state}
      BY <1>0, <2>1, RowsKeepStates
    <2> QED BY <2>1, <2>2 DEF SameStates
  <1>4. CASE SetInstalled(p) \/ SetImaged(p)
    BY <1>4 DEF SetInstalled, SetImaged, Autocommit, SameStates
  <1>5. \/ UNCHANGED database \/ Rollback \/ Commit \/ StartWrite(p, reg)
        \/ ClaimForced(p) \/ StartTake(p) \/ StartRelease(p)
        \/ SetInstalled(p) \/ SetImaged(p)
    BY DEF Step, ActivateCheck, DeactivateOther, Extract, StartClaim, ClaimReplaced,
      ClaimFree, ClaimFails, CommitClaim, DeactivateReplaced, MoveFile, MoveFails,
      CommitTake, Unmove, UnmoveDone, Unback, UnbackFails, UnbackDone, Reactivate,
      Rethrow, DeactivateCheck, RemoveFile, RemoveFails, CommitRelease,
      FailsButReached, Retry, Fail
  <1> QED BY <1>1, <1>2, <1>3, <1>4, <1>5

\* The lock is given back with the end of the last call, and only then.
LEMMA StepOneBusy ==
  ASSUME TypeOK, OneBusy, NEW p \in Proc, Step(p)
  PROVE  /\ OneBusy'
         /\ \A o \in Proc \ {p} : cur[o] = Idle /\ cur'[o] = Idle
  <1>1. cur[p] # Idle /\ OnlyMoves(p)
    BY StepBusy, StepOnlyMoves, IdleFrame
  <1>2. lock = p /\ \A o \in Proc \ {p} : cur[o] = Idle
    BY <1>1 DEF OneBusy
  <1>3. lock' = lock \/ cur'[p] = Idle
    <2>1. lock' = lock \/ Return(p)
      BY DEF Step, inCall, ActivateCheck, DeactivateOther, Extract, StartClaim,
        ClaimReplaced, ClaimFree, ClaimForced, ClaimFails, CommitClaim,
        DeactivateReplaced, StartTake, MoveFile, MoveFails, CommitTake,
        SetInstalled, Unmove, UnmoveDone, Unback, UnbackFails, UnbackDone,
        Reactivate, Rethrow, DeactivateCheck, StartRelease, RemoveFile,
        RemoveFails, CommitRelease, SetImaged, FailsButReached, Retry, Fail
    <2>2. Return(p) => lock' = lock \/ cur'[p] = Idle
      BY DEF Return, TypeOK
    <2> QED BY <2>1, <2>2
  <1> QED BY <1>1, <1>2, <1>3 DEF OneBusy, OnlyMoves

\* Start takes the lock when it is free, and a crash frees it.
LEMMA OtherOneBusy ==
  ASSUME TypeOK, OneBusy, SameStates, Locking, NEW p \in Proc,
         \/ \E op \in Op, q \in Port, asks \in ForceModes : Start(p, op, q, asks)
         \/ Crash(p)
  PROVE  /\ OneBusy' /\ SameStates' /\ reg' = reg
         /\ \A o \in Proc \ {p} : cur[o] = Idle /\ cur'[o] = Idle
         /\ cur'[p].pc \in {"check", "idle"}
         /\ callers'[p] = <<>> \/ (UNCHANGED callers /\ cur[p] = Idle)
  <1>0. NoProc \notin Proc
    BY PortImageAssumption
  <1>1. ASSUME NEW op \in Op, NEW q \in Port, NEW asks \in ForceModes,
               Start(p, op, q, asks)
        PROVE  /\ OneBusy' /\ SameStates' /\ reg' = reg
               /\ \A o \in Proc \ {p} : cur[o] = Idle /\ cur'[o] = Idle
               /\ cur'[p].pc \in {"check", "idle"}
               /\ UNCHANGED callers /\ cur[p] = Idle
    <2>1. \A o \in Proc : cur[o] = Idle
      BY <1>0, <1>1 DEF Start, OneBusy
    <2>2. /\ \A o \in Proc \ {p} : cur'[o] = cur[o]
          /\ cur'[p].pc = "check" /\ lock' = p
      BY <1>1 DEF Start, Call, TypeOK
    <2> QED BY <1>1, <2>1, <2>2 DEF Start, OneBusy, SameStates, database
  <1>2. CASE Crash(p)
    <2>1. /\ \A o \in Proc \ {p} : cur[o] = Idle
          /\ \A o \in Proc \ {p} : cur'[o] = cur[o]
          /\ cur'[p] = Idle /\ callers'[p] = <<>>
      BY <1>2 DEF Crash, OneBusy, TypeOK
    <2>2. reg' = reg /\ SameStates'
      BY <1>2 DEF Crash, Rollback, database, SameStates
    <2> QED BY <2>1, <2>2, IdleFrame DEF OneBusy
  <1> QED BY <1>1, <1>2

-------------------------------------------------------------------------------
(* At most one version of a port is active *)

\* The other active entries of the name of q.
Others(r, q) == reg_entry_installed(r, NameOf[q]) \ {q}

Alone == {"claim", "claiming", "replace", "moving", "install"}

\* An activation goes on only when the other versions are inactive; until
\* then they are among those that it has still to deactivate.
OthersGone(p) ==
  /\ cur[p].pc \in Alone => Others(reg, cur[p].port) = {}
  /\ cur[p].pc = "others" => Others(reg, cur[p].port) \subseteq cur[p].pend
  /\ callers[p] # <<>> =>
       LET c == callers[p][Len(callers[p])] IN
       /\ c.pc = "replace" => Others(reg, c.port) = {}
       /\ c.pc = "others" => Others(reg, c.port) \subseteq c.pend \cup {cur[p].port}

Versions == OneActiveVersion /\ \A p \in Proc : OthersGone(p)

\* An idle process has no activation under way.
LEMMA IdleOthersGone ==
  ASSUME NEW p \in Proc, cur[p] = Idle, callers[p] = <<>>
  PROVE  OthersGone(p)
  BY IdleFrame DEF OthersGone, Alone

\* A step in the current call that sets no state.
LEMMA WithinOthersGone ==
  ASSUME TypeOK, Nesting, NEW p \in Proc, OthersGone(p), Step(p), GoesTo(p, PC),
         reg'.state = reg.state, ~Ends(p)
  PROVE  OthersGone(p)'
  <1>0. cur[p] \in Frame
    BY StepBusy
  <1>1. \A q : Others(reg', q) = Others(reg, q)
    BY DEF Others, reg_entry_installed
  <1>2. cur'[p].pc \in Alone => Others(reg', cur'[p].port) = {}
    <2> SUFFICES ASSUME cur'[p].pc \in Alone PROVE Others(reg, cur[p].port) = {}
      BY <1>1 DEF GoesTo
    <2>1. \/ Extract(p)
          \/ StartClaim(p) \/ ClaimReplaced(p) \/ ClaimFree(p) \/ ClaimForced(p)
          \/ CommitClaim(p) \/ StartTake(p) \/ MoveFile(p) \/ CommitTake(p)
      BY Arrivals DEF Alone
    <2>2. CASE Extract(p)
      BY <2>2 DEF Extract, At, OthersGone
    <2>3. CASE \/ StartClaim(p) \/ ClaimReplaced(p) \/ ClaimFree(p) \/ ClaimForced(p)
               \/ CommitClaim(p) \/ StartTake(p) \/ MoveFile(p) \/ CommitTake(p)
      <3>1. cur[p].pc \in Alone
        BY <2>3 DEF StartClaim, ClaimReplaced, ClaimFree, ClaimForced, CommitClaim,
          StartTake, MoveFile, CommitTake, At, Alone
      <3> QED BY <3>1 DEF OthersGone
    <2> QED BY <2>1, <2>2, <2>3
  <1>3. cur'[p].pc = "others" => Others(reg', cur'[p].port) \subseteq cur'[p].pend
    <2> SUFFICES ASSUME cur'[p].pc = "others"
                 PROVE  Others(reg, cur[p].port) \subseteq cur'[p].pend
      BY <1>1 DEF GoesTo
    <2>1. cur'[p].pend = Others(reg, cur[p].port)
      BY <1>0, Arrivals, StepsWithin DEF GoesTo, Others
    <2> QED BY <2>1
  <1> QED BY <1>1, <1>2, <1>3 DEF OthersGone, GoesTo

\* A call that another one makes.
LEMMA CallOthersGone ==
  ASSUME TypeOK, Nesting, NEW p \in Proc, OthersGone(p), Step(p), CallsFrom(p),
         reg'.state = reg.state
  PROVE  OthersGone(p)'
  <1>0. cur[p] \in Frame
    BY StepBusy
  <1>1. \A q : Others(reg', q) = Others(reg, q)
    BY DEF Others, reg_entry_installed
  <1>2. PICK op \in Op, q \in cur[p].pend : Nested(p, op, q)
    BY DEF CallsFrom
  <1> DEFINE s == callers[p]
             e == [cur[p] EXCEPT !.pend = @ \ {q}]
  <1>3. /\ s \in Seq(Frame) /\ e \in Frame
        /\ e.pc = cur[p].pc /\ e.port = cur[p].port /\ e.pend = cur[p].pend \ {q}
    BY <1>0 DEF TypeOK, Frame
  <1>4. /\ callers'[p] = Append(s, e)
        /\ cur'[p].pc = "check" /\ cur'[p].port = q
    BY <1>2 DEF Nested, Call, TypeOK
  <1> HIDE DEF e
  <1>5. Append(s, e)[Len(Append(s, e))] = e
    BY <1>3, AppendProperties, LenProperties
  <1>6. e.pc = "replace" => Others(reg, e.port) = {}
    BY <1>3 DEF OthersGone, Alone
  <1>7. e.pc = "others" => Others(reg, e.port) \subseteq e.pend \cup {q}
    BY <1>3 DEF OthersGone
  <1> QED BY <1>1, <1>4, <1>5, <1>6, <1>7 DEF OthersGone, Alone

\* Under the innermost caller are only activations that reactivate ports.
LEMMA PoppedReactivates ==
  ASSUME TypeOK, Nesting, NEW p \in Proc, Return(p) \/ FailsTo(p), callers'[p] # <<>>
  PROVE  callers'[p][Len(callers'[p])].pc = "reactivate"
  <1> DEFINE s == callers[p]
             t == SubSeq(s, 1, Len(s) - 1)
  <1>1. s # <<>>
    BY DEF Return, FailsTo
  <1>2. s \in Seq(Frame) /\ Len(s) \in Nat \ {0} /\ callers'[p] = t
    BY <1>1, LastCaller, ReturnsTo DEF TypeOK
  <1>3. /\ Len(t) = Len(s) - 1 /\ t \in Seq(Frame)
        /\ \A i \in 1..(Len(s) - 1) : t[i] = s[i]
    BY <1>1, <1>2, LastCaller
  <1>4. \A i \in 1..Len(s) : WaitsFor(s, i, cur[p])
    BY DEF Nesting
  <1> HIDE DEF s, t
  <1>5. Len(t) # 0
    BY <1>2, <1>3, EmptySeq
  <1>6. Len(t) \in 1..Len(s) /\ Len(t) # Len(s) /\ Len(t) \in 1..(Len(s) - 1)
    BY <1>2, <1>3, <1>5
  <1>7. s[Len(t)].pc = "reactivate"
    BY <1>4, <1>6 DEF WaitsFor
  <1> QED BY <1>2, <1>3, <1>6, <1>7

\* An activation that ends was called by nobody or by one that reactivates
\* ports; a deactivation that ends has made its port inactive.
LEMMA EndOthersGone ==
  ASSUME TypeOK, Nesting, NEW p \in Proc, OthersGone(p), Return(p) \/ FailsTo(p),
         \/ FailsTo(p)
         \/ cur[p].op = "activate"
         \/ \A q : Others(reg', q) \subseteq Others(reg, q) \ {cur[p].port}
  PROVE  OthersGone(p)'
  <1> DEFINE s == callers[p]
             c == s[Len(s)]
  <1>1. callers'[p] # <<>> => callers'[p][Len(callers'[p])].pc = "reactivate"
    BY PoppedReactivates
  <1>2. CASE cur'[p] = Idle
    <2>1. callers'[p] = <<>>
      BY <1>2, ReturnsTo, IdleFrame DEF WaitsFor
    <2> QED BY <1>2, <2>1, IdleFrame DEF OthersGone, Alone
  <1>3. CASE cur'[p].pc \in {"unback", "failed"}
    BY <1>1, <1>3 DEF OthersGone, Alone
  <1>4. CASE cur'[p] = c /\ s # <<>> /\ WaitsFor(s, Len(s), cur[p])
    <2>1. ~FailsTo(p)
      <3>1. ASSUME FailsTo(p) PROVE FALSE
        <4>1. PICK pc \in {"unback", "failed"} : cur'[p] = [c EXCEPT !.pc = pc]
          BY <3>1 DEF FailsTo, TypeOK
        <4>2. PICK fr \in Frame : fr = c
          BY <1>4, LastCaller DEF TypeOK
        <4>3. cur'[p].pc = pc
          BY <4>1, <4>2 DEF Frame
        <4> QED BY <1>4, <4>3 DEF WaitsFor
      <3> QED BY <3>1
    <2>2. CASE cur[p].op = "activate"
      BY <1>1, <1>4, <2>2 DEF WaitsFor, OthersGone, Alone
    <2>3. CASE \A q : Others(reg', q) \subseteq Others(reg, q) \ {cur[p].port}
      <3>1. c.pc = "replace" => Others(reg', c.port) = {}
        BY <1>4, <2>3 DEF OthersGone
      <3>2. c.pc = "others" => Others(reg', c.port) \subseteq c.pend
        BY <1>4, <2>3 DEF OthersGone
      <3> QED BY <1>1, <1>4, <3>1, <3>2 DEF WaitsFor, OthersGone, Alone
    <2> QED BY <2>1, <2>2, <2>3
  <1> QED BY <1>2, <1>3, <1>4, ReturnsTo, EmptySeq

\* Every step of the busy process keeps one version of a port active.
LEMMA StepVersions ==
  ASSUME TypeOK, Nesting, OneBusy, SameStates, Versions, NEW p \in Proc, Step(p)
  PROVE  Versions'
  <1>0. /\ cur[p] \in Frame /\ cur[p].port \in Port /\ reg \in Registry
        /\ OthersGone(p) /\ OneActiveVersion /\ Nesting'
        /\ \A o \in Proc \ {p} : cur'[o] = Idle
    BY StepBusy, StepNesting, StepOneBusy DEF TypeOK, Versions
  <1>i. ASSUME OthersGone(p)', OneActiveVersion' PROVE Versions'
    <2>1. \A o \in Proc \ {p} : OthersGone(o)'
      <3> SUFFICES ASSUME NEW o \in Proc \ {p} PROVE OthersGone(o)'
        OBVIOUS
      <3>1. cur'[o] = Idle /\ callers'[o] = <<>>
        BY <1>0 DEF Nesting
      <3> QED BY <3>1, IdleFrame DEF OthersGone, Alone
    <2> QED BY <1>i, <2>1 DEF Versions
  <1>1. CASE ~Ends(p)
    <2>1. reg'.state = reg.state
      BY <1>1, StepStates DEF Ends
    <2>2. OneActiveVersion'
      BY <1>0, <2>1 DEF OneActiveVersion
    <2>3. OthersGone(p)'
      BY <1>0, <1>1, <2>1, StepKinds, CallOthersGone, WithinOthersGone
    <2> QED BY <1>i, <2>2, <2>3
  <1>2. CASE SetInstalled(p)
    <2> DEFINE q == cur[p].port
    <2>1. /\ cur[p].op = "activate" /\ cur[p].pc = "install" /\ Return(p)
          /\ reg' = SetState(reg, q, "installed")
      BY <1>2 DEF SetInstalled, At, Autocommit
    <2>2. OthersGone(p)'
      BY <1>0, <2>1, EndOthersGone
    <2>3. Others(reg, q) = {}
      BY <1>0, <2>1 DEF OthersGone, Alone
    <2>4. \A o \in Port : reg'.state[o] = IF o = q THEN "installed" ELSE reg.state[o]
      BY <1>0, <2>1 DEF SetState, Registry
    <2>5. \A o \in Port : NameOf[o] = NameOf[q] /\ reg.state[o] = "installed" => o = q
      BY <2>3 DEF Others, reg_entry_installed
    <2>6. OneActiveVersion'
      BY <1>0, <2>4, <2>5 DEF OneActiveVersion
    <2> QED BY <1>i, <2>2, <2>6
  <1>3. ASSUME \A o \in Port : reg'.state[o] \in {reg.state[o], "imaged"},
               reg'.state[cur[p].port] = "imaged", Return(p)
        PROVE  Versions'
    <2>1. \A q : Others(reg', q) \subseteq Others(reg, q) \ {cur[p].port}
      BY <1>3 DEF Others, reg_entry_installed
    <2>2. OthersGone(p)'
      BY <1>0, <1>3, <2>1, EndOthersGone
    <2>3. OneActiveVersion'
      BY <1>0, <1>3 DEF OneActiveVersion
    <2> QED BY <1>i, <2>2, <2>3
  <1>4. CASE SetImaged(p)
    <2>1. reg' = SetState(reg, cur[p].port, "imaged") /\ Return(p)
      BY <1>4 DEF SetImaged, Autocommit
    <2>2. /\ \A o \in Port : reg'.state[o] \in {reg.state[o], "imaged"}
          /\ reg'.state[cur[p].port] = "imaged"
      BY <1>0, <2>1 DEF SetState, Registry
    <2> QED BY <1>3, <2>1, <2>2
  <1>5. CASE FailsButReached(p)
    <2>1. reg' = reg /\ Return(p) /\ reg.state[cur[p].port] = Goal(cur[p].op)
      BY <1>5 DEF FailsButReached, database
    <2>2. CASE cur[p].op = "activate"
      <3>1. OthersGone(p)'
        BY <1>0, <2>1, <2>2, EndOthersGone
      <3> QED BY <1>0, <1>i, <2>1, <3>1 DEF OneActiveVersion
    <2>3. CASE cur[p].op = "deactivate"
      BY <1>3, <2>1, <2>3
    <2> QED BY <1>0, <2>2, <2>3 DEF Frame
  <1>6. CASE Fail(p)
    <2>1. reg' = reg
      BY <1>6 DEF Fail, database
    <2>2. OthersGone(p)'
      <3>1. CASE callers[p] = <<>>
        <4>1. cur'[p] = Idle /\ callers'[p] = <<>>
          BY <1>6, <3>1 DEF Fail, Return, TypeOK
        <4> QED BY <4>1, IdleFrame DEF OthersGone, Alone
      <3>2. CASE callers[p] # <<>>
        <4>1. FailsTo(p)
          BY <1>6, <3>2 DEF Fail, FailsTo
        <4> QED BY <1>0, <4>1, EndOthersGone
      <3> QED BY <3>1, <3>2
    <2> QED BY <1>0, <1>i, <2>1, <2>2 DEF OneActiveVersion
  <1> QED BY <1>1, <1>2, <1>4, <1>5, <1>6 DEF Ends

\* So does everything else: an action starts, dies, or the user acts.
LEMMA NextVersions ==
  ASSUME Locking
  PROVE  TypeOK /\ Nesting /\ OneBusy /\ SameStates /\ Versions /\ [Next]_vars
           => OneBusy' /\ SameStates' /\ Versions'
  <1> SUFFICES ASSUME TypeOK, Nesting, OneBusy, SameStates, Versions, [Next]_vars
               PROVE  OneBusy' /\ SameStates' /\ Versions'
    OBVIOUS
  <1>1. ASSUME NEW p \in Proc, Step(p) PROVE OneBusy' /\ SameStates' /\ Versions'
    BY <1>1, StepOneBusy, StepStates, StepVersions
  <1>2. ASSUME NEW p \in Proc,
               \/ \E op \in Op, q \in Port, asks \in ForceModes : Start(p, op, q, asks)
               \/ Crash(p)
        PROVE  OneBusy' /\ SameStates' /\ Versions'
    <2>1. /\ OneBusy' /\ SameStates' /\ reg' = reg
          /\ \A o \in Proc \ {p} : cur'[o] = Idle
          /\ cur'[p].pc \in {"check", "idle"}
          /\ callers'[p] = <<>>
      BY <1>2, OtherOneBusy DEF Nesting
    <2>2. Nesting'
      BY <1>2, NextNesting DEF Next
    <2>3. \A o \in Proc : callers'[o] = <<>> /\ cur'[o].pc \in {"check", "idle"}
      BY <2>1, <2>2, IdleFrame DEF Nesting
    <2>4. \A o \in Proc : OthersGone(o)'
      BY <2>3 DEF OthersGone, Alone
    <2>5. OneActiveVersion'
      BY <2>1 DEF OneActiveVersion, Versions
    <2> QED BY <2>1, <2>4, <2>5 DEF Versions
  <1>3. CASE UNCHANGED <<reg, work, cur, callers, lock>>
    BY <1>3 DEF OneBusy, SameStates, Versions, OneActiveVersion, OthersGone,
      Others, reg_entry_installed, Alone
  <1> QED BY <1>1, <1>2, <1>3
    DEF Next, vars, UserCreates, UserDeletes, inCall, database

\* With the registry lock at most one version of a port is active, whatever
\* step fails, whoever crashes and whatever the user does to the files.
THEOREM PortImageOneActiveVersion ==
  ASSUME Locking
  PROVE  Spec => []OneActiveVersion
  <1>1. Init => OneBusy /\ SameStates /\ Versions
    <2> SUFFICES ASSUME Init PROVE OneBusy /\ SameStates /\ Versions
      OBVIOUS
    <2>1. \A p \in Proc : OthersGone(p)
      BY IdleFrame DEF Init, OthersGone, Alone
    <2>2. OneActiveVersion
      BY DEF Init, OneActiveVersion
    <2> QED BY <2>1, <2>2 DEF Init, OneBusy, SameStates, Versions
  <1>2. TypeOK /\ Nesting /\ OneBusy /\ SameStates /\ Versions /\ [Next]_vars
          => OneBusy' /\ SameStates' /\ Versions'
    BY NextVersions
  <1>3. Versions => OneActiveVersion
    BY DEF Versions
  <1> QED BY <1>1, <1>2, <1>3, PortImageTypeOK, PortImageNesting, PTL DEF Spec

-------------------------------------------------------------------------------
(* The state of an entry and its file rows agree *)

Matches(q) ==
  Active(reg, q) = IF reg.state[q] = "installed" THEN ImageFiles[q] ELSE {}

\* What the file rows of the port of p are, from the list of its files until
\* its state is written.
RowsOf(p) ==
  LET q == cur[p].port IN
  /\ cur[p].pc = "release" => cur[p].todo = reg_entry_files(reg, q)
  /\ cur[p].pc = "removing" => Active(work, q) = {}
  /\ cur[p].pc = "image" => Active(reg, q) = {}
  /\ cur[p].pc = "install" => Active(reg, q) = ImageFiles[q]

\* Only the port whose rows a process has written, and whose state it is about
\* to write, may disagree.
StateToWrite == {"install", "image"}

StateAndRows ==
  /\ \A p \in Proc : RowsOf(p)
  /\ \A q \in Port :
       Matches(q) \/ \E p \in Proc : cur[p].pc \in StateToWrite /\ cur[p].port = q

\* The rows that a claim has moved are still active.
LEMMA ClaimActive ==
  ASSUME TypeOK, WorkingCopy, NEW p \in Proc, cur[p].pc = "claiming"
  PROVE  \A q \in Port : Active(work, q) = Active(reg, q)
  <1>1. writer = p /\ MovedAside(cur[p].stamp) /\ cur[p].stamp \in Stamp
    <2>1. cur[p] \in Frame
      BY BusyFrame DEF TypeOK, FramesOK
    <2> QED BY <2>1 DEF WorkingCopy, InTxn, WorkOf, Frame
  <1>2. \A x \in File : <<x, cur[p].stamp>> # NoPath
    BY <1>1, RegEntryAssumption DEF Path
  <1>3. ASSUME NEW q \in Port, NEW x \in File
        PROVE  work.actual[q][x] # NoPath <=> reg.actual[q][x] # NoPath
    BY <1>1, <1>2 DEF MovedAside
  <1> QED BY <1>3 DEF Active

\* No path of the list of active files is left active.
LEMMA ReleaseAll ==
  ASSUME NEW r \in Registry, NEW q \in Port
  PROVE  Active(reg_entry_deactivate(r, q, reg_entry_files(r, q)), q) = {}
  <1>1. \A x \in Active(r, q) : r.actual[q][x] \in reg_entry_files(r, q)
    BY DEF Active, reg_entry_files
  <1>2. Active(reg_entry_deactivate(r, q, reg_entry_files(r, q)), q) =
          {x \in Active(r, q) : r.actual[q][x] \notin reg_entry_files(r, q)}
    BY DeactivateActive
  <1> QED BY <1>1, <1>2

\* Every step of the busy process keeps states and rows in agreement.
LEMMA StepStateAndRows ==
  ASSUME TypeOK, Nesting, WorkingCopy, AllFilesOrNone, OneBusy, SameStates,
         StateAndRows, NEW p \in Proc, Step(p)
  PROVE  StateAndRows'
  <1> DEFINE q == cur[p].port
  <1>0. /\ cur[p] \in Frame /\ q \in Port
        /\ reg \in Registry /\ work \in Registry /\ Whole(reg)
        /\ \A o \in Proc \ {p} : cur[o] = Idle /\ cur'[o] = Idle
        /\ RowsOf(p)
    BY StepBusy, StepOneBusy DEF TypeOK, AllFilesOrNone, StateAndRows
  <1>o. \A o \in Proc \ {p} : RowsOf(o)'
    BY <1>0, IdleFrame DEF RowsOf
  <1>i. ASSUME RowsOf(p)',
               \A o \in Port : Matches(o)' \/ (cur'[p].pc \in StateToWrite /\ cur'[p].port = o)
        PROVE  StateAndRows'
    BY <1>o, <1>i DEF StateAndRows
  <1>m. \A o \in Port : Matches(o) \/ (cur[p].pc \in StateToWrite /\ q = o)
    BY <1>0, IdleFrame DEF StateAndRows, StateToWrite
  <1>w. SetInstalled(p) \/ SetImaged(p) \/ cur[p].pc \notin StateToWrite
    BY DEF Step, At, StateToWrite, ActivateCheck, DeactivateOther, Extract, StartClaim,
      ClaimReplaced, ClaimFree, ClaimForced, ClaimFails, CommitClaim,
      DeactivateReplaced, StartTake, MoveFile, MoveFails, CommitTake,
      SetInstalled, Unmove, UnmoveDone, Unback, UnbackFails, UnbackDone,
      Reactivate, Rethrow, DeactivateCheck, StartRelease, RemoveFile,
      RemoveFails, CommitRelease, SetImaged, FailsButReached, Retry, Fail
  <1>q. ASSUME cur'[p].pc \notin {"release", "removing", "image", "install"}
        PROVE  RowsOf(p)'
    BY <1>q DEF RowsOf
  <1>k. ASSUME cur[p].pc \notin StateToWrite, reg'.state = reg.state,
               \A o \in Port : Active(reg', o) = Active(reg, o)
        PROVE  \A o \in Port : Matches(o)'
    BY <1>k, <1>m DEF Matches
  \* The state is written.
  <1>1. CASE SetInstalled(p) \/ SetImaged(p)
    <2>1. PICK st \in {"installed", "imaged"} :
            /\ reg' = SetState(reg, q, st)
            /\ Active(reg, q) = IF st = "installed" THEN ImageFiles[q] ELSE {}
      BY <1>0, <1>1 DEF SetInstalled, SetImaged, At, Autocommit, RowsOf
    <2>2. \A o \in Port : Active(reg', o) = Active(reg, o)
      BY <1>0, <2>1, PropsetActive
    <2>3. \A o \in Port : reg'.state[o] = IF o = q THEN st ELSE reg.state[o]
      BY <1>0, <2>1 DEF SetState, Registry
    <2>4. \A o \in Port : Matches(o)'
      BY <1>m, <2>1, <2>2, <2>3 DEF Matches
    <2>5. cur'[p].pc \notin {"release", "removing", "image", "install"}
      BY <1>1, Arrivals DEF SetInstalled, SetImaged, At, DeactivateCheck,
        StartRelease, RemoveFile, CommitRelease, CommitTake
    <2> QED BY <1>i, <1>q, <2>4, <2>5
  \* The rows are written.
  <1>2. CASE CommitTake(p)
    <2>1. cur[p].pc = "moving" /\ reg' = work /\ writer = p
      BY <1>2 DEF CommitTake, At, Commit, WorkingCopy, InTxn
    <2>2. work = reg_entry_activate(reg, q, ImageFiles[q], 0)
      BY <2>1 DEF WorkingCopy, WorkOf
    <2>3. ImageFiles[q] \in SUBSET File /\ 0 \in Stamp
      BY <1>0, RegEntryAssumption DEF Stamp
    <2>4. /\ Active(reg', q) = ImageFiles[q]
          /\ \A o \in Port \ {q} : Active(reg', o) = Active(reg, o)
          /\ reg'.state = reg.state
      BY <1>0, <2>1, <2>2, <2>3, TakeWhole, ActivateActive, RowsKeepStates
    <2>5. cur'[p].pc = "install" /\ cur'[p].port = q
      BY <1>0, <1>2, StepsWithin DEF GoesTo
    <2>6. RowsOf(p)'
      BY <2>4, <2>5 DEF RowsOf
    <2>7. \A o \in Port \ {q} : Matches(o)'
      BY <1>m, <2>4 DEF Matches
    <2> QED BY <1>i, <2>5, <2>6, <2>7 DEF StateToWrite
  <1>3. CASE CommitRelease(p)
    <2>1. cur[p].pc = "removing" /\ reg' = work /\ writer = p
      BY <1>3 DEF CommitRelease, At, Commit, WorkingCopy, InTxn
    <2>2. PICK A \in SUBSET Path : work = reg_entry_deactivate(reg, q, A)
      BY <2>1 DEF WorkingCopy, WorkOf
    <2>3. /\ Active(reg', q) = {}
          /\ \A o \in Port \ {q} : Active(reg', o) = Active(reg, o)
          /\ reg'.state = reg.state
      BY <1>0, <2>1, <2>2, DeactivateActive, RowsKeepStates DEF RowsOf
    <2>4. cur'[p].pc = "image" /\ cur'[p].port = q
      BY <1>0, <1>3, StepsWithin DEF GoesTo
    <2>5. RowsOf(p)'
      BY <2>3, <2>4 DEF RowsOf
    <2>6. \A o \in Port \ {q} : Matches(o)'
      BY <1>m, <2>3 DEF Matches
    <2> QED BY <1>i, <2>4, <2>5, <2>6 DEF StateToWrite
  \* The rows of the database have other paths, or do not change.
  <1>4. CASE CommitClaim(p)
    <2>1. cur[p].pc = "claiming" /\ reg' = work
      BY <1>4 DEF CommitClaim, At, Commit
    <2>2. /\ \A o \in Port : Active(reg', o) = Active(reg, o)
          /\ reg'.state = reg.state
      BY <2>1, ClaimActive DEF SameStates
    <2>3. cur'[p].pc = "replace"
      BY <1>0, <1>4, StepsWithin DEF GoesTo
    <2> QED BY <1>i, <1>k, <1>q, <2>1, <2>2, <2>3 DEF StateToWrite
  <1>5. CASE ~(\/ SetInstalled(p) \/ SetImaged(p) \/ CommitTake(p)
               \/ CommitRelease(p) \/ CommitClaim(p))
    <2>1. reg' = reg
      BY <1>5 DEF Step, ActivateCheck, DeactivateOther, Extract, StartClaim,
        ClaimReplaced, ClaimFree, ClaimForced, ClaimFails, DeactivateReplaced,
        StartTake, MoveFile, MoveFails, Unmove, UnmoveDone, Unback, UnbackFails,
        UnbackDone, Reactivate, Rethrow, DeactivateCheck, StartRelease,
        RemoveFile, RemoveFails, FailsButReached, Retry, Fail, StartWrite,
        Rollback, database
    <2>2. \A o \in Port : Matches(o)'
      BY <1>5, <1>k, <1>w, <2>1
    <2>3. cur'[p].pc \notin StateToWrite
      BY <1>5, Arrivals DEF StateToWrite
    <2>4. RowsOf(p)'
      <3>1. CASE DeactivateCheck(p)
        <4>1. \/ cur'[p].pc = "failed"
              \/ /\ cur'[p].pc = "release" /\ cur'[p].port = q
                 /\ cur'[p].todo = reg_entry_files(reg, q)
          BY <1>0, <3>1, StepsWithin DEF GoesTo
        <4> QED BY <2>1, <4>1 DEF RowsOf
      <3>2. CASE StartRelease(p)
        <4>1. cur'[p].pc \in {"removing", "failed"} /\ cur'[p].port = q
          BY <1>0, <3>2, StepsWithin DEF GoesTo
        <4>2. CASE cur'[p].pc = "removing"
          <5>1. work' = reg_entry_deactivate(reg, q, cur[p].todo)
            <6>1. MayDeactivate(reg, q, cur[p].todo)
              <7>1. ASSUME ~MayDeactivate(reg, q, cur[p].todo) PROVE FALSE
                <8>1. Goto(p, "failed", {}) /\ UNCHANGED inCall
                  BY <3>2, <7>1 DEF StartRelease
                <8>2. GoesTo(p, {"failed"})
                  BY <1>0, <8>1, FrameUpdates
                <8> QED BY <4>2, <8>2 DEF GoesTo
              <7> QED BY <7>1
            <6> QED BY <3>2, <6>1 DEF StartRelease, StartWrite
          <5>2. cur[p].todo = reg_entry_files(reg, q)
            BY <1>0, <3>2 DEF StartRelease, At, RowsOf
          <5>3. Active(work', q) = {}
            BY <1>0, <5>1, <5>2, ReleaseAll
          <5> QED BY <4>1, <4>2, <5>3 DEF RowsOf
        <4>3. CASE cur'[p].pc = "failed"
          BY <1>q, <4>3
        <4> QED BY <4>1, <4>2, <4>3
      <3>3. CASE RemoveFile(p)
        <4>1. cur'[p].pc = "removing" /\ cur'[p].port = q /\ work' = work
              /\ cur[p].pc = "removing"
          BY <1>0, <3>3, StepsWithin DEF GoesTo, RemoveFile, At, database
        <4> QED BY <1>0, <4>1 DEF RowsOf
      <3>4. CASE ~(DeactivateCheck(p) \/ StartRelease(p) \/ RemoveFile(p))
        BY <1>5, <1>q, <3>4, Arrivals
      <3> QED BY <3>1, <3>2, <3>3, <3>4
    <2> QED BY <1>i, <2>2, <2>4
  <1> QED BY <1>1, <1>2, <1>3, <1>4, <1>5

\* When nobody dies: states and rows stay in agreement.
LEMMA NextStateAndRows ==
  ASSUME Locking, "crash" \notin Faults
  PROVE  /\ TypeOK /\ Nesting /\ WorkingCopy /\ AllFilesOrNone
         /\ OneBusy /\ SameStates /\ StateAndRows /\ [Next]_vars
         => StateAndRows'
  <1> SUFFICES ASSUME TypeOK, Nesting, WorkingCopy, AllFilesOrNone,
                      OneBusy, SameStates, StateAndRows, [Next]_vars
               PROVE  StateAndRows'
    OBVIOUS
  <1>1. ASSUME NEW p \in Proc, Step(p) PROVE StateAndRows'
    BY <1>1, StepStateAndRows
  <1>2. ASSUME NEW p \in Proc, NEW op \in Op, NEW q \in Port, NEW asks \in ForceModes,
               Start(p, op, q, asks)
        PROVE  StateAndRows'
    <2>1. /\ reg' = reg /\ cur[p] = Idle /\ cur'[p].pc = "check"
          /\ \A o \in Proc \ {p} : cur[o] = Idle /\ cur'[o] = Idle
      <3>1. /\ reg' = reg
            /\ \A o \in Proc \ {p} : cur[o] = Idle /\ cur'[o] = Idle
        BY <1>2, OtherOneBusy
      <3>2. cur[p] = Idle /\ cur'[p].pc = "check"
        BY <1>2 DEF Start, Call, TypeOK
      <3> QED BY <3>1, <3>2
    <2>2. \A o \in Proc : cur[o].pc = "idle" /\ cur'[o].pc \in {"idle", "check"}
      BY <2>1, IdleFrame
    <2>3. \A o \in Proc : RowsOf(o)'
      BY <2>2 DEF RowsOf
    <2>4. \A o \in Port : Matches(o)'
      BY <2>1, <2>2 DEF StateAndRows, StateToWrite, Matches, Active
    <2> QED BY <2>3, <2>4 DEF StateAndRows
  <1>3. CASE UNCHANGED <<reg, work, cur>>
    BY <1>3 DEF StateAndRows, RowsOf, Matches, Active, StateToWrite, reg_entry_files
  <1> QED BY <1>1, <1>2, <1>3
    DEF Next, vars, UserCreates, UserDeletes, inCall, database, Crash

\* With the registry lock, and while no process dies, the state of a port and
\* its file rows agree between actions: active with all its files, or with none.
THEOREM PortImageStateMatchesFiles ==
  ASSUME Locking, "crash" \notin Faults
  PROVE  Spec => []StateMatchesFiles
  <1>1. Init => OneBusy /\ SameStates /\ Versions /\ AllFilesOrNone /\ Nesting
    <2> SUFFICES ASSUME Init
                 PROVE  OneBusy /\ SameStates /\ Versions /\ AllFilesOrNone /\ Nesting
      OBVIOUS
    <2>1. \A p \in Proc : OthersGone(p)
      BY IdleFrame DEF Init, OthersGone, Alone
    <2>2. OneActiveVersion
      BY DEF Init, OneActiveVersion
    <2>3. Nesting
      BY EmptySeq DEF Init, Nesting
    <2> QED BY <2>1, <2>2, <2>3, InitAllFilesOrNone DEF Init, OneBusy, SameStates, Versions
  <1>2. Init => StateAndRows
    BY IdleFrame DEF Init, StateAndRows, RowsOf, Matches, Active
  <1>3. TypeOK /\ Nesting /\ OneBusy /\ SameStates /\ Versions /\ [Next]_vars
          => OneBusy' /\ SameStates' /\ Versions'
    BY NextVersions
  <1>4. /\ TypeOK /\ Nesting /\ WorkingCopy /\ AllFilesOrNone
        /\ OneBusy /\ SameStates /\ StateAndRows /\ [Next]_vars
        => StateAndRows'
    BY NextStateAndRows
  <1>5. StateAndRows => StateMatchesFiles
    <2> SUFFICES ASSUME StateAndRows, Quiet, NEW q \in Port
                 PROVE  IF reg.state[q] = "installed"
                        THEN \A x \in ImageFiles[q] : reg.actual[q][x] # NoPath
                        ELSE reg_entry_files(reg, q) = {}
      BY DEF StateMatchesFiles
    <2>1. Matches(q)
      BY IdleFrame DEF StateAndRows, Quiet, StateToWrite
    <2> QED BY <2>1 DEF Matches, Active, reg_entry_files
  <1> QED
    BY <1>1, <1>2, <1>3, <1>4, <1>5, NextAllFilesOrNone, PortImageTypeOK,
      PortImageNesting, PortImageWorkingCopy, PTL DEF Spec

-------------------------------------------------------------------------------
(* The calls of a process, from the outermost to the current one *)

Stack(p) == Append(callers[p], cur[p])

SameCall(a, b) == a.op = b.op /\ a.port = b.port

\* What a step does to the calls: it changes the innermost one,
StaysIn(S, T) ==
  /\ Len(T) = Len(S)
  /\ \A i \in 1..(Len(S) - 1) : T[i] = S[i]
  /\ SameCall(T[Len(S)], S[Len(S)])

\* suspends it for another one on an entry of its loop,
CallsIn(S, T) ==
  LET n == Len(S) IN
  /\ Len(T) = n + 1
  /\ \A i \in 1..(n - 1) : T[i] = S[i]
  /\ S[n].op = "activate"
  /\ S[n].pc \in {"others", "replace", "reactivate"}
  /\ \E q \in S[n].pend, t \in Try :
       /\ T[n] = [S[n] EXCEPT !.pend = @ \ {q}]
       /\ T[n + 1] = Call(IF S[n].pc = "reactivate" THEN "activate" ELSE "deactivate",
                          q, t)

\* or ends it, with success or an error that the caller passes on or catches.
EndsIn(S, T) ==
  LET n == Len(S) IN
  /\ Len(T) = n - 1
  /\ \A i \in 1..(n - 2) : T[i] = S[i]
  /\ \/ T[n - 1] = S[n - 1]
     \/ /\ S[n].pc = "failed"
        /\ S[n - 1].pc = "replace" /\ T[n - 1] = [S[n - 1] EXCEPT !.pc = "unback"]
     \/ /\ S[n].pc = "failed"
        /\ S[n - 1].pc # "replace" /\ T[n - 1] = [S[n - 1] EXCEPT !.pc = "failed"]

\* The calls of a busy process are a sequence of frames.
LEMMA StackTyped ==
  ASSUME FramesOK, NEW p \in Proc, cur[p] \in Frame
  PROVE  /\ Stack(p) \in Seq(Frame)
         /\ Len(callers[p]) \in Nat
         /\ Len(Stack(p)) = Len(callers[p]) + 1
         /\ \A i \in 1..Len(callers[p]) : Stack(p)[i] = callers[p][i]
         /\ Stack(p)[Len(callers[p]) + 1] = cur[p]
  BY AppendProperties, LenProperties DEF FramesOK, Stack

\* In a nest of calls each was made by the one before it.
Nest(S) ==
  \A i \in 1..(Len(S) - 1) :
    /\ S[i].op = "activate"
    /\ S[i].pc \in {"others", "replace", "reactivate"}
    /\ S[i].pc # "reactivate" => i = Len(S) - 1 /\ S[Len(S)].op = "deactivate"

\* Nesting says so of the stack of a busy process.
LEMMA StackNested ==
  ASSUME FramesOK, Nesting, NEW p \in Proc, cur[p] \in Frame
  PROVE  Nest(Stack(p))
  <1>1. /\ Len(callers[p]) \in Nat
        /\ Len(Stack(p)) = Len(callers[p]) + 1
        /\ \A i \in 1..Len(callers[p]) : Stack(p)[i] = callers[p][i]
        /\ Stack(p)[Len(callers[p]) + 1] = cur[p]
    BY StackTyped
  <1>2. \A i \in 1..Len(callers[p]) : WaitsFor(callers[p], i, cur[p])
    BY DEF Nesting
  <1>3. Len(Stack(p)) - 1 = Len(callers[p])
    BY <1>1
  <1> QED BY <1>1, <1>2, <1>3 DEF Nest, WaitsFor

\* The steps that call another action on an entry of a loop,
Loops(p) == DeactivateOther(p) \/ DeactivateReplaced(p) \/ Reactivate(p)

\* pass over an entry that needs no call,
PassesOver(p) ==
  /\ Reactivate(p)
  /\ \E o \in cur[p].pend :
       reg.state[o] # "imaged" /\ cur' = [cur EXCEPT ![p].pend = @ \ {o}]

\* and those that go on in the current call.
GoesOn(p) ==
  \/ ActivateCheck(p) \/ Extract(p) \/ StartClaim(p) \/ ClaimReplaced(p)
  \/ ClaimFree(p) \/ ClaimForced(p) \/ CommitClaim(p) \/ StartTake(p)
  \/ MoveFile(p) \/ CommitTake(p)
  \/ ClaimFails(p) \/ MoveFails(p) \/ Unmove(p) \/ UnmoveDone(p)
  \/ Unback(p) \/ UnbackFails(p) \/ UnbackDone(p) \/ Rethrow(p)
  \/ RemoveFails(p) \/ Retry(p) \/ DeactivateCheck(p) \/ StartRelease(p)
  \/ RemoveFile(p) \/ CommitRelease(p)

\* The steps of a process, as seen from its stack.
LEMMA StepStack ==
  ASSUME TypeOK, Nesting, NEW p \in Proc, Step(p)
  PROVE  LET S == Stack(p)
             T == Stack(p)' IN
         \/ /\ ~Ends(p) /\ GoesTo(p, PC)
            /\ GoesOn(p) \/ PassesOver(p)
            /\ StaysIn(S, T)
         \/ Loops(p) /\ cur'[p] \in Frame /\ CallsIn(S, T)
         \/ Ends(p) /\ cur'[p] = Idle
         \/ Ends(p) /\ cur'[p] \in Frame /\ callers[p] # <<>> /\ EndsIn(S, T)
  <1> DEFINE s == callers[p]
             S == Stack(p)
             T == Stack(p)'
             n == Len(s)
  <1> SUFFICES \/ /\ ~Ends(p) /\ GoesTo(p, PC)
                  /\ GoesOn(p) \/ PassesOver(p)
                  /\ StaysIn(S, T)
               \/ Loops(p) /\ cur'[p] \in Frame /\ CallsIn(S, T)
               \/ Ends(p) /\ cur'[p] = Idle
               \/ Ends(p) /\ cur'[p] \in Frame /\ s # <<>> /\ EndsIn(S, T)
    OBVIOUS
  <1>0. cur[p] \in Frame /\ FramesOK /\ FramesOK' /\ s \in Seq(Frame)
    BY StepBusy, TypeOKParts DEF TypeOK
  <1>1. /\ n \in Nat /\ Len(S) = n + 1
        /\ \A i \in 1..n : S[i] = s[i]
        /\ S[n + 1] = cur[p]
    BY <1>0, StackTyped
  <1>2. ASSUME cur'[p] \in Frame
        PROVE  /\ Len(callers'[p]) \in Nat /\ Len(T) = Len(callers'[p]) + 1
               /\ \A i \in 1..Len(callers'[p]) : T[i] = callers'[p][i]
               /\ T[Len(callers'[p]) + 1] = cur'[p]
               /\ callers'[p] \in Seq(Frame)
    <2>1. /\ callers'[p] \in Seq(Frame)
          /\ T = Append(callers'[p], cur'[p])
      BY <1>0 DEF FramesOK, Stack
    <2> QED BY <1>2, <2>1, AppendProperties, LenProperties
  <1> HIDE DEF S, T
  <1>g. ASSUME GoesTo(p, PC) PROVE StaysIn(S, T)
    <2>1. cur'[p] \in Frame
      BY <1>0, <1>g, IdleFrame DEF GoesTo, FramesOK
    <2>2. callers'[p] = s
      BY <1>g DEF GoesTo
    <2> QED BY <1>1, <1>2, <1>g, <2>1, <2>2 DEF GoesTo, StaysIn, SameCall
  <1>c. ASSUME NEW op \in Op, NEW q \in cur[p].pend, Nested(p, op, q),
               cur[p].op = "activate",
               \/ cur[p].pc \in {"others", "replace"} /\ op = "deactivate"
               \/ cur[p].pc = "reactivate" /\ op = "activate"
        PROVE  cur'[p] \in Frame /\ CallsIn(S, T)
    <2> DEFINE e == [cur[p] EXCEPT !.pend = @ \ {q}]
    <2>1. PICK t \in Try : cur'[p] = Call(op, q, t)
      BY <1>c, PortImageAssumption DEF Nested, TypeOK
    <2>2. callers'[p] = Append(s, e)
      BY <1>c DEF Nested, TypeOK
    <2>3. cur'[p] \in Frame
      BY <1>0, <1>c, <2>1, CallTyped DEF Frame
    <2>4. e \in Frame
      BY <1>0 DEF Frame
    <2> HIDE DEF e
    <2>5. /\ Len(callers'[p]) = n + 1
          /\ \A i \in 1..n : callers'[p][i] = s[i]
          /\ callers'[p][n + 1] = e
      BY <1>0, <2>2, <2>4, AppendProperties
    <2>6. /\ Len(T) = n + 2
          /\ \A i \in 1..n : T[i] = s[i]
          /\ T[n + 1] = e
          /\ T[n + 2] = Call(op, q, t)
      BY <1>1, <1>2, <2>1, <2>3, <2>5
    <2>7. op = IF cur[p].pc = "reactivate" THEN "activate" ELSE "deactivate"
      BY <1>c
    <2>8. /\ S[Len(S)] = cur[p] /\ Len(T) = Len(S) + 1
          /\ \A i \in 1..(Len(S) - 1) : T[i] = S[i]
          /\ T[Len(S)] = e
          /\ T[Len(S) + 1] = Call(op, q, t)
      BY <1>1, <2>6
    <2> QED BY <1>c, <2>3, <2>7, <2>8 DEF CallsIn, e
  <1>3. CASE GoesOn(p)
    <2>1. \/ GoesTo(p, {"failed"}) \/ GoesTo(p, {"others"})
          \/ GoesTo(p, {"claim", "failed"}) \/ GoesTo(p, {"claiming"})
          \/ GoesTo(p, {"replace"}) \/ GoesTo(p, {"moving", "unmove"})
          \/ GoesTo(p, {"moving"}) \/ GoesTo(p, {"install"})
          \/ GoesTo(p, {"unback", "unmove", "failed", "reactivate", "check"})
          \/ GoesTo(p, {"release"}) \/ GoesTo(p, {"removing", "failed"})
          \/ GoesTo(p, {"removing"}) \/ GoesTo(p, {"image"})
      BY <1>0, <1>3, StepsWithin DEF GoesOn
    <2>2. GoesTo(p, PC)
      BY <2>1 DEF GoesTo
    <2>3. ~Ends(p)
      BY <1>3 DEF GoesOn, Ends, At, SetInstalled, SetImaged, FailsButReached, Fail,
        ActivateCheck, Extract, StartClaim, ClaimReplaced, ClaimFree, ClaimForced,
        CommitClaim, StartTake, MoveFile, CommitTake, ClaimFails, MoveFails, Unmove,
        UnmoveDone, Unback, UnbackFails, UnbackDone, Rethrow, RemoveFails, Retry,
        DeactivateCheck, StartRelease, RemoveFile, CommitRelease
    <2> QED BY <1>3, <1>g, <2>2, <2>3
  <1>4. CASE DeactivateOther(p) \/ DeactivateReplaced(p)
    <2>1. PICK q \in cur[p].pend : Nested(p, "deactivate", q)
      BY <1>4 DEF DeactivateOther, DeactivateReplaced
    <2>2. cur[p].op = "activate" /\ cur[p].pc \in {"others", "replace"}
      BY <1>4 DEF DeactivateOther, DeactivateReplaced, At
    <2> QED BY <1>4, <1>c, <2>1, <2>2 DEF Loops
  <1>5. CASE Reactivate(p)
    <2>1. PICK o \in cur[p].pend :
            IF reg.state[o] = "imaged"
            THEN Nested(p, "activate", o)
            ELSE cur' = [cur EXCEPT ![p].pend = @ \ {o}] /\ UNCHANGED callers
      BY <1>5 DEF Reactivate
    <2>2. cur[p].op = "activate" /\ cur[p].pc = "reactivate"
      BY <1>5 DEF Reactivate, At
    <2>3. CASE reg.state[o] = "imaged"
      BY <1>5, <1>c, <2>1, <2>2, <2>3 DEF Loops
    <2>4. CASE reg.state[o] # "imaged"
      <3>1. GoesTo(p, PC)
        BY <1>0, <2>1, <2>2, <2>4 DEF GoesTo, TypeOK, Frame
      <3>2. ~Ends(p)
        BY <2>2 DEF Ends, At, SetInstalled, SetImaged, FailsButReached, Fail
      <3>3. PassesOver(p)
        BY <1>5, <2>1, <2>4 DEF PassesOver
      <3> QED BY <1>g, <3>1, <3>2, <3>3
    <2> QED BY <2>3, <2>4
  <1>6. CASE Ends(p)
    <2>1. CASE s = <<>>
      BY <1>6, <2>1 DEF Ends, SetInstalled, SetImaged, FailsButReached, Fail,
        Return, TypeOK
    <2>2. CASE s # <<>>
      <3>1. n \in Nat \ {0} /\ s[n] \in Frame
        BY <1>0, <2>2, LastCaller
      <3>2. callers'[p] = SubSeq(s, 1, n - 1)
        BY <1>6, <2>2 DEF Ends, SetInstalled, SetImaged, FailsButReached, Fail,
          Return, TypeOK
      <3>3. Len(callers'[p]) = n - 1 /\ \A i \in 1..(n - 1) : callers'[p][i] = s[i]
        BY <1>0, <3>1, <3>2
      <3>4. \/ cur'[p] = s[n]
            \/ /\ cur[p].pc = "failed"
               /\ s[n].pc = "replace" /\ cur'[p] = [s[n] EXCEPT !.pc = "unback"]
            \/ /\ cur[p].pc = "failed"
               /\ s[n].pc # "replace" /\ cur'[p] = [s[n] EXCEPT !.pc = "failed"]
        <4>1. SetInstalled(p) \/ SetImaged(p) \/ FailsButReached(p) => cur'[p] = s[n]
          BY <2>2 DEF SetInstalled, SetImaged, FailsButReached, Return, TypeOK
        <4>2. ASSUME Fail(p), s[n].pc = "replace"
              PROVE  cur[p].pc = "failed" /\ cur'[p] = [s[n] EXCEPT !.pc = "unback"]
          BY <2>2, <4>2 DEF Fail, TypeOK
        <4>3. ASSUME Fail(p), s[n].pc # "replace"
              PROVE  cur[p].pc = "failed" /\ cur'[p] = [s[n] EXCEPT !.pc = "failed"]
          BY <2>2, <4>3 DEF Fail, TypeOK
        <4> QED BY <1>6, <4>1, <4>2, <4>3 DEF Ends
      <3>5. cur'[p] \in Frame
        <4>1. \A pc \in PC : [s[n] EXCEPT !.pc = pc] \in Frame
          BY <3>1 DEF Frame
        <4> QED BY <3>1, <3>4, <4>1
      <3>6. /\ Len(T) = n
            /\ \A i \in 1..(n - 1) : T[i] = s[i]
            /\ T[n] = cur'[p]
        BY <1>2, <3>1, <3>3, <3>5
      <3>7. /\ Len(S) = n + 1 /\ S[n + 1] = cur[p] /\ S[n] = s[n]
            /\ \A i \in 1..(n - 1) : S[i] = s[i]
        BY <1>1, <3>1
      <3>8. EndsIn(S, T)
        BY <3>1, <3>4, <3>6, <3>7 DEF EndsIn
      <3> QED BY <1>6, <2>2, <3>5, <3>8
    <2> QED BY <2>1, <2>2
  <1> QED BY <1>3, <1>4, <1>5, <1>6 DEF Step, GoesOn, Ends

-------------------------------------------------------------------------------
(* Whom an activation replaces, and whom the calls below it do *)

\* From here on no version of the port is active.
Claimed == {"claim", "claiming", "replace", "moving", "install", "unmove", "unback",
            "reactivate"}

NoneActive(st, q) ==
  \A z \in Port : NameOf[z] = NameOf[q] => st[z] # "installed"

\* One call: with the states st, it replaces ports of other names, one of each.
FrameOK(st, fr) ==
  /\ fr.pc \in Claimed =>
       /\ NoneActive(st, fr.port)
       /\ \A z \in fr.replaced : NameOf[z] # NameOf[fr.port]
  /\ fr.pc = "others" =>
       /\ st[fr.port] # "installed"
       /\ \A o \in fr.pend : NameOf[o] = NameOf[fr.port] /\ o # fr.port
  /\ \A z \in fr.replaced : IsReplaced(z, fr.port)
  /\ \A z, o \in fr.replaced : NameOf[z] = NameOf[o] => z = o
  /\ fr.pc \in {"replace", "reactivate"} => fr.pend \subseteq fr.replaced
  /\ fr.pc = "claiming" => \A z \in fr.replaced : st[z] = "installed"
  /\ fr.op = "deactivate" \/ fr.pc \in {"check", "others", "claim"} => fr.replaced = {}

\* Two calls: the later one neither activates nor replaces a version of the
\* port of an earlier one, c, which reactivates what it has replaced.
Over(c, fr) ==
  c.pc = "reactivate" =>
    /\ fr.op = "activate" => NameOf[fr.port] # NameOf[c.port]
    /\ \A z \in fr.replaced : NameOf[z] # NameOf[c.port]

\* A call and the one that it has made.
CallOf(c, fr) ==
  /\ c.pc = "others" => NameOf[fr.port] = NameOf[c.port] /\ fr.port # c.port
  /\ c.pc = "replace" => fr.port \in c.replaced
  /\ c.pc = "reactivate" => fr.op = "activate"

ChainOK(st, S) ==
  /\ \A i \in 1..Len(S) : FrameOK(st, S[i])
  /\ \A j \in 1..Len(S) : \A i \in 1..(j - 1) : Over(S[i], S[j])
  /\ \A i \in 1..(Len(S) - 1) : CallOf(S[i], S[i + 1])

\* A suspended call stays right while no version of its port is activated.
LEMMA FrameKept ==
  ASSUME NEW st, NEW st2, NEW fr \in Frame, FrameOK(st, fr), fr.pc # "claiming",
         \A z \in Port : st2[z] = "installed" /\ NameOf[z] = NameOf[fr.port]
                           => st[z] = "installed"
  PROVE  FrameOK(st2, fr)
  BY DEF FrameOK, NoneActive, Frame

\* The innermost call changes.
LEMMA ChainStays ==
  ASSUME NEW st, NEW S \in Seq(Frame), NEW T \in Seq(Frame), Len(S) # 0,
         ChainOK(st, S), StaysIn(S, T), FrameOK(st, T[Len(S)]),
         \A i \in 1..(Len(S) - 1) : Over(S[i], T[Len(S)])
  PROVE  ChainOK(st, T)
  <1> DEFINE n == Len(S)
  <1>0. n \in Nat \ {0} /\ Len(T) = n
    BY LenProperties DEF StaysIn
  <1>1. ASSUME NEW i \in 1..n PROVE FrameOK(st, T[i])
    <2>1. CASE i = n
      BY <2>1
    <2>2. CASE i \in 1..(n - 1)
      BY <1>0, <2>2 DEF StaysIn, ChainOK
    <2> QED BY <1>0, <2>1, <2>2
  <1>2. ASSUME NEW j \in 1..n, NEW i \in 1..(j - 1) PROVE Over(T[i], T[j])
    <2>0. i \in 1..(n - 1) /\ T[i] = S[i]
      BY <1>0 DEF StaysIn
    <2>1. CASE j = n
      BY <2>0, <2>1
    <2>2. CASE j \in 1..(n - 1)
      BY <1>0, <2>0, <2>2 DEF StaysIn, ChainOK
    <2> QED BY <1>0, <2>1, <2>2
  <1>3. ASSUME NEW i \in 1..(n - 1) PROVE CallOf(T[i], T[i + 1])
    <2>0. T[i] = S[i] /\ CallOf(S[i], S[i + 1]) /\ SameCall(T[i + 1], S[i + 1])
      <3>1. CASE i + 1 = n
        BY <1>0, <3>1 DEF StaysIn, ChainOK, SameCall
      <3>2. CASE i + 1 \in 1..(n - 1)
        BY <1>0, <3>2 DEF StaysIn, ChainOK, SameCall
      <3> QED BY <1>0, <3>1, <3>2
    <2> QED BY <2>0 DEF CallOf, SameCall
  <1> QED BY <1>0, <1>1, <1>2, <1>3 DEF ChainOK

\* A call is made on an entry of the loop of the innermost one.
LEMMA ChainCalls ==
  ASSUME NEW st, NEW S \in Seq(Frame), NEW T \in Seq(Frame), Len(S) # 0,
         ChainOK(st, S), CallsIn(S, T)
  PROVE  ChainOK(st, T)
  <1> DEFINE n == Len(S)
  <1>0. n \in Nat \ {0} /\ Len(T) = n + 1 /\ \A i \in 1..(n - 1) : T[i] = S[i]
    BY LenProperties DEF CallsIn
  <1>1. PICK q \in S[n].pend, t \in Try :
          /\ T[n] = [S[n] EXCEPT !.pend = @ \ {q}]
          /\ T[n + 1] = Call(IF S[n].pc = "reactivate" THEN "activate" ELSE "deactivate",
                             q, t)
    BY DEF CallsIn
  <1>2. /\ n \in 1..n /\ S[n] \in Frame /\ FrameOK(st, S[n])
        /\ S[n].op = "activate" /\ S[n].pc \in {"others", "replace", "reactivate"}
        /\ \A i \in 1..(n - 1) : Over(S[i], S[n])
    BY <1>0, ElementOfSeq DEF ChainOK, CallsIn
  <1>3. PICK c \in Frame : c = S[n]
    BY <1>2
  <1>4. /\ T[n].op = c.op /\ T[n].pc = c.pc /\ T[n].port = c.port
        /\ T[n].replaced = c.replaced /\ T[n].pend = c.pend \ {q}
    BY <1>1, <1>3 DEF Frame
  <1>5. /\ T[n + 1].pc = "check" /\ T[n + 1].port = q /\ T[n + 1].replaced = {}
        /\ T[n + 1].op = IF c.pc = "reactivate" THEN "activate" ELSE "deactivate"
    BY <1>1, <1>3 DEF Call
  <1>6. q \in c.pend
    BY <1>3
  <1>7. ASSUME NEW i \in 1..(n + 1) PROVE FrameOK(st, T[i])
    <2>1. CASE i \in 1..(n - 1)
      BY <1>0, <2>1 DEF ChainOK
    <2>2. CASE i = n
      BY <1>2, <1>3, <1>4, <2>2 DEF FrameOK
    <2>3. CASE i = n + 1
      BY <1>5, <2>3 DEF FrameOK, Claimed
    <2> QED BY <1>0, <2>1, <2>2, <2>3
  <1>8. ASSUME NEW j \in 1..(n + 1), NEW i \in 1..(j - 1) PROVE Over(T[i], T[j])
    <2>1. CASE j \in 1..(n - 1)
      BY <1>0, <2>1 DEF ChainOK
    <2>2. CASE j = n
      BY <1>0, <1>2, <1>3, <1>4, <2>2 DEF Over
    <2>3. CASE j = n + 1 /\ i = n
      BY <1>2, <1>3, <1>4, <1>5, <1>6, <2>3 DEF FrameOK, Over, Claimed
    <2>4. CASE j = n + 1 /\ i \in 1..(n - 1)
      <3>1. T[i] = S[i] /\ Over(S[i], c)
        BY <1>0, <1>2, <1>3, <2>4
      <3>2. c.pc = "reactivate" => q \in c.replaced
        BY <1>2, <1>3, <1>6 DEF FrameOK
      <3> QED BY <1>5, <2>4, <3>1, <3>2 DEF Over
    <2> QED BY <1>0, <2>1, <2>2, <2>3, <2>4
  <1>9. ASSUME NEW i \in 1..n PROVE CallOf(T[i], T[i + 1])
    <2>1. CASE i = n
      BY <1>2, <1>3, <1>4, <1>5, <1>6, <2>1 DEF FrameOK, CallOf
    <2>2. CASE i \in 1..(n - 1)
      <3>1. T[i] = S[i] /\ CallOf(S[i], S[i + 1]) /\ SameCall(T[i + 1], S[i + 1])
        <4>1. CASE i + 1 = n
          BY <1>0, <1>3, <1>4, <2>2, <4>1 DEF ChainOK, SameCall
        <4>2. CASE i + 1 \in 1..(n - 1)
          BY <1>0, <2>2, <4>2 DEF ChainOK, SameCall
        <4> QED BY <1>0, <2>2, <4>1, <4>2
      <3> QED BY <3>1 DEF CallOf, SameCall
    <2> QED BY <1>0, <2>1, <2>2
  <1> QED BY <1>0, <1>7, <1>8, <1>9 DEF ChainOK

\* The innermost call ends, perhaps with its port active.
LEMMA ChainEnds ==
  ASSUME NEW st, NEW st2, NEW S \in Seq(Frame), NEW T \in Seq(Frame),
         Len(S) \in Nat \ {0, 1}, ChainOK(st, S), Nest(S), EndsIn(S, T),
         \A z \in Port : st2[z] = "installed" =>
           st[z] = "installed" \/ (z = S[Len(S)].port /\ S[Len(S)].op = "activate")
  PROVE  ChainOK(st2, T)
  <1> DEFINE n == Len(S)
  <1>0. n - 1 \in Nat \ {0} /\ Len(T) = n - 1 /\ \A i \in 1..(n - 2) : T[i] = S[i]
    BY DEF EndsIn
  <1>1. PICK c \in Frame : c = S[n - 1]
    BY <1>0, ElementOfSeq
  <1>2. /\ T[n - 1].op = c.op /\ T[n - 1].port = c.port
        /\ T[n - 1].replaced = c.replaced
        /\ \/ T[n - 1] = c
           \/ T[n - 1].pc = "unback" /\ c.pc = "replace"
           \/ T[n - 1].pc = "failed"
    BY <1>1 DEF EndsIn, Frame
  <1>3. ASSUME NEW i \in 1..(n - 1) PROVE FrameOK(st2, S[i])
    <2>1. S[i] \in Frame /\ FrameOK(st, S[i]) /\ Over(S[i], S[n])
      BY <1>0, ElementOfSeq DEF ChainOK
    <2>2. /\ S[i].pc \in {"others", "replace", "reactivate"}
          /\ S[n].op = "activate" => S[i].pc = "reactivate"
      BY <1>0 DEF Nest
    <2>3. S[n].op = "activate" => NameOf[S[n].port] # NameOf[S[i].port]
      BY <2>1, <2>2 DEF Over
    <2> QED BY <2>1, <2>2, <2>3, FrameKept
  <1>4. ASSUME NEW i \in 1..(n - 1) PROVE FrameOK(st2, T[i])
    <2>1. CASE i \in 1..(n - 2)
      BY <1>0, <1>3, <2>1
    <2>2. CASE i = n - 1
      <3>1. FrameOK(st2, c)
        <4>1. n - 1 \in 1..(n - 1)
          BY <1>0
        <4> QED BY <1>1, <1>3, <4>1
      <3>2. c.op = "activate"
        BY <1>0, <1>1 DEF Nest
      <3> QED BY <1>2, <2>2, <3>1, <3>2 DEF FrameOK, Claimed
    <2> QED BY <1>0, <2>1, <2>2
  <1>5. ASSUME NEW j \in 1..(n - 1), NEW i \in 1..(j - 1) PROVE Over(T[i], T[j])
    <2>0. i \in 1..(n - 2) /\ j \in 1..n
      BY <1>0
    <2>1. T[i] = S[i] /\ Over(S[i], S[j])
      BY <1>0, <2>0 DEF ChainOK
    <2>2. CASE j \in 1..(n - 2)
      BY <1>0, <2>1, <2>2
    <2>3. CASE j = n - 1
      BY <1>1, <1>2, <2>1, <2>3 DEF Over
    <2> QED BY <1>0, <2>2, <2>3
  <1>6. ASSUME NEW i \in 1..(n - 2) PROVE CallOf(T[i], T[i + 1])
    <2>1. T[i] = S[i] /\ CallOf(S[i], S[i + 1]) /\ SameCall(T[i + 1], S[i + 1])
      <3>1. CASE i + 1 = n - 1
        BY <1>0, <1>1, <1>2, <3>1 DEF ChainOK, SameCall
      <3>2. CASE i + 1 \in 1..(n - 2)
        BY <1>0, <3>2 DEF ChainOK, SameCall
      <3> QED BY <1>0, <3>1, <3>2
    <2> QED BY <2>1 DEF CallOf, SameCall
  <1>7. (n - 1) - 1 = n - 2
    BY <1>0
  <1> QED BY <1>0, <1>4, <1>5, <1>6, <1>7 DEF ChainOK

-------------------------------------------------------------------------------
(* What an activation that failed has made active again *)

\* The entries that the loop over the replaced ports has visited.
Done(fr) == fr.replaced \ fr.pend

\* A later call neither replaces nor activates another version of those.
OverDone(c, fr) ==
  c.pc = "reactivate" =>
    \A o \in Done(c) :
      /\ \A z \in fr.replaced : NameOf[z] # NameOf[o]
      /\ fr.op = "activate" /\ fr.port # o => NameOf[fr.port] # NameOf[o]

DoneOK(st, S) ==
  /\ \A j \in 1..Len(S) : \A i \in 1..(j - 1) : OverDone(S[i], S[j])
  /\ \A i \in 1..Len(S) : S[i].pc = "reactivate" =>
       \A o \in Done(S[i]) :
         st[o] = "installed" \/ (i # Len(S) /\ o = S[i + 1].port)

\* The innermost call changes.
LEMMA DoneStays ==
  ASSUME NEW st, NEW S \in Seq(Frame), NEW T \in Seq(Frame), Len(S) # 0,
         DoneOK(st, S), StaysIn(S, T),
         \A i \in 1..(Len(S) - 1) : OverDone(S[i], T[Len(S)]),
         T[Len(S)].pc = "reactivate" => \A o \in Done(T[Len(S)]) : st[o] = "installed"
  PROVE  DoneOK(st, T)
  <1> DEFINE n == Len(S)
  <1>0. n \in Nat \ {0} /\ Len(T) = n
    BY LenProperties DEF StaysIn
  <1>1. ASSUME NEW j \in 1..n, NEW i \in 1..(j - 1) PROVE OverDone(T[i], T[j])
    <2>0. i \in 1..(n - 1) /\ T[i] = S[i]
      BY <1>0 DEF StaysIn
    <2>1. CASE j = n
      BY <2>0, <2>1
    <2>2. CASE j \in 1..(n - 1)
      BY <1>0, <2>0, <2>2 DEF StaysIn, DoneOK
    <2> QED BY <1>0, <2>1, <2>2
  <1>2. ASSUME NEW i \in 1..n, T[i].pc = "reactivate", NEW o \in Done(T[i])
        PROVE  st[o] = "installed" \/ (i # n /\ o = T[i + 1].port)
    <2>1. CASE i = n
      BY <1>2, <2>1
    <2>2. CASE i \in 1..(n - 1)
      <3>1. T[i] = S[i] /\ T[i + 1].port = S[i + 1].port
        <4>1. CASE i + 1 = n
          BY <1>0, <2>2, <4>1 DEF StaysIn, SameCall
        <4>2. CASE i + 1 \in 1..(n - 1)
          BY <1>0, <2>2, <4>2 DEF StaysIn
        <4> QED BY <1>0, <2>2, <4>1, <4>2
      <3> QED BY <1>0, <1>2, <2>2, <3>1 DEF DoneOK
    <2> QED BY <1>0, <2>1, <2>2
  <1> QED BY <1>0, <1>1, <1>2 DEF DoneOK

\* A call is made on an entry of the loop of the innermost one.
LEMMA DoneCalls ==
  ASSUME NEW st, NEW S \in Seq(Frame), NEW T \in Seq(Frame), Len(S) # 0,
         ChainOK(st, S), DoneOK(st, S), CallsIn(S, T)
  PROVE  DoneOK(st, T)
  <1> DEFINE n == Len(S)
  <1>0. n \in Nat \ {0} /\ Len(T) = n + 1 /\ \A i \in 1..(n - 1) : T[i] = S[i]
    BY LenProperties DEF CallsIn
  <1>1. PICK q \in S[n].pend, t \in Try :
          /\ T[n] = [S[n] EXCEPT !.pend = @ \ {q}]
          /\ T[n + 1] = Call(IF S[n].pc = "reactivate" THEN "activate" ELSE "deactivate",
                             q, t)
    BY DEF CallsIn
  <1>2. n \in 1..n /\ S[n] \in Frame /\ FrameOK(st, S[n])
    BY <1>0, ElementOfSeq DEF ChainOK
  <1>3. PICK c \in Frame : c = S[n]
    BY <1>2
  <1>4. /\ T[n].op = c.op /\ T[n].pc = c.pc /\ T[n].port = c.port
        /\ T[n].replaced = c.replaced /\ T[n].pend = c.pend \ {q}
    BY <1>1, <1>3 DEF Frame
  <1>5. /\ T[n + 1].pc = "check" /\ T[n + 1].port = q /\ T[n + 1].replaced = {}
        /\ T[n + 1].op = IF c.pc = "reactivate" THEN "activate" ELSE "deactivate"
    BY <1>1, <1>3 DEF Call
  <1>6. q \in c.pend /\ (c.pc = "reactivate" => c.pend \subseteq c.replaced)
    BY <1>2, <1>3 DEF FrameOK
  <1>7. \A i \in 1..(n - 1) : OverDone(S[i], c)
    BY <1>0, <1>2, <1>3 DEF DoneOK
  <1>8. ASSUME NEW j \in 1..(n + 1), NEW i \in 1..(j - 1) PROVE OverDone(T[i], T[j])
    <2>1. CASE j \in 1..(n - 1)
      BY <1>0, <2>1 DEF DoneOK
    <2>2. CASE j = n
      BY <1>0, <1>4, <1>7, <2>2 DEF OverDone
    <2>3. CASE j = n + 1 /\ i = n
      <3>1. \A o \in c.replaced : NameOf[o] = NameOf[q] /\ q \in c.replaced => o = q
        BY <1>2, <1>3 DEF FrameOK
      <3> QED BY <1>4, <1>5, <1>6, <2>3, <3>1 DEF OverDone, Done
    <2>4. CASE j = n + 1 /\ i \in 1..(n - 1)
      <3>1. T[i] = S[i] /\ OverDone(S[i], c)
        BY <1>0, <1>7, <2>4
      <3> QED BY <1>5, <1>6, <2>4, <3>1 DEF OverDone
    <2>5. j \in 1..(n - 1) \/ j = n \/ j = n + 1
      BY <1>0
    <2>6. j = n + 1 => i = n \/ i \in 1..(n - 1)
      BY <1>0
    <2> QED BY <2>1, <2>2, <2>3, <2>4, <2>5, <2>6
  <1>9. ASSUME NEW i \in 1..(n + 1), T[i].pc = "reactivate", NEW o \in Done(T[i])
        PROVE  st[o] = "installed" \/ (i # n + 1 /\ o = T[i + 1].port)
    <2>1. CASE i = n + 1
      BY <1>5, <1>9, <2>1
    <2>2. CASE i = n
      <3>1. c.pc = "reactivate" /\ (o \in Done(c) \/ o = q)
        BY <1>4, <1>9, <2>2 DEF Done
      <3>2. o \in Done(c) => st[o] = "installed"
        BY <1>0, <1>2, <1>3, <3>1 DEF DoneOK
      <3> QED BY <1>0, <1>5, <2>2, <3>1, <3>2
    <2>3. CASE i \in 1..(n - 1)
      <3>1. T[i] = S[i] /\ T[i + 1].port = S[i + 1].port /\ i # n
        <4>1. CASE i + 1 = n
          BY <1>0, <1>3, <1>4, <2>3, <4>1
        <4>2. CASE i + 1 \in 1..(n - 1)
          BY <1>0, <2>3, <4>2
        <4> QED BY <1>0, <2>3, <4>1, <4>2
      <3> QED BY <1>0, <1>9, <2>3, <3>1 DEF DoneOK
    <2> QED BY <1>0, <2>1, <2>2, <2>3
  <1> QED BY <1>0, <1>8, <1>9 DEF DoneOK

\* From the states st to st2 a call on fr ends, whose caller goes on: when it is
\* an activation its port is active, and nothing but the port of a deactivation
\* has become inactive.
EndKeeps(st, st2, fr, goesOn) ==
  /\ \A z \in Port : st[z] = "installed" =>
       st2[z] = "installed" \/ (z = fr.port /\ fr.op = "deactivate")
  /\ fr.op = "activate" /\ goesOn => st2[fr.port] = "installed"

\* The innermost call ends: an activation that succeeded has activated its
\* port, and a deactivation is none of a port that was made active again.
LEMMA DoneEnds ==
  ASSUME NEW st, NEW st2, NEW S \in Seq(Frame), NEW T \in Seq(Frame),
         Len(S) \in Nat \ {0, 1}, ChainOK(st, S), DoneOK(st, S), Nest(S), EndsIn(S, T),
         EndKeeps(st, st2, S[Len(S)], T[Len(S) - 1] = S[Len(S) - 1])
  PROVE  DoneOK(st2, T)
  <1>e. /\ \A z \in Port : st[z] = "installed" =>
             st2[z] = "installed" \/ (z = S[Len(S)].port /\ S[Len(S)].op = "deactivate")
        /\ S[Len(S)].op = "activate" /\ T[Len(S) - 1] = S[Len(S) - 1]
             => st2[S[Len(S)].port] = "installed"
    BY DEF EndKeeps
  <1> DEFINE n == Len(S)
  <1>0. /\ n - 1 \in Nat \ {0} /\ Len(T) = n - 1 /\ \A i \in 1..(n - 2) : T[i] = S[i]
        /\ n - 1 \in 1..(n - 1) /\ n - 1 \in 1..n
    BY DEF EndsIn
  <1>1. PICK c \in Frame : c = S[n - 1]
    BY <1>0, ElementOfSeq
  <1>2. /\ T[n - 1].op = c.op /\ T[n - 1].port = c.port
        /\ T[n - 1].replaced = c.replaced /\ T[n - 1].pend = c.pend
        /\ T[n - 1].pc = "reactivate" => T[n - 1] = c
    BY <1>1 DEF EndsIn, Frame
  <1>3. CallOf(c, S[n]) /\ c.op = "activate" /\ c.pc \in {"others", "replace", "reactivate"}
    <2>1. (n - 1) + 1 = n
      BY <1>0
    <2> QED BY <1>0, <1>1, <2>1 DEF ChainOK, Nest
  <1>4. ASSUME NEW j \in 1..(n - 1), NEW i \in 1..(j - 1) PROVE OverDone(T[i], T[j])
    <2>0. i \in 1..(n - 2) /\ j \in 1..n
      BY <1>0
    <2>1. T[i] = S[i] /\ OverDone(S[i], S[j])
      BY <1>0, <2>0 DEF DoneOK
    <2>2. CASE j \in 1..(n - 2)
      BY <1>0, <2>1, <2>2
    <2>3. CASE j = n - 1
      BY <1>1, <1>2, <2>1, <2>3 DEF OverDone
    <2> QED BY <1>0, <2>2, <2>3
  \* What was active and made so again is not what the call deactivates.
  <1>5. ASSUME NEW i \in 1..(n - 1), S[i].pc = "reactivate", NEW o \in Done(S[i]),
               st[o] = "installed"
        PROVE  st2[o] = "installed"
    <2>0. o \in Port
      <3>1. S[i] \in Frame
        BY <1>0, ElementOfSeq
      <3> QED BY <1>5, <3>1 DEF Done, Frame
    <2>1. ASSUME o = S[n].port, S[n].op = "deactivate" PROVE FALSE
      <3>1. c.pc \in {"others", "replace"} /\ i \in 1..(n - 2)
        BY <1>0, <1>1, <1>3, <1>5, <2>1 DEF CallOf
      <3>2. OverDone(S[i], c)
        BY <1>0, <1>1, <3>1 DEF DoneOK
      <3> QED BY <1>3, <1>5, <2>1, <3>1, <3>2 DEF OverDone, CallOf
    <2> QED BY <1>e, <1>5, <2>0, <2>1
  <1>6. ASSUME NEW i \in 1..(n - 1), T[i].pc = "reactivate", NEW o \in Done(T[i])
        PROVE  st2[o] = "installed" \/ (i # n - 1 /\ o = T[i + 1].port)
    <2>1. S[i].pc = "reactivate" /\ o \in Done(S[i]) /\ T[i] = S[i]
      <3>1. CASE i = n - 1
        BY <1>1, <1>2, <1>6, <3>1
      <3>2. CASE i \in 1..(n - 2)
        BY <1>0, <1>6, <3>2
      <3> QED BY <1>0, <3>1, <3>2
    <2>2. st[o] = "installed" \/ o = S[i + 1].port
      BY <1>0, <2>1 DEF DoneOK
    <2>3. CASE st[o] = "installed"
      BY <1>5, <2>1, <2>3
    <2>4. CASE o = S[i + 1].port /\ i = n - 1
      <3>1. S[i + 1] = S[n]
        BY <1>0, <2>4
      <3>2. S[n].op = "activate"
        BY <1>1, <1>3, <2>1, <2>4 DEF CallOf
      <3> QED BY <1>e, <2>1, <2>4, <3>1, <3>2
    <2>5. CASE o = S[i + 1].port /\ i \in 1..(n - 2)
      <3>1. T[i + 1].port = S[i + 1].port
        <4>1. CASE i + 1 = n - 1
          BY <1>1, <1>2, <4>1
        <4>2. CASE i + 1 \in 1..(n - 2)
          BY <1>0, <4>2
        <4> QED BY <1>0, <2>5, <4>1, <4>2
      <3> QED BY <1>0, <2>5, <3>1
    <2> QED BY <1>0, <2>2, <2>3, <2>4, <2>5
  <1> QED BY <1>0, <1>4, <1>6 DEF DoneOK

-------------------------------------------------------------------------------
(* The steps keep the chain of calls right *)

\* What is proved above of the registry, when the lock works.
Ground ==
  /\ TypeOK /\ OneOwner /\ Nesting /\ WorkingCopy /\ AllFilesOrNone
  /\ OneBusy /\ SameStates /\ Versions /\ StateAndRows

Chain == \A p \in Proc : cur[p] # Idle => ChainOK(reg.state, Stack(p))

\* What the current call keeps when it goes on.
Keeps(p) ==
  /\ cur'[p].op = cur[p].op
  /\ cur'[p].port = cur[p].port
  /\ cur'[p].replaced = cur[p].replaced
  /\ cur'[p].backups = cur[p].backups
  /\ cur'[p].stamp = cur[p].stamp

\* What the updates of cur leave alone.
LEMMA FieldUpdates ==
  ASSUME TypeOK, NEW p \in Proc, cur[p] \in Frame
  PROVE  /\ \A pc, todo : Goto(p, pc, todo) =>
              /\ Keeps(p) /\ cur'[p].pc = pc /\ cur'[p].todo = todo
              /\ cur'[p].pend = cur[p].pend
         /\ \A pc, pend : cur' = [cur EXCEPT ![p].pc = pc, ![p].pend = pend] =>
              /\ Keeps(p) /\ cur'[p].pc = pc /\ cur'[p].pend = pend
              /\ cur'[p].todo = cur[p].todo
         /\ \A todo : cur' = [cur EXCEPT ![p].todo = todo] =>
              /\ Keeps(p) /\ cur'[p].pc = cur[p].pc /\ cur'[p].todo = todo
              /\ cur'[p].pend = cur[p].pend
         /\ \A pend : cur' = [cur EXCEPT ![p].pend = pend] =>
              /\ Keeps(p) /\ cur'[p].pc = cur[p].pc /\ cur'[p].pend = pend
              /\ cur'[p].todo = cur[p].todo
  BY DEF Goto, Keeps, TypeOK, Frame

\* The updates of cur by a claim, which have forms of their own.
LEMMA ClaimUpdates ==
  ASSUME TypeOK, NEW p \in Proc, cur[p] \in Frame
  PROVE  /\ StartClaim(p) =>
              /\ cur'[p].op = cur[p].op /\ cur'[p].port = cur[p].port
              /\ cur'[p].pc = "claiming" /\ cur'[p].todo = Homes(cur[p].port)
              /\ cur'[p].replaced = cur[p].replaced
              /\ cur'[p].backups = cur[p].backups
              /\ \E s \in Stamp : /\ IF force[p] THEN FreeStamp(s) ELSE s = 0
                                  /\ cur'[p].stamp = s
         /\ ClaimReplaced(p) =>
              /\ cur'[p].op = cur[p].op /\ cur'[p].port = cur[p].port
              /\ cur'[p].pc = "claiming" /\ cur'[p].stamp = cur[p].stamp
              /\ cur'[p].backups = cur[p].backups
              /\ \E a \in cur[p].todo : \E o \in reg_entry_owner(work, a) \ {cur[p].port} :
                   /\ IsReplaced(o, cur[p].port)
                   /\ cur'[p].todo = cur[p].todo \ {a}
                   /\ cur'[p].replaced = cur[p].replaced \cup {o}
         /\ ClaimForced(p) =>
              /\ cur'[p].op = cur[p].op /\ cur'[p].port = cur[p].port
              /\ cur'[p].pc = "claiming" /\ cur'[p].stamp = cur[p].stamp
              /\ cur'[p].replaced = cur[p].replaced
         /\ Unback(p) =>
              /\ cur'[p].op = cur[p].op /\ cur'[p].port = cur[p].port
              /\ cur'[p].pc = "unback" /\ cur'[p].replaced = cur[p].replaced
         /\ Retry(p) => \E t \in Try : cur'[p] = Call(cur[p].op, cur[p].port, t)
  <1>1. PICK fr \in Frame : fr = cur[p]
    OBVIOUS
  <1>2. ASSUME StartClaim(p)
        PROVE  /\ cur'[p].op = cur[p].op /\ cur'[p].port = cur[p].port
               /\ cur'[p].pc = "claiming" /\ cur'[p].todo = Homes(cur[p].port)
               /\ cur'[p].replaced = cur[p].replaced
               /\ cur'[p].backups = cur[p].backups
               /\ \E s \in Stamp : /\ IF force[p] THEN FreeStamp(s) ELSE s = 0
                                   /\ cur'[p].stamp = s
    <2>1. PICK s \in Stamp :
            /\ IF force[p] THEN FreeStamp(s) ELSE s = 0
            /\ cur' = [cur EXCEPT ![p].pc = "claiming",
                         ![p].todo = Homes(cur[p].port), ![p].stamp = s]
      BY <1>2 DEF StartClaim
    <2>2. cur'[p] = [fr EXCEPT !.pc = "claiming", !.todo = Homes(fr.port), !.stamp = s]
      BY <1>1, <2>1 DEF TypeOK
    <2>3. /\ cur'[p].op = fr.op /\ cur'[p].port = fr.port /\ cur'[p].pc = "claiming"
          /\ cur'[p].todo = Homes(fr.port) /\ cur'[p].replaced = fr.replaced
          /\ cur'[p].backups = fr.backups /\ cur'[p].stamp = s
      BY <2>2 DEF Frame
    <2>4. \E t \in Stamp : /\ IF force[p] THEN FreeStamp(t) ELSE t = 0
                          /\ cur'[p].stamp = t
      BY <2>1, <2>3
    <2> QED BY <1>1, <2>3, <2>4
  <1>3. ASSUME ClaimReplaced(p)
        PROVE  /\ cur'[p].op = cur[p].op /\ cur'[p].port = cur[p].port
               /\ cur'[p].pc = "claiming" /\ cur'[p].stamp = cur[p].stamp
               /\ cur'[p].backups = cur[p].backups
               /\ \E a \in cur[p].todo : \E o \in reg_entry_owner(work, a) \ {cur[p].port} :
                    /\ IsReplaced(o, cur[p].port)
                    /\ cur'[p].todo = cur[p].todo \ {a}
                    /\ cur'[p].replaced = cur[p].replaced \cup {o}
    <2>1. PICK a \in cur[p].todo : \E o \in reg_entry_owner(work, a) \ {cur[p].port} :
            /\ IsReplaced(o, cur[p].port)
            /\ cur' = [cur EXCEPT ![p].todo = @ \ {a}, ![p].replaced = @ \cup {o}]
      BY <1>3 DEF ClaimReplaced
    <2>2. PICK o \in reg_entry_owner(work, a) \ {cur[p].port} :
            /\ IsReplaced(o, cur[p].port)
            /\ cur' = [cur EXCEPT ![p].todo = @ \ {a}, ![p].replaced = @ \cup {o}]
      BY <2>1
    <2>3. cur'[p] = [fr EXCEPT !.todo = @ \ {a}, !.replaced = @ \cup {o}]
      BY <1>1, <2>2 DEF TypeOK
    <2>4. fr.pc = "claiming"
      BY <1>1, <1>3 DEF ClaimReplaced, At
    <2>5. /\ cur'[p].op = fr.op /\ cur'[p].port = fr.port /\ cur'[p].pc = fr.pc
          /\ cur'[p].todo = fr.todo \ {a} /\ cur'[p].replaced = fr.replaced \cup {o}
          /\ cur'[p].backups = fr.backups /\ cur'[p].stamp = fr.stamp
      BY <2>3 DEF Frame
    <2>6. /\ IsReplaced(o, cur[p].port)
          /\ cur'[p].todo = cur[p].todo \ {a}
          /\ cur'[p].replaced = cur[p].replaced \cup {o}
      BY <1>1, <2>2, <2>5
    <2> QED BY <1>1, <2>4, <2>5, <2>6
  <1>4. ASSUME ClaimForced(p)
        PROVE  /\ cur'[p].op = cur[p].op /\ cur'[p].port = cur[p].port
               /\ cur'[p].pc = "claiming" /\ cur'[p].stamp = cur[p].stamp
               /\ cur'[p].replaced = cur[p].replaced
    <2>1. PICK a, b : cur' = [cur EXCEPT ![p].todo = @ \ {a}, ![p].backups = b]
      BY <1>4 DEF ClaimForced
    <2>2. cur'[p] = [fr EXCEPT !.todo = @ \ {a}, !.backups = b]
      BY <1>1, <2>1 DEF TypeOK
    <2>3. fr.pc = "claiming"
      BY <1>1, <1>4 DEF ClaimForced, At
    <2> QED BY <1>1, <2>2, <2>3 DEF Frame
  <1>5. ASSUME Unback(p)
        PROVE  /\ cur'[p].op = cur[p].op /\ cur'[p].port = cur[p].port
               /\ cur'[p].pc = "unback" /\ cur'[p].replaced = cur[p].replaced
    <2>1. PICK a : cur' = [cur EXCEPT ![p].backups = @ \ {a}]
      BY <1>5 DEF Unback
    <2>2. cur'[p] = [fr EXCEPT !.backups = @ \ {a}]
      BY <1>1, <2>1 DEF TypeOK
    <2>3. fr.pc = "unback"
      BY <1>1, <1>5 DEF Unback, At
    <2> QED BY <1>1, <2>2, <2>3 DEF Frame
  <1>6. Retry(p) => \E t \in Try : cur'[p] = Call(cur[p].op, cur[p].port, t)
    BY DEF Retry, TypeOK
  <1> QED BY <1>2, <1>3, <1>4, <1>5, <1>6

\* An entry with an active path, as a claim sees it, is installed.
LEMMA OwnerInstalled ==
  ASSUME Ground, NEW p \in Proc, cur[p].pc = "claiming", cur[p] \in Frame,
         \A o \in Proc \ {p} : cur[o] = Idle,
         NEW a \in Path, NEW o \in reg_entry_owner(work, a)
  PROVE  o \in Port /\ reg.state[o] = "installed"
  <1>1. PICK x \in File : work.actual[o][x] = a
    BY DEF reg_entry_owner
  <1>2. o \in Port /\ x \in Active(work, o)
    <2>1. a # NoPath
      BY RegEntryAssumption
    <2> QED BY <1>1, <2>1 DEF Active, reg_entry_owner
  <1>3. x \in Active(reg, o)
    BY <1>2, ClaimActive DEF Ground
  <1>4. Matches(o)
    BY <1>2, IdleFrame DEF Ground, StateAndRows, StateToWrite
  <1> QED BY <1>2, <1>3, <1>4 DEF Matches

\* The current call stays right as it goes on, and over its callers.
LEMMA StepFrameOK ==
  ASSUME Ground, NEW p \in Proc, Step(p), GoesOn(p) \/ PassesOver(p),
         FrameOK(reg.state, cur[p])
  PROVE  /\ FrameOK(reg.state, cur'[p])
         /\ \A c : FrameOK(reg.state, c) /\ Over(c, cur[p]) => Over(c, cur'[p])
  <1> DEFINE st == reg.state
             Right == /\ FrameOK(st, cur'[p])
                      /\ \A c : FrameOK(st, c) /\ Over(c, cur[p]) => Over(c, cur'[p])
  <1> SUFFICES Right
    OBVIOUS
  <1>0. /\ TypeOK /\ cur[p] \in Frame /\ cur[p].port \in Port
        /\ \A o \in Proc \ {p} : cur[o] = Idle
    BY StepBusy, StepOneBusy DEF Ground
  <1>k. Keeps(p) => \A c : Over(c, cur[p]) => Over(c, cur'[p])
    BY DEF Keeps, Over
  <1>1. CASE ActivateCheck(p)
    <2>1. \/ Keeps(p) /\ cur'[p].pc = "failed"
          \/ /\ Keeps(p) /\ cur'[p].pc = "others" /\ st[cur[p].port] # "installed"
             /\ cur'[p].pend = reg_entry_installed(reg, NameOf[cur[p].port]) \ {cur[p].port}
      BY <1>0, <1>1, FieldUpdates DEF ActivateCheck
    <2>2. cur[p].pc = "check"
      BY <1>1 DEF ActivateCheck, At
    <2> QED BY <1>k, <2>1, <2>2 DEF FrameOK, Keeps, Claimed, reg_entry_installed
  <1>2. CASE Extract(p)
    <2>1. /\ Keeps(p) /\ cur'[p].pc \in {"claim", "failed"}
          /\ cur[p].pc = "others" /\ cur[p].pend = {}
      BY <1>0, <1>2, FieldUpdates DEF Extract, At
    <2>2. Others(reg, cur[p].port) = {}
      BY <2>1 DEF Ground, Versions, OthersGone
    <2>3. NoneActive(st, cur[p].port)
      BY <2>1, <2>2 DEF FrameOK, NoneActive, Others, reg_entry_installed
    <2>4. cur[p].replaced = {}
      BY <2>1 DEF FrameOK
    <2> QED BY <1>k, <2>1, <2>3, <2>4 DEF FrameOK, Keeps
  <1>3. CASE StartClaim(p)
    <2>1. cur[p].pc = "claim"
      BY <1>3 DEF StartClaim, At
    <2>2. /\ cur'[p].op = cur[p].op /\ cur'[p].port = cur[p].port
          /\ cur'[p].pc = "claiming" /\ cur'[p].replaced = cur[p].replaced
      BY <1>0, <1>3, ClaimUpdates
    <2> QED BY <2>1, <2>2 DEF FrameOK, Over, Claimed
  <1>4. CASE ClaimReplaced(p)
    <2>1. cur[p].pc = "claiming" /\ cur[p].op = "activate"
      BY <1>4 DEF ClaimReplaced, At
    <2>2. /\ cur'[p].op = cur[p].op /\ cur'[p].port = cur[p].port
          /\ cur'[p].pc = "claiming"
      BY <1>0, <1>4, ClaimUpdates
    <2>3. PICK a \in cur[p].todo : \E o \in reg_entry_owner(work, a) \ {cur[p].port} :
            /\ IsReplaced(o, cur[p].port)
            /\ cur'[p].replaced = cur[p].replaced \cup {o}
      BY <1>0, <1>4, ClaimUpdates
    <2>4. PICK o \in reg_entry_owner(work, a) \ {cur[p].port} :
            /\ IsReplaced(o, cur[p].port)
            /\ cur'[p].replaced = cur[p].replaced \cup {o}
      BY <2>3
    <2>5. o \in Port /\ st[o] = "installed"
      <3>1. a \in Path
        BY <1>0 DEF Frame
      <3> QED BY <1>0, <2>1, <3>1, OwnerInstalled
    <2>6. NameOf[o] # NameOf[cur[p].port]
      BY <2>1, <2>5 DEF FrameOK, Claimed, NoneActive
    <2>7. \A z \in cur[p].replaced : z \in Port /\ (NameOf[z] = NameOf[o] => z = o)
      BY <1>0, <2>1, <2>5 DEF FrameOK, Ground, Versions, OneActiveVersion, Frame
    <2>8. FrameOK(st, cur'[p])
      BY <2>1, <2>2, <2>4, <2>5, <2>6, <2>7 DEF FrameOK, Claimed
    <2>9. ASSUME NEW c, FrameOK(st, c), Over(c, cur[p]) PROVE Over(c, cur'[p])
      <3>1. c.pc = "reactivate" => NameOf[o] # NameOf[c.port]
        BY <2>5, <2>9 DEF FrameOK, Claimed, NoneActive
      <3> QED BY <2>2, <2>4, <2>9, <3>1 DEF Over
    <2> QED BY <2>8, <2>9
  <1>5. CASE ClaimFree(p)
    <2>1. PICK a : cur' = [cur EXCEPT ![p].todo = cur[p].todo \ {a}]
      BY <1>5 DEF ClaimFree
    <2>2. Keeps(p) /\ cur'[p].pc = cur[p].pc /\ cur[p].pc = "claiming"
      BY <1>0, <1>5, <2>1, FieldUpdates DEF ClaimFree, At
    <2> QED BY <1>k, <2>2 DEF FrameOK, Keeps, Claimed
  <1>6. CASE ClaimForced(p) \/ Unback(p)
    <2>1. /\ cur'[p].op = cur[p].op /\ cur'[p].port = cur[p].port
          /\ cur'[p].pc = cur[p].pc /\ cur[p].pc \in {"claiming", "unback"}
          /\ cur'[p].replaced = cur[p].replaced
      BY <1>0, <1>6, ClaimUpdates DEF ClaimForced, Unback, At
    <2> QED BY <2>1 DEF FrameOK, Over, Claimed
  <1>7. CASE CommitClaim(p) \/ UnbackDone(p)
    <2>1. /\ Keeps(p) /\ cur'[p].pc \in {"replace", "reactivate"}
          /\ cur'[p].pend = cur[p].replaced
          /\ cur[p].pc \in {"claiming", "unback"} /\ cur[p].op = "activate"
      BY <1>0, <1>7, FieldUpdates DEF CommitClaim, UnbackDone, At
    <2> QED BY <1>k, <2>1 DEF FrameOK, Keeps, Claimed
  <1>8. CASE PassesOver(p)
    <2>1. PICK o \in cur[p].pend : cur' = [cur EXCEPT ![p].pend = cur[p].pend \ {o}]
      BY <1>8 DEF PassesOver
    <2>r. cur[p].pc = "reactivate" /\ cur[p].op = "activate"
      BY <1>8 DEF PassesOver, Reactivate, At
    <2>f. \A pend : cur' = [cur EXCEPT ![p].pend = pend] =>
            Keeps(p) /\ cur'[p].pc = cur[p].pc /\ cur'[p].pend = pend
      BY <1>0, FieldUpdates
    <2>2. /\ Keeps(p) /\ cur'[p].pc = cur[p].pc /\ cur[p].pc = "reactivate"
          /\ cur'[p].pend = cur[p].pend \ {o}
      BY <2>1, <2>r, <2>f
    <2> QED BY <1>k, <2>2 DEF FrameOK, Keeps, Claimed
  <1>9. CASE Retry(p)
    <2>1. PICK t \in Try : cur'[p] = Call(cur[p].op, cur[p].port, t)
      BY <1>0, <1>9, ClaimUpdates
    <2>2. /\ cur'[p].pc = "check" /\ cur'[p].replaced = {}
          /\ cur'[p].op = cur[p].op /\ cur'[p].port = cur[p].port
      BY <2>1 DEF Call
    <2> QED BY <2>2 DEF FrameOK, Over, Claimed
  \* The activation goes on or begins to undo itself.
  <1>10. CASE \/ ClaimFails(p) \/ StartTake(p) \/ MoveFails(p) \/ CommitTake(p)
              \/ UnmoveDone(p)
    <2>1. /\ Keeps(p) /\ cur'[p].pc \in {"moving", "install", "unmove", "unback"}
          /\ cur[p].pc \in {"claiming", "replace", "moving", "unmove"}
          /\ cur[p].op = "activate"
      BY <1>0, <1>10, FieldUpdates DEF ClaimFails, StartTake, MoveFails, CommitTake,
        UnmoveDone, At
    <2> QED BY <1>k, <2>1 DEF FrameOK, Keeps, Claimed
  <1>11. CASE UnbackFails(p) \/ Rethrow(p) \/ DeactivateCheck(p) \/ StartRelease(p)
              \/ RemoveFails(p) \/ CommitRelease(p)
    <2>1. /\ Keeps(p) /\ cur'[p].pc \in {"failed", "release", "removing", "image"}
          /\ cur[p].op = "activate" \/ cur'[p].replaced = {}
      BY <1>0, <1>11, FieldUpdates DEF UnbackFails, Rethrow, DeactivateCheck,
        StartRelease, RemoveFails, CommitRelease, At, FrameOK, Keeps
    <2> QED BY <1>k, <2>1 DEF FrameOK, Keeps, Claimed
  <1>12. CASE MoveFile(p) \/ Unmove(p) \/ RemoveFile(p)
    <2>1. PICK a : cur' = [cur EXCEPT ![p].todo = cur[p].todo \ {a}]
      BY <1>12 DEF MoveFile, Unmove, RemoveFile
    <2>2. /\ Keeps(p) /\ cur'[p].pc = cur[p].pc
          /\ cur[p].pc \in {"moving", "unmove", "removing"}
      BY <1>0, <1>12, <2>1, FieldUpdates DEF MoveFile, Unmove, RemoveFile, At
    <2> QED BY <1>k, <2>2 DEF FrameOK, Keeps, Claimed
  <1> QED BY <1>1, <1>2, <1>3, <1>4, <1>5, <1>6, <1>7, <1>8, <1>9, <1>10, <1>11,
    <1>12 DEF GoesOn

\* What the end of a call does to the states.
LEMMA EndStates ==
  ASSUME TypeOK, NEW p \in Proc, Ends(p), cur[p] \in Frame
  PROVE  /\ \A z \in Port : reg'.state[z] = "installed" =>
              \/ reg.state[z] = "installed"
              \/ z = cur[p].port /\ cur[p].op = "activate"
         /\ \A z \in Port : reg.state[z] = "installed" =>
              \/ reg'.state[z] = "installed"
              \/ z = cur[p].port /\ cur[p].op = "deactivate"
         /\ \/ cur[p].op = "deactivate"
            \/ reg'.state[cur[p].port] = "installed"
            \/ callers[p] # <<>> => cur'[p].pc \in {"unback", "failed"}
  <1>0. cur[p].port \in Port /\ reg \in Registry
    BY DEF TypeOK, Frame
  <1>1. CASE SetInstalled(p) \/ SetImaged(p)
    <2>1. PICK st \in {"installed", "imaged"} :
            /\ reg' = SetState(reg, cur[p].port, st)
            /\ st = IF cur[p].op = "activate" THEN "installed" ELSE "imaged"
            /\ cur[p].op \in {"activate", "deactivate"}
      BY <1>1 DEF SetInstalled, SetImaged, At, Autocommit
    <2>2. \A z \in Port : reg'.state[z] = IF z = cur[p].port THEN st ELSE reg.state[z]
      BY <1>0, <2>1 DEF SetState, Registry
    <2> QED BY <1>0, <2>1, <2>2
  <1>2. CASE FailsButReached(p)
    <2>1. reg' = reg /\ reg.state[cur[p].port] = Goal(cur[p].op)
      BY <1>2 DEF FailsButReached, database
    <2>2. cur[p].op \in {"activate", "deactivate"}
      BY DEF Frame
    <2> QED BY <2>1, <2>2
  <1>3. CASE Fail(p)
    <2>1. reg' = reg
      BY <1>3 DEF Fail, database
    <2>2. ASSUME callers[p] # <<>> PROVE cur'[p].pc \in {"unback", "failed"}
      <3>1. PICK c \in Frame : c = callers[p][Len(callers[p])]
        BY <2>2, LastCaller DEF TypeOK
      <3>2. PICK pc \in {"unback", "failed"} : cur'[p] = [c EXCEPT !.pc = pc]
        BY <1>3, <2>2, <3>1 DEF Fail, TypeOK
      <3> QED BY <3>2 DEF Frame
    <2> QED BY <2>1, <2>2
  <1> QED BY <1>1, <1>2, <1>3 DEF Ends

\* Before and after a step of the busy process: its stack, and the others idle.
LEMMA StepBoth ==
  ASSUME Ground, NEW p \in Proc, Step(p)
  PROVE  /\ Stack(p) \in Seq(Frame) /\ Nest(Stack(p))
         /\ Len(Stack(p)) = Len(callers[p]) + 1 /\ Len(callers[p]) \in Nat
         /\ Stack(p)[Len(Stack(p))] = cur[p]
         /\ \A i \in 1..Len(callers[p]) : Stack(p)[i] = callers[p][i]
         /\ cur'[p] \in Frame =>
              /\ Stack(p)' \in Seq(Frame)
              /\ Len(Stack(p)') = Len(callers'[p]) + 1 /\ Len(callers'[p]) \in Nat
              /\ Stack(p)'[Len(Stack(p)')] = cur'[p]
              /\ \A i \in 1..Len(callers'[p]) : Stack(p)'[i] = callers'[p][i]
         /\ cur'[p] \in Frame \cup {Idle}
         /\ \A o \in Proc \ {p} : cur'[o] = Idle
  <1>0. /\ cur[p] \in Frame /\ FramesOK /\ FramesOK' /\ Nesting
        /\ \A o \in Proc \ {p} : cur'[o] = Idle
    BY StepBusy, StepOneBusy, TypeOKParts DEF Ground
  <1>1. ASSUME cur'[p] \in Frame
        PROVE  /\ Stack(p)' \in Seq(Frame)
               /\ Len(Stack(p)') = Len(callers'[p]) + 1 /\ Len(callers'[p]) \in Nat
               /\ Stack(p)'[Len(Stack(p)')] = cur'[p]
               /\ \A i \in 1..Len(callers'[p]) : Stack(p)'[i] = callers'[p][i]
    <2>1. /\ callers'[p] \in Seq(Frame)
          /\ Stack(p)' = Append(callers'[p], cur'[p])
      BY <1>0 DEF FramesOK, Stack
    <2> QED BY <1>1, <2>1, AppendProperties, LenProperties
  <1>2. cur'[p] \in Frame \cup {Idle}
    BY <1>0 DEF FramesOK
  <1> QED BY <1>0, <1>1, <1>2, StackTyped, StackNested

\* Every step of the busy process keeps the chain of its calls right.
LEMMA StepChain ==
  ASSUME Ground, Chain, NEW p \in Proc, Step(p)
  PROVE  Chain'
  <1> DEFINE S == Stack(p)
             T == Stack(p)'
  <1>0. /\ TypeOK /\ Nesting /\ SameStates /\ cur[p] \in Frame
        /\ S \in Seq(Frame) /\ Nest(S) /\ Len(S) = Len(callers[p]) + 1
        /\ Len(callers[p]) \in Nat /\ S[Len(S)] = cur[p] /\ Len(S) \in 1..Len(S)
        /\ cur'[p] \in Frame => T \in Seq(Frame) /\ T[Len(T)] = cur'[p]
        /\ \A o \in Proc \ {p} : cur'[o] = Idle
    BY StepBoth, StepBusy DEF Ground
  <1>1. ChainOK(reg.state, S) /\ FrameOK(reg.state, cur[p])
    <2>1. ChainOK(reg.state, S)
      BY <1>0, IdleFrame DEF Chain
    <2> QED BY <1>0, <2>1 DEF ChainOK
  <1>s. ~Ends(p) => reg'.state = reg.state
    BY <1>0, StepStates DEF Ends
  <1>i. (cur'[p] # Idle => ChainOK(reg'.state, T)) => Chain'
    BY <1>0 DEF Chain
  <1>k. \/ /\ ~Ends(p) /\ GoesTo(p, PC)
           /\ GoesOn(p) \/ PassesOver(p)
           /\ StaysIn(S, T)
        \/ Loops(p) /\ cur'[p] \in Frame /\ CallsIn(S, T)
        \/ Ends(p) /\ cur'[p] = Idle
        \/ Ends(p) /\ cur'[p] \in Frame /\ callers[p] # <<>> /\ EndsIn(S, T)
    BY <1>0, StepStack
  <1> HIDE DEF S, T
  <1>2. CASE ~Ends(p) /\ (GoesOn(p) \/ PassesOver(p)) /\ StaysIn(S, T)
    <2>1. CASE cur'[p] = Idle
      BY <1>i, <2>1
    <2>2. CASE cur'[p] # Idle
      <3>1. /\ T \in Seq(Frame) /\ T[Len(S)] = cur'[p]
            /\ reg'.state = reg.state
        BY <1>0, <1>2, <1>s, <2>2, StepBoth DEF StaysIn
      <3>2. /\ FrameOK(reg.state, cur'[p])
            /\ \A c : FrameOK(reg.state, c) /\ Over(c, cur[p]) => Over(c, cur'[p])
        BY <1>1, <1>2, StepFrameOK
      <3>3. \A i \in 1..(Len(S) - 1) : Over(S[i], T[Len(S)])
        <4> SUFFICES ASSUME NEW i \in 1..(Len(S) - 1) PROVE Over(S[i], cur'[p])
          BY <3>1
        <4>1. i \in 1..Len(S)
          BY <1>0
        <4>2. FrameOK(reg.state, S[i]) /\ Over(S[i], cur[p])
          BY <1>0, <1>1, <4>1 DEF ChainOK
        <4> QED BY <3>2, <4>2
      <3>4. ChainOK(reg.state, T)
        BY <1>0, <1>1, <1>2, <3>1, <3>2, <3>3, ChainStays
      <3> QED BY <1>i, <3>1, <3>4
    <2> QED BY <2>1, <2>2
  <1>3. CASE Loops(p) /\ cur'[p] \in Frame /\ CallsIn(S, T)
    <2>1. reg' = reg
      BY <1>3 DEF Loops, DeactivateOther, DeactivateReplaced, Reactivate, database
    <2>2. ChainOK(reg.state, T)
      BY <1>0, <1>1, <1>3, ChainCalls
    <2> QED BY <1>i, <2>1, <2>2
  <1>4. CASE Ends(p) /\ cur'[p] = Idle
    BY <1>i, <1>4
  <1>5. CASE Ends(p) /\ cur'[p] \in Frame /\ callers[p] # <<>> /\ EndsIn(S, T)
    <2>1. Len(S) \in Nat \ {0, 1}
      <3>1. Len(callers[p]) # 0
        BY <1>0, <1>5, EmptySeq DEF TypeOK
      <3> QED BY <1>0, <3>1
    <2>2. \A z \in Port : reg'.state[z] = "installed" =>
            reg.state[z] = "installed" \/ (z = S[Len(S)].port /\ S[Len(S)].op = "activate")
      BY <1>0, <1>5, EndStates
    <2>3. ChainOK(reg'.state, T)
      BY <1>0, <1>1, <1>5, <2>1, <2>2, ChainEnds
    <2> QED BY <1>i, <2>3
  <1> QED BY <1>k, <1>2, <1>3, <1>4, <1>5

\* What is proved above holds in every state.
LEMMA NextGround ==
  ASSUME Locking, "crash" \notin Faults
  PROVE  Ground /\ [Next]_vars => Ground'
  BY NextTypeOK, NextOneOwner, NextNesting, NextWorkingCopy, NextAllFilesOrNone,
    NextVersions, NextStateAndRows DEF Ground

\* What is proved above holds at the beginning.
LEMMA InitGround == Init => Ground
  <1> SUFFICES ASSUME Init PROVE Ground
    OBVIOUS
  <1>1. Versions
    <2>1. \A p \in Proc : OthersGone(p)
      BY IdleFrame DEF Init, OthersGone, Alone
    <2> QED BY <2>1 DEF Init, Versions, OneActiveVersion
  <1>2. Nesting
    BY EmptySeq DEF Init, Nesting
  <1>3. StateAndRows
    BY IdleFrame DEF Init, StateAndRows, RowsOf, Matches, Active
  <1>4. OneBusy /\ SameStates
    BY DEF Init, OneBusy, SameStates
  <1> QED BY <1>1, <1>2, <1>3, <1>4, InitTypeOK, InitOneOwner, InitWorkingCopy,
    InitAllFilesOrNone DEF Ground

\* A new action is a call that nobody waits for.
LEMMA StartStack ==
  ASSUME Ground, Locking, NEW p \in Proc, NEW op \in Op, NEW q \in Port,
         NEW asks \in ForceModes, Start(p, op, q, asks)
  PROVE  /\ reg' = reg /\ cur[p] = Idle /\ callers' = callers /\ callers[p] = <<>>
         /\ \A o \in Proc \ {p} : cur[o] = Idle /\ cur'[o] = Idle
         /\ \E t \in Try : cur'[p] = Call(op, q, t) /\ Stack(p)' = <<Call(op, q, t)>>
  <1>1. /\ reg' = reg
        /\ \A o \in Proc \ {p} : cur[o] = Idle /\ cur'[o] = Idle
    BY OtherOneBusy DEF Ground
  <1>2. cur[p] = Idle /\ callers' = callers /\ callers[p] = <<>>
    BY DEF Start, Ground, Nesting
  <1>3. PICK t \in Try : cur'[p] = Call(op, q, t)
    BY PortImageAssumption DEF Start, Ground, TypeOK
  <1>4. Stack(p)' = <<Call(op, q, t)>>
    BY <1>2, <1>3 DEF Stack
  <1> QED BY <1>1, <1>2, <1>3, <1>4

\* The chain of calls is right in every state.
LEMMA NextChain ==
  ASSUME Locking, "crash" \notin Faults
  PROVE  Ground /\ Chain /\ [Next]_vars => Chain'
  <1> SUFFICES ASSUME Ground, Chain, [Next]_vars PROVE Chain'
    OBVIOUS
  <1>1. ASSUME NEW p \in Proc, Step(p) PROVE Chain'
    BY <1>1, StepChain
  <1>2. ASSUME NEW p \in Proc, NEW op \in Op, NEW q \in Port, NEW asks \in ForceModes,
               Start(p, op, q, asks)
        PROVE  Chain'
    <2>1. /\ \A o \in Proc \ {p} : cur'[o] = Idle
          /\ \E t \in Try : Stack(p)' = <<Call(op, q, t)>>
      BY <1>2, StartStack
    <2>2. PICK t \in Try : Stack(p)' = <<Call(op, q, t)>>
      BY <2>1
    <2>3. FrameOK(reg'.state, Call(op, q, t))
      BY DEF FrameOK, Call, Claimed
    <2>4. ChainOK(reg'.state, <<Call(op, q, t)>>)
      BY <2>3 DEF ChainOK
    <2> QED BY <2>1, <2>2, <2>4 DEF Chain
  <1>3. CASE UNCHANGED <<reg, cur, callers>>
    BY <1>3 DEF Chain, Stack
  <1> QED BY <1>1, <1>2, <1>3
    DEF Next, vars, UserCreates, UserDeletes, inCall, database, Crash

\* Every port that a failed activation has visited is active again, or is the
\* one that it is activating.
Revived == \A p \in Proc : cur[p] # Idle => DoneOK(reg.state, Stack(p))

\* A port's file says of one port at most that it replaces that port.
OneReplacement == \A x, y \in ReplacedBy : x[1] = y[1] => x[2] = y[2]

\* The current call, as it goes on, replaces none of the ports that are active
\* again, and when it begins to reactivate those it replaced none is due yet.
LEMMA StepDoneOK ==
  ASSUME Ground, OneReplacement, NEW p \in Proc, Step(p), GoesOn(p) \/ PassesOver(p),
         FrameOK(reg.state, cur[p]),
         cur[p].pc = "reactivate" => \A o \in Done(cur[p]) : reg.state[o] = "installed"
  PROVE  /\ \A c \in Frame :
              FrameOK(reg.state, c) /\ Over(c, cur[p]) /\ OverDone(c, cur[p])
                => OverDone(c, cur'[p])
         /\ cur'[p].pc = "reactivate" =>
              \A o \in Done(cur'[p]) : reg.state[o] = "installed"
  <1>0. /\ TypeOK /\ cur[p] \in Frame /\ cur[p].port \in Port
        /\ \A o \in Proc \ {p} : cur[o] = Idle
        /\ reg \in Registry
    BY StepBusy, StepOneBusy DEF Ground, TypeOK
  <1>1. CASE ClaimReplaced(p)
    <2>1. /\ cur[p].pc = "claiming" /\ cur[p].op = "activate"
          /\ cur'[p].pc = "claiming" /\ cur'[p].port = cur[p].port
          /\ cur'[p].op = cur[p].op
      BY <1>0, <1>1, ClaimUpdates DEF ClaimReplaced, At
    <2>2. PICK a \in cur[p].todo : \E o \in reg_entry_owner(work, a) \ {cur[p].port} :
            /\ IsReplaced(o, cur[p].port)
            /\ cur'[p].replaced = cur[p].replaced \cup {o}
      BY <1>0, <1>1, ClaimUpdates
    <2>3. PICK o \in reg_entry_owner(work, a) \ {cur[p].port} :
            /\ IsReplaced(o, cur[p].port)
            /\ cur'[p].replaced = cur[p].replaced \cup {o}
      BY <2>2
    <2>4. ASSUME NEW c \in Frame, FrameOK(reg.state, c), Over(c, cur[p]),
                 OverDone(c, cur[p]), c.pc = "reactivate", NEW d \in Done(c)
          PROVE  NameOf[o] # NameOf[d]
      <3>1. IsReplaced(d, c.port)
        BY <2>4 DEF FrameOK, Done
      <3>2. NameOf[cur[p].port] # NameOf[c.port]
        BY <2>1, <2>4 DEF Over
      <3>3. SUFFICES ASSUME NameOf[o] = NameOf[d] PROVE FALSE
        OBVIOUS
      <3>4. /\ <<NameOf[o], NameOf[cur[p].port]>> \in ReplacedBy
            /\ <<NameOf[d], NameOf[c.port]>> \in ReplacedBy
        BY <2>3, <3>1 DEF IsReplaced
      <3> QED BY <3>2, <3>3, <3>4 DEF OneReplacement
    <2>5. ASSUME NEW c \in Frame, FrameOK(reg.state, c), Over(c, cur[p]),
                 OverDone(c, cur[p])
          PROVE  OverDone(c, cur'[p])
      <3> SUFFICES ASSUME c.pc = "reactivate", NEW d \in Done(c)
                   PROVE  /\ \A z \in cur'[p].replaced : NameOf[z] # NameOf[d]
                          /\ cur'[p].op = "activate" /\ cur'[p].port # d
                               => NameOf[cur'[p].port] # NameOf[d]
        BY DEF OverDone
      <3>1. NameOf[o] # NameOf[d]
        BY <2>4, <2>5
      <3>2. \A z \in cur[p].replaced : NameOf[z] # NameOf[d]
        BY <2>5 DEF OverDone
      <3> QED BY <2>1, <2>3, <2>5, <3>1, <3>2 DEF OverDone
    <2> QED BY <2>1, <2>5
  <1>2. CASE UnbackDone(p)
    <2>1. Keeps(p) /\ cur'[p].pend = cur[p].replaced
      BY <1>0, <1>2 DEF UnbackDone, Keeps, TypeOK, Frame
    <2> QED BY <2>1 DEF OverDone, Keeps, Done
  <1>3. CASE PassesOver(p)
    <2>1. PICK o \in cur[p].pend : /\ cur' = [cur EXCEPT ![p].pend = cur[p].pend \ {o}]
                                   /\ reg.state[o] # "imaged"
      BY <1>3 DEF PassesOver
    <2>r. cur[p].pc = "reactivate" /\ cur[p].op = "activate"
      BY <1>3 DEF PassesOver, Reactivate, At
    <2>f. \A pend : cur' = [cur EXCEPT ![p].pend = pend] =>
            Keeps(p) /\ cur'[p].pc = cur[p].pc /\ cur'[p].pend = pend
      BY <1>0, FieldUpdates
    <2>2. /\ Keeps(p) /\ cur'[p].pc = cur[p].pc
          /\ cur'[p].pend = cur[p].pend \ {o}
      BY <2>1, <2>f
    <2>3. o \in Port /\ reg.state[o] = "installed"
      BY <1>0, <2>1 DEF Frame, Registry
    <2>4. \A d \in Done(cur'[p]) : reg.state[d] = "installed"
      BY <2>2, <2>3, <2>r DEF Done, Keeps
    <2> QED BY <2>2, <2>4 DEF OverDone, Keeps
  <1>4. CASE ClaimForced(p) \/ Unback(p) \/ StartClaim(p)
    <2>1. /\ cur'[p].op = cur[p].op /\ cur'[p].port = cur[p].port
          /\ cur'[p].pc # "reactivate"
          /\ cur'[p].replaced = cur[p].replaced
      BY <1>0, <1>4, ClaimUpdates
    <2> QED BY <2>1 DEF OverDone
  <1>5. CASE Retry(p)
    <2>1. PICK t \in Try : cur'[p] = Call(cur[p].op, cur[p].port, t)
      BY <1>0, <1>5, ClaimUpdates
    <2>2. /\ cur'[p].pc = "check" /\ cur'[p].replaced = {}
          /\ cur'[p].op = cur[p].op /\ cur'[p].port = cur[p].port
      BY <2>1 DEF Call
    <2> QED BY <2>2 DEF OverDone
  <1>6. CASE \/ ActivateCheck(p) \/ Extract(p) \/ CommitClaim(p) \/ ClaimFails(p)
             \/ StartTake(p) \/ MoveFails(p) \/ CommitTake(p) \/ UnmoveDone(p)
             \/ UnbackFails(p) \/ Rethrow(p) \/ DeactivateCheck(p) \/ StartRelease(p)
             \/ RemoveFails(p) \/ CommitRelease(p)
    <2>1. Keeps(p) /\ cur'[p].pc # "reactivate"
      BY <1>0, <1>6, FieldUpdates DEF ActivateCheck, Extract, CommitClaim, ClaimFails,
        StartTake, MoveFails, CommitTake, UnmoveDone, UnbackFails, Rethrow,
        DeactivateCheck, StartRelease, RemoveFails, CommitRelease
    <2> QED BY <2>1 DEF OverDone, Keeps
  <1>7. CASE ClaimFree(p) \/ MoveFile(p) \/ Unmove(p) \/ RemoveFile(p)
    <2>1. PICK a : cur' = [cur EXCEPT ![p].todo = cur[p].todo \ {a}]
      BY <1>7 DEF ClaimFree, MoveFile, Unmove, RemoveFile
    <2>2. Keeps(p) /\ cur'[p].pc = cur[p].pc /\ cur[p].pc # "reactivate"
      BY <1>0, <1>7, <2>1, FieldUpdates DEF ClaimFree, MoveFile, Unmove, RemoveFile, At
    <2> QED BY <2>2 DEF OverDone, Keeps
  <1> QED BY <1>1, <1>2, <1>3, <1>4, <1>5, <1>6, <1>7 DEF GoesOn


\* Every step of the busy process keeps the reactivated ports active.
LEMMA StepRevived ==
  ASSUME Ground, OneReplacement, Chain, Revived, NEW p \in Proc, Step(p)
  PROVE  Revived'
  <1> DEFINE S == Stack(p)
             T == Stack(p)'
  <1>0. /\ TypeOK /\ Nesting /\ SameStates /\ cur[p] \in Frame
        /\ S \in Seq(Frame) /\ Nest(S) /\ Len(S) = Len(callers[p]) + 1
        /\ Len(callers[p]) \in Nat /\ S[Len(S)] = cur[p] /\ Len(S) \in 1..Len(S)
        /\ cur'[p] \in Frame => T \in Seq(Frame) /\ T[Len(T)] = cur'[p]
        /\ \A o \in Proc \ {p} : cur'[o] = Idle
    BY StepBoth, StepBusy DEF Ground
  <1>1. /\ ChainOK(reg.state, S) /\ FrameOK(reg.state, cur[p])
        /\ DoneOK(reg.state, S)
        /\ cur[p].pc = "reactivate" => \A o \in Done(cur[p]) : reg.state[o] = "installed"
    <2>1. ChainOK(reg.state, S) /\ DoneOK(reg.state, S)
      BY <1>0, IdleFrame DEF Chain, Revived
    <2> QED BY <1>0, <2>1 DEF ChainOK, DoneOK
  <1>s. ~Ends(p) => reg'.state = reg.state
    BY <1>0, StepStates DEF Ends
  <1>i. (cur'[p] # Idle => DoneOK(reg'.state, T)) => Revived'
    BY <1>0 DEF Revived
  <1>k. \/ /\ ~Ends(p) /\ GoesTo(p, PC)
           /\ GoesOn(p) \/ PassesOver(p)
           /\ StaysIn(S, T)
        \/ Loops(p) /\ cur'[p] \in Frame /\ CallsIn(S, T)
        \/ Ends(p) /\ cur'[p] = Idle
        \/ Ends(p) /\ cur'[p] \in Frame /\ callers[p] # <<>> /\ EndsIn(S, T)
    BY <1>0, StepStack
  <1> HIDE DEF S, T
  <1>2. CASE ~Ends(p) /\ (GoesOn(p) \/ PassesOver(p)) /\ StaysIn(S, T)
    <2>1. CASE cur'[p] = Idle
      BY <1>i, <2>1
    <2>2. CASE cur'[p] # Idle
      <3>1. /\ T \in Seq(Frame) /\ T[Len(S)] = cur'[p]
            /\ reg'.state = reg.state
        BY <1>0, <1>2, <1>s, <2>2, StepBoth DEF StaysIn
      <3>2. /\ \A c \in Frame :
                 FrameOK(reg.state, c) /\ Over(c, cur[p]) /\ OverDone(c, cur[p])
                   => OverDone(c, cur'[p])
            /\ cur'[p].pc = "reactivate" =>
                 \A o \in Done(cur'[p]) : reg.state[o] = "installed"
        BY <1>1, <1>2, StepDoneOK
      <3>3. \A i \in 1..(Len(S) - 1) : OverDone(S[i], T[Len(S)])
        <4> SUFFICES ASSUME NEW i \in 1..(Len(S) - 1) PROVE OverDone(S[i], cur'[p])
          BY <3>1
        <4>1. i \in 1..Len(S)
          BY <1>0
        <4>2. FrameOK(reg.state, S[i]) /\ Over(S[i], cur[p]) /\ OverDone(S[i], cur[p])
          BY <1>0, <1>1, <4>1 DEF ChainOK, DoneOK
        <4>3. S[i] \in Frame
          BY <1>0, <4>1, ElementOfSeq
        <4> QED BY <3>2, <4>2, <4>3
      <3>4. DoneOK(reg.state, T)
        BY <1>0, <1>1, <1>2, <3>1, <3>2, <3>3, DoneStays
      <3> QED BY <1>i, <3>1, <3>4
    <2> QED BY <2>1, <2>2
  <1>3. CASE Loops(p) /\ cur'[p] \in Frame /\ CallsIn(S, T)
    <2>1. reg' = reg
      BY <1>3 DEF Loops, DeactivateOther, DeactivateReplaced, Reactivate, database
    <2>2. DoneOK(reg.state, T)
      BY <1>0, <1>1, <1>3, DoneCalls
    <2> QED BY <1>i, <2>1, <2>2
  <1>4. CASE Ends(p) /\ cur'[p] = Idle
    BY <1>i, <1>4
  <1>5. CASE Ends(p) /\ cur'[p] \in Frame /\ callers[p] # <<>> /\ EndsIn(S, T)
    <2>1. Len(S) \in Nat \ {0, 1}
      <3>1. Len(callers[p]) # 0
        BY <1>0, <1>5, EmptySeq DEF TypeOK
      <3> QED BY <1>0, <3>1
    <2>2. \A z \in Port : reg.state[z] = "installed" =>
            reg'.state[z] = "installed" \/ (z = S[Len(S)].port /\ S[Len(S)].op = "deactivate")
      BY <1>0, <1>5, EndStates
    <2>3. ASSUME S[Len(S)].op = "activate", T[Len(S) - 1] = S[Len(S) - 1]
          PROVE  reg'.state[S[Len(S)].port] = "installed"
      <3>1. T[Len(S) - 1] = cur'[p] /\ Len(S) - 1 \in 1..(Len(S) - 1)
        BY <1>0, <1>5, <2>1 DEF EndsIn
      <3>2. cur'[p].pc \in {"others", "replace", "reactivate"}
        BY <1>0, <2>3, <3>1 DEF Nest
      <3> QED BY <1>0, <1>5, <2>3, <3>2, EndStates
    <2>4. DoneOK(reg'.state, T)
      <3>1. T \in Seq(Frame) /\ EndsIn(S, T) /\ S \in Seq(Frame) /\ Nest(S)
        BY <1>0, <1>5
      <3>2. EndKeeps(reg.state, reg'.state, S[Len(S)], T[Len(S) - 1] = S[Len(S) - 1])
        BY <2>2, <2>3 DEF EndKeeps
      <3> QED BY <1>1, <2>1, <3>1, <3>2, DoneEnds
    <2> QED BY <1>i, <2>4
  <1> QED BY <1>k, <1>2, <1>3, <1>4, <1>5

\* The ports that were reactivated are active in every state.
LEMMA NextRevived ==
  ASSUME Locking, "crash" \notin Faults, OneReplacement
  PROVE  Ground /\ Chain /\ Revived /\ [Next]_vars => Revived'
  <1> SUFFICES ASSUME Ground, Chain, Revived, [Next]_vars PROVE Revived'
    OBVIOUS
  <1>1. ASSUME NEW p \in Proc, Step(p) PROVE Revived'
    BY <1>1, StepRevived
  <1>2. ASSUME NEW p \in Proc, NEW op \in Op, NEW q \in Port, NEW asks \in ForceModes,
               Start(p, op, q, asks)
        PROVE  Revived'
    <2>1. /\ \A o \in Proc \ {p} : cur'[o] = Idle
          /\ \E t \in Try : Stack(p)' = <<Call(op, q, t)>>
      BY <1>2, StartStack
    <2>2. PICK t \in Try : Stack(p)' = <<Call(op, q, t)>>
      BY <2>1
    <2>3. DoneOK(reg'.state, <<Call(op, q, t)>>)
      BY DEF DoneOK, Call
    <2> QED BY <2>1, <2>2, <2>3 DEF Revived
  <1>3. CASE UNCHANGED <<reg, cur, callers>>
    BY <1>3 DEF Revived, Stack
  <1> QED BY <1>1, <1>2, <1>3
    DEF Next, vars, UserCreates, UserDeletes, inCall, database, Crash

\* With the registry lock, while no process dies, and when no port names two
\* ports that replace it: an activation that failed, and has gone through the
\* ports it had deactivated, has made every one of them active again - although
\* activating one of them may itself deactivate others, and fail.
THEOREM PortImageReplacedComeBack ==
  ASSUME Locking, "crash" \notin Faults,
         \A x, y \in ReplacedBy : x[1] = y[1] => x[2] = y[2]
  PROVE  Spec => []ReplacedComeBack
  <1>0. OneReplacement
    BY DEF OneReplacement
  <1>1. Init => Chain /\ Revived
    BY DEF Init, Chain, Revived
  <1>2. Ground /\ Chain /\ Revived => ReplacedComeBack
    <2> SUFFICES ASSUME Ground, Revived, NEW p \in Proc, cur[p].pc = "reactivate",
                        cur[p].pend = {}, NEW o \in cur[p].replaced
                 PROVE  reg.state[o] = "installed"
      BY DEF ReplacedComeBack
    <2>1. cur[p] \in Frame /\ cur[p] # Idle /\ FramesOK
      BY BusyFrame, IdleFrame, TypeOKParts DEF Ground
    <2>2. /\ Len(callers[p]) \in Nat /\ Len(Stack(p)) = Len(callers[p]) + 1
          /\ Stack(p)[Len(Stack(p))] = cur[p]
      BY <2>1, StackTyped
    <2>3. Len(Stack(p)) \in 1..Len(Stack(p))
      BY <2>2
    <2>4. o \in Done(cur[p])
      BY DEF Done
    <2>5. DoneOK(reg.state, Stack(p))
      BY <2>1 DEF Revived
    <2> QED BY <2>2, <2>3, <2>4, <2>5 DEF DoneOK
  <1>3. Ground /\ [Next]_vars => Ground'
    BY NextGround
  <1>4. Ground /\ Chain /\ [Next]_vars => Chain'
    BY NextChain
  <1>5. Ground /\ Chain /\ Revived /\ [Next]_vars => Revived'
    BY <1>0, NextRevived
  <1> QED BY <1>1, <1>2, <1>3, <1>4, <1>5, InitGround, PTL DEF Spec

-------------------------------------------------------------------------------
(* The files on disk *)

FilesOf(q) == {a \in Path : fs[a] = q}

\* The files of port q on disk, as seen from the call fr: those that the registry
\* says are active, or that the open transaction does, or of the files that the
\* loop visits those that are already moved or not yet removed.
Expected(fr, q) ==
  IF fr.pc = "claiming" THEN reg_entry_files(work, q)
  ELSE IF fr.pc = "moving" /\ q = fr.port THEN Homes(q) \ fr.todo
  ELSE IF fr.pc \in {"unmove", "removing"} /\ q = fr.port THEN fr.todo
  ELSE reg_entry_files(reg, q)

AsExpected(fr) == \A q \in Port : FilesOf(q) = Expected(fr, q)

FilesRight ==
  /\ Quiet => \A q \in Port : FilesOf(q) = reg_entry_files(reg, q)
  /\ \A p \in Proc : cur[p] # Idle => AsExpected(cur[p])

\* A claim has freed or will replace the owners of the files that it has visited,
\* and the names to move the others to are free.
ClaimTaking(p) ==
  LET fr == cur[p] IN
  fr.pc = "claiming" =>
    /\ IF force[p] THEN fr.stamp # 0 /\ \A a \in fr.todo : fs[Backup(a, fr.stamp)] = Empty
       ELSE work = reg
    /\ \A a \in Homes(fr.port) \ fr.todo : reg_entry_owner(work, a) \subseteq fr.replaced

\* After it, whoever still owns one of the files is to be deactivated, and is
\* active, so that it will be.
ReplaceTaking(p) ==
  LET fr == cur[p] IN
  fr.pc = "replace" =>
    /\ \A a \in Homes(fr.port) : reg_entry_owner(reg, a) \subseteq fr.pend
    /\ \A z \in fr.pend : reg.state[z] = "installed"

\* The same while one of those is deactivated, which does not fail.
CallerTaking(p) ==
  LET fr == cur[p]
      c == callers[p][Len(callers[p])] IN
  callers[p] # <<>> /\ c.pc = "replace" =>
    /\ \A a \in Homes(c.port) : reg_entry_owner(reg, a) \subseteq c.pend \cup {fr.port}
    /\ \A z \in c.pend : reg.state[z] = "installed" /\ z # fr.port
    /\ fr.pc \in {"check", "release", "removing", "image"}
    /\ reg.state[fr.port] = "installed"

\* Files are aside only for a forced activation that has not failed.
AsideForced(p) ==
  /\ cur[p] # Idle /\ cur[p].backups # {} =>
       force[p] /\ cur[p].pc \in {"claiming", "replace", "moving", "install"}
  /\ \A i \in 1..Len(callers[p]) :
       callers[p][i].backups # {} => force[p] /\ callers[p][i].pc = "replace"

TodoHomes(p) ==
  cur[p].pc \in {"claiming", "moving"} => cur[p].todo \subseteq Homes(cur[p].port)

TakingOf(p) ==
  TodoHomes(p) /\ ClaimTaking(p) /\ ReplaceTaking(p) /\ CallerTaking(p) /\ AsideForced(p)

Taking == \A p \in Proc : TakingOf(p)

\* The paths of a port's active rows.
LEMMA FilesOfRows ==
  ASSUME NEW r \in Registry, NEW q \in Port
  PROVE  /\ reg_entry_files(r, q) = {r.actual[q][x] : x \in Active(r, q)}
         /\ Active(r, q) = {} => reg_entry_files(r, q) = {}
         /\ \A n : n.actual = r.actual => reg_entry_files(n, q) = reg_entry_files(r, q)
         /\ \A a \in Path : q \in reg_entry_owner(r, a) <=> a \in reg_entry_files(r, q)
  <1>1. reg_entry_files(r, q) = {r.actual[q][x] : x \in Active(r, q)}
    BY DEF reg_entry_files, Active
  <1>2. \A n : n.actual = r.actual => reg_entry_files(n, q) = reg_entry_files(r, q)
    BY DEF reg_entry_files
  <1>3. \A a \in Path : q \in reg_entry_owner(r, a) <=> a \in reg_entry_files(r, q)
    BY RegEntryAssumption DEF reg_entry_owner, reg_entry_files
  <1> QED BY <1>1, <1>2, <1>3

\* The row of file x of port o gets its backup name.
Aside(r, o, x, s) ==
  reg_entry_activate(reg_entry_deactivate(r, o, {Home(x)}), o, {x}, s)

\* One row moved aside: its file has its backup name instead of its own, and
\* nothing else changes.
LEMMA AsideFiles ==
  ASSUME NEW r \in Registry, OwnNames(r), UniqueActual(r), NEW s \in Stamp, s # 0,
         NEW x \in File, NEW o \in reg_entry_owner(r, Home(x))
  PROVE  /\ reg_entry_files(Aside(r, o, x, s), o)
              = (reg_entry_files(r, o) \ {Home(x)}) \cup {<<x, s>>}
         /\ \A z \in Port \ {o} :
              reg_entry_files(Aside(r, o, x, s), z) = reg_entry_files(r, z)
         /\ reg_entry_owner(Aside(r, o, x, s), Home(x)) = {}
         /\ \A y \in File \ {x} :
              reg_entry_owner(Aside(r, o, x, s), Home(y)) \subseteq reg_entry_owner(r, Home(y))
  <1> DEFINE cleared == reg_entry_deactivate(r, o, {Home(x)})
             n == Aside(r, o, x, s)
  <1>1. /\ o \in Port /\ {x} \in SUBSET File /\ Home(x) \in Path /\ Home(x) # NoPath
        /\ <<x, s>> \in Path /\ <<x, s>> # NoPath
    BY RegEntryAssumption DEF reg_entry_owner, Home, Path, Stamp
  <1>2. cleared \in Registry
    BY <1>1, RegistryTyped
  <1>3. \A q \in Port : \A y \in File :
          cleared.actual[q][y] = IF q = o /\ r.actual[o][y] = Home(x) THEN NoPath
                                 ELSE r.actual[q][y]
    BY <1>1 DEF reg_entry_deactivate, Registry
  <1>4. \A q \in Port : \A y \in File :
          n.actual[q][y] = IF q = o /\ y = x THEN <<x, s>> ELSE cleared.actual[q][y]
    BY <1>1, <1>2 DEF reg_entry_activate, Registry, Aside
  <1>5. r.actual[o][x] = Home(x)
    <2>1. PICK y \in File : r.actual[o][y] = Home(x)
      BY DEF reg_entry_owner
    <2>2. Home(x) \in {y} \X Stamp
      BY <1>1, <2>1 DEF OwnNames
    <2> QED BY <2>1, <2>2 DEF Home
  <1> HIDE DEF cleared, n
  \* Only that row has the path.
  <1>6. \A q \in Port : \A y \in File : r.actual[q][y] = Home(x) => q = o /\ y = x
    BY <1>1, <1>5 DEF UniqueActual
  <1>7. \A q \in Port : \A y \in File :
          n.actual[q][y] = IF q = o /\ y = x THEN <<x, s>> ELSE r.actual[q][y]
    <2> SUFFICES ASSUME NEW q \in Port, NEW y \in File, ~(q = o /\ y = x)
                 PROVE  n.actual[q][y] = r.actual[q][y]
      BY <1>4
    <2>1. ~(q = o /\ r.actual[o][y] = Home(x))
      BY <1>1, <1>6
    <2> QED BY <1>3, <1>4, <2>1
  <1>8. reg_entry_files(n, o) = (reg_entry_files(r, o) \ {Home(x)}) \cup {<<x, s>>}
    <2>1. \A a : a \in reg_entry_files(n, o) <=>
            a # NoPath /\ (a = <<x, s>> \/ \E y \in File \ {x} : a = r.actual[o][y])
      BY <1>1, <1>7 DEF reg_entry_files
    <2>2. \A a : a \in reg_entry_files(r, o) <=>
            a # NoPath /\ (a = Home(x) \/ \E y \in File \ {x} : a = r.actual[o][y])
      BY <1>5 DEF reg_entry_files
    <2>3. \A y \in File \ {x} : r.actual[o][y] # Home(x)
      BY <1>1, <1>6
    <2> HIDE DEF reg_entry_files
    <2> QED BY <1>1, <2>1, <2>2, <2>3
  <1>9. \A z \in Port \ {o} : reg_entry_files(n, z) = reg_entry_files(r, z)
    BY <1>7 DEF reg_entry_files
  <1>10. <<x, s>> # Home(x)
    BY DEF Home
  <1>11. reg_entry_owner(n, Home(x)) = {}
    BY <1>6, <1>7, <1>10 DEF reg_entry_owner
  <1>12. ASSUME NEW y \in File \ {x}
         PROVE  reg_entry_owner(n, Home(y)) \subseteq reg_entry_owner(r, Home(y))
    <2>1. <<x, s>> # Home(y)
      BY DEF Home
    <2> QED BY <1>7, <2>1 DEF reg_entry_owner
  <1> QED BY <1>8, <1>9, <1>11, <1>12 DEF n

\* The current call of a busy process is right, and the others are idle.
LEMMA BusyRight ==
  ASSUME Ground, Chain, NEW p \in Proc, cur[p] \in Frame
  PROVE  /\ FrameOK(reg.state, cur[p])
         /\ \A o \in Proc \ {p} : cur[o] = Idle
         /\ cur[p].port \in Port /\ reg \in Registry /\ work \in Registry
         /\ cur[p] # Idle /\ cur[p].todo \subseteq Path
  <1>1. cur[p] # Idle /\ FramesOK
    BY IdleFrame, TypeOKParts DEF Ground
  <1>2. /\ Len(callers[p]) \in Nat /\ Len(Stack(p)) = Len(callers[p]) + 1
        /\ Stack(p)[Len(Stack(p))] = cur[p]
    BY <1>1, StackTyped
  <1>3. Len(Stack(p)) \in 1..Len(Stack(p))
    BY <1>2
  <1>4. FrameOK(reg.state, cur[p])
    BY <1>1, <1>2, <1>3 DEF Chain, ChainOK
  <1>5. \A o \in Proc \ {p} : cur[o] = Idle
    BY <1>1 DEF Ground, OneBusy
  <1> QED BY <1>1, <1>4, <1>5 DEF Ground, TypeOK, Frame

\* Until its state is written, a port that is being activated owns no file.
LEMMA NothingActive ==
  ASSUME Ground, Chain, NEW p \in Proc, cur[p] \in Frame,
         cur[p].pc \in Claimed \ {"install"}
  PROVE  /\ Active(reg, cur[p].port) = {}
         /\ reg_entry_files(reg, cur[p].port) = {}
         /\ \A a \in Path : cur[p].port \notin reg_entry_owner(reg, a)
  <1>1. /\ FrameOK(reg.state, cur[p]) /\ \A o \in Proc \ {p} : cur[o] = Idle
        /\ cur[p].port \in Port /\ reg \in Registry
    BY BusyRight
  <1>2. reg.state[cur[p].port] # "installed"
    BY <1>1 DEF FrameOK, NoneActive, Claimed
  <1>3. Matches(cur[p].port)
    BY <1>1, IdleFrame DEF Ground, StateAndRows, StateToWrite, Claimed
  <1>4. Active(reg, cur[p].port) = {}
    BY <1>2, <1>3 DEF Matches
  <1> QED BY <1>1, <1>4, FilesOfRows

\* A forced claim moves one file aside, with the row of its owner if it has one.
LEMMA ForcedClaim ==
  ASSUME Ground, Chain, FilesRight, Taking, NEW p \in Proc, ClaimForced(p)
  PROVE  /\ cur[p] \in Frame /\ cur[p].pc = "claiming" /\ force[p]
         /\ \E x \in File : LET s == cur[p].stamp IN
              /\ s \in Stamp /\ s # 0
              /\ Home(x) \in cur[p].todo /\ cur'[p].todo = cur[p].todo \ {Home(x)}
              /\ fs[<<x, s>>] = Empty
              /\ \A a \in Path : fs'[a] = IF a = <<x, s>> THEN fs[Home(x)]
                                         ELSE IF a = Home(x) THEN Empty ELSE fs[a]
              /\ \/ /\ reg_entry_owner(work, Home(x)) = {} /\ fs[Home(x)] \notin Port
                    /\ work' = work
                 \/ \E o \in reg_entry_owner(work, Home(x)) :
                      /\ fs[Home(x)] = o
                      /\ work' = Aside(work, o, x, s)
  <1> DEFINE s == cur[p].stamp
             q == cur[p].port
  <1>1. /\ cur[p] \in Frame /\ cur[p].pc = "claiming" /\ force[p]
        /\ s \in Stamp
    <2>1. cur[p].pc = "claiming" /\ force[p]
      BY DEF ClaimForced, At
    <2>2. cur[p] \in Frame
      BY <2>1, BusyFrame, TypeOKParts DEF Ground
    <2> QED BY <2>1, <2>2 DEF Frame
  <1>2. /\ q \in Port /\ work \in Registry /\ cur[p] # Idle
        /\ fs \in [Path -> Port \cup {User, Empty}]
    BY <1>1, BusyRight DEF Ground, TypeOK
  <1>3. /\ s # 0 /\ \A a \in cur[p].todo : fs[Backup(a, s)] = Empty
        /\ cur[p].todo \subseteq Homes(q)
    BY <1>1 DEF Taking, TakingOf, ClaimTaking, TodoHomes
  <1>4. \A z \in Port : FilesOf(z) = reg_entry_files(work, z)
    BY <1>1, <1>2 DEF FilesRight, AsExpected, Expected
  <1>5. PICK a \in cur[p].todo :
          LET owners == reg_entry_owner(work, a)
              moves == fs[a] # Empty IN
          /\ fs' = IF moves THEN [fs EXCEPT ![Backup(a, s)] = fs[a], ![a] = Empty]
                   ELSE fs
          /\ \/ owners = {} /\ UNCHANGED work
             \/ \E o \in owners :
                  LET cleared == reg_entry_deactivate(work, o, {a}) IN
                  /\ MayActivate(cleared, o, {a[1]}, s)
                  /\ work' = reg_entry_activate(cleared, o, {a[1]}, s)
          /\ cur' = [cur EXCEPT ![p].todo = @ \ {a},
                       ![p].backups = IF moves THEN @ \cup {a} ELSE @]
    BY DEF ClaimForced
  <1>6. PICK x \in File : a = Home(x)
    BY <1>2, <1>3, <1>5, HomesTyped DEF Homes
  <1>7. /\ a[1] = x /\ Backup(a, s) = <<x, s>> /\ Home(x) \in Path /\ <<x, s>> \in Path
        /\ <<x, s>> # Home(x)
    BY <1>1, <1>3, <1>6, RegEntryAssumption DEF Home, Backup, Path, Stamp
  <1>8. fs[<<x, s>>] = Empty
    BY <1>3, <1>7
  <1>9. \A b \in Path : fs'[b] = IF b = <<x, s>> THEN fs[Home(x)]
                                ELSE IF b = Home(x) THEN Empty ELSE fs[b]
    <2>1. CASE fs[a] # Empty
      <3>1. fs' = [fs EXCEPT ![<<x, s>>] = fs[Home(x)], ![Home(x)] = Empty]
        BY <1>5, <1>6, <1>7, <2>1
      <3> QED BY <1>2, <1>7, <3>1
    <2>2. CASE fs[a] = Empty
      <3>1. fs' = fs
        BY <1>5, <2>2
      <3> QED BY <1>6, <1>8, <2>2, <3>1
    <2> QED BY <2>1, <2>2
  <1>10. cur'[p].todo = cur[p].todo \ {Home(x)}
    <2>1. PICK fr \in Frame : fr = cur[p]
      BY <1>1
    <2>2. PICK b : cur' = [cur EXCEPT ![p].todo = @ \ {a}, ![p].backups = b]
      BY <1>5
    <2>3. cur'[p] = [fr EXCEPT !.todo = @ \ {a}, !.backups = b]
      BY <2>1, <2>2 DEF Ground, TypeOK
    <2> QED BY <1>6, <2>1, <2>3 DEF Frame
  <1>11. \/ /\ reg_entry_owner(work, Home(x)) = {} /\ fs[Home(x)] \notin Port
            /\ work' = work
         \/ \E o \in reg_entry_owner(work, Home(x)) :
              /\ fs[Home(x)] = o
              /\ work' = Aside(work, o, x, s)
    <2>1. CASE reg_entry_owner(work, a) = {} /\ UNCHANGED work
      <3>1. \A z \in Port : Home(x) \notin FilesOf(z)
        BY <1>2, <1>4, <1>6, <1>7, <2>1, FilesOfRows
      <3>2. fs[Home(x)] \notin Port
        BY <1>7, <3>1 DEF FilesOf
      <3> QED BY <1>6, <2>1, <3>2
    <2>2. ASSUME NEW o \in reg_entry_owner(work, a),
                 work' = reg_entry_activate(reg_entry_deactivate(work, o, {a}), o,
                                            {a[1]}, s)
          PROVE  /\ fs[Home(x)] = o
                 /\ work' = Aside(work, o, x, s)
      <3>1. o \in Port
        BY DEF reg_entry_owner
      <3>2. Home(x) \in FilesOf(o)
        BY <1>2, <1>4, <1>6, <1>7, <2>2, <3>1, FilesOfRows
      <3> QED BY <1>6, <1>7, <2>2, <3>2 DEF FilesOf, Aside
    <2> QED BY <1>5, <1>6, <2>1, <2>2
  <1>12. Home(x) \in cur[p].todo
    BY <1>5, <1>6
  <1> HIDE DEF s
  <1>13. \E y \in File :
            /\ s \in Stamp /\ s # 0
            /\ Home(y) \in cur[p].todo /\ cur'[p].todo = cur[p].todo \ {Home(y)}
            /\ fs[<<y, s>>] = Empty
            /\ \A b \in Path : fs'[b] = IF b = <<y, s>> THEN fs[Home(y)]
                                       ELSE IF b = Home(y) THEN Empty ELSE fs[b]
            /\ \/ /\ reg_entry_owner(work, Home(y)) = {} /\ fs[Home(y)] \notin Port
                  /\ work' = work
               \/ \E o \in reg_entry_owner(work, Home(y)) :
                    /\ fs[Home(y)] = o
                    /\ work' = Aside(work, o, y, s)
    <2> WITNESS x \in File
    <2> QED BY <1>1, <1>3, <1>8, <1>9, <1>10, <1>11, <1>12
  <1> QED BY <1>1, <1>13 DEF s

\* It leaves the files where the open transaction says.
LEMMA ForcedClaimFiles ==
  ASSUME Ground, Chain, FilesRight, Taking, NEW p \in Proc, ClaimForced(p)
  PROVE  \A q \in Port : FilesOf(q)' = reg_entry_files(work', q)
  <1> DEFINE s == cur[p].stamp
  <1>1. PICK x \in File :
          /\ cur[p] \in Frame /\ cur[p].pc = "claiming"
          /\ s \in Stamp /\ s # 0
          /\ fs[<<x, s>>] = Empty
          /\ \A a \in Path : fs'[a] = IF a = <<x, s>> THEN fs[Home(x)]
                                     ELSE IF a = Home(x) THEN Empty ELSE fs[a]
          /\ \/ /\ reg_entry_owner(work, Home(x)) = {} /\ fs[Home(x)] \notin Port
                /\ work' = work
             \/ \E o \in reg_entry_owner(work, Home(x)) :
                  /\ fs[Home(x)] = o
                  /\ work' = Aside(work, o, x, s)
    BY ForcedClaim
  <1>2. /\ work \in Registry /\ OwnNames(work) /\ UniqueActual(work)
        /\ <<x, s>> \in Path /\ Home(x) \in Path /\ <<x, s>> # Home(x)
        /\ Empty \notin Port
    BY <1>1, RegEntryAssumption, PortImageAssumption
      DEF Ground, TypeOK, OneOwner, WorkingCopy, Home, Path, Stamp
  <1>3. \A z \in Port : FilesOf(z) = reg_entry_files(work, z)
    <2>1. cur[p] # Idle
      BY <1>1, IdleFrame
    <2> QED BY <1>1, <2>1 DEF FilesRight, AsExpected, Expected
  <1> HIDE DEF s
  <1>4. CASE fs[Home(x)] \notin Port /\ work' = work
    <2>1. \A z \in Port : \A a \in Path : fs'[a] = z <=> fs[a] = z
      BY <1>1, <1>2, <1>4
    <2>2. \A z \in Port : FilesOf(z)' = FilesOf(z)
      BY <2>1 DEF FilesOf
    <2> QED BY <1>3, <1>4, <2>2
  <1>5. ASSUME NEW o \in reg_entry_owner(work, Home(x)), fs[Home(x)] = o,
               work' = Aside(work, o, x, s)
        PROVE  \A q \in Port : FilesOf(q)' = reg_entry_files(work', q)
    <2>1. /\ reg_entry_files(work', o) = (reg_entry_files(work, o) \ {Home(x)}) \cup {<<x, s>>}
          /\ \A z \in Port \ {o} : reg_entry_files(work', z) = reg_entry_files(work, z)
      BY <1>1, <1>2, <1>5, AsideFiles
    <2>2. o \in Port
      BY DEF reg_entry_owner
    <2>3. FilesOf(o)' = (FilesOf(o) \ {Home(x)}) \cup {<<x, s>>}
      BY <1>1, <1>2, <1>5, <2>2 DEF FilesOf
    <2>4. ASSUME NEW z \in Port \ {o} PROVE FilesOf(z)' = FilesOf(z)
      <3>1. \A a \in Path : fs'[a] = z <=> fs[a] = z
        BY <1>1, <1>2, <1>5
      <3> QED BY <3>1 DEF FilesOf
    <2> QED BY <1>3, <2>1, <2>2, <2>3, <2>4
  <1> QED BY <1>1, <1>4, <1>5

\* It leaves the claim as it has to be.
LEMMA ForcedClaimTaking ==
  ASSUME Ground, Chain, FilesRight, Taking, NEW p \in Proc, ClaimForced(p)
  PROVE  ClaimTaking(p)'
  <1> DEFINE s == cur[p].stamp
             q == cur[p].port
  <1>1. PICK x \in File :
          /\ cur[p] \in Frame /\ cur[p].pc = "claiming" /\ force[p]
          /\ s \in Stamp /\ s # 0
          /\ cur'[p].todo = cur[p].todo \ {Home(x)}
          /\ \A a \in Path : fs'[a] = IF a = <<x, s>> THEN fs[Home(x)]
                                     ELSE IF a = Home(x) THEN Empty ELSE fs[a]
          /\ \/ /\ reg_entry_owner(work, Home(x)) = {} /\ fs[Home(x)] \notin Port
                /\ work' = work
             \/ \E o \in reg_entry_owner(work, Home(x)) :
                  /\ fs[Home(x)] = o
                  /\ work' = Aside(work, o, x, s)
    BY ForcedClaim
  <1>2. /\ work \in Registry /\ OwnNames(work) /\ UniqueActual(work)
        /\ q \in Port /\ force' = force
    BY <1>1, BusyRight DEF Ground, OneOwner, WorkingCopy, ClaimForced, inCall
  <1>3. /\ cur'[p].pc = "claiming" /\ cur'[p].stamp = s
        /\ cur'[p].port = q /\ cur'[p].replaced = cur[p].replaced
    BY <1>1, ClaimUpdates DEF Ground
  <1>4. /\ \A a \in cur[p].todo : fs[Backup(a, s)] = Empty
        /\ \A a \in Homes(q) \ cur[p].todo : reg_entry_owner(work, a) \subseteq cur[p].replaced
        /\ cur[p].todo \subseteq Homes(q)
    BY <1>1 DEF Taking, TakingOf, ClaimTaking, TodoHomes
  <1>5. \A a \in Homes(q) : \E y \in File : a = Home(y)
    BY <1>2, HomesTyped DEF Homes
  <1> HIDE DEF s, q
  <1>6. ASSUME NEW a \in cur'[p].todo PROVE fs'[Backup(a, s)] = Empty
    <2>1. PICK y \in File : a = Home(y)
      BY <1>1, <1>4, <1>5, <1>6
    <2>2. y # x /\ a \in cur[p].todo
      BY <1>1, <1>6, <2>1
    <2>3. Backup(a, s) = <<y, s>> /\ <<y, s>> \in Path
      BY <1>1, <2>1 DEF Backup, Home, Path
    <2>4. <<y, s>> # <<x, s>> /\ <<y, s>> # Home(x)
      BY <1>1, <2>2 DEF Home
    <2> QED BY <1>1, <1>4, <2>2, <2>3, <2>4
  <1>7. /\ reg_entry_owner(work', Home(x)) = {}
        /\ \A y \in File \ {x} :
             reg_entry_owner(work', Home(y)) \subseteq reg_entry_owner(work, Home(y))
    <2>1. CASE reg_entry_owner(work, Home(x)) = {} /\ work' = work
      BY <2>1
    <2>2. ASSUME NEW o \in reg_entry_owner(work, Home(x)),
                 work' = Aside(work, o, x, s)
          PROVE  /\ reg_entry_owner(work', Home(x)) = {}
                 /\ \A y \in File \ {x} :
                      reg_entry_owner(work', Home(y)) \subseteq reg_entry_owner(work, Home(y))
      BY <1>1, <1>2, <2>2, AsideFiles
    <2> QED BY <1>1, <2>1, <2>2
  <1>8. ASSUME NEW a \in Homes(q) \ cur'[p].todo
        PROVE  reg_entry_owner(work', a) \subseteq cur[p].replaced
    <2>1. PICK y \in File : a = Home(y)
      BY <1>5
    <2>2. CASE y = x
      BY <1>7, <2>1, <2>2
    <2>3. CASE y # x
      <3>1. a \notin cur[p].todo
        BY <1>1, <1>8, <2>1, <2>3 DEF Home
      <3> QED BY <1>4, <1>7, <1>8, <2>1, <2>3, <3>1
    <2> QED BY <2>2, <2>3
  <1> QED BY <1>1, <1>2, <1>3, <1>6, <1>8 DEF ClaimTaking

\* With its owners deactivated the image takes its files,
LEMMA TakeGoes ==
  ASSUME Ground, Chain, Taking, NEW p \in Proc, StartTake(p)
  PROVE  /\ cur[p].pc = "replace" /\ cur'[p].pc = "moving"
         /\ cur'[p].port = cur[p].port
         /\ cur'[p].todo = Homes(cur[p].port) /\ cur'[p].backups = cur[p].backups
         /\ fs' = fs /\ reg' = reg
  <1> DEFINE q == cur[p].port
             F == ImageFiles[q]
  <1>1. cur[p].pc = "replace" /\ cur[p].pend = {}
    BY DEF StartTake, At
  <1>2. cur[p] \in Frame
    BY <1>1, BusyFrame, TypeOKParts DEF Ground
  <1>3. \A a \in Homes(q) : reg_entry_owner(reg, a) = {}
    BY <1>1 DEF Taking, TakingOf, ReplaceTaking
  <1>4. MayActivate(reg, q, F, 0)
    BY <1>3 DEF MayActivate, Homes, Home
  <1>5. Goto(p, "moving", Homes(q)) /\ fs' = fs /\ reg' = reg
    BY <1>4 DEF StartTake, StartWrite
  <1> QED BY <1>1, <1>2, <1>5, FieldUpdates DEF Ground, Keeps

\* and the files of an image, from the list that was read, are its own to release.
LEMMA ReleaseGoes ==
  ASSUME Ground, Chain, NEW p \in Proc, StartRelease(p)
  PROVE  /\ cur[p].pc = "release" /\ cur'[p].pc = "removing"
         /\ cur'[p].port = cur[p].port /\ cur'[p].backups = cur[p].backups
         /\ cur'[p].todo = reg_entry_files(reg, cur[p].port)
         /\ fs' = fs /\ reg' = reg
  <1> DEFINE q == cur[p].port
  <1>1. cur[p].pc = "release"
    BY DEF StartRelease, At
  <1>2. cur[p] \in Frame
    BY <1>1, BusyFrame, TypeOKParts DEF Ground
  <1>3. cur[p].todo = reg_entry_files(reg, q)
    BY <1>1 DEF Ground, StateAndRows, RowsOf
  <1>4. q \in Port /\ OwnNames(reg)
    BY <1>2, BusyRight DEF Ground, WorkingCopy
  <1>5. ASSUME NEW a \in cur[p].todo PROVE reg.actual[q][a[1]] = a
    <2>1. PICK x \in File : a = reg.actual[q][x] /\ a # NoPath
      BY <1>3, <1>5 DEF reg_entry_files
    <2>2. a \in {x} \X Stamp
      BY <1>4, <2>1 DEF OwnNames
    <2>3. a[1] = x
      BY <2>2
    <2> QED BY <2>1, <2>3
  <1>6. MayDeactivate(reg, q, cur[p].todo)
    BY <1>5 DEF MayDeactivate
  <1>7. Goto(p, "removing", cur[p].todo) /\ fs' = fs /\ reg' = reg
    BY <1>6 DEF StartRelease, StartWrite
  <1> QED BY <1>1, <1>2, <1>3, <1>7, FieldUpdates DEF Ground, Keeps

\* A call begins with the check.
LEMMA LoopsTo ==
  ASSUME TypeOK, NEW p \in Proc, cur[p] \in Frame, Loops(p)
  PROVE  /\ cur[p].pc \in {"others", "replace", "reactivate"}
         /\ cur'[p].pc \in {"check", "reactivate"}
         /\ fs' = fs /\ reg' = reg
  <1>1. CASE Reactivate(p)
    <2>1. PICK o \in cur[p].pend :
            IF reg.state[o] = "imaged"
            THEN Nested(p, "activate", o)
            ELSE cur' = [cur EXCEPT ![p].pend = @ \ {o}] /\ UNCHANGED callers
      BY <1>1 DEF Reactivate
    <2>2. cur'[p].pc \in {"check", "reactivate"}
      <3>1. CASE reg.state[o] = "imaged"
        BY <2>1, <3>1 DEF Nested, Call, TypeOK
      <3>2. CASE reg.state[o] # "imaged"
        BY <1>1, <2>1, <3>2 DEF Reactivate, At, TypeOK, Frame
      <3> QED BY <3>1, <3>2
    <2> QED BY <1>1, <2>2 DEF Reactivate, At, database
  <1>2. CASE DeactivateOther(p) \/ DeactivateReplaced(p)
    <2>1. PICK q : Nested(p, "deactivate", q)
      BY <1>2 DEF DeactivateOther, DeactivateReplaced
    <2>2. cur'[p].pc = "check"
      BY <2>1 DEF Nested, Call, TypeOK
    <2> QED BY <1>2, <2>2 DEF DeactivateOther, DeactivateReplaced, At, database
  <1> QED BY <1>1, <1>2 DEF Loops

\* Nothing is moved back: no file is aside when a forced activation fails.
LEMMA NothingAside ==
  ASSUME Ground, Taking, NEW p \in Proc, cur[p] \in Frame,
         \/ cur[p].pc \notin {"claiming", "replace", "moving", "install"}
         \/ ~force[p]
  PROVE  cur[p].backups = {}
  BY IdleFrame DEF Taking, TakingOf, AsideForced

\* The places in a call where the files are on their way.
OnTheWay == {"claiming", "moving", "unmove", "removing"}

\* Every step of the busy process keeps the files on disk as they are expected.
LEMMA StepFiles ==
  ASSUME Ground, Chain, FilesRight, Taking, "remove" \notin Faults,
         NEW p \in Proc, Step(p)
  PROVE  \A q \in Port : FilesOf(q)' = Expected(cur[p], q)'
  <1> DEFINE Right == \A q \in Port : FilesOf(q)' = Expected(cur[p], q)'
             me == cur[p].port
  <1> SUFFICES Right
    OBVIOUS
  <1>0. /\ TypeOK /\ Nesting /\ cur[p] \in Frame /\ me \in Port
        /\ reg \in Registry /\ work \in Registry
        /\ fs \in [Path -> Port \cup {User, Empty}]
        /\ cur[p].todo \subseteq Path
    BY StepBusy, BusyRight DEF Ground, TypeOK
  <1>f. \A q \in Port : FilesOf(q) = Expected(cur[p], q)
    <2>1. cur[p] # Idle
      BY <1>0, IdleFrame
    <2>2. AsExpected(cur[p])
      BY <2>1 DEF FilesRight
    <2> QED BY <2>2, Zenon DEF AsExpected
  <1>t. \A todo : cur' = [cur EXCEPT ![p].todo = todo] =>
          /\ cur'[p].pc = cur[p].pc /\ cur'[p].port = me /\ cur'[p].todo = todo
    BY <1>0, FieldUpdates DEF Keeps
  <1>e. User \notin Port /\ Empty \notin Port
    BY PortImageAssumption
  \* A step that leaves the files and the rows alone.
  <1>p. ASSUME fs' = fs, reg'.actual = reg.actual,
               cur[p].pc \notin OnTheWay, cur'[p].pc \notin OnTheWay
        PROVE  Right
    <2>1. \A q \in Port : FilesOf(q)' = FilesOf(q)
      BY <1>p DEF FilesOf
    <2>2. \A q \in Port : reg_entry_files(reg', q) = reg_entry_files(reg, q)
      BY <1>0, <1>p, FilesOfRows
    <2> QED BY <1>f, <1>p, <2>1, <2>2 DEF Expected, OnTheWay
  \* A file of the port itself is moved or removed.
  <1>m. ASSUME NEW a \in Path, NEW v \in {me, User, Empty},
               fs' = [fs EXCEPT ![a] = v], fs[a] \in {me, User, Empty},
               reg' = reg, cur'[p].pc = cur[p].pc, cur'[p].port = me,
               cur[p].pc \in {"moving", "unmove", "removing"},
               FilesOf(me)' = Expected(cur[p], me)'
        PROVE  Right
    <2>1. ASSUME NEW q \in Port \ {me} PROVE FilesOf(q)' = Expected(cur[p], q)'
      <3>1. \A b \in Path : fs'[b] = q <=> fs[b] = q
        BY <1>0, <1>e, <1>m
      <3>2. FilesOf(q)' = FilesOf(q)
        BY <3>1 DEF FilesOf
      <3> QED BY <1>f, <1>m, <3>2 DEF Expected
    <2> QED BY <1>0, <1>m, <2>1
  <1>1. CASE \/ ActivateCheck(p) \/ Extract(p) \/ UnbackDone(p) \/ UnbackFails(p)
             \/ Rethrow(p) \/ DeactivateCheck(p)
    <2>1. /\ cur[p].pc \in {"check", "others", "unback", "reactivate"}
          /\ fs' = fs /\ reg' = reg
      BY <1>1 DEF ActivateCheck, Extract, UnbackDone, UnbackFails, Rethrow,
        DeactivateCheck, At, database
    <2>2. cur'[p].pc \in {"failed", "others", "claim", "reactivate", "release"}
      BY <1>0, <1>1, FieldUpdates DEF ActivateCheck, Extract, UnbackDone, UnbackFails,
        Rethrow, DeactivateCheck
    <2> QED BY <1>p, <2>1, <2>2 DEF OnTheWay
  <1>2. CASE Retry(p)
    <2>1. PICK t \in Try : cur'[p] = Call(cur[p].op, cur[p].port, t)
      BY <1>0, <1>2, ClaimUpdates
    <2>2. cur'[p].pc = "check" /\ cur[p].pc = "failed" /\ fs' = fs /\ reg' = reg
      BY <1>2, <2>1 DEF Retry, Call, database
    <2> QED BY <1>p, <2>2 DEF OnTheWay
  <1>3. CASE Loops(p)
    BY <1>0, <1>3, <1>p, LoopsTo DEF OnTheWay
  <1>4. CASE Ends(p)
    <2>1. cur'[p].pc \in {"idle", "others", "replace", "reactivate", "unback", "failed"}
      BY <1>0, <1>4, StepKinds, ReturnsTo, IdleFrame DEF WaitsFor
    <2>2. cur[p].pc \in {"install", "image", "failed"} /\ fs' = fs
      BY <1>4 DEF Ends, SetInstalled, SetImaged, FailsButReached, Fail, At
    <2>3. reg'.actual = reg.actual
      <3>1. CASE SetInstalled(p) \/ SetImaged(p)
        BY <1>0, <3>1 DEF SetInstalled, SetImaged, Autocommit, SetState, Registry
      <3>2. CASE FailsButReached(p) \/ Fail(p)
        BY <3>2 DEF FailsButReached, Fail, database
      <3> QED BY <1>4, <3>1, <3>2 DEF Ends
    <2> QED BY <1>p, <2>1, <2>2, <2>3 DEF OnTheWay
  <1>5. CASE StartClaim(p)
    <2>1. cur[p].pc = "claim" /\ fs' = fs /\ work' = reg
      BY <1>5 DEF StartClaim, At, StartWrite
    <2>2. cur'[p].pc = "claiming"
      BY <1>0, <1>5, ClaimUpdates
    <2>3. \A q \in Port : FilesOf(q)' = FilesOf(q)
      BY <2>1 DEF FilesOf
    <2> QED BY <1>f, <2>1, <2>2, <2>3 DEF Expected
  <1>6. CASE ClaimReplaced(p) \/ ClaimFree(p)
    <2>1. cur[p].pc = "claiming" /\ fs' = fs /\ work' = work
      BY <1>6 DEF ClaimReplaced, ClaimFree, At, database
    <2>2. cur'[p].pc = "claiming"
      BY <1>0, <1>6, StepsWithin DEF GoesTo
    <2>3. \A q \in Port : FilesOf(q)' = FilesOf(q)
      BY <2>1 DEF FilesOf
    <2> QED BY <1>f, <2>1, <2>2, <2>3 DEF Expected
  <1>7. CASE ClaimForced(p)
    <2>1. cur'[p].pc = "claiming"
      BY <1>0, <1>7, ClaimUpdates
    <2>2. \A q \in Port : FilesOf(q)' = reg_entry_files(work', q)
      BY <1>7, ForcedClaimFiles
    <2> QED BY <2>1, <2>2 DEF Expected
  <1>8. CASE ClaimFails(p)
    <2>1. cur[p].pc = "claiming" /\ fs' = fs /\ reg' = reg /\ ~force[p]
      BY <1>8 DEF ClaimFails, At, Rollback
    <2>2. cur'[p].pc = "unback"
      BY <1>0, <1>8, FieldUpdates DEF ClaimFails
    <2>3. work = reg
      BY <2>1 DEF Taking, TakingOf, ClaimTaking
    <2>4. \A q \in Port : FilesOf(q)' = FilesOf(q)
      BY <2>1 DEF FilesOf
    <2> QED BY <1>f, <2>1, <2>2, <2>3, <2>4 DEF Expected
  <1>9. CASE CommitClaim(p)
    <2>1. cur[p].pc = "claiming" /\ fs' = fs /\ reg' = work
      BY <1>9 DEF CommitClaim, At, Commit
    <2>2. cur'[p].pc = "replace"
      BY <1>0, <1>9, StepsWithin DEF GoesTo
    <2>3. \A q \in Port : FilesOf(q)' = FilesOf(q)
      BY <2>1 DEF FilesOf
    <2> QED BY <1>f, <2>1, <2>2, <2>3 DEF Expected
  <1>10. CASE StartTake(p)
    <2>1. /\ cur[p].pc = "replace" /\ cur'[p].pc = "moving" /\ cur'[p].port = me
          /\ cur'[p].todo = Homes(me) /\ fs' = fs /\ reg' = reg
      BY <1>10, TakeGoes
    <2>2. \A q \in Port : FilesOf(q)' = FilesOf(q)
      BY <2>1 DEF FilesOf
    <2>3. reg_entry_files(reg, me) = {}
      BY <1>0, <2>1, NothingActive DEF Claimed
    <2> QED BY <1>f, <2>1, <2>2, <2>3 DEF Expected
  <1>11. CASE MoveFile(p)
    <2>1. PICK a \in cur[p].todo :
            /\ fs[a] = Empty /\ fs' = [fs EXCEPT ![a] = me]
            /\ cur' = [cur EXCEPT ![p].todo = cur[p].todo \ {a}]
      BY <1>11 DEF MoveFile
    <2>2. cur[p].pc = "moving" /\ reg' = reg
      BY <1>11 DEF MoveFile, At, database
    <2>3. /\ cur'[p].pc = "moving" /\ cur'[p].port = me
          /\ cur'[p].todo = cur[p].todo \ {a}
      BY <1>t, <2>1, <2>2
    <2>4. a \in Homes(me) /\ a \in Path
      BY <1>0, <2>1, <2>2 DEF Taking, TakingOf, TodoHomes
    <2>5. FilesOf(me)' = FilesOf(me) \cup {a}
      BY <1>0, <2>1, <2>4 DEF FilesOf
    <2>6. FilesOf(me) = Homes(me) \ cur[p].todo
      BY <1>0, <1>f, <2>2 DEF Expected
    <2>7. FilesOf(me)' = Homes(me) \ cur'[p].todo
      BY <2>1, <2>3, <2>4, <2>5, <2>6
    <2>8. FilesOf(me)' = Expected(cur[p], me)'
      BY <2>3, <2>7 DEF Expected
    <2> QED BY <1>m, <2>1, <2>2, <2>3, <2>4, <2>8
  <1>12. CASE MoveFails(p)
    <2>1. cur[p].pc = "moving" /\ fs' = fs /\ reg' = reg
      BY <1>12 DEF MoveFails, At, Rollback
    <2>2. /\ cur'[p].pc = "unmove" /\ cur'[p].port = me
          /\ cur'[p].todo = Homes(me) \ cur[p].todo
      BY <1>0, <1>12, FieldUpdates DEF MoveFails, Keeps
    <2>3. \A q \in Port : FilesOf(q)' = FilesOf(q)
      BY <2>1 DEF FilesOf
    <2> QED BY <1>f, <2>1, <2>2, <2>3 DEF Expected
  <1>13. CASE CommitTake(p)
    <2> DEFINE F == ImageFiles[me]
    <2>1. cur[p].pc = "moving" /\ cur[p].todo = {} /\ fs' = fs /\ reg' = work /\ writer = p
      BY <1>13 DEF CommitTake, At, Commit, Ground, WorkingCopy, InTxn
    <2>2. work = reg_entry_activate(reg, me, F, 0)
      BY <2>1 DEF Ground, WorkingCopy, WorkOf
    <2>3. F \in SUBSET File /\ 0 \in Stamp
      BY <1>0, RegEntryAssumption DEF Stamp
    <2>4. \A q \in Port : \A x \in File :
            work.actual[q][x] = IF q = me /\ x \in F THEN <<x, 0>> ELSE reg.actual[q][x]
      BY <1>0, <2>2, <2>3 DEF reg_entry_activate, Registry
    <2>5. cur'[p].pc = "install"
      BY <1>0, <1>13, StepsWithin DEF GoesTo
    <2>6. \A q \in Port : FilesOf(q)' = FilesOf(q)
      BY <2>1 DEF FilesOf
    <2>7. Active(reg, me) = {}
      BY <1>0, <2>1, NothingActive DEF Claimed
    <2>8. reg_entry_files(work, me) = Homes(me)
      <3>1. \A x \in File : reg.actual[me][x] = NoPath
        BY <2>7 DEF Active
      <3>2. \A x \in File : <<x, 0>> # NoPath
        BY <2>3, RegEntryAssumption DEF Path
      <3>3. ASSUME NEW x \in File
            PROVE  work.actual[me][x] = IF x \in F THEN <<x, 0>> ELSE NoPath
        <4>1. me \in Port
          BY <1>0
        <4> HIDE DEF F, me
        <4> QED BY <2>4, <3>1, <4>1
      <3> QED BY <2>3, <3>2, <3>3 DEF reg_entry_files, Homes, Home
    <2>9. ASSUME NEW q \in Port \ {me}
          PROVE  reg_entry_files(work, q) = reg_entry_files(reg, q)
      <3>1. \A x \in File : work.actual[q][x] = reg.actual[q][x]
        BY <2>4
      <3> QED BY <3>1 DEF reg_entry_files
    <2> HIDE DEF F
    <2> QED BY <1>f, <2>1, <2>5, <2>6, <2>8, <2>9 DEF Expected
  <1>14. CASE Unmove(p) \/ RemoveFile(p)
    <2>1. PICK a \in cur[p].todo :
            /\ fs' = [fs EXCEPT ![a] = Empty]
            /\ cur' = [cur EXCEPT ![p].todo = cur[p].todo \ {a}]
      BY <1>14 DEF Unmove, RemoveFile
    <2>2. cur[p].pc \in {"unmove", "removing"} /\ reg' = reg
      BY <1>14 DEF Unmove, RemoveFile, At, database
    <2>3. /\ cur'[p].pc = cur[p].pc /\ cur'[p].port = me
          /\ cur'[p].todo = cur[p].todo \ {a}
      BY <1>t, <2>1, <2>2
    <2>4. a \in Path /\ FilesOf(me) = cur[p].todo
      BY <1>0, <1>f, <2>1, <2>2 DEF Expected
    <2>5. fs[a] = me
      BY <2>1, <2>4 DEF FilesOf
    <2>6. FilesOf(me)' = FilesOf(me) \ {a}
      BY <1>0, <1>e, <2>1, <2>4 DEF FilesOf
    <2>7. FilesOf(me)' = Expected(cur[p], me)'
      BY <2>2, <2>3, <2>4, <2>6 DEF Expected
    <2> QED BY <1>m, <2>1, <2>2, <2>3, <2>4, <2>5, <2>7
  <1>15. CASE UnmoveDone(p)
    <2>1. cur[p].pc = "unmove" /\ cur[p].todo = {} /\ fs' = fs /\ reg' = reg
      BY <1>15 DEF UnmoveDone, At, database
    <2>2. cur'[p].pc = "unback"
      BY <1>0, <1>15, FieldUpdates DEF UnmoveDone
    <2>3. \A q \in Port : FilesOf(q)' = FilesOf(q)
      BY <2>1 DEF FilesOf
    <2>4. reg_entry_files(reg, me) = {}
      BY <1>0, <2>1, NothingActive DEF Claimed
    <2> QED BY <1>f, <2>1, <2>2, <2>3, <2>4 DEF Expected
  <1>16. CASE Unback(p)
    <2>1. cur[p].pc = "unback" /\ cur[p].backups # {}
      BY <1>16 DEF Unback, At
    <2> QED BY <1>0, <2>1, NothingAside
  <1>17. CASE StartRelease(p)
    <2>1. /\ cur[p].pc = "release" /\ cur'[p].pc = "removing" /\ cur'[p].port = me
          /\ cur'[p].todo = reg_entry_files(reg, me) /\ fs' = fs /\ reg' = reg
      BY <1>17, ReleaseGoes
    <2>2. \A q \in Port : FilesOf(q)' = FilesOf(q)
      BY <2>1 DEF FilesOf
    <2> QED BY <1>f, <2>1, <2>2 DEF Expected
  <1>18. CASE CommitRelease(p)
    <2>1. cur[p].pc = "removing" /\ cur[p].todo = {} /\ fs' = fs /\ reg' = work /\ writer = p
      BY <1>18 DEF CommitRelease, At, Commit, Ground, WorkingCopy, InTxn
    <2>2. PICK A \in SUBSET Path : work = reg_entry_deactivate(reg, me, A)
      BY <2>1 DEF Ground, WorkingCopy, WorkOf
    <2>3. reg_entry_files(work, me) = {}
      <3>1. Active(work, me) = {}
        BY <2>1 DEF Ground, StateAndRows, RowsOf
      <3> QED BY <1>0, <3>1, FilesOfRows
    <2>4. \A q \in Port \ {me} : work.actual[q] = reg.actual[q]
      BY <1>0, <2>2 DEF reg_entry_deactivate, Registry
    <2>5. ASSUME NEW q \in Port \ {me}
          PROVE  reg_entry_files(work, q) = reg_entry_files(reg, q)
      <3>1. work.actual[q] = reg.actual[q]
        BY <2>4
      <3> QED BY <3>1 DEF reg_entry_files
    <2>6. cur'[p].pc = "image"
      BY <1>0, <1>18, StepsWithin DEF GoesTo
    <2>7. \A q \in Port : FilesOf(q)' = FilesOf(q)
      BY <2>1 DEF FilesOf
    <2> QED BY <1>f, <2>1, <2>3, <2>5, <2>6, <2>7 DEF Expected
  <1>19. CASE RemoveFails(p)
    BY <1>19 DEF RemoveFails
  <1> QED BY <1>1, <1>2, <1>3, <1>4, <1>5, <1>6, <1>7, <1>8, <1>9, <1>10, <1>11, <1>12,
    <1>13, <1>14, <1>15, <1>16, <1>17, <1>18, <1>19 DEF Step, Loops, Ends

\* No step of an action changes the force of its process.
LEMMA StepForce ==
  ASSUME NEW p \in Proc, Step(p)
  PROVE  force' = force
  BY DEF Step, inCall, ActivateCheck, DeactivateOther, Extract, StartClaim,
    ClaimReplaced, ClaimFree, ClaimForced, ClaimFails, CommitClaim,
    DeactivateReplaced, StartTake, MoveFile, MoveFails, CommitTake,
    SetInstalled, Unmove, UnmoveDone, Unback, UnbackFails, UnbackDone,
    Reactivate, Rethrow, DeactivateCheck, StartRelease, RemoveFile,
    RemoveFails, CommitRelease, SetImaged, FailsButReached, Retry, Fail

\* The files that a claim and a move visit are those of the image.
LEMMA StepTodo ==
  ASSUME Ground, Chain, FilesRight, Taking, NEW p \in Proc, Step(p)
  PROVE  TodoHomes(p)'
  <1> SUFFICES ASSUME cur'[p].pc \in {"claiming", "moving"}
               PROVE  cur'[p].todo \subseteq Homes(cur'[p].port)
    BY DEF TodoHomes, Homes
  <1>0. TypeOK /\ Nesting /\ cur[p] \in Frame
    BY StepBusy DEF Ground
  <1>o. cur[p].pc \in {"claiming", "moving"} => cur[p].todo \subseteq Homes(cur[p].port)
    BY DEF Taking, TakingOf, TodoHomes
  <1>t. \A todo : cur' = [cur EXCEPT ![p].todo = todo] =>
          cur'[p].port = cur[p].port /\ cur'[p].todo = todo
    BY <1>0, FieldUpdates DEF Keeps
  <1>1. CASE StartClaim(p)
    BY <1>0, <1>1, ClaimUpdates
  <1>2. CASE ClaimReplaced(p)
    <2>1. cur'[p].port = cur[p].port /\ cur'[p].todo \subseteq cur[p].todo
      BY <1>0, <1>2, ClaimUpdates
    <2>2. cur[p].pc = "claiming"
      BY <1>2 DEF ClaimReplaced, At
    <2> QED BY <1>o, <2>1, <2>2
  <1>3. CASE ClaimFree(p) \/ MoveFile(p)
    <2>1. PICK a : cur' = [cur EXCEPT ![p].todo = cur[p].todo \ {a}]
      BY <1>3 DEF ClaimFree, MoveFile
    <2>2. cur[p].pc \in {"claiming", "moving"}
      BY <1>3 DEF ClaimFree, MoveFile, At
    <2> QED BY <1>o, <1>t, <2>1, <2>2
  <1>4. CASE ClaimForced(p)
    <2>1. cur[p].pc = "claiming" /\ cur'[p].todo \subseteq cur[p].todo
      BY <1>4, ForcedClaim
    <2>2. cur'[p].port = cur[p].port
      BY <1>0, <1>4, ClaimUpdates
    <2> QED BY <1>o, <2>1, <2>2
  <1>5. CASE StartTake(p)
    BY <1>5, TakeGoes
  <1> QED BY <1>0, <1>1, <1>2, <1>3, <1>4, <1>5, Arrivals

\* A claim knows whom it replaces, and has room for what it moves aside.
LEMMA StepClaimTaking ==
  ASSUME Ground, Chain, FilesRight, Taking, NEW p \in Proc, Step(p)
  PROVE  ClaimTaking(p)'
  <1> DEFINE me == cur[p].port
             s == cur[p].stamp
  <1>0. /\ TypeOK /\ Nesting /\ cur[p] \in Frame /\ me \in Port
        /\ reg \in Registry /\ work \in Registry /\ force' = force
        /\ UniqueActual(work) /\ cur[p].todo \subseteq Path
    BY StepBusy, StepForce, BusyRight DEF Ground, TypeOK, OneOwner
  <1>1. CASE StartClaim(p)
    <2>1. work' = reg /\ reg' = reg /\ fs' = fs
      BY <1>1 DEF StartClaim, StartWrite
    <2>2. /\ cur'[p].port = me /\ cur'[p].todo = Homes(me)
          /\ \E t \in Stamp : /\ IF force[p] THEN FreeStamp(t) ELSE t = 0
                              /\ cur'[p].stamp = t
      BY <1>0, <1>1, ClaimUpdates
    <2>3. ASSUME force[p]
          PROVE  /\ cur'[p].stamp # 0
                 /\ \A a \in Homes(me) : fs[Backup(a, cur'[p].stamp)] = Empty
      <3>1. FreeStamp(cur'[p].stamp)
        BY <2>2, <2>3
      <3>2. \A a \in Homes(me) : a[1] \in File
        BY <1>0, HomesTyped DEF Homes, Home
      <3> QED BY <3>1, <3>2 DEF FreeStamp, Backup
    <2> QED BY <1>0, <2>1, <2>2, <2>3 DEF ClaimTaking
  <1>2. ASSUME cur[p].pc = "claiming", cur'[p].stamp = s, cur'[p].port = me,
               work' = work, reg' = reg, fs' = fs, cur[p].replaced \subseteq cur'[p].replaced,
               NEW a \in cur[p].todo, cur'[p].todo = cur[p].todo \ {a},
               reg_entry_owner(work, a) \subseteq cur'[p].replaced
        PROVE  ClaimTaking(p)'
    <2>1. /\ IF force[p] THEN s # 0 /\ \A b \in cur[p].todo : fs[Backup(b, s)] = Empty
             ELSE work = reg
          /\ \A b \in Homes(me) \ cur[p].todo :
               reg_entry_owner(work, b) \subseteq cur[p].replaced
      BY <1>2 DEF Taking, TakingOf, ClaimTaking
    <2>2. \A b \in Homes(me) \ cur'[p].todo :
            reg_entry_owner(work, b) \subseteq cur'[p].replaced
      BY <1>2, <2>1
    <2> QED BY <1>0, <1>2, <2>1, <2>2 DEF ClaimTaking
  <1>3. CASE ClaimReplaced(p)
    <2>1. /\ cur[p].pc = "claiming" /\ work' = work /\ reg' = reg /\ fs' = fs
      BY <1>3 DEF ClaimReplaced, At, database
    <2>2. cur'[p].stamp = s /\ cur'[p].port = me
      BY <1>0, <1>3, ClaimUpdates
    <2>3. PICK a \in cur[p].todo : \E o \in reg_entry_owner(work, a) \ {me} :
            /\ IsReplaced(o, me)
            /\ cur'[p].todo = cur[p].todo \ {a}
            /\ cur'[p].replaced = cur[p].replaced \cup {o}
      BY <1>0, <1>3, ClaimUpdates
    <2>4. PICK o \in reg_entry_owner(work, a) \ {me} :
            /\ cur'[p].todo = cur[p].todo \ {a}
            /\ cur'[p].replaced = cur[p].replaced \cup {o}
      BY <2>3
    <2>5. reg_entry_owner(work, a) \subseteq {o}
      <3>1. a # NoPath
        BY <1>0, RegEntryAssumption
      <3> QED BY <1>0, <3>1 DEF UniqueActual, reg_entry_owner
    <2> QED BY <1>2, <2>1, <2>2, <2>4, <2>5
  <1>4. CASE ClaimFree(p)
    <2>1. /\ cur[p].pc = "claiming" /\ work' = work /\ reg' = reg /\ fs' = fs
      BY <1>4 DEF ClaimFree, At, database
    <2>2. PICK a \in cur[p].todo :
            /\ cur' = [cur EXCEPT ![p].todo = cur[p].todo \ {a}]
            /\ reg_entry_owner(work, a) \subseteq {me}
      BY <1>4 DEF ClaimFree
    <2>f. \A todo : cur' = [cur EXCEPT ![p].todo = todo] =>
            /\ cur'[p].port = me /\ cur'[p].todo = todo /\ cur'[p].stamp = s
            /\ cur'[p].replaced = cur[p].replaced
      BY <1>0, FieldUpdates DEF Keeps
    <2>3. reg_entry_owner(work, a) = {}
      <3>1. Active(work, me) = {}
        BY <1>0, <2>1, NothingActive, ClaimActive DEF Claimed, Ground
      <3>2. reg_entry_files(work, me) = {}
        BY <1>0, <3>1, FilesOfRows
      <3>3. me \notin reg_entry_owner(work, a)
        BY <1>0, <3>2, FilesOfRows
      <3> QED BY <2>2, <3>3
    <2> QED BY <1>2, <2>1, <2>2, <2>3, <2>f
  <1>5. CASE ClaimForced(p)
    BY <1>5, ForcedClaimTaking
  <1> QED BY <1>0, <1>1, <1>3, <1>4, <1>5, Arrivals DEF ClaimTaking

\* The end of a call, as its caller sees it.
LEMMA EndsIntoCaller ==
  ASSUME Ground, NEW p \in Proc, Step(p), Ends(p), cur'[p] # Idle
  PROVE  /\ Len(callers[p]) \in Nat \ {0} /\ callers[p] # <<>>
         /\ Len(callers'[p]) = Len(callers[p]) - 1
         /\ \A i \in 1..Len(callers'[p]) : callers'[p][i] = callers[p][i]
         /\ \E c \in Frame :
              /\ c = callers[p][Len(callers[p])]
              /\ \/ cur'[p] = c
                 \/ cur[p].pc = "failed" /\ c.pc = "replace" /\ cur'[p] = [c EXCEPT !.pc = "unback"]
                 \/ cur[p].pc = "failed" /\ c.pc # "replace" /\ cur'[p] = [c EXCEPT !.pc = "failed"]
  <1> DEFINE S == Stack(p)
             T == Stack(p)'
             n == Len(callers[p])
  <1>0. TypeOK /\ Nesting /\ cur'[p] \in Frame
    BY StepBoth DEF Ground
  <1>1. /\ S \in Seq(Frame) /\ Len(S) = n + 1 /\ n \in Nat /\ S[Len(S)] = cur[p]
        /\ \A i \in 1..n : S[i] = callers[p][i]
        /\ T \in Seq(Frame) /\ Len(T) = Len(callers'[p]) + 1 /\ Len(callers'[p]) \in Nat
        /\ T[Len(T)] = cur'[p]
        /\ \A i \in 1..Len(callers'[p]) : T[i] = callers'[p][i]
    BY <1>0, StepBoth
  <1>2. callers[p] # <<>> /\ EndsIn(S, T)
    <2>1. ~(Ends(p) /\ cur'[p] = Idle)
      OBVIOUS
    <2>2. ~Loops(p)
      <3>1. cur[p].pc \in {"install", "image", "failed"}
        BY DEF Ends, SetInstalled, SetImaged, FailsButReached, Fail, At
      <3> QED BY <3>1 DEF Loops, DeactivateOther, DeactivateReplaced, Reactivate, At
    <2> QED BY <1>0, <2>1, <2>2, StepStack
  <1> HIDE DEF S, T
  <1>3. /\ Len(T) = n /\ n # 0
        /\ \A i \in 1..(n - 1) : T[i] = S[i]
        /\ \/ T[n] = S[n]
           \/ cur[p].pc = "failed" /\ S[n].pc = "replace" /\ T[n] = [S[n] EXCEPT !.pc = "unback"]
           \/ cur[p].pc = "failed" /\ S[n].pc # "replace" /\ T[n] = [S[n] EXCEPT !.pc = "failed"]
    <2>1. Len(S) - 1 = n /\ Len(S) - 2 = n - 1
      BY <1>1
    <2>2. n # 0
      BY <1>2, <1>0, EmptySeq DEF TypeOK
    <2> QED BY <1>1, <1>2, <2>1, <2>2 DEF EndsIn
  <1>4. S[n] = callers[p][n] /\ S[n] \in Frame /\ T[n] = cur'[p]
    <2>1. n \in 1..n /\ n \in 1..Len(S)
      BY <1>1, <1>3
    <2> QED BY <1>1, <1>3, <2>1, ElementOfSeq
  <1>5. Len(callers'[p]) = n - 1
    BY <1>1, <1>3
  <1>6. \A i \in 1..Len(callers'[p]) : callers'[p][i] = callers[p][i]
    <2> SUFFICES ASSUME NEW i \in 1..Len(callers'[p]) PROVE callers'[p][i] = callers[p][i]
      OBVIOUS
    <2>1. i \in 1..(n - 1) /\ i \in 1..n
      BY <1>1, <1>5
    <2> QED BY <1>1, <1>3, <2>1
  <1>7. n \in Nat \ {0}
    BY <1>1, <1>3
  <1> QED BY <1>2, <1>3, <1>4, <1>5, <1>6, <1>7

\* A caller in the middle of replacing ports is only returned to by the
\* deactivation that writes the state of its port.
LEMMA ReplaceEnds ==
  ASSUME Ground, Chain, FilesRight, Taking, NEW p \in Proc, Step(p), Ends(p),
         callers[p] # <<>>, callers[p][Len(callers[p])].pc = "replace"
  PROVE  SetImaged(p) /\ cur[p].pc = "image"
  <1>1. cur[p].pc \in {"check", "release", "removing", "image"}
    BY DEF Taking, TakingOf, CallerTaking
  <1> QED BY <1>1 DEF Ends, SetInstalled, SetImaged, FailsButReached, Fail, At

\* Whoever owns a file after a claim is deactivated next.
LEMMA StepReplaceTaking ==
  ASSUME Ground, Chain, FilesRight, Taking, NEW p \in Proc, Step(p)
  PROVE  ReplaceTaking(p)'
  <1> DEFINE me == cur[p].port
  <1> SUFFICES ASSUME cur'[p].pc = "replace"
               PROVE  /\ \A a \in Homes(cur'[p].port) :
                           reg_entry_owner(reg', a) \subseteq cur'[p].pend
                      /\ \A z \in cur'[p].pend : reg'.state[z] = "installed"
    BY DEF ReplaceTaking
  <1>0. /\ TypeOK /\ Nesting /\ cur[p] \in Frame /\ me \in Port
        /\ reg \in Registry /\ work \in Registry
        /\ FrameOK(reg.state, cur[p]) /\ SameStates
    BY StepBusy, BusyRight DEF Ground, TypeOK
  <1>1. CASE CommitClaim(p)
    <2>1. cur[p].pc = "claiming" /\ cur[p].todo = {} /\ reg' = work
      BY <1>1 DEF CommitClaim, At, Commit
    <2>2. cur'[p].port = me /\ cur'[p].pend = cur[p].replaced
      BY <1>0, <1>1 DEF CommitClaim, TypeOK, Frame
    <2>3. \A a \in Homes(me) : reg_entry_owner(work, a) \subseteq cur[p].replaced
      BY <2>1 DEF Taking, TakingOf, ClaimTaking
    <2>4. \A z \in cur[p].replaced : reg.state[z] = "installed"
      BY <1>0, <2>1 DEF FrameOK
    <2> QED BY <1>0, <2>1, <2>2, <2>3, <2>4 DEF SameStates
  <1>2. CASE Ends(p)
    <2>0. cur'[p] # Idle
      BY IdleFrame
    <2>1. PICK c \in Frame :
            /\ c = callers[p][Len(callers[p])] /\ callers[p] # <<>>
            /\ \/ cur'[p] = c
               \/ cur[p].pc = "failed" /\ c.pc = "replace" /\ cur'[p] = [c EXCEPT !.pc = "unback"]
               \/ cur[p].pc = "failed" /\ c.pc # "replace" /\ cur'[p] = [c EXCEPT !.pc = "failed"]
      BY <1>2, <2>0, EndsIntoCaller
    <2>2. cur'[p] = c /\ c.pc = "replace"
      BY <2>1 DEF Frame
    <2>3. SetImaged(p) /\ cur[p].pc = "image"
      BY <1>2, <2>1, <2>2, ReplaceEnds
    <2>4. /\ \A a \in Homes(c.port) : reg_entry_owner(reg, a) \subseteq c.pend \cup {me}
          /\ \A z \in c.pend : reg.state[z] = "installed" /\ z # me
      BY <2>1, <2>2 DEF Taking, TakingOf, CallerTaking
    <2>5. reg' = SetState(reg, me, "imaged")
      BY <2>3 DEF SetImaged, Autocommit
    <2>6. reg'.actual = reg.actual /\ \A z \in Port : z # me => reg'.state[z] = reg.state[z]
      BY <1>0, <2>5 DEF SetState, Registry
    <2>7. \A a \in Path : me \notin reg_entry_owner(reg, a)
      <3>1. Active(reg, me) = {}
        BY <2>3 DEF Ground, StateAndRows, RowsOf
      <3> QED BY <1>0, <3>1, FilesOfRows
    <2>8. \A a : reg_entry_owner(reg', a) = reg_entry_owner(reg, a)
      BY <2>6 DEF reg_entry_owner
    <2>9. Homes(c.port) \subseteq Path /\ c.pend \subseteq Port
      BY HomesTyped DEF Frame
    <2> QED BY <2>2, <2>4, <2>6, <2>7, <2>8, <2>9
  <1> QED BY <1>0, <1>1, <1>2, Arrivals

\* While a port is being replaced, its deactivation goes on: no step of it fails,
\* and none gives a file to anyone.
LEMMA ReplacedGoes ==
  ASSUME Ground, Chain, FilesRight, Taking, "remove" \notin Faults,
         NEW p \in Proc, Step(p), ~Ends(p), ~Loops(p),
         callers[p] # <<>>, callers[p][Len(callers[p])].pc = "replace"
  PROVE  /\ cur'[p].port = cur[p].port
         /\ cur'[p].pc \in {"release", "removing", "image"}
         /\ reg'.state = reg.state
         /\ \A a \in Path : reg_entry_owner(reg', a) \subseteq reg_entry_owner(reg, a)
  <1> DEFINE me == cur[p].port
             n == Len(callers[p])
  <1>0. /\ TypeOK /\ Nesting /\ cur[p] \in Frame /\ me \in Port /\ SameStates
        /\ reg \in Registry /\ OneActiveVersion
    BY StepBusy, BusyRight DEF Ground, Versions
  <1>1. cur[p].op = "deactivate"
    <2>1. n \in 1..n
      BY <1>0, LastCaller DEF TypeOK
    <2>2. WaitsFor(callers[p], n, cur[p])
      BY <1>0, <2>1 DEF Nesting
    <2> QED BY <2>2 DEF WaitsFor
  <1>2. /\ cur[p].pc \in {"check", "release", "removing", "image"}
        /\ reg.state[me] = "installed"
    BY DEF Taking, TakingOf, CallerTaking
  <1>3. reg'.state = reg.state
    BY <1>0, StepStates DEF Ends
  <1>4. CASE DeactivateCheck(p)
    <2>1. reg_entry_installed(reg, NameOf[me]) = {me}
      BY <1>0, <1>2 DEF reg_entry_installed, OneActiveVersion
    <2>2. Goto(p, "release", reg_entry_files(reg, me)) /\ reg' = reg
      BY <1>4, <2>1 DEF DeactivateCheck, database
    <2>3. cur'[p].port = me /\ cur'[p].pc = "release"
      BY <1>0, <2>2, FieldUpdates DEF Keeps
    <2> QED BY <2>2, <2>3
  <1>5. CASE StartRelease(p)
    BY <1>5, ReleaseGoes
  <1>6. CASE RemoveFile(p)
    <2>1. GoesTo(p, {"removing"}) /\ reg' = reg
      BY <1>0, <1>6, StepsWithin DEF RemoveFile, database
    <2> QED BY <2>1 DEF GoesTo
  <1>7. CASE CommitRelease(p)
    <2>1. GoesTo(p, {"image"})
      BY <1>0, <1>7, StepsWithin
    <2>2. cur[p].pc = "removing" /\ reg' = work /\ writer = p
      BY <1>7 DEF CommitRelease, At, Commit, Ground, WorkingCopy, InTxn
    <2>3. PICK A \in SUBSET Path : work = reg_entry_deactivate(reg, me, A)
      BY <2>2 DEF Ground, WorkingCopy, WorkOf
    <2>4. \A q \in Port : \A x \in File :
            work.actual[q][x] \in {NoPath, reg.actual[q][x]}
      BY <1>0, <2>3 DEF reg_entry_deactivate, Registry
    <2>5. ASSUME NEW a \in Path PROVE reg_entry_owner(work, a) \subseteq reg_entry_owner(reg, a)
      <3>1. a # NoPath
        BY RegEntryAssumption
      <3> QED BY <2>4, <3>1 DEF reg_entry_owner
    <2>6. cur'[p].port = me /\ cur'[p].pc = "image"
      BY <2>1 DEF GoesTo
    <2> QED BY <1>3, <2>2, <2>5, <2>6
  <1>8. DeactivateCheck(p) \/ StartRelease(p) \/ RemoveFile(p) \/ CommitRelease(p)
    BY <1>1, <1>2 DEF Step, Loops, Ends, At, ActivateCheck, Extract, StartClaim,
      ClaimReplaced, ClaimFree, ClaimForced, ClaimFails, CommitClaim, StartTake,
      MoveFile, MoveFails, CommitTake, Unmove, UnmoveDone, Unback, UnbackFails,
      UnbackDone, Rethrow, RemoveFails, Retry
  <1> QED BY <1>3, <1>4, <1>5, <1>6, <1>7, <1>8

\* A call is made from one that replaces ports, or an end returns to one whose
\* own caller only reactivates.
LEMMA StepCallerTaking ==
  ASSUME Ground, Chain, FilesRight, Taking, "remove" \notin Faults,
         NEW p \in Proc, Step(p)
  PROVE  CallerTaking(p)'
  <1> DEFINE s == callers[p]
             n == Len(s)
             n2 == Len(callers'[p])
  <1>0. /\ TypeOK /\ Nesting /\ cur[p] \in Frame /\ cur[p].port \in Port
        /\ FrameOK(reg.state, cur[p]) /\ s \in Seq(Frame) /\ n \in Nat
    BY StepBusy, BusyRight, LenProperties DEF Ground, TypeOK
  <1> SUFFICES ASSUME callers'[p] # <<>>, callers'[p][n2].pc = "replace"
               PROVE  LET c == callers'[p][n2] IN
                 /\ \A a \in Homes(c.port) :
                      reg_entry_owner(reg', a) \subseteq c.pend \cup {cur'[p].port}
                 /\ \A z \in c.pend : reg'.state[z] = "installed" /\ z # cur'[p].port
                 /\ cur'[p].pc \in {"check", "release", "removing", "image"}
                 /\ reg'.state[cur'[p].port] = "installed"
    BY DEF CallerTaking, Homes
  <1>k. GoesTo(p, PC) \/ Loops(p) \/ Ends(p)
    BY <1>0, StepStack
  <1>1. CASE ~Ends(p) /\ ~Loops(p)
    <2> DEFINE c == s[n]
    <2>1. callers' = callers
      BY <1>1, <1>k DEF GoesTo
    <2>2. s # <<>> /\ c.pc = "replace" /\ c \in Frame
      BY <1>0, <2>1, LastCaller
    <2>3. /\ \A a \in Homes(c.port) : reg_entry_owner(reg, a) \subseteq c.pend \cup {cur[p].port}
          /\ \A z \in c.pend : reg.state[z] = "installed" /\ z # cur[p].port
          /\ reg.state[cur[p].port] = "installed"
      BY <2>2 DEF Taking, TakingOf, CallerTaking
    <2>4. /\ cur'[p].port = cur[p].port
          /\ cur'[p].pc \in {"release", "removing", "image"}
          /\ reg'.state = reg.state
          /\ \A a \in Path : reg_entry_owner(reg', a) \subseteq reg_entry_owner(reg, a)
      BY <1>1, <2>2, ReplacedGoes
    <2>5. Homes(c.port) \subseteq Path
      BY <2>2, HomesTyped DEF Frame
    <2> HIDE DEF c
    <2>6. ASSUME NEW a \in Homes(c.port)
          PROVE  reg_entry_owner(reg', a) \subseteq c.pend \cup {cur'[p].port}
      BY <2>3, <2>4, <2>5
    <2> QED BY <2>1, <2>3, <2>4, <2>6 DEF c
  <1>2. CASE Loops(p)
    <2>1. PICK op \in Op, q \in cur[p].pend : Nested(p, op, q)
      <3>1. DeactivateOther(p) \/ DeactivateReplaced(p) =>
              \E q \in cur[p].pend : Nested(p, "deactivate", q)
        BY DEF DeactivateOther, DeactivateReplaced
      <3>2. ASSUME Reactivate(p) PROVE \E q \in cur[p].pend : Nested(p, "activate", q)
        <4>1. PICK o \in cur[p].pend :
                IF reg.state[o] = "imaged"
                THEN Nested(p, "activate", o)
                ELSE cur' = [cur EXCEPT ![p].pend = @ \ {o}] /\ UNCHANGED callers
          BY <3>2 DEF Reactivate
        <4>2. CASE reg.state[o] = "imaged"
          BY <4>1, <4>2
        <4>3. CASE reg.state[o] # "imaged"
          <5>1. callers' = callers /\ cur[p].pc = "reactivate"
            BY <3>2, <4>1, <4>3 DEF Reactivate, At
          <5>2. s # <<>> /\ s[n].pc = "replace"
            BY <5>1
          <5>3. FALSE
            BY <5>1, <5>2 DEF Taking, TakingOf, CallerTaking
          <5> QED BY <5>3
        <4> QED BY <4>2, <4>3
      <3> QED BY <1>2, <3>1, <3>2 DEF Loops
    <2> DEFINE e == [cur[p] EXCEPT !.pend = @ \ {q}]
    <2>2. /\ e \in Frame
          /\ e.pc = cur[p].pc /\ e.port = cur[p].port /\ e.pend = cur[p].pend \ {q}
      BY <1>0 DEF Frame
    <2>3. /\ callers'[p] = Append(s, e)
          /\ cur'[p].pc = "check" /\ cur'[p].port = q
      BY <2>1 DEF Nested, Call, TypeOK, Ground
    <2>4. reg' = reg
      BY <1>0, <1>2, LoopsTo
    <2> HIDE DEF e
    <2>5. Append(s, e)[Len(Append(s, e))] = e
      BY <1>0, <2>2, AppendProperties, LenProperties
    <2>6. callers'[p][n2] = e
      BY <2>3, <2>5
    <2>7. /\ \A a \in Homes(e.port) : reg_entry_owner(reg, a) \subseteq cur[p].pend
          /\ \A z \in cur[p].pend : reg.state[z] = "installed"
      BY <2>2, <2>6 DEF Taking, TakingOf, ReplaceTaking
    <2> QED BY <2>1, <2>2, <2>3, <2>4, <2>6, <2>7
  <1>3. CASE Ends(p)
    <2>1. CASE cur'[p] = Idle
      <3>1. Nesting'
        BY <1>0, StepNesting
      <3>2. callers'[p] = <<>>
        BY <2>1, <3>1 DEF Nesting
      <3> QED BY <3>2
    <2>2. CASE cur'[p] # Idle
      \* All callers but the innermost reactivate.
      <3>1. /\ n2 = n - 1 /\ \A i \in 1..n2 : callers'[p][i] = s[i]
        BY <1>3, <2>2, EndsIntoCaller
      <3>2. callers'[p] \in Seq(Frame)
        BY StepBusy, <1>0 DEF FramesOK
      <3>3. n2 \in Nat \ {0}
        BY <3>2, LastCaller
      <3>4. n2 \in 1..n2 /\ n2 \in 1..n /\ n2 # n
        BY <1>0, <3>1, <3>3
      <3>5. WaitsFor(s, n2, cur[p])
        BY <1>0, <3>4 DEF Nesting
      <3>6. s[n2].pc = "replace"
        BY <3>1, <3>4
      <3> QED BY <3>4, <3>5, <3>6 DEF WaitsFor
    <2> QED BY <2>1, <2>2
  <1> QED BY <1>1, <1>2, <1>3

\* A call that goes on keeps its files aside only as a forced activation that
\* has not failed, when forced moves succeed.
LEMMA GoesOnAside ==
  ASSUME Ground, Chain, FilesRight, Taking, ForcedMovesSucceed,
         NEW p \in Proc, Step(p), GoesOn(p) \/ PassesOver(p), cur'[p].backups # {}
  PROVE  force[p] /\ cur'[p].pc \in {"claiming", "replace", "moving", "install"}
  <1>0. TypeOK /\ cur[p] \in Frame
    BY StepBusy DEF Ground
  <1>k. ASSUME Keeps(p) PROVE force[p] /\ cur[p].pc \in {"claiming", "replace", "moving", "install"}
    BY <1>0, <1>k, NothingAside DEF Keeps
  <1>t. \A todo : cur' = [cur EXCEPT ![p].todo = todo] =>
          Keeps(p) /\ cur'[p].pc = cur[p].pc
    BY <1>0, FieldUpdates
  <1>1. CASE ClaimForced(p)
    BY <1>0, <1>1, ClaimUpdates DEF ClaimForced
  <1>2. CASE StartClaim(p)
    <2>1. cur'[p].backups = cur[p].backups
      BY <1>0, <1>2, ClaimUpdates
    <2>2. cur[p].pc = "claim"
      BY <1>2 DEF StartClaim, At
    <2> QED BY <1>0, <2>1, <2>2, NothingAside
  <1>3. CASE ClaimReplaced(p)
    <2>1. cur'[p].backups = cur[p].backups /\ cur'[p].pc = "claiming"
      BY <1>0, <1>3, ClaimUpdates
    <2> QED BY <1>0, <2>1, NothingAside
  <1>4. CASE ClaimFree(p) \/ MoveFile(p) \/ Unmove(p) \/ RemoveFile(p)
    <2>1. PICK a : cur' = [cur EXCEPT ![p].todo = cur[p].todo \ {a}]
      BY <1>4 DEF ClaimFree, MoveFile, Unmove, RemoveFile
    <2> QED BY <1>k, <1>t, <2>1
  <1>5. CASE ClaimFails(p)
    <2>1. Keeps(p) /\ ~force[p]
      BY <1>0, <1>5, FieldUpdates DEF ClaimFails
    <2> QED BY <1>k, <2>1
  <1>6. CASE CommitClaim(p) \/ CommitTake(p)
    <2>1. Keeps(p) /\ cur'[p].pc \in {"replace", "install"}
      BY <1>0, <1>6, FieldUpdates DEF CommitClaim, CommitTake
    <2> QED BY <1>k, <2>1
  <1>7. CASE StartTake(p)
    <2>1. /\ cur'[p].pc = "moving" /\ cur'[p].backups = cur[p].backups
      BY <1>7, TakeGoes
    <2> QED BY <1>0, <2>1, NothingAside
  <1>8. CASE MoveFails(p)
    <2>1. Keeps(p) /\ cur[p].pc = "moving" /\ cur'[p].pc = "unmove"
      BY <1>0, <1>8, FieldUpdates DEF MoveFails, At
    <2>2. ~force[p]
      BY <2>1 DEF ForcedMovesSucceed
    <2> QED BY <1>k, <2>1, <2>2
  <1>9. CASE Unback(p)
    <2>1. cur[p].pc = "unback" /\ cur[p].backups # {}
      BY <1>9 DEF Unback, At
    <2> QED BY <1>0, <2>1, NothingAside
  <1>10. CASE Retry(p)
    <2>1. PICK t \in Try : cur'[p] = Call(cur[p].op, cur[p].port, t)
      BY <1>0, <1>10, ClaimUpdates
    <2> QED BY <2>1 DEF Call
  <1>11. CASE PassesOver(p)
    <2>1. PICK o \in cur[p].pend : cur' = [cur EXCEPT ![p].pend = cur[p].pend \ {o}]
      BY <1>11 DEF PassesOver
    <2>2. cur[p].pc = "reactivate"
      BY <1>11 DEF PassesOver, Reactivate, At
    <2>f. \A pend : cur' = [cur EXCEPT ![p].pend = pend] => Keeps(p)
      BY <1>0, FieldUpdates
    <2> QED BY <1>k, <2>1, <2>2, <2>f
  <1>12. CASE \/ ActivateCheck(p) \/ Extract(p) \/ UnmoveDone(p) \/ UnbackFails(p)
              \/ UnbackDone(p) \/ Rethrow(p) \/ DeactivateCheck(p) \/ StartRelease(p)
              \/ RemoveFails(p) \/ CommitRelease(p)
    <2>1. Keeps(p)
      BY <1>0, <1>12, FieldUpdates DEF ActivateCheck, Extract, UnmoveDone, UnbackFails,
        UnbackDone, Rethrow, DeactivateCheck, StartRelease, RemoveFails, CommitRelease
    <2>2. cur[p].pc \notin {"claiming", "replace", "moving", "install"}
      BY <1>12 DEF ActivateCheck, Extract, UnmoveDone, UnbackFails,
        UnbackDone, Rethrow, DeactivateCheck, StartRelease, RemoveFails, CommitRelease, At
    <2> QED BY <1>k, <2>1, <2>2
  <1> QED BY <1>1, <1>2, <1>3, <1>4, <1>5, <1>6, <1>7, <1>8, <1>9, <1>10, <1>11,
    <1>12 DEF GoesOn

\* No step leaves a file aside for a call that has failed.
LEMMA StepAsideForced ==
  ASSUME Ground, Chain, FilesRight, Taking, ForcedMovesSucceed,
         NEW p \in Proc, Step(p)
  PROVE  AsideForced(p)'
  <1> DEFINE s == callers[p]
             n == Len(s)
             Kept == {"claiming", "replace", "moving", "install"}
  <1>0. /\ TypeOK /\ Nesting /\ cur[p] \in Frame /\ s \in Seq(Frame) /\ n \in Nat
        /\ force' = force /\ cur[p] # Idle
    BY StepBusy, StepForce, LenProperties, IdleFrame DEF Ground, TypeOK
  <1>b. /\ cur[p].backups # {} => force[p] /\ cur[p].pc \in Kept
        /\ \A i \in 1..n : s[i].backups # {} => force[p] /\ s[i].pc = "replace"
    BY <1>0 DEF Taking, TakingOf, AsideForced
  <1>k. \/ GoesTo(p, PC) /\ (GoesOn(p) \/ PassesOver(p))
        \/ Loops(p) /\ cur'[p] \in Frame /\ CallsIn(Stack(p), Stack(p)')
        \/ Ends(p)
    BY <1>0, StepStack
  <1>1. CASE GoesTo(p, PC) /\ (GoesOn(p) \/ PassesOver(p))
    <2>1. callers' = callers
      BY <1>1 DEF GoesTo
    <2>2. cur'[p].backups # {} => force[p] /\ cur'[p].pc \in Kept
      BY <1>1, GoesOnAside
    <2>3. \A i \in 1..Len(callers'[p]) : callers'[p][i].backups # {} =>
            force'[p] /\ callers'[p][i].pc = "replace"
      BY <1>0, <1>b, <2>1
    <2> QED BY <1>0, <2>2, <2>3 DEF AsideForced
  <1>2. CASE Loops(p) /\ cur'[p] \in Frame /\ CallsIn(Stack(p), Stack(p)')
    <2> DEFINE S == Stack(p)
               T == Stack(p)'
               m == Len(callers'[p])
    <2>1. /\ Len(S) = n + 1 /\ S[n + 1] = cur[p] /\ \A i \in 1..n : S[i] = s[i]
          /\ Len(T) = m + 1 /\ m \in Nat /\ T[m + 1] = cur'[p]
          /\ \A i \in 1..m : T[i] = callers'[p][i]
      BY <1>2, StepBoth
    <2> HIDE DEF S, T
    <2>2. PICK q \in cur[p].pend, t \in Try :
            /\ T[Len(S)] = [S[Len(S)] EXCEPT !.pend = @ \ {q}]
            /\ T[Len(S) + 1] = Call(IF S[Len(S)].pc = "reactivate" THEN "activate"
                                    ELSE "deactivate", q, t)
      BY <1>2, <2>1 DEF CallsIn, S, T
    <2>3. /\ m = n + 1 /\ \A i \in 1..n : T[i] = S[i]
          /\ cur[p].pc \in {"others", "replace", "reactivate"}
      BY <1>0, <1>2, <2>1 DEF CallsIn, S, T
    <2>4. /\ T[n + 1].backups = cur[p].backups /\ T[n + 1].pc = cur[p].pc
          /\ cur'[p].backups = {}
      <3>1. T[n + 1] = [cur[p] EXCEPT !.pend = @ \ {q}]
        BY <2>1, <2>2
      <3>2. PICK op : T[n + 2] = Call(op, q, t)
        BY <1>0, <2>1, <2>2
      <3>3. T[n + 2] = cur'[p]
        BY <1>0, <2>1, <2>3
      <3> QED BY <1>0, <3>1, <3>2, <3>3 DEF Frame, Call
    <2>5. ASSUME NEW i \in 1..m, callers'[p][i].backups # {}
          PROVE  force'[p] /\ callers'[p][i].pc = "replace"
      <3>1. CASE i = n + 1
        BY <1>0, <1>b, <2>1, <2>3, <2>4, <2>5, <3>1
      <3>2. CASE i \in 1..n
        BY <1>0, <1>b, <2>1, <2>3, <2>5, <3>2
      <3> QED BY <1>0, <2>3, <3>1, <3>2
    <2> QED BY <2>4, <2>5 DEF AsideForced
  <1>3. CASE Ends(p) /\ cur'[p] = Idle
    <2>1. callers'[p] = <<>>
      <3>1. Nesting'
        BY <1>0, StepNesting
      <3> QED BY <1>3, <3>1 DEF Nesting
    <2>2. \A i \in 1..Len(callers'[p]) : FALSE
      BY <2>1, EmptySeq
    <2> QED BY <1>3, <2>2 DEF AsideForced
  <1>4. CASE Ends(p) /\ cur'[p] # Idle
    <2>1. /\ n \in Nat \ {0} /\ s # <<>> /\ Len(callers'[p]) = n - 1
          /\ \A i \in 1..Len(callers'[p]) : callers'[p][i] = s[i]
      BY <1>4, EndsIntoCaller
    <2>2. PICK c \in Frame :
            /\ c = s[n]
            /\ \/ cur'[p] = c
               \/ cur[p].pc = "failed" /\ c.pc = "replace" /\ cur'[p] = [c EXCEPT !.pc = "unback"]
               \/ cur[p].pc = "failed" /\ c.pc # "replace" /\ cur'[p] = [c EXCEPT !.pc = "failed"]
      BY <1>4, EndsIntoCaller
    <2>3. cur'[p].backups = c.backups
      BY <2>2 DEF Frame
    <2>4. c.backups # {} => force[p] /\ c.pc = "replace"
      BY <1>b, <2>1, <2>2
    <2>5. c.pc = "replace" => cur'[p] = c
      <3>1. c.pc = "replace" => cur[p].pc = "image"
        BY <1>4, <2>1, <2>2, ReplaceEnds
      <3> QED BY <2>2, <3>1
    <2>6. \A i \in 1..Len(callers'[p]) : i \in 1..n
      BY <2>1
    <2>7. cur'[p].backups # {} => force'[p] /\ cur'[p].pc \in Kept
      BY <1>0, <2>3, <2>4, <2>5
    <2>8. \A i \in 1..Len(callers'[p]) : callers'[p][i].backups # {} =>
            force'[p] /\ callers'[p][i].pc = "replace"
      BY <1>0, <1>b, <2>1, <2>6
    <2> QED BY <2>7, <2>8 DEF AsideForced
  <1> QED BY <1>k, <1>1, <1>2, <1>3, <1>4

\* A new action takes nothing yet.
LEMMA StartTaking ==
  ASSUME Ground, Locking, NEW p \in Proc, NEW op \in Op, NEW q \in Port,
         NEW asks \in ForceModes, Start(p, op, q, asks)
  PROVE  TakingOf(p)'
  <1>1. cur'[p].pc = "check" /\ cur'[p].backups = {} /\ callers'[p] = <<>>
    <2>1. callers' = callers /\ callers[p] = <<>>
      BY StartStack
    <2>2. \E t \in Try : cur'[p] = Call(op, q, t)
      BY StartStack
    <2> QED BY <2>1, <2>2 DEF Call
  <1>2. \A i \in 1..Len(callers'[p]) : FALSE
    BY <1>1, EmptySeq
  <1> QED BY <1>1, <1>2 DEF TakingOf, TodoHomes, ClaimTaking, ReplaceTaking, CallerTaking,
    AsideForced

\* Whatever the user does, the names to move files to stay free.
LEMMA UserTaking ==
  ASSUME Ground, Taking, UNCHANGED <<database, cur, inCall>>,
         \A a \in Path : a[2] # 0 /\ fs[a] = Empty => fs'[a] = Empty
  PROVE  Taking'
  <1> SUFFICES ASSUME NEW p \in Proc PROVE TakingOf(p)'
    BY DEF Taking
  <1>1. /\ reg' = reg /\ work' = work /\ cur' = cur /\ callers' = callers /\ force' = force
        /\ TakingOf(p)
    BY DEF database, inCall, Taking
  <1>2. ASSUME cur[p].pc = "claiming", force[p], NEW a \in cur[p].todo
        PROVE  fs'[Backup(a, cur[p].stamp)] = Empty
    <2>1. /\ cur[p].stamp # 0 /\ fs[Backup(a, cur[p].stamp)] = Empty
          /\ a \in Homes(cur[p].port)
      BY <1>1, <1>2 DEF TakingOf, ClaimTaking, TodoHomes
    <2>2. cur[p] \in Frame
      BY <1>2, BusyFrame, TypeOKParts DEF Ground
    <2>3. cur[p].stamp \in Stamp /\ a[1] \in File
      BY <2>1, <2>2, RegEntryAssumption DEF Frame, Homes, Home
    <2>4. Backup(a, cur[p].stamp) \in Path /\ Backup(a, cur[p].stamp)[2] # 0
      BY <2>1, <2>3 DEF Backup, Path
    <2> QED BY <2>1, <2>4
  <1>3. ClaimTaking(p)'
    BY <1>1, <1>2 DEF TakingOf, ClaimTaking
  <1>4. TodoHomes(p)' /\ ReplaceTaking(p)' /\ CallerTaking(p)' /\ AsideForced(p)'
    BY <1>1 DEF TakingOf, TodoHomes, ReplaceTaking, CallerTaking, AsideForced
  <1> QED BY <1>3, <1>4 DEF TakingOf

\* What the user leaves as it is.
LEMMA UserActsOn ==
  ASSUME TypeOK,
         (\E f \in File : UserCreates(f)) \/ (\E a \in Path : UserDeletes(a))
  PROVE  /\ UNCHANGED <<database, cur, inCall>>
         /\ \A a \in Path : a[2] # 0 /\ fs[a] = Empty => fs'[a] = Empty
         /\ \A q \in Port : FilesOf(q)' = FilesOf(q)
  <1>0. /\ User \notin Port /\ Empty \notin Port
        /\ fs \in [Path -> Port \cup {User, Empty}]
    BY PortImageAssumption DEF TypeOK
  <1>1. ASSUME NEW f \in File, UserCreates(f)
        PROVE  /\ UNCHANGED <<database, cur, inCall>>
               /\ \A a \in Path : a[2] # 0 /\ fs[a] = Empty => fs'[a] = Empty
               /\ \A q \in Port : FilesOf(q)' = FilesOf(q)
    <2>1. fs[Home(f)] = Empty /\ fs' = [fs EXCEPT ![Home(f)] = User]
      BY <1>1 DEF UserCreates
    <2>2. Home(f)[2] = 0
      BY DEF Home
    <2>3. \A a \in Path : fs'[a] = IF a = Home(f) THEN User ELSE fs[a]
      BY <1>0, <2>1
    <2>4. \A q \in Port : \A a \in Path : fs'[a] = q <=> fs[a] = q
      BY <1>0, <2>1, <2>3
    <2>5. \A q \in Port : FilesOf(q)' = FilesOf(q)
      BY <2>4 DEF FilesOf
    <2> QED BY <1>1, <2>2, <2>3, <2>5 DEF UserCreates
  <1>2. ASSUME NEW a \in Path, UserDeletes(a)
        PROVE  /\ UNCHANGED <<database, cur, inCall>>
               /\ \A b \in Path : b[2] # 0 /\ fs[b] = Empty => fs'[b] = Empty
               /\ \A q \in Port : FilesOf(q)' = FilesOf(q)
    <2>1. fs[a] = User /\ fs' = [fs EXCEPT ![a] = Empty]
      BY <1>2 DEF UserDeletes
    <2>3. \A b \in Path : fs'[b] = IF b = a THEN Empty ELSE fs[b]
      BY <1>0, <2>1
    <2>4. \A q \in Port : \A b \in Path : fs'[b] = q <=> fs[b] = q
      BY <1>0, <2>1, <2>3
    <2>5. \A q \in Port : FilesOf(q)' = FilesOf(q)
      BY <2>4 DEF FilesOf
    <2> QED BY <1>2, <2>3, <2>5 DEF UserDeletes
  <1> QED BY <1>1, <1>2

\* In every state an activation can take its files, and a deactivation that
\* makes room for one succeeds, when forced moves and removals do.
LEMMA NextTaking ==
  ASSUME Locking, "crash" \notin Faults, "remove" \notin Faults
  PROVE  Ground /\ Chain /\ FilesRight /\ Taking /\ [Next]_vars /\ [ForcedMovesSucceed]_vars
           => Taking'
  <1> SUFFICES ASSUME Ground, Chain, FilesRight, Taking, [Next]_vars,
                      [ForcedMovesSucceed]_vars
               PROVE  Taking'
    OBVIOUS
  <1>0. TypeOK /\ TypeOK' /\ Nesting'
    BY NextTypeOK, NextNesting DEF Ground
  <1>i. ASSUME NEW p \in Proc, TakingOf(p)', \A o \in Proc \ {p} : cur'[o] = Idle
        PROVE  Taking'
    <2>1. ASSUME NEW o \in Proc \ {p} PROVE TakingOf(o)'
      <3>1. cur'[o].pc = "idle" /\ cur'[o] = Idle /\ callers'[o] = <<>>
        BY <1>0, <1>i, IdleFrame DEF Nesting
      <3>2. \A i \in 1..Len(callers'[o]) : FALSE
        BY <3>1, EmptySeq
      <3> QED BY <3>1, <3>2 DEF TakingOf, TodoHomes, ClaimTaking, ReplaceTaking,
        CallerTaking, AsideForced
    <2> QED BY <1>i, <2>1 DEF Taking
  <1>1. ASSUME NEW p \in Proc, Step(p) PROVE Taking'
    <2>1. \A o \in Proc \ {p} : cur'[o] = Idle
      BY <1>1, StepBoth
    <2>2. CASE ForcedMovesSucceed
      <3>1. TakingOf(p)'
        BY <1>1, <2>2, StepTodo, StepClaimTaking, StepReplaceTaking, StepCallerTaking,
          StepAsideForced DEF TakingOf
      <3> QED BY <1>i, <2>1, <3>1
    <2>3. CASE UNCHANGED vars
      BY <2>3 DEF vars, Taking, TakingOf, TodoHomes, ClaimTaking, ReplaceTaking,
        CallerTaking, AsideForced
    <2> QED BY <2>2, <2>3
  <1>2. ASSUME NEW p \in Proc, NEW op \in Op, NEW q \in Port, NEW asks \in ForceModes,
               Start(p, op, q, asks)
        PROVE  Taking'
    BY <1>2, <1>i, StartStack, StartTaking
  <1>3. ASSUME (\E f \in File : UserCreates(f)) \/ (\E a \in Path : UserDeletes(a))
        PROVE  Taking'
    BY <1>0, <1>3, UserActsOn, UserTaking
  <1>4. CASE UNCHANGED vars
    BY <1>4 DEF vars, Taking, TakingOf, TodoHomes, ClaimTaking, ReplaceTaking,
      CallerTaking, AsideForced
  <1> QED BY <1>1, <1>2, <1>3, <1>4 DEF Next, Crash

\* In every state the files on disk are the expected ones.
LEMMA NextFilesRight ==
  ASSUME Locking, "crash" \notin Faults, "remove" \notin Faults
  PROVE  Ground /\ Chain /\ FilesRight /\ Taking /\ [Next]_vars => FilesRight'
  <1> SUFFICES ASSUME Ground, Chain, FilesRight, Taking, [Next]_vars PROVE FilesRight'
    OBVIOUS
  <1>1. ASSUME NEW p \in Proc, Step(p) PROVE FilesRight'
    <2>1. \A o \in Proc \ {p} : cur'[o] = Idle
      BY <1>1, StepBoth
    <2>2. \A q \in Port : FilesOf(q)' = Expected(cur[p], q)'
      BY <1>1, StepFiles
    <2>3. AsExpected(cur[p])'
      BY <2>2, Zenon DEF AsExpected
    <2>4. ASSUME Quiet', NEW q \in Port PROVE FilesOf(q)' = reg_entry_files(reg', q)
      <3>1. cur'[p].pc = "idle"
        BY <2>4, IdleFrame DEF Quiet
      <3> QED BY <2>2, <3>1 DEF Expected
    <2> QED BY <2>1, <2>3, <2>4 DEF FilesRight
  <1>2. ASSUME NEW p \in Proc, NEW op \in Op, NEW q \in Port, NEW asks \in ForceModes,
               Start(p, op, q, asks)
        PROVE  FilesRight'
    <2>1. /\ \A o \in Proc \ {p} : cur[o] = Idle /\ cur'[o] = Idle
          /\ cur[p] = Idle /\ reg' = reg
          /\ \E t \in Try : cur'[p] = Call(op, q, t)
      BY <1>2, StartStack
    <2>2. \A z \in Port : FilesOf(z)' = reg_entry_files(reg', z)
      <3>1. Quiet /\ fs' = fs
        BY <1>2, <2>1 DEF Quiet, Start
      <3>2. \A z \in Port : FilesOf(z)' = FilesOf(z)
        BY <3>1 DEF FilesOf
      <3> QED BY <2>1, <3>1, <3>2 DEF FilesRight
    <2>3. cur'[p].pc = "check" /\ cur'[p] # Idle
      BY <2>1, IdleFrame DEF Call
    <2>4. AsExpected(cur[p])'
      <3>1. \A z \in Port : FilesOf(z)' = Expected(cur[p], z)'
        BY <2>2, <2>3 DEF Expected
      <3> QED BY <3>1, Zenon DEF AsExpected
    <2> QED BY <2>1, <2>2, <2>4 DEF FilesRight
  <1>3. ASSUME UNCHANGED <<reg, work, cur>>, \A q \in Port : FilesOf(q)' = FilesOf(q)
        PROVE  FilesRight'
    <2>1. /\ Quiet' <=> Quiet
          /\ reg' = reg /\ cur' = cur
      BY <1>3 DEF Quiet
    <2>2. ASSUME NEW p \in Proc, cur[p] # Idle PROVE AsExpected(cur[p])'
      <3>1. \A q \in Port : FilesOf(q) = Expected(cur[p], q)
        BY <2>2, Zenon DEF FilesRight, AsExpected
      <3>2. \A q \in Port : FilesOf(q)' = Expected(cur[p], q)'
        BY <1>3, <3>1 DEF Expected
      <3> QED BY <3>2, Zenon DEF AsExpected
    <2>3. ASSUME Quiet', NEW q \in Port PROVE FilesOf(q)' = reg_entry_files(reg', q)
      BY <1>3, <2>1, <2>3 DEF FilesRight
    <2> QED BY <2>1, <2>2, <2>3 DEF FilesRight
  <1>4. ASSUME (\E f \in File : UserCreates(f)) \/ (\E a \in Path : UserDeletes(a))
        PROVE  FilesRight'
    <2>1. TypeOK
      BY DEF Ground
    <2>2. UNCHANGED <<reg, work, cur>> /\ \A q \in Port : FilesOf(q)' = FilesOf(q)
      BY <1>4, <2>1, UserActsOn DEF database
    <2> QED BY <1>3, <2>2
  <1>5. CASE UNCHANGED vars
    <2>1. UNCHANGED <<reg, work, cur>> /\ fs' = fs
      BY <1>5 DEF vars
    <2>2. \A q \in Port : FilesOf(q)' = FilesOf(q)
      BY <2>1 DEF FilesOf
    <2> QED BY <1>3, <2>1, <2>2
  <1> QED BY <1>1, <1>2, <1>4, <1>5 DEF Next, Crash

\* Nothing is on disk, and nothing is done, at the beginning.
LEMMA InitFiles == Init => Chain /\ FilesRight /\ Taking
  <1> SUFFICES ASSUME Init PROVE Chain /\ FilesRight /\ Taking
    OBVIOUS
  <1>1. \A p \in Proc : cur[p] = Idle /\ callers[p] = <<>>
    BY DEF Init
  <1>2. ASSUME NEW q \in Port PROVE FilesOf(q) = reg_entry_files(reg, q)
    <2>1. \A a \in Path : fs[a] = Empty
      BY DEF Init
    <2>2. \A x \in File : reg.actual[q][x] = NoPath
      BY DEF Init
    <2>3. FilesOf(q) = {}
      BY <2>1, PortImageAssumption DEF FilesOf
    <2>4. reg_entry_files(reg, q) = {}
      BY <2>2 DEF reg_entry_files
    <2> QED BY <2>3, <2>4
  <1>3. FilesRight
    BY <1>1, <1>2 DEF FilesRight
  <1>4. ASSUME NEW p \in Proc PROVE TakingOf(p)
    <2>1. cur[p].pc = "idle" /\ cur[p] = Idle /\ callers[p] = <<>>
      BY <1>1, IdleFrame
    <2>2. \A i \in 1..Len(callers[p]) : FALSE
      BY <2>1, EmptySeq
    <2> QED BY <2>1, <2>2 DEF TakingOf, TodoHomes, ClaimTaking, ReplaceTaking,
      CallerTaking, AsideForced
  <1> QED BY <1>1, <1>3, <1>4 DEF Chain, Taking

\* With the registry lock, while no process dies, no removal of a file fails and
\* every move of a forced activation succeeds: between actions the files of a
\* port on disk are its active files in the registry, whatever -f moved aside,
\* whatever moves failed without it, and whoever was replaced and came back.
THEOREM PortImageFilesFollowRegistry ==
  ASSUME Locking, "crash" \notin Faults, "remove" \notin Faults
  PROVE  Spec /\ [][ForcedMovesSucceed]_vars => []FilesFollowRegistry
  <1>1. Init => Chain /\ FilesRight /\ Taking
    BY InitFiles
  <1>2. FilesRight => FilesFollowRegistry
    <2> SUFFICES ASSUME FilesRight, Quiet, NEW q \in Port
                 PROVE  {a \in Path : fs[a] = q} = reg_entry_files(reg, q)
      BY Zenon DEF FilesFollowRegistry
    <2>1. FilesOf(q) = reg_entry_files(reg, q)
      BY DEF FilesRight
    <2> QED BY <2>1 DEF FilesOf
  <1>3. Ground /\ [Next]_vars => Ground'
    BY NextGround
  <1>4. Ground /\ Chain /\ [Next]_vars => Chain'
    BY NextChain
  <1>5. Ground /\ Chain /\ FilesRight /\ Taking /\ [Next]_vars => FilesRight'
    BY NextFilesRight
  <1>6. Ground /\ Chain /\ FilesRight /\ Taking /\ [Next]_vars /\ [ForcedMovesSucceed]_vars
          => Taking'
    BY NextTaking
  <1> QED BY <1>1, <1>2, <1>3, <1>4, <1>5, <1>6, InitGround, PTL DEF Spec

\* The one step of an action that moves a file of the user moves it to its
\* backup name.
LEMMA UserFileMoves ==
  ASSUME Ground, Chain, FilesRight, Taking, NEW p \in Proc, Step(p),
         NEW a \in Path, fs[a] = User, fs'[a] # User
  PROVE  \E s \in Stamp : fs[Backup(a, s)] # User /\ fs'[Backup(a, s)] = User
  <1> DEFINE me == cur[p].port
  <1>0. /\ TypeOK /\ cur[p] \in Frame /\ me \in Port
        /\ fs \in [Path -> Port \cup {User, Empty}]
        /\ User \notin Port /\ Empty \notin Port /\ User # Empty
    BY StepBusy, PortImageAssumption DEF Ground, TypeOK
  <1>1. CASE ClaimForced(p)
    <2>1. PICK x \in File :
            /\ cur[p].stamp \in Stamp /\ fs[<<x, cur[p].stamp>>] = Empty
            /\ \A b \in Path : fs'[b] = IF b = <<x, cur[p].stamp>> THEN fs[Home(x)]
                                       ELSE IF b = Home(x) THEN Empty ELSE fs[b]
      BY <1>1, ForcedClaim
    <2> DEFINE b == <<x, cur[p].stamp>>
    <2>2. b \in Path
      BY <2>1 DEF Path
    <2>3. a = Home(x)
      BY <1>0, <2>1
    <2>4. fs'[b] = User /\ fs[b] # User
      BY <1>0, <2>1, <2>2, <2>3
    <2>5. Backup(a, cur[p].stamp) = b
      BY <2>3 DEF Backup, Home
    <2> QED BY <2>1, <2>4, <2>5
  <1>2. CASE MoveFile(p)
    <2>1. PICK b \in cur[p].todo : fs[b] = Empty /\ fs' = [fs EXCEPT ![b] = me]
      BY <1>2 DEF MoveFile
    <2> QED BY <1>0, <2>1
  \* What is removed is a file of the port.
  <1>3. CASE Unmove(p) \/ RemoveFile(p)
    <2>1. PICK b \in cur[p].todo : fs' = [fs EXCEPT ![b] = Empty]
      BY <1>3 DEF Unmove, RemoveFile
    <2>2. cur[p].pc \in {"unmove", "removing"} /\ cur[p] # Idle
      BY <1>0, <1>3, IdleFrame DEF Unmove, RemoveFile, At
    <2>3. AsExpected(cur[p])
      BY <2>2 DEF FilesRight
    <2>4. FilesOf(me) = cur[p].todo
      BY <1>0, <2>2, <2>3 DEF AsExpected, Expected
    <2>5. fs[b] = me
      BY <2>1, <2>4 DEF FilesOf
    <2>6. fs'[a] = fs[a]
      BY <1>0, <2>1, <2>5
    <2> QED BY <2>6
  <1>4. CASE Unback(p)
    <2>1. cur[p].pc = "unback" /\ cur[p].backups # {}
      BY <1>4 DEF Unback, At
    <2> QED BY <1>0, <2>1, NothingAside
  <1>5. CASE fs' = fs
    BY <1>5
  <1> QED BY <1>1, <1>2, <1>3, <1>4, <1>5 DEF Step, ActivateCheck, DeactivateOther,
    Extract, StartClaim, ClaimReplaced, ClaimFree, ClaimFails, CommitClaim,
    DeactivateReplaced, StartTake, MoveFails, CommitTake, SetInstalled, UnmoveDone,
    UnbackFails, UnbackDone, Reactivate, Rethrow, DeactivateCheck, StartRelease,
    RemoveFails, CommitRelease, SetImaged, FailsButReached, Retry, Fail

\* Under the same assumptions no step of an action destroys a file of the user:
\* what is removed, or moved over, is always a file of the port itself.
THEOREM PortImageUserFilesKept ==
  ASSUME Locking, "crash" \notin Faults, "remove" \notin Faults
  PROVE  Spec /\ [][ForcedMovesSucceed]_vars => UserFilesKept
  <1> DEFINE Kept == \A a \in Path :
               fs[a] = User /\ fs'[a] # User /\ cur' # cur
                 => \E s \in Stamp : fs[Backup(a, s)] # User /\ fs'[Backup(a, s)] = User
  <1>1. Init => Chain /\ FilesRight /\ Taking
    BY InitFiles
  <1>2. Ground /\ Chain /\ FilesRight /\ Taking /\ [Next]_vars => [Kept]_vars
    <2> SUFFICES ASSUME Ground, Chain, FilesRight, Taking, Next PROVE Kept
      OBVIOUS
    <2>1. ASSUME NEW p \in Proc, Step(p) PROVE Kept
      BY <2>1, UserFileMoves
    <2>2. CASE fs' = fs
      BY <2>2
    <2>3. CASE cur' = cur
      BY <2>3
    <2> QED BY <2>1, <2>2, <2>3 DEF Next, Start, Crash, UserCreates, UserDeletes
  <1>3. Ground /\ [Next]_vars => Ground'
    BY NextGround
  <1>4. Ground /\ Chain /\ [Next]_vars => Chain'
    BY NextChain
  <1>5. Ground /\ Chain /\ FilesRight /\ Taking /\ [Next]_vars => FilesRight'
    BY NextFilesRight
  <1>6. Ground /\ Chain /\ FilesRight /\ Taking /\ [Next]_vars /\ [ForcedMovesSucceed]_vars
          => Taking'
    BY NextTaking
  <1>7. Spec /\ [][ForcedMovesSucceed]_vars => [][Kept]_vars
    <2> HIDE DEF Kept
    <2> QED BY <1>1, <1>2, <1>3, <1>4, <1>5, <1>6, InitGround, PTL DEF Spec
  <1> QED BY <1>7 DEF UserFilesKept
===============================================================================
