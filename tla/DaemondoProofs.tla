---------------------------- MODULE DaemondoProofs ----------------------------
(***************************************************************************)
(* Proofs about Daemondo for every process table, every set of command     *)
(* lines and any number of signals and notifications.                      *)
(*                                                                         *)
(* One daemon at a time is not inductive as it stands: it holds because    *)
(* nothing is tracked between Stop and MonitorChild (Starts), because what *)
(* daemondo waits for is the process that it tracks (Waits), because exit  *)
(* events are about processes that have exited (EventsAreTrue), and        *)
(* because SIGTERM leads to the exit without another callback (Ends).      *)
(***************************************************************************)
EXTENDS Daemondo, TLAPS

-------------------------------------------------------------------------------
(* Types *)

\* The whole process table after a fork.
LEMMA ExecTypes ==
  ASSUME proc \in [Pids -> Proc], NEW p \in Pids, NEW kind \in {"daemon", "cmd"},
         Exec(p, kind)
  PROVE  proc' \in [Pids -> Proc]
  BY DEF Exec, Proc

\* Reaping keeps kinds and parents.
LEMMA ReapTypes ==
  ASSUME proc \in [Pids -> Proc], NEW S, Reap(S)
  PROVE  /\ proc' \in [Pids -> Proc]
         /\ \A p \in Pids :
              /\ proc'[p].kind = proc[p].kind
              /\ proc'[p].child = proc[p].child
              /\ proc'[p].st = IF p \in S THEN "gone" ELSE proc[p].st
  BY DEF Reap, Proc

\* What is done about a death touches nothing but the process tracked and its
\* pid file, which exists only where an option asks for one.
LEMMA DeathTypes ==
  ASSUME DaemondoTypes, UNCHANGED opt, NEW dead, ProcessChildDeath(dead)
  PROVE  /\ runningPid' \in Pids \cup {NoPid, Unknown}
         /\ pidFile' \in Pids \cup {NoPid, Stale}
         /\ ~opt'.pidfile => pidFile' = NoPid
  BY DEF DaemondoTypes, ProcessChildDeath, UnmonitorChild, Destroyed

\* A fork, or the return to the caller of Start, leaves the thread at a place
\* that is known.
LEMMA StopTypes ==
  ASSUME DaemondoTypes, NEW by \in {"term", "restart"}, Stop(by)
  PROVE  /\ proc' \in [Pids -> Proc]
         /\ pc' \in {"wait", "sleep", "loop"}
         /\ caller' \in {"main", "term", "restart"}
         /\ target' \in Pids \cup {NoPid, Unknown}
         /\ pc' = "wait" => target' \in Pids
         /\ then' \in {"started", "stopped", "stopCmd", "restartCmd"}
  <1> USE DEF DaemondoTypes
  <1>1. CASE opt.stop /\ \E p \in Free : Exec(p, "cmd") /\ WaitChildDeath(p, "stopCmd")
    <2>1. PICK p \in Free : Exec(p, "cmd") /\ WaitChildDeath(p, "stopCmd")
      BY <1>1
    <2> QED BY <1>1, <2>1, ExecTypes DEF Stop, Free, WaitChildDeath
  <1>2. CASE opt.stop /\ ~ \E p \in Free : Exec(p, "cmd") /\ WaitChildDeath(p, "stopCmd")
    BY <1>2 DEF Stop, StopReturns, Go
  <1>3. CASE ~opt.stop
    BY <1>3 DEF Stop, StopReturns, Go, WaitChildDeath
  <1> QED BY <1>1, <1>2, <1>3

\* Restart runs the restart-cmd or is Stop.
LEMMA RestartTypes ==
  ASSUME DaemondoTypes, Restart
  PROVE  /\ proc' \in [Pids -> Proc]
         /\ pc' \in {"wait", "sleep", "loop"}
         /\ caller' \in {"main", "term", "restart"}
         /\ target' \in Pids \cup {NoPid, Unknown}
         /\ pc' = "wait" => target' \in Pids
         /\ then' \in {"started", "stopped", "stopCmd", "restartCmd"}
  <1>1. CASE opt.restart /\ \E p \in Free : Exec(p, "cmd") /\ WaitChildDeath(p, "restartCmd")
    <2>1. PICK p \in Free : Exec(p, "cmd") /\ WaitChildDeath(p, "restartCmd")
      BY <1>1
    <2> QED BY <1>1, <2>1, ExecTypes DEF DaemondoTypes, Restart, Free, WaitChildDeath
  <1>2. CASE opt.restart /\ ~ \E p \in Free : Exec(p, "cmd") /\ WaitChildDeath(p, "restartCmd")
    BY <1>2 DEF DaemondoTypes, Restart, Go
  <1>3. CASE ~opt.restart
    BY <1>3, StopTypes DEF Restart
  <1> QED BY <1>1, <1>2, <1>3

\* The process table is free, nothing is tracked.
LEMMA InitTypes == DaemondoInit => DaemondoTypes
  <1> SUFFICES ASSUME DaemondoInit PROVE DaemondoTypes
    OBVIOUS
  <1>1. proc \in [Pids -> Proc]
    BY DEF DaemondoInit, Proc
  <1>2. sent \in [hup: 0..MaxHup, term: BOOLEAN, notes: 0..MaxNotes]
    BY DaemondoAssumption DEF DaemondoInit
  <1>3. generic \in Seq({"TERM", "HUP"})
    BY DEF DaemondoInit
  <1> QED BY <1>1, <1>2, <1>3 DEF DaemondoInit, DaemondoTypes

\* Every callback, every return from a wait and every step of the rest of the
\* system keeps the types.
LEMMA NextTypes ==
  ASSUME DaemondoTypes, [DaemondoNext]_daemondoVars
  PROVE  DaemondoTypes'
  <1> USE DEF DaemondoTypes
  <1>1. CASE Start
    <2>1. /\ pidFile' \in Pids \cup {NoPid, Stale}
          /\ ~opt'.pidfile => pidFile' = NoPid
      BY <1>1 DEF Start, DeletePreexistingPidFile
    <2>2. CASE Free = {} /\ StartReturns(FALSE) /\ UNCHANGED proc
      BY <1>1, <2>1, <2>2 DEF Start, StartReturns, Go
    <2>3. CASE \E p \in Free :
                 /\ Exec(p, IF opt.style = "exec" THEN "daemon" ELSE "cmd")
                 /\ CASE opt.style = "none" -> WaitChildDeath(p, "started")
                      [] opt.style = "exec" ->
                           pc' = "monitor" /\ target' = p /\ UNCHANGED then
                      [] OTHER -> Go("poll") /\ UNCHANGED then
      <3>1. PICK p \in Free :
                 /\ Exec(p, IF opt.style = "exec" THEN "daemon" ELSE "cmd")
                 /\ CASE opt.style = "none" -> WaitChildDeath(p, "started")
                      [] opt.style = "exec" ->
                           pc' = "monitor" /\ target' = p /\ UNCHANGED then
                      [] OTHER -> Go("poll") /\ UNCHANGED then
        BY <2>3
      <3>2. p \in Pids
        BY DEF Free
      <3>3. proc' \in [Pids -> Proc]
        BY <3>1, <3>2, ExecTypes
      <3>4. /\ pc' \in {"wait", "monitor", "poll"}
            /\ target' \in Pids \cup {NoPid, Unknown}
            /\ pc' = "wait" => target' \in Pids
            /\ then' \in {"started", "stopped", "stopCmd", "restartCmd"}
        BY <3>1, <3>2 DEF WaitChildDeath, Go
      <3> QED BY <1>1, <2>1, <3>3, <3>4 DEF Start
    <2> QED BY <1>1, <2>2, <2>3 DEF Start
  <1>2. CASE WaitForValidPidFile
    <2>1. CheckForValidPidFile \in Pids \cup {Unknown}
      BY DEF CheckForValidPidFile
    <2> QED BY <1>2, <2>1 DEF WaitForValidPidFile, StartReturns, Go, kernel
  <1>3. CASE MonitorChild
    <2>1. /\ pidFile' \in Pids \cup {NoPid, Stale}
          /\ ~opt'.pidfile => pidFile' = NoPid
      BY <1>3 DEF MonitorChild, CreatePidFile
    <2>2. watched' \subseteq Pids
      BY <1>3 DEF MonitorChild, Running
    <2> QED BY <1>3, <2>1, <2>2 DEF MonitorChild, StartReturns, Go
  <1>4. CASE SleepEnds
    BY <1>4 DEF SleepEnds, Go, kernel
  <1>5. CASE WaitReturns
    <2>1. proc' \in [Pids -> Proc]
      BY <1>5, ReapTypes DEF WaitReturns
    <2>2. /\ runningPid' \in Pids \cup {NoPid, Unknown}
          /\ pidFile' \in Pids \cup {NoPid, Stale}
          /\ ~opt'.pidfile => pidFile' = NoPid
      <3>1. UNCHANGED opt
        BY <1>5 DEF WaitReturns
      <3>2. CASE then = "stopCmd"
        BY <1>5, <3>1, <3>2 DEF WaitReturns, UnmonitorChild, Destroyed
      <3>3. CASE then = "started"
        BY <1>5, <3>1, <3>3 DEF WaitReturns
      <3>4. CASE then \notin {"stopCmd", "started"}
        BY <1>5, <3>1, <3>4, DeathTypes DEF WaitReturns
      <3> QED BY <3>2, <3>3, <3>4
    <2>3. /\ pc' \in {"check", "sleep", "loop"}
          /\ UNCHANGED <<target, then>>
      BY <1>5 DEF WaitReturns, StartReturns, StopReturns, Go
    <2>4. pass' \in {"run", "may", "must"}
      BY <1>5 DEF WaitReturns
    <2> QED BY <1>5, <2>1, <2>2, <2>3, <2>4 DEF WaitReturns
  <1>6. CASE Infanticide
    <2>1. pc = "wait" /\ killed' = killed \cup {target}
      BY <1>6 DEF Infanticide
    <2> QED BY <1>6, <2>1 DEF Infanticide, thread
  <1>7. CASE RunLoopReturns
    BY <1>7 DEF RunLoopReturns, Go, kernel
  <1>8. CASE MainLoop
    BY <1>8 DEF MainLoop, Go, kernel
  <1>9. CASE SigChld
    <2>1. proc' \in [Pids -> Proc]
      BY <1>9, ReapTypes DEF SigChld, CheckChildren
    <2>2. UNCHANGED opt /\ ProcessChildDeath(Zombies)
      BY <1>9 DEF SigChld, CheckChildren
    <2>3. chld' \in BOOLEAN /\ note' \in BOOLEAN /\ terminating' \in BOOLEAN
      BY <1>9 DEF SigChld
    <2>4. restartTimer' \in BOOLEAN
      BY <1>9 DEF SigChld
    <2> QED BY <1>9, <2>1, <2>2, <2>3, <2>4, DeathTypes DEF SigChld, Handled
  <1>10. ASSUME NEW p \in Pids, KQueueCallBack(p) PROVE DaemondoTypes'
    <2>1. UNCHANGED opt /\ ProcessChildDeath({p})
      BY <1>10 DEF KQueueCallBack
    <2> QED BY <1>10, <2>1, DeathTypes DEF KQueueCallBack
  <1>11. CASE SignalCallback
    <2>1. generic' \in Seq({"TERM", "HUP"})
      BY <1>11 DEF SignalCallback
    <2>2. CASE terminating
      BY <1>11, <2>1, <2>2 DEF SignalCallback
    <2>3. CASE ~terminating /\ Head(generic) = "TERM"
      <3>1. terminating' /\ Stop("term")
        BY <1>11, <2>3 DEF SignalCallback
      <3> QED BY <1>11, <2>1, <3>1, StopTypes DEF SignalCallback
    <2>4. CASE ~terminating /\ Head(generic) # "TERM"
      <3>1. UNCHANGED terminating /\ Restart
        BY <1>11, <2>4 DEF SignalCallback
      <3> QED BY <1>11, <2>1, <3>1, RestartTypes DEF SignalCallback
    <2> QED BY <2>2, <2>3, <2>4
  <1>12. CASE ScheduleDelayedRestart
    <2>1. note' \in BOOLEAN /\ restartTimer' \in BOOLEAN
      BY <1>12 DEF ScheduleDelayedRestart
    <2>2. chld' \in BOOLEAN /\ terminating' \in BOOLEAN
      BY <1>12 DEF ScheduleDelayedRestart
    <2> QED BY <1>12, <2>1, <2>2 DEF ScheduleDelayedRestart
  <1>13. CASE ScheduledRestartCallback
    BY <1>13, RestartTypes DEF ScheduledRestartCallback
  <1>14. ASSUME NEW p \in Pids, Dies(p) PROVE DaemondoTypes'
    <2>1. proc' \in [Pids -> Proc]
      BY <1>14 DEF Dies, Proc
    <2>2. pidFile' \in {pidFile, NoPid}
      BY <1>14 DEF Dies
    <2>3. exits' \subseteq Pids /\ watched' \subseteq Pids /\ chld' \in BOOLEAN
      <3>1. proc[p] \in Proc
        OBVIOUS
      <3> QED BY <1>14, <3>1 DEF Dies, Proc
    <2> QED BY <1>14, <2>1, <2>2, <2>3 DEF Dies, thread
  <1>15. ASSUME NEW p \in Pids, NEW q \in Pids, Daemonises(p, q) PROVE DaemondoTypes'
    <2>1. proc' \in [Pids -> Proc]
      BY <1>15 DEF Daemonises, Proc
    <2>2. opt.pidfile
      BY <1>15, DaemondoAssumption DEF Daemonises
    <2> QED BY <1>15, <2>1, <2>2 DEF Daemonises, thread
  <1>16. ASSUME NEW sig \in {"TERM", "HUP"}, Signalled(sig) PROVE DaemondoTypes'
    <2>1. sent' \in [hup: 0..MaxHup, term: BOOLEAN, notes: 0..MaxNotes]
      <3>1. /\ sent.hup \in 0..MaxHup
            /\ sent.term \in BOOLEAN
            /\ MaxHup \in Nat
        BY DaemondoAssumption
      <3>2. CASE sent.hup < MaxHup /\ sent' = [sent EXCEPT !.hup = @ + 1]
        BY <3>1, <3>2
      <3>3. CASE sent' = [sent EXCEPT !.term = TRUE]
        BY <3>3
      <3> QED BY <1>16, <3>2, <3>3 DEF Signalled
    <2>2. generic' \in Seq({"TERM", "HUP"})
      BY <1>16 DEF Signalled
    <2>3. UNCHANGED <<chld, note, terminating, restartTimer>>
      BY <1>16 DEF Signalled
    <2> QED BY <1>16, <2>1, <2>2, <2>3 DEF Signalled, thread
  <1>17. CASE Notified
    <2>1. sent' \in [hup: 0..MaxHup, term: BOOLEAN, notes: 0..MaxNotes]
      BY <1>17, DaemondoAssumption DEF Notified
    <2> QED BY <1>17, <2>1 DEF Notified, thread
  <1>18. CASE UNCHANGED daemondoVars
    BY <1>18 DEF daemondoVars, kernel, thread
  <1> QED BY <1>1, <1>2, <1>3, <1>4, <1>5, <1>6, <1>7, <1>8, <1>9, <1>10, <1>11, <1>12,
             <1>13, <1>14, <1>15, <1>16, <1>17, <1>18
          DEF DaemondoNext, Thread, Callback, World, Exited
-------------------------------------------------------------------------------
(* One daemon *)

\* The facts that follow are about the simple set-up, Tracked: style exec, no
\* stop-cmd.

Daemon(p) == Running(p) /\ proc[p].kind = "daemon"

\* What has exited stays so: an exit event is never about a process that runs.
EventsAreTrue == \A p \in exits : proc[p].st \in {"zombie", "gone"}

\* Every process is a child, so that each wait ends with the death that it is
\* for; nothing is waited for but a daemon that is stopped and a restart-cmd.
Waits ==
  /\ pc # "poll"
  /\ runningPid # Unknown
  /\ runningPid \in Pids => proc[runningPid].st # "free"
  /\ \A p \in Pids : proc[p].st # "free" => proc[p].child
  /\ pc = "wait" =>
       /\ proc[target].st # "free"
       /\ then \in {"stopped", "restartCmd"}
       /\ then = "stopped" => runningPid \in {target, NoPid}

\* Between Stop and MonitorChild nothing is tracked.
Starts ==
  /\ pc \in {"start", "sleep", "monitor"} => runningPid = NoPid /\ ~terminating
  /\ pc = "monitor" => target \in Pids /\ proc[target].st # "free"

\* SIGTERM leads from Stop to the exit without another callback.
Ends ==
  /\ terminating =>
       \/ pc = "wait" /\ then = "stopped" /\ caller = "term" /\ pass = "must"
       \/ /\ pc \in {"loop", "check", "exit"} /\ runningPid = NoPid
          /\ pc = "loop" => pass = "must"
  /\ pc = "exit" => runningPid = NoPid

\* The pid file is there while a daemon is tracked.
Files == opt.pidfile /\ runningPid = NoPid /\ pc # "start" => pidFile = NoPid

Steady == Waits /\ Starts /\ Ends /\ Files /\ OneDaemon

IInv == DaemondoTypes /\ EventsAreTrue /\ (Tracked => Steady)

Dead(p) == p \in Pids /\ proc[p].st \in {"zombie", "gone"}

\* A process that was forked keeps its kind and its parent, and once it has
\* exited it does not run again.
Ages ==
  \A p \in Pids : proc[p].st # "free" =>
    /\ proc'[p].st # "free"
    /\ proc'[p].kind = proc[p].kind
    /\ proc'[p].child = proc[p].child
    /\ Dead(p) => proc'[p].st \in {"zombie", "gone"}

\* A fork takes a process id that was free.
LEMMA ExecAges ==
  ASSUME DaemondoTypes, NEW p \in Free, NEW kind, Exec(p, kind)
  PROVE  Ages
  BY DEF Exec, Free, Ages, Dead, DaemondoTypes

\* Only zombies are reaped.
LEMMA ReapAges ==
  ASSUME DaemondoTypes, NEW S \in SUBSET Zombies, Reap(S)
  PROVE  Ages
  BY ReapTypes DEF DaemondoTypes, Ages, Dead, Zombies

\* Stop and Restart fork at most one command.
LEMMA RestartAges ==
  ASSUME DaemondoTypes,
         Restart \/ Stop("term")
  PROVE  Ages
  <1>1. CASE \E p \in Free : \E kind : Exec(p, kind)
    BY <1>1, ExecAges
  <1>2. CASE UNCHANGED proc
    BY <1>2 DEF Ages, Dead
  <1> QED BY <1>1, <1>2 DEF Restart, Stop

\* In every step all processes age, and what becomes an exit event has exited.
LEMMA NextAges ==
  ASSUME DaemondoTypes, [DaemondoNext]_daemondoVars
  PROVE  /\ Ages
         /\ \A p \in exits' \ exits : p \in Pids /\ proc'[p].st \in {"zombie", "gone"}
  <1> DEFINE Same == UNCHANGED <<proc, exits>>
  <1>1. CASE Same
    BY <1>1 DEF Ages, Dead
  <1>2. CASE Start
    <2>1. CASE UNCHANGED proc
      BY <1>1, <1>2, <2>1 DEF Start
    <2>2. CASE \E p \in Free : Exec(p, IF opt.style = "exec" THEN "daemon" ELSE "cmd")
      BY <1>2, <2>2, ExecAges DEF Start
    <2> QED BY <1>2, <2>1, <2>2 DEF Start
  <1>3. CASE WaitReturns
    <2>1. {target} \cap Zombies \in SUBSET Zombies
      OBVIOUS
    <2> QED BY <1>3, <2>1, ReapAges DEF WaitReturns
  <1>4. CASE SigChld
    BY <1>4, ReapAges DEF SigChld, CheckChildren
  <1>5. CASE SignalCallback
    <2>1. CASE UNCHANGED proc
      BY <1>1, <1>5, <2>1 DEF SignalCallback
    <2>2. CASE Restart \/ Stop("term")
      BY <1>5, <2>2, RestartAges DEF SignalCallback
    <2> QED BY <1>5, <2>1, <2>2 DEF SignalCallback
  <1>6. CASE ScheduledRestartCallback
    BY <1>6, RestartAges DEF ScheduledRestartCallback
  <1>7. ASSUME NEW p \in Pids, Dies(p)
        PROVE  /\ Ages
               /\ \A q \in exits' \ exits : q = p /\ proc'[p].st \in {"zombie", "gone"}
    <2>1. Ages
      BY <1>7 DEF Dies, Running, Ages, Dead, DaemondoTypes
    <2>2. proc'[p].st \in {"zombie", "gone"}
      BY <1>7 DEF Dies, DaemondoTypes
    <2>3. exits' \subseteq exits \cup {p}
      BY <1>7 DEF Dies
    <2> QED BY <2>1, <2>2, <2>3
  <1>8. ASSUME NEW p \in Pids, NEW q \in Pids, Daemonises(p, q)
        PROVE  Ages /\ UNCHANGED exits
    BY <1>8 DEF Daemonises, Free, Ages, Dead, DaemondoTypes
  <1>9. ASSUME NEW p \in Pids, KQueueCallBack(p)
        PROVE  Ages /\ exits' \subseteq exits
    BY <1>9 DEF KQueueCallBack, Ages, Dead
  <1>10. WaitForValidPidFile \/ MonitorChild \/ SleepEnds \/ RunLoopReturns \/ MainLoop => Same
    BY DEF WaitForValidPidFile, MonitorChild, SleepEnds, RunLoopReturns, MainLoop, kernel
  <1>11. Infanticide \/ ScheduleDelayedRestart \/ Notified \/ Exited => Same
    BY DEF Infanticide, ScheduleDelayedRestart, Notified, Exited, daemondoVars, kernel
  <1>12. ASSUME NEW sig, Signalled(sig) PROVE Same
    BY <1>12 DEF Signalled
  <1>13. UNCHANGED daemondoVars => Same
    BY DEF daemondoVars, kernel
  <1> HIDE DEF Same
  <1> QED BY <1>1, <1>2, <1>3, <1>4, <1>5, <1>6, <1>7, <1>8, <1>9, <1>10, <1>11, <1>12, <1>13
          DEF DaemondoNext, Thread, Callback, World

\* An exit event stays true until it is handled.
LEMMA EventsStayTrue ==
  ASSUME DaemondoTypes, DaemondoTypes', EventsAreTrue, [DaemondoNext]_daemondoVars
  PROVE  EventsAreTrue'
  BY NextAges DEF EventsAreTrue, Ages, Dead, DaemondoTypes

\* Nobody who runs is taken for dead.
LEMMA DeathIsTrue ==
  ASSUME DaemondoTypes, NEW dead, \A p \in dead : ~Running(p),
         ProcessChildDeath(dead), UNCHANGED opt,
         Tracked, Files, pc # "start" \/ pc' = "start"
  PROVE  /\ runningPid' \in {runningPid, NoPid}
         /\ Running(runningPid) => runningPid' = runningPid
         /\ Files'
  BY DEF ProcessChildDeath, UnmonitorChild, Destroyed, Files, Tracked, DaemondoTypes

\* Stop waits for the process that is tracked, if there is one.
LEMMA TrackedStop ==
  ASSUME Tracked, NEW by, Stop(by), DaemondoTypes, Steady
  PROVE  /\ UNCHANGED proc
         /\ caller' = by
         /\ \/ /\ pc' = "wait" /\ target' = runningPid /\ then' = "stopped"
               /\ runningPid \in Pids
            \/ /\ pc' = IF by = "restart" THEN "sleep" ELSE "loop"
               /\ runningPid = NoPid
  BY DEF Tracked, Stop, WaitChildDeath, StopReturns, Go, DaemondoTypes, Steady, Waits

\* Restart stops the daemon, or runs a command that does.
LEMMA TrackedRestart ==
  ASSUME Tracked, Restart, pc = "loop", ~terminating, UNCHANGED <<opt, runningPid, pidFile>>,
         ~terminating', DaemondoTypes, DaemondoTypes', Steady, Ages
  PROVE  Steady'
  <1>1. CASE opt.restart /\ \E p \in Free : Exec(p, "cmd") /\ WaitChildDeath(p, "restartCmd")
    <2>1. PICK p \in Free : Exec(p, "cmd") /\ WaitChildDeath(p, "restartCmd")
      BY <1>1
    <2>2. /\ p \in Pids /\ proc'[p] = [st |-> "run", kind |-> "cmd", child |-> TRUE]
          /\ \A q \in Pids \ {p} : proc'[q] = proc[q]
      BY <2>1 DEF Exec, Free, DaemondoTypes
    <2>3. pc' = "wait" /\ target' = p /\ then' = "restartCmd"
      BY <2>1 DEF WaitChildDeath
    <2>4. Waits'
      BY <2>2, <2>3 DEF Waits, Steady
    <2>5. OneDaemon'
      BY <2>2, <2>3 DEF OneDaemon, Steady, Running, Tracked
    <2> QED BY <2>3, <2>4, <2>5 DEF Steady, Starts, Ends, Files
  <1>2. CASE UNCHANGED proc /\ pc' = "loop"
    BY <1>2 DEF Steady, Waits, Starts, Ends, Files, OneDaemon, Running, Tracked
  <1>3. CASE Stop("restart")
    <2>1. /\ UNCHANGED proc
          /\ \/ /\ pc' = "wait" /\ target' = runningPid /\ then' = "stopped"
                /\ runningPid \in Pids
             \/ pc' = "sleep" /\ runningPid = NoPid
      BY <1>3, TrackedStop
    <2>2. Waits'
      BY <2>1 DEF Steady, Waits, OneDaemon, DaemondoTypes
    <2> QED BY <2>1, <2>2 DEF Steady, Waits, Starts, Ends, Files, OneDaemon, Running,
                 Tracked
  <1> QED BY <1>1, <1>2, <1>3 DEF Restart, Go

\* What any step but a fork does to the processes.
NoFork ==
  \A p \in Pids : /\ proc'[p].st # "free" => proc[p].st # "free"
                  /\ proc'[p].st = "run" => proc[p].st = "run"
                  /\ proc'[p].kind = proc[p].kind

\* daemondo starts with nothing to look after.
LEMMA InitIsSteady == DaemondoInit => IInv
  <1> SUFFICES ASSUME DaemondoInit PROVE IInv
    OBVIOUS
  <1>1. DaemondoTypes
    BY InitTypes
  <1>2. EventsAreTrue
    BY DEF DaemondoInit, EventsAreTrue
  <1>3. Waits /\ Starts /\ Ends /\ Files
    BY DaemondoAssumption DEF DaemondoInit, Waits, Starts, Ends, Files, NoPid, Unknown
  <1>4. OneDaemon
    BY DEF DaemondoInit, OneDaemon, Running
  <1> QED BY <1>1, <1>2, <1>3, <1>4 DEF IInv, Steady

\* Each step keeps the invariant; it only has to be shown for the simple set-up.
LEMMA StaysSteady ==
  ASSUME IInv, [DaemondoNext]_daemondoVars
  PROVE  IInv'
  <1>1. DaemondoTypes /\ DaemondoTypes' /\ EventsAreTrue' /\ Ages
    BY NextTypes, NextAges, EventsStayTrue DEF IInv
  <1> SUFFICES ASSUME Tracked' PROVE Steady'
    BY <1>1 DEF IInv
  <1>opt. UNCHANGED opt
    BY DEF DaemondoNext, Thread, Callback, World, Exited, Start, WaitForValidPidFile,
           MonitorChild, SleepEnds, WaitReturns, Infanticide, RunLoopReturns, MainLoop, SigChld,
           KQueueCallBack, SignalCallback, ScheduleDelayedRestart, ScheduledRestartCallback,
           Dies, Daemonises, Signalled, Notified, daemondoVars
  <1>2. Tracked /\ Tracked' /\ Steady /\ Waits /\ Starts /\ Ends /\ Files /\ OneDaemon
    BY <1>opt DEF Tracked, IInv, Steady
  <1>pid. NoPid \notin Pids /\ Unknown \notin Pids /\ NoPid # Unknown
    BY DaemondoAssumption DEF NoPid, Unknown
  <1>3. \A p \in Zombies : ~Running(p)
    BY DEF Zombies, Running
  <1>4. CASE Start
    <2>1. /\ pc = "start" /\ runningPid = NoPid /\ ~terminating
          /\ UNCHANGED <<runningPid, terminating, caller, pass>>
          /\ pidFile' = IF opt.pidfile THEN NoPid ELSE pidFile
      BY <1>2, <1>4 DEF Start, DeletePreexistingPidFile, Starts
    <2>2. CASE UNCHANGED proc /\ StartReturns(FALSE)
      <3>1. pc' \in {"exit", "loop"}
        BY <2>2 DEF StartReturns, Go
      <3>2. Waits' /\ Starts' /\ Ends' /\ Files'
        BY <1>opt, <1>2, <2>1, <2>2, <3>1 DEF Waits, Starts, Ends, Files
      <3>3. OneDaemon'
        BY <1>2, <2>1, <2>2, <3>1 DEF OneDaemon, Running
      <3> QED BY <3>2, <3>3 DEF Steady
    <2>3. ASSUME NEW p \in Free, Exec(p, "daemon"), pc' = "monitor", target' = p
          PROVE  Steady'
      <3>1. /\ p \in Pids /\ proc'[p] = [st |-> "run", kind |-> "daemon", child |-> TRUE]
            /\ \A q \in Pids \ {p} : proc'[q] = proc[q]
        BY <1>1, <2>3 DEF Exec, Free, DaemondoTypes
      <3>3. Waits' /\ Starts' /\ Ends' /\ Files'
        BY <1>opt, <1>2, <2>1, <1>pid, <2>3, <3>1 DEF Waits, Starts, Ends, Files
      <3>4. OneDaemon'
        BY <1>2, <1>pid, <2>1, <2>3, <3>1 DEF OneDaemon, Running
      <3> QED BY <3>3, <3>4 DEF Steady
    <2> QED BY <1>2, <1>4, <2>2, <2>3 DEF Start, Tracked
  <1>5. CASE WaitForValidPidFile
    BY <1>2, <1>5 DEF WaitForValidPidFile, Waits
  <1>6. CASE MonitorChild
    <2>1. /\ runningPid' = target /\ target \in Pids /\ proc[target].st # "free"
          /\ UNCHANGED <<proc, terminating>> /\ ~terminating
          /\ pc' \in {"check", "loop"} /\ runningPid = NoPid
      BY <1>2, <1>6 DEF MonitorChild, StartReturns, Go, Starts
    <2>3. Waits' /\ Starts' /\ Ends' /\ Files'
      BY <1>1, <1>2, <1>pid, <2>1 DEF Waits, Starts, Ends, Files, DaemondoTypes
    <2>4. OneDaemon'
      BY <1>2, <1>pid, <2>1 DEF OneDaemon, Running
    <2> QED BY <2>3, <2>4 DEF Steady
  <1>7. CASE SleepEnds
    BY <1>2, <1>7 DEF SleepEnds, Go, kernel, Steady, Waits, Starts, Ends, Files,
         OneDaemon, Running
  <1>8. CASE WaitReturns
    <2>1. /\ proc[target].st # "free" /\ target \in Pids /\ proc[target].child
          /\ then \in {"stopped", "restartCmd"}
          /\ then = "stopped" => runningPid \in {target, NoPid}
      BY <1>1, <1>2, <1>8 DEF WaitReturns, Waits, DaemondoTypes
    <2>2. ~Running(target)
      BY <2>1, <1>8 DEF WaitReturns, WaitOver, Running
    <2>3. ProcessChildDeath({target})
      BY <2>1, <1>8 DEF WaitReturns
    <2>4. /\ runningPid' \in {runningPid, NoPid}
          /\ Running(runningPid) => runningPid' = runningPid
          /\ Files'
      BY <1>1, <1>2, <1>opt, <1>8, <2>2, <2>3, DeathIsTrue DEF WaitReturns
    <2>5. then = "stopped" => runningPid' = NoPid
      BY <2>1, <2>3 DEF ProcessChildDeath, UnmonitorChild
    <2>6. /\ pc' = IF then = "stopped" /\ caller = "restart" THEN "sleep" ELSE "loop"
          /\ UNCHANGED <<target, terminating>>
      BY <2>1, <1>8 DEF WaitReturns, StopReturns, Go
    <2>n. NoFork
      BY <1>1, <1>8, ReapTypes DEF WaitReturns, NoFork, Zombies, DaemondoTypes
    <2>7. Waits'
      BY <1>1, <1>2, <1>pid, <2>4, <2>6, <2>n DEF Waits, Ages, NoFork, DaemondoTypes
    <2>8. terminating => caller = "term" /\ then = "stopped" /\ pass = "must"
      BY <1>2, <1>8 DEF WaitReturns, Ends
    <2>9. Starts' /\ Ends'
      BY <2>5, <2>6, <2>8, <1>8 DEF WaitReturns, Starts, Ends
    <2>11. OneDaemon'
      BY <1>2, <1>8, <2>4, <2>n DEF WaitReturns, OneDaemon, Running, NoFork
    <2> QED BY <2>4, <2>7, <2>9, <2>11 DEF Steady
  <1>9. CASE Infanticide
    BY <1>2, <1>9 DEF Infanticide, thread, Steady, Waits, Starts, Ends, Files, OneDaemon,
         Running
  <1>10. CASE RunLoopReturns
    BY <1>2, <1>10 DEF RunLoopReturns, Go, kernel, Steady, Waits, Starts, Ends, Files,
         OneDaemon, Running
  <1>11. CASE MainLoop
    BY <1>2, <1>11 DEF MainLoop, Go, kernel, Steady, Waits, Starts, Ends, Files,
         OneDaemon, Running
  <1>12. ASSUME NEW dead, \A p \in dead : ~Running(p), ProcessChildDeath(dead), Listening,
                UNCHANGED <<terminating, pc, caller, target, then>>,
                pass' = pass \/ (pc = "loop" /\ ~terminating) \/ pass' = "must",
                NoFork
         PROVE  Steady'
    <2>1. /\ runningPid' \in {runningPid, NoPid}
          /\ Running(runningPid) => runningPid' = runningPid
          /\ Files'
      BY <1>1, <1>2, <1>opt, <1>12, DeathIsTrue DEF Listening
    <2>2. Waits'
      BY <1>1, <1>2, <1>pid, <1>12, <2>1 DEF Waits, Ages, NoFork, DaemondoTypes
    <2>3. Starts' /\ Ends'
      BY <1>1, <1>2, <1>12, <2>1 DEF Listening, Starts, Ends
    <2>4. OneDaemon'
      BY <1>2, <1>12, <2>1 DEF OneDaemon, Running, NoFork, Tracked
    <2> QED BY <2>1, <2>2, <2>3, <2>4 DEF Steady
  <1>13. CASE SigChld
    <2>1. NoFork
      BY <1>1, <1>13, ReapTypes DEF SigChld, CheckChildren, NoFork, Zombies, DaemondoTypes
    <2> QED BY <1>3, <1>12, <1>13, <2>1 DEF SigChld, CheckChildren, Handled
  <1>14. ASSUME NEW p \in Pids, KQueueCallBack(p) PROVE Steady'
    <2>1. ~Running(p)
      BY <1>14 DEF KQueueCallBack, IInv, EventsAreTrue, Running
    <2>2. pc = "loop" => ~terminating
      BY <1>2, <1>14 DEF KQueueCallBack, Ends
    <2>3. NoFork
      BY <1>14 DEF KQueueCallBack, NoFork
    <2> QED BY <1>12, <1>14, <2>1, <2>2, <2>3 DEF KQueueCallBack
  <1>15. CASE SignalCallback
    <2>1. /\ UNCHANGED <<opt, pidFile, runningPid>>
          /\ pass' = "must" /\ pc = "loop" /\ pass # "must"
      BY <1>15 DEF SignalCallback, InDefaultMode
    <2>2. ~terminating
      BY <1>2, <2>1 DEF Ends
    <2>3. CASE terminating' = TRUE /\ Stop("term")
      <3>1. /\ UNCHANGED proc
            /\ caller' = "term"
            /\ \/ /\ pc' = "wait" /\ target' = runningPid /\ then' = "stopped"
                  /\ runningPid \in Pids
               \/ pc' = "loop" /\ runningPid = NoPid
        BY <1>1, <1>2, <2>3, TrackedStop
      <3>2. Waits'
        BY <1>1, <1>2, <2>1, <3>1 DEF Waits, DaemondoTypes
      <3>3. Starts' /\ Ends' /\ Files'
        BY <1>2, <2>1, <3>1 DEF Starts, Ends, Files
      <3>4. OneDaemon'
        BY <1>2, <2>1, <3>1 DEF OneDaemon, Running
      <3> QED BY <3>2, <3>3, <3>4 DEF Steady
    <2>4. CASE UNCHANGED terminating /\ Restart
      BY <1>1, <1>2, <2>1, <2>2, <2>4, TrackedRestart
    <2> QED BY <1>15, <2>2, <2>3, <2>4 DEF SignalCallback
  <1>16. CASE ScheduleDelayedRestart
    BY <1>2, <1>16 DEF ScheduleDelayedRestart, InDefaultMode, Steady, Waits, Starts,
         Ends, Files,
                       OneDaemon, Running
  <1>17. CASE ScheduledRestartCallback
    <2>1. UNCHANGED <<opt, pidFile, runningPid, terminating>> /\ pc = "loop" /\ pass # "must"
      BY <1>17 DEF ScheduledRestartCallback, InDefaultMode
    <2>2. ~terminating
      BY <1>2, <2>1 DEF Ends
    <2> QED BY <1>1, <1>2, <1>17, <2>1, <2>2, TrackedRestart DEF ScheduledRestartCallback
  <1>18. ASSUME NEW p \in Pids, Dies(p) PROVE Steady'
    <2>1. UNCHANGED <<pidFile, runningPid, terminating, pc, caller, target, then, pass>>
      BY <1>2, <1>18 DEF Dies, thread, Tracked
    <2>2. NoFork
      BY <1>1, <1>18 DEF Dies, Running, NoFork, DaemondoTypes
    <2>3. Waits'
      BY <1>1, <1>2, <2>1, <2>2 DEF Waits, Ages, NoFork, DaemondoTypes
    <2>4. Starts' /\ Ends' /\ Files'
      BY <1>1, <1>2, <1>opt, <2>1 DEF Starts, Ends, Files, Ages
    <2>5. OneDaemon'
      BY <1>2, <2>1, <2>2 DEF OneDaemon, Running, NoFork
    <2> QED BY <2>3, <2>4, <2>5 DEF Steady
  <1>19. ASSUME NEW p \in Pids, NEW q \in Pids, Daemonises(p, q) PROVE Steady'
    BY <1>2, <1>19 DEF Daemonises, Tracked
  <1>20. ASSUME NEW sig, Signalled(sig) PROVE Steady'
    BY <1>2, <1>20 DEF Signalled, thread, Steady, Waits, Starts, Ends, Files, OneDaemon,
         Running
  <1>21. CASE Notified
    BY <1>2, <1>21 DEF Notified, thread, Steady, Waits, Starts, Ends, Files, OneDaemon,
         Running
  <1>22. CASE UNCHANGED daemondoVars
    BY <1>2, <1>22 DEF daemondoVars, kernel, thread, Steady, Waits, Starts, Ends, Files,
         OneDaemon, Running
  <1> QED BY <1>4, <1>5, <1>6, <1>7, <1>8, <1>9, <1>10, <1>11, <1>13, <1>14, <1>15, <1>16,
             <1>17, <1>18, <1>19, <1>20, <1>21, <1>22
          DEF DaemondoNext, Thread, Callback, World, Exited

-------------------------------------------------------------------------------
(* The theorems *)

\* The state of daemondo is well typed, for every process table, every set of
\* command lines and any number of signals.
THEOREM DaemondoTypeOK == DaemondoSpec => []DaemondoTypes
  <1>1. DaemondoInit => DaemondoTypes
    BY InitTypes
  <1>2. DaemondoTypes /\ [DaemondoNext]_daemondoVars => DaemondoTypes'
    BY NextTypes
  <1> QED BY <1>1, <1>2, PTL DEF DaemondoSpec

\* daemondo, told to run a daemon and to stop it with signals, never runs a
\* second one while the first lives, in whatever order its death is reported
\* (Stop, main.c:630; ProcessChildDeath and CheckChildren).
THEOREM DaemondoOneDaemon == DaemondoSpec => []OneDaemon
  <1>1. DaemondoInit => IInv
    BY InitIsSteady
  <1>2. IInv /\ [DaemondoNext]_daemondoVars => IInv'
    BY StaysSteady
  <1>3. IInv => OneDaemon
    BY DEF IInv, Steady, OneDaemon
  <1> QED BY <1>1, <1>2, <1>3, PTL DEF DaemondoSpec

\* When it exits, on SIGTERM or because its daemon died, no daemon runs and the
\* pid file is gone (main.c:435, main.c:1037).
THEOREM DaemondoExitLeavesNothing == DaemondoSpec => []ExitLeavesNothing
  <1>1. DaemondoInit => IInv
    BY InitIsSteady
  <1>2. IInv /\ [DaemondoNext]_daemondoVars => IInv'
    BY StaysSteady
  <1>3. IInv => ExitLeavesNothing
    BY DaemondoAssumption
       DEF IInv, Steady, OneDaemon, Ends, Files, ExitLeavesNothing, NoPid
  <1> QED BY <1>1, <1>2, <1>3, PTL DEF DaemondoSpec
===============================================================================
