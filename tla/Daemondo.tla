------------------------------ MODULE Daemondo ------------------------------
(***************************************************************************)
(* programs/daemondo/main.c: the wrapper that starts a daemon, watches it, *)
(* restarts it on SIGHUP, on a timer armed by system notifications, and    *)
(* stops it on SIGTERM.  One thread runs callbacks from a CoreFoundation   *)
(* run loop; Stop and every synchronous command wait in a nested run of    *)
(* the loop ("ChildWatch" mode) in which only child deaths are delivered.  *)
(* A death may be seen three times: by wait4, by the SIGCHLD message and   *)
(* by the NOTE_EXIT event of the kqueue.                                   *)
(*                                                                         *)
(* The kernel (processes, signals, kqueue) and the run loop are external.  *)
(* Process ids are not used again.                                         *)
(***************************************************************************)
EXTENDS Integers, FiniteSets, Sequences

CONSTANTS
  Pids,      \* bound: the process table; when it is used up fork fails
  MaxHup,    \* bound: SIGHUPs sent to daemondo
  MaxNotes,  \* bound: notifications (store, power, notification centers)
  Options    \* the command lines: subset of [style, stop, restart, pidfile]

\* The styles that read a pid file are given one (port1.0 passes both).
ASSUME DaemondoAssumption ==
  /\ Pids \subseteq Nat \ {0} /\ IsFiniteSet(Pids)
  /\ MaxHup \in Nat /\ MaxNotes \in Nat
  /\ Options \subseteq [style: {"none", "exec", "fileauto", "fileclean"},
                        stop: BOOLEAN, restart: BOOLEAN, pidfile: BOOLEAN]
  /\ \A o \in Options : o.style \in {"fileauto", "fileclean"} => o.pidfile

NoPid == 0        \* runningPid while stopped; an absent pid file
Unknown == -1     \* runningPid when the pid is not known
Stale == -2       \* a pid file left by an earlier run

VARIABLES
  opt,        \* the options of this run
  proc,       \* pid |-> state, kind, whether daemondo is the parent
  killed,     \* processes sent SIGKILL
  watched,    \* processes with a NOTE_EXIT filter in the kqueue
  exits,      \* exit events waiting in the kqueue
  chld,       \* a SIGCHLD message waits in its mach port
  generic,    \* SIGTERM and SIGHUP messages waiting in theirs
  note,       \* a notification waits for its run loop source
  sent,       \* how many signals and notifications were sent (bounds)
  pidFile,    \* content of the pid file
  runningPid, terminating, restartTimer,
  pc,         \* where the thread is
  caller,     \* who called Stop or Start: "main", "term", "restart"
  target,     \* the process WaitChildDeath or MonitorChild is about
  then,       \* what the wait is part of
  pass        \* this pass of the loop: "run", "may" or "must" return

kernel == <<proc, killed, watched, exits, chld, generic, note, sent>>
thread == <<pc, caller, target, then, pass>>
daemondoVars == <<opt, kernel, pidFile, runningPid, terminating, restartTimer, thread>>

Proc == [st: {"free", "run", "zombie", "gone"}, kind: {"daemon", "cmd"},
         child: BOOLEAN]

DaemondoTypes ==
  /\ opt \in Options
  /\ proc \in [Pids -> Proc]
  /\ killed \subseteq Pids /\ watched \subseteq Pids /\ exits \subseteq Pids
  /\ chld \in BOOLEAN /\ note \in BOOLEAN
  /\ generic \in Seq({"TERM", "HUP"})
  /\ sent \in [hup: 0..MaxHup, term: BOOLEAN, notes: 0..MaxNotes]
  /\ pidFile \in Pids \cup {NoPid, Stale}
  /\ ~opt.pidfile => pidFile = NoPid
  /\ runningPid \in Pids \cup {NoPid, Unknown}
  /\ terminating \in BOOLEAN /\ restartTimer \in BOOLEAN
  /\ pc \in {"start", "monitor", "poll", "check", "loop", "wait", "sleep", "exit"}
  /\ caller \in {"main", "term", "restart"}
  /\ target \in Pids \cup {NoPid, Unknown}
  /\ pc = "wait" => target \in Pids
  /\ then \in {"started", "stopped", "stopCmd", "restartCmd"}
  /\ pass \in {"run", "may", "must"}

Running(p) == p \in Pids /\ proc[p].st = "run"
Zombies == {p \in Pids : proc[p].st = "zombie"}

-----------------------------------------------------------------------------
(* Pid files *)

CreatePidFile(p) ==
  pidFile' = IF opt.pidfile /\ opt.style = "exec" /\ p \in Pids THEN p ELSE pidFile

Destroyed ==
  IF opt.pidfile /\ opt.style \in {"exec", "fileclean"} THEN NoPid ELSE pidFile

\* A pid file that holds a number is deleted, whoever the number belongs to.
DeletePreexistingPidFile == pidFile' = IF opt.pidfile THEN NoPid ELSE pidFile

\* kill(pid, 0) finds zombies too.
CheckForValidPidFile ==
  IF pidFile \in Pids /\ proc[pidFile].st \in {"run", "zombie"}
  THEN pidFile ELSE Unknown

(* Deaths *)

UnmonitorChild == runningPid' = NoPid

\* Mutant: the pid file of a dead daemon is left behind.
ProcessChildDeathKeepsFile(dead) ==
  /\ IF runningPid \in dead THEN UnmonitorChild ELSE UNCHANGED runningPid
  /\ UNCHANGED pidFile

\* The daemon is taken for dead if one of dead is the process tracked; the
\* innermost run of the loop is stopped.
ProcessChildDeath(dead) ==
  IF runningPid \in dead
  THEN UnmonitorChild /\ pidFile' = Destroyed
  ELSE UNCHANGED <<runningPid, pidFile>>

Reap(S) == proc' = [p \in Pids |-> IF p \in S THEN [proc[p] EXCEPT !.st = "gone"]
                                              ELSE proc[p]]

\* Mutant: deaths are reaped and nothing more.
CheckChildrenReaps == Reap(Zombies) /\ UNCHANGED <<runningPid, pidFile>>

\* wait4(0, WNOHANG) until no child is left to reap.
CheckChildren == Reap(Zombies) /\ ProcessChildDeath(Zombies)

-----------------------------------------------------------------------------
(* Start, Stop and Restart *)

Go(label) == pc' = label /\ UNCHANGED target
WaitChildDeath(p, what) == pc' = "wait" /\ target' = p /\ then' = what

Free == {p \in Pids : proc[p].st = "free"}

\* fork and execvp of one of the commands.
Exec(p, kind) ==
  /\ p \in Free
  /\ proc' = [proc EXCEPT ![p] = [st |-> "run", kind |-> kind, child |-> TRUE]]

StartReturns(ok) ==
  /\ Go(IF caller = "main" THEN (IF ok THEN "check" ELSE "exit") ELSE "loop")
  /\ UNCHANGED then

Start ==
  /\ pc = "start"
  /\ DeletePreexistingPidFile
  /\ \/ \E p \in Free :
          /\ Exec(p, IF opt.style = "exec" THEN "daemon" ELSE "cmd")
          /\ CASE opt.style = "none" -> WaitChildDeath(p, "started")
               [] opt.style = "exec" -> pc' = "monitor" /\ target' = p /\ UNCHANGED then
               [] OTHER -> Go("poll") /\ UNCHANGED then
     \/ Free = {} /\ StartReturns(FALSE) /\ UNCHANGED proc
  /\ UNCHANGED <<opt, killed, watched, exits, chld, generic, note, sent, runningPid,
                 terminating, restartTimer, caller, pass>>

\* WaitForValidPidFile: sleep(1) until the file names a process or 30 s pass.
WaitForValidPidFile ==
  /\ pc = "poll"
  /\ IF CheckForValidPidFile = Unknown
     THEN StartReturns(FALSE)
     ELSE pc' = "monitor" /\ target' = CheckForValidPidFile /\ UNCHANGED then
  /\ UNCHANGED <<opt, kernel, pidFile, runningPid, terminating, restartTimer, caller, pass>>

\* The filter cannot be attached to a process that has exited already.
MonitorChild ==
  /\ pc = "monitor"
  /\ runningPid' = target
  /\ watched' = IF Running(target) THEN watched \cup {target} ELSE watched
  /\ CreatePidFile(target)
  /\ StartReturns(TRUE)
  /\ UNCHANGED <<opt, proc, killed, exits, chld, generic, note, sent, terminating,
                 restartTimer, caller, pass>>

\* What follows Stop: its status is ignored by every caller.
StopReturns(by) == Go(IF by = "restart" THEN "sleep" ELSE "loop") /\ UNCHANGED then

Stop(by) ==
  /\ caller' = by
  /\ IF opt.stop
     THEN \/ \E p \in Free : Exec(p, "cmd") /\ WaitChildDeath(p, "stopCmd")
          \/ Free = {} /\ StopReturns(by) /\ UNCHANGED proc
     ELSE /\ UNCHANGED proc          \* SIGTERM: the process may die of it
          /\ IF runningPid \in Pids
             THEN WaitChildDeath(runningPid, "stopped")
             ELSE StopReturns(by)

Restart ==
  IF opt.restart
  THEN /\ caller' = "restart"
       /\ \/ \E p \in Free : Exec(p, "cmd") /\ WaitChildDeath(p, "restartCmd")
          \/ Free = {} /\ Go("loop") /\ UNCHANGED <<then, proc>>
  ELSE Stop("restart")

\* sleep(restartWait), then Start.
SleepEnds ==
  /\ pc = "sleep" /\ Go("start")
  /\ UNCHANGED <<opt, kernel, pidFile, runningPid, terminating, restartTimer,
                 caller, then, pass>>

-----------------------------------------------------------------------------
(* WaitChildDeath *)

\* Mutant: the wait is given up when patience runs out.
WaitOverSoon == TRUE

\* The process can be waited for no more: reaped here, reaped by CheckChildren
\* before, or not a child of daemondo (wait4 answers -1).
WaitOver == \/ proc[target].st \in {"zombie", "gone"}
            \/ ~proc[target].child

\* wait4 returns, ProcessChildDeath is called outside the nested run, so it
\* stops the outer one; then the caller goes on.
WaitReturns ==
  /\ pc = "wait" /\ WaitOver
  /\ Reap({target} \cap Zombies)
  /\ IF then = "stopCmd"
     THEN UnmonitorChild /\ pidFile' = Destroyed
     ELSE IF then = "started"
          THEN runningPid' = Unknown /\ UNCHANGED pidFile
          ELSE ProcessChildDeath({target})
  /\ pass' = IF target = runningPid THEN "must" ELSE pass
  /\ CASE then = "started" -> StartReturns(TRUE)
       [] then \in {"stopped", "stopCmd"} -> StopReturns(caller)
       [] then = "restartCmd" -> Go("loop") /\ UNCHANGED then
  /\ UNCHANGED <<opt, killed, watched, exits, chld, generic, note, sent,
                 terminating, restartTimer, caller>>

\* Mutant: the wait goes on without SIGKILL.
InfanticideWaits == pc = "wait" /\ ~WaitOver /\ UNCHANGED daemondoVars

\* No patience left: SIGKILL.
Infanticide ==
  /\ pc = "wait" /\ ~WaitOver
  /\ killed' = killed \cup {target}
  /\ UNCHANGED <<opt, proc, watched, exits, chld, generic, note, sent, pidFile, runningPid,
                 terminating, restartTimer, thread>>

-----------------------------------------------------------------------------
(* Run loop callbacks *)

\* Either mode delivers deaths; in the nested mode only those.
Listening == pc \in {"loop", "wait"} /\ (pc = "loop" => pass # "must")
Handled == pass' = IF pc = "loop" THEN "must" ELSE pass

SigChld ==
  /\ Listening /\ chld
  /\ chld' = FALSE
  /\ CheckChildren /\ Handled
  /\ UNCHANGED <<opt, killed, watched, exits, generic, note, sent, terminating,
                 restartTimer, pc, caller, target, then>>

\* The kqueue's source is served first in a pass, and one more source or timer
\* may be served in the same pass.
KQueueCallBack(p) ==
  /\ Listening /\ p \in exits
  /\ pc = "loop" => pass = "run"
  /\ exits' = exits \ {p}
  /\ ProcessChildDeath({p})
  /\ pass' = IF pc = "loop" THEN "may" ELSE pass
  /\ UNCHANGED <<opt, proc, killed, watched, chld, generic, note, sent, terminating,
                 restartTimer, pc, caller, target, then>>

InDefaultMode == pc = "loop" /\ pass # "must"

SignalCallback ==
  /\ InDefaultMode /\ generic # <<>>
  /\ generic' = Tail(generic)
  /\ pass' = "must"
  /\ IF terminating
     THEN UNCHANGED <<terminating, proc, caller, pc, target, then>>
     ELSE IF Head(generic) = "TERM"
          THEN terminating' = TRUE /\ Stop("term")
          ELSE UNCHANGED terminating /\ Restart
  /\ UNCHANGED <<opt, killed, watched, exits, chld, note, sent, pidFile, runningPid,
                 restartTimer>>

\* DynamicStoreChanged, NotificationCenterCallback and PowerCallBack: a timer
\* that is armed already is replaced.
ScheduleDelayedRestart ==
  /\ InDefaultMode /\ note
  /\ note' = FALSE /\ restartTimer' = TRUE /\ pass' = "must"
  /\ UNCHANGED <<opt, proc, killed, watched, exits, chld, generic, sent, pidFile, runningPid,
                 terminating, pc, caller, target, then>>

\* A timer is not a source: the run goes on after its callback.
ScheduledRestartCallback ==
  /\ InDefaultMode /\ restartTimer
  /\ restartTimer' = FALSE
  /\ pass' = IF pass = "may" THEN "must" ELSE pass
  /\ Restart
  /\ UNCHANGED <<opt, killed, watched, exits, chld, generic, note, sent, pidFile, runningPid,
                 terminating>>

RunLoopReturns ==
  /\ pc = "loop" /\ pass # "run" /\ Go("check")
  /\ UNCHANGED <<opt, kernel, pidFile, runningPid, terminating, restartTimer,
                 caller, then, pass>>

\* while (status == 0 && !terminating && MonitoringChild())
MainLoop ==
  /\ pc = "check"
  /\ Go(IF terminating \/ runningPid = NoPid THEN "exit" ELSE "loop")
  /\ pass' = "run"
  /\ UNCHANGED <<opt, kernel, pidFile, runningPid, terminating, restartTimer,
                 caller, then>>

-----------------------------------------------------------------------------
(* The rest of the system *)

\* A process exits, by itself or from a signal.  A child stays a zombie until
\* daemondo reaps it.  A daemon may remove its own pid file.
Dies(p) ==
  /\ Running(p)
  /\ proc' = [proc EXCEPT ![p].st = IF proc[p].child THEN "zombie" ELSE "gone"]
  /\ exits' = IF p \in watched THEN exits \cup {p} ELSE exits
  /\ watched' = watched \ {p}
  /\ chld' = (chld \/ proc[p].child)
  /\ IF opt.style = "fileauto" /\ pidFile = p
     THEN pidFile' \in {pidFile, NoPid} ELSE UNCHANGED pidFile
  /\ UNCHANGED <<opt, killed, generic, note, sent, runningPid, terminating, restartTimer,
                 thread>>

\* In the file styles start-cmd forks the daemon, which writes the pid file.
Daemonises(p, q) ==
  /\ pc = "poll" /\ opt.style \in {"fileauto", "fileclean"}
  /\ Running(p) /\ proc[p].kind = "cmd" /\ q \in Free
  /\ proc' = [proc EXCEPT ![q] = [st |-> "run", kind |-> "daemon", child |-> FALSE]]
  /\ pidFile' = q
  /\ UNCHANGED <<opt, killed, watched, exits, chld, generic, note, sent, runningPid,
                 terminating, restartTimer, thread>>

\* The handlers put a mach message into the port's queue.
Signalled(sig) ==
  /\ pc # "exit"
  /\ generic' = Append(generic, sig)
  /\ \/ sig = "HUP" /\ sent.hup < MaxHup /\ sent' = [sent EXCEPT !.hup = @ + 1]
     \/ sig = "TERM" /\ ~sent.term /\ sent' = [sent EXCEPT !.term = TRUE]
  /\ UNCHANGED <<opt, proc, killed, watched, exits, chld, note, pidFile, runningPid,
                 terminating, restartTimer, thread>>

Notified ==
  /\ pc # "exit" /\ ~note /\ sent.notes < MaxNotes
  /\ note' = TRUE /\ sent' = [sent EXCEPT !.notes = @ + 1]
  /\ UNCHANGED <<opt, proc, killed, watched, exits, chld, generic, pidFile, runningPid,
                 terminating, restartTimer, thread>>

-----------------------------------------------------------------------------
DaemondoInit ==
  /\ opt \in Options
  /\ proc = [p \in Pids |-> [st |-> "free", kind |-> "cmd", child |-> FALSE]]
  /\ killed = {} /\ watched = {} /\ exits = {} /\ chld = FALSE
  /\ generic = <<>> /\ note = FALSE
  /\ sent = [hup |-> 0, term |-> FALSE, notes |-> 0]
  /\ pidFile \in IF opt.pidfile THEN {NoPid, Stale} ELSE {NoPid}
  /\ runningPid = NoPid /\ terminating = FALSE /\ restartTimer = FALSE
  /\ pc = "start" /\ caller = "main" /\ target = NoPid
  /\ then = "started" /\ pass = "run"

Callback == \/ SigChld \/ \E p \in Pids : KQueueCallBack(p)
            \/ SignalCallback \/ ScheduleDelayedRestart \/ ScheduledRestartCallback

Thread == \/ Start \/ WaitForValidPidFile \/ MonitorChild \/ SleepEnds
          \/ WaitReturns \/ Infanticide \/ RunLoopReturns \/ MainLoop
          \/ Callback

World == \/ \E p \in Pids : Dies(p)
         \/ \E p, q \in Pids : Daemonises(p, q)
         \/ \E sig \in {"TERM", "HUP"} : Signalled(sig)
         \/ Notified

Exited == pc = "exit" /\ (\A p \in Pids : ~Running(p)) /\ UNCHANGED daemondoVars

DaemondoNext == Thread \/ World \/ Exited

\* daemondo's thread is scheduled, so time-outs come and a callback that is due
\* is run; no process survives SIGKILL.
DaemondoFairness ==
  /\ WF_daemondoVars(Thread)
  /\ \A p \in Pids : WF_daemondoVars(p \in killed /\ Dies(p))

DaemondoSpec == DaemondoInit /\ [][DaemondoNext]_daemondoVars /\ DaemondoFairness

-----------------------------------------------------------------------------
(* Properties *)

\* The simple set-up: daemondo starts the daemon and tracks its process id.
Tracked == opt.style = "exec" /\ ~opt.stop

\* daemondo runs one daemon: Stop has waited for the death of the old one
\* (main.c:630) before Start runs the new one, whatever the order in which
\* wait4, SIGCHLD and the kqueue report the deaths.
OneDaemon ==
  Tracked => \A p \in Pids : Running(p) /\ proc[p].kind = "daemon"
                               => p = runningPid \/ (pc = "monitor" /\ p = target)

\* daemondo does not exit under a daemon it tracks, and leaves no pid file
\* behind (main.c:435, main.c:1037).
ExitLeavesNothing ==
  Tracked /\ pc = "exit" =>
    /\ \A p \in Pids : Running(p) => proc[p].kind # "daemon"
    /\ opt.pidfile => pidFile = NoPid

\* "daemondo exits on receipt of SIGTERM" (main.c:218), even if the daemon, the
\* stop-cmd or the start-cmd never ends by itself: every wait has a time-out.
TermExits == (sent.term /\ pc # "exit") ~> (pc = "exit")

Unseen == opt.style = "exec" /\ runningPid \in Pids /\ ~Running(runningPid)

\* "daemondo exits ... when it detects that the daemon process has died", or
\* has it replaced: it does not go on tracking a dead child (main.c:218).
DeathIsSeen == Unseen ~> (~Unseen \/ pc = "exit")
=============================================================================
