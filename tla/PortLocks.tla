------------------------------- MODULE PortLocks -------------------------------
(***************************************************************************)
(* The two advisory locks that keep port(1) processes apart: the exclusive *)
(* registry lock (registry::exclusive_lock, counted so that its holder may *)
(* take it again) and the lock on the state file of a port's work          *)
(* directory (open_statefile).                                             *)
(*                                                                         *)
(* A process executes the commands of its command line or, when it is      *)
(* interactive, those it reads at its prompt. What it is in the middle of  *)
(* is a stack of frames: the action, mportexec's dependency phases         *)
(* (sections) and the targets of a port, each within the one below it.     *)
(***************************************************************************)
EXTENDS Naturals, Sequences, FiniteSets

CONSTANTS
  Proc,         \* port processes
  Port,         \* ports, each with a work directory
  Registry,     \* the registry's lock file
  Deps,         \* Deps[q]: the ports that q depends on, directly or not
  Words,        \* kinds of action words that are used, see Kind
  Interactive,  \* processes that read commands at a prompt
  MaxCommands,  \* commands on a command line
  MaxWork,      \* sections and targets that one action enters
  MaxLeft,      \* an interactive process whose count reached this only exits
  NoProc,       \* nobody
  NoFile        \* no lock file

(***************************************************************************)
(* "listed": activate, deactivate, install, upgrade ..., spelled out.      *)
(* "other":  an action that modifies the registry too, but whose word is   *)
(*           not in lock_reg_if_needed's list: archive, rev-upgrade, and   *)
(*           the abbreviation of a listed word.                            *)
(* "build":  fetch ... destroot, pkg.                                      *)
(* "mpkg":   as build; its last target runs mportexec on other ports.      *)
(***************************************************************************)
Kind == {"listed", "other", "build", "mpkg"}
LockFile == Port \cup {Registry}

ASSUME PortLocksAssumption ==
  /\ Registry \notin Port
  /\ NoProc \notin Proc
  /\ NoFile \notin LockFile
  /\ Deps \in [Port -> SUBSET Port]
  /\ \A q \in Port : q \notin Deps[q]
  /\ Words \subseteq Kind
  /\ Interactive \subseteq Proc
  /\ MaxCommands \in Nat /\ MaxWork \in Nat /\ MaxLeft \in Nat

VARIABLES
  holder,   \* holder[l]: the process that has flock()ed lock file l
  waits,    \* waits[p]: the lock file that p waits for in flock()
  nlocked,  \* nlocked[p]: registry::nlocked
  locked,   \* locked[p]: process_cmd's variable: this action took the lock
  pc,       \* pc[p]: what process_cmd is doing
  word,     \* word[p]: the kind of the action's word
  stack,    \* stack[p]: the frames of p, innermost last
  work,     \* work[p]: sections and targets that the action has entered
  left      \* left[p]: commands left on the command line

vars == <<holder, waits, nlocked, locked, pc, word, stack, work, left>>

Frame == [kind : {"action", "section", "target", "mpkg"}, port : Port]

Init ==
  /\ holder = [l \in LockFile |-> NoProc]
  /\ waits = [p \in Proc |-> NoFile]
  /\ nlocked = [p \in Proc |-> 0]
  /\ locked = [p \in Proc |-> FALSE]
  /\ pc = [p \in Proc |-> "prompt"]
  /\ word = [p \in Proc |-> "build"]
  /\ stack = [p \in Proc |-> <<>>]
  /\ work = [p \in Proc |-> 0]
  /\ left = [p \in Proc |-> MaxCommands]

Runs(p, state) == pc[p] = state /\ waits[p] = NoFile
Top(p) == stack[p][Len(stack[p])]
Push(p, kind, q) == stack' = [stack EXCEPT ![p] = Append(@, [kind |-> kind, port |-> q])]
Pop(p) == stack' = [stack EXCEPT ![p] = SubSeq(@, 1, Len(@) - 1)]

Flock(p, l) == waits' = [waits EXCEPT ![p] = l] /\ UNCHANGED holder
Funlock(p, l) ==
  holder' = IF holder[l] = p THEN [holder EXCEPT ![l] = NoProc] ELSE holder

-------------------------------------------------------------------------------
(* registry::exclusive_lock and registry::exclusive_unlock *)

exclusive_lock(p) ==
  /\ nlocked' = [nlocked EXCEPT ![p] = @ + 1]
  /\ IF nlocked[p] > 0 THEN UNCHANGED <<holder, waits>> ELSE Flock(p, Registry)

\* Mutants: the first unlock releases the lock; the last one keeps it.
exclusive_unlockFirst(p) ==
  /\ nlocked' = [nlocked EXCEPT ![p] = @ - 1]
  /\ Funlock(p, Registry)

exclusive_unlockNever(p) ==
  /\ nlocked' = [nlocked EXCEPT ![p] = @ - 1]
  /\ IF nlocked[p] > 0 THEN UNCHANGED holder ELSE Funlock(p, Registry)

exclusive_unlock(p) ==
  /\ nlocked' = [nlocked EXCEPT ![p] = @ - 1]
  /\ IF nlocked[p] > 1 THEN UNCHANGED holder ELSE Funlock(p, Registry)

\* The kernel gives the lock to a process that waits for it in flock().
Grant(p) ==
  /\ waits[p] # NoFile
  /\ holder[waits[p]] = NoProc
  /\ holder' = [holder EXCEPT ![waits[p]] = p]
  /\ waits' = [waits EXCEPT ![p] = NoFile]
  /\ UNCHANGED <<nlocked, locked, pc, word, stack, work, left>>

-------------------------------------------------------------------------------
(* process_cmd *)

\* lock_reg_if_needed looks at the word as it was typed, before it is resolved.
Begin(p, k, q) ==
  /\ Runs(p, "prompt")
  /\ left[p] > 0
  /\ nlocked[p] < MaxLeft
  /\ pc' = [pc EXCEPT ![p] = "parse"]
  /\ word' = [word EXCEPT ![p] = k]
  /\ locked' = [locked EXCEPT ![p] = k = "listed"]
  /\ IF k = "listed" THEN exclusive_lock(p)
     ELSE UNCHANGED <<holder, waits, nlocked>>
  /\ Push(p, "action", q)
  /\ work' = [work EXCEPT ![p] = 0]
  /\ left' = [left EXCEPT ![p] = IF p \in Interactive THEN @ ELSE @ - 1]

Parse(p) ==
  /\ Runs(p, "parse")
  /\ pc' = [pc EXCEPT ![p] = "run"]
  /\ UNCHANGED <<holder, waits, nlocked, locked, word, stack, work, left>>

\* An unknown action, a bad option or a bad port expression: break.
ParseFails(p) ==
  /\ Runs(p, "parse")
  /\ pc' = [pc EXCEPT ![p] = "prompt"]
  /\ locked' = [locked EXCEPT ![p] = FALSE]
  /\ stack' = [stack EXCEPT ![p] = <<>>]
  /\ left' = [left EXCEPT ![p] = IF p \in Interactive THEN @ ELSE 0]
  /\ UNCHANGED <<holder, waits, nlocked, word, work>>

\* Mutant: unlock whether or not this action locked.
EndActionUnlocks(p) ==
  /\ Runs(p, "run")
  /\ Top(p).kind = "action"
  /\ exclusive_unlock(p)
  /\ Pop(p)
  /\ pc' = [pc EXCEPT ![p] = "prompt"]
  /\ locked' = [locked EXCEPT ![p] = FALSE]
  /\ UNCHANGED <<waits, word, work, left>>

EndAction(p) ==
  /\ Runs(p, "run")
  /\ Top(p).kind = "action"
  /\ IF locked[p] THEN exclusive_unlock(p) ELSE UNCHANGED <<holder, nlocked>>
  /\ Pop(p)
  /\ pc' = [pc EXCEPT ![p] = "prompt"]
  /\ locked' = [locked EXCEPT ![p] = FALSE]
  /\ UNCHANGED <<waits, word, work, left>>

\* The process ends, or is killed: the kernel drops its locks, and another
\* process may take its place.
Exit(p) ==
  /\ holder' = [l \in LockFile |-> IF holder[l] = p THEN NoProc ELSE holder[l]]
  /\ waits' = [waits EXCEPT ![p] = NoFile]
  /\ nlocked' = [nlocked EXCEPT ![p] = 0]
  /\ locked' = [locked EXCEPT ![p] = FALSE]
  /\ pc' = [pc EXCEPT ![p] = "prompt"]
  /\ word' = [word EXCEPT ![p] = "build"]
  /\ stack' = [stack EXCEPT ![p] = <<>>]
  /\ work' = [work EXCEPT ![p] = 0]
  /\ left' = [left EXCEPT ![p] = MaxCommands]

-------------------------------------------------------------------------------
(* mportexec and target_run *)

\* The ports that a frame may run mportexec or targets on: an action its port,
\* a section the dependencies; mpkg does not package its own port again.
Within(f) ==
  CASE f.kind = "action" -> {f.port}
    [] f.kind \in {"section", "mpkg"} -> Deps[f.port]
    [] f.kind = "target" -> {}

\* Mutant: what was evaluated stays in the dependency list.
MayEnterAgain(p, q) ==
  /\ Runs(p, "run")
  /\ q \in Within(Top(p))
  /\ work[p] < MaxWork
  /\ UNCHANGED work

\* A list of targets or dependencies is finite: each entry is evaluated once.
MayEnter(p, q) ==
  /\ Runs(p, "run")
  /\ q \in Within(Top(p))
  /\ work[p] < MaxWork
  /\ work' = [work EXCEPT ![p] = @ + 1]

\* mportexec locks the registry while it installs the port's dependencies ...
EnterSection(p, q) ==
  /\ MayEnter(p, q)
  /\ Push(p, "section", q)
  /\ exclusive_lock(p)
  /\ UNCHANGED <<locked, pc, word, left>>

LeaveSection(p) ==
  /\ Runs(p, "run")
  /\ Top(p).kind = "section"
  /\ Pop(p)
  /\ exclusive_unlock(p)
  /\ UNCHANGED <<waits, locked, pc, word, work, left>>

\* ... and forgets to unlock it when mportdepends fails or an error is thrown.
LeakSection(p) ==
  /\ Runs(p, "run")
  /\ Top(p).kind = "section"
  /\ Pop(p)
  /\ UNCHANGED <<holder, waits, nlocked, locked, pc, word, work, left>>

\* target_run keeps the state file of its port locked while the target runs.
OpenState(p, q) ==
  /\ MayEnter(p, q)
  /\ \/ Push(p, "target", q)
     \/ word[p] = "mpkg" /\ Top(p).kind = "action" /\ Push(p, "mpkg", q)
  /\ Flock(p, q)
  /\ UNCHANGED <<nlocked, locked, pc, word, left>>

\* Mutant: the channel of the state file is not closed.
CloseStateForgets(p) ==
  /\ Runs(p, "run")
  /\ Top(p).kind \in {"target", "mpkg"}
  /\ Pop(p)
  /\ UNCHANGED <<holder, waits, nlocked, locked, pc, word, work, left>>

CloseState(p) ==
  /\ Runs(p, "run")
  /\ Top(p).kind \in {"target", "mpkg"}
  /\ Funlock(p, Top(p).port)
  /\ Pop(p)
  /\ UNCHANGED <<waits, nlocked, locked, pc, word, work, left>>

\* unarchive_finish replaces the state file: it unlocks and locks it again.
Reopen(p) ==
  /\ Runs(p, "run")
  /\ Top(p).kind = "target"
  /\ work[p] < MaxWork
  /\ work' = [work EXCEPT ![p] = @ + 1]
  /\ Funlock(p, Top(p).port)
  /\ waits' = [waits EXCEPT ![p] = Top(p).port]
  /\ UNCHANGED <<nlocked, locked, pc, word, stack, left>>

-------------------------------------------------------------------------------
Step(p) ==
  \/ Grant(p) \/ Parse(p) \/ ParseFails(p) \/ EndAction(p)
  \/ \E q \in Port : EnterSection(p, q) \/ OpenState(p, q)
  \/ LeaveSection(p) \/ LeakSection(p) \/ CloseState(p) \/ Reopen(p)

Next ==
  \E p \in Proc :
    \/ \E k \in Words, q \in Port : Begin(p, k, q)
    \/ Step(p)
    \/ Exit(p)

Spec == Init /\ [][Next]_vars

\* A process that is not interactive goes on to its next command or ends.
GoesOn(p) ==
  /\ p \notin Interactive
  /\ pc[p] = "prompt"
  /\ left[p] < MaxCommands
  /\ Exit(p) \/ \E k \in Words, q \in Port : Begin(p, k, q)

\* Processes are scheduled, and the kernel's queue of a lock file starves nobody.
FairSpec ==
  /\ Spec
  /\ \A p \in Proc : WF_vars(Step(p)) /\ SF_vars(Grant(p)) /\ WF_vars(GoesOn(p))

-------------------------------------------------------------------------------
(* Properties *)

\* The count of nested locks is never negative: exclusive_unlock is not called
\* more often than exclusive_lock, about which it would warn.
TypeOK ==
  /\ holder \in [LockFile -> Proc \cup {NoProc}]
  /\ waits \in [Proc -> LockFile \cup {NoFile}]
  /\ nlocked \in [Proc -> Nat]
  /\ locked \in [Proc -> BOOLEAN]
  /\ pc \in [Proc -> {"prompt", "parse", "run"}]
  /\ word \in [Proc -> Kind]
  /\ stack \in [Proc -> Seq(Frame)]
  /\ work \in [Proc -> 0..MaxWork]
  /\ left \in [Proc -> 0..MaxCommands]

Open(p, kind) == {i \in 1..Len(stack[p]) : stack[p][i].kind = kind}

\* The process is between an exclusive_lock and the unlock that matches it.
NeedsRegistry(p) == waits[p] # Registry /\ (locked[p] \/ Open(p, "section") # {})

\* An action that took the registry lock, and a dependency phase, have it until
\* they end: a nested exclusive_unlock never takes it away from them.
LockedWhileNeeded == \A p \in Proc : NeedsRegistry(p) => holder[Registry] = p

\* registry::nlocked tells the truth: it is positive exactly when the process
\* has the file lock or is waiting for it, and counts every lock still needed.
CountIsTrue ==
  \A p \in Proc :
    /\ holder[Registry] = p \/ waits[p] = Registry <=> nlocked[p] > 0
    /\ nlocked[p] >= Cardinality(Open(p, "section")) + (IF locked[p] THEN 1 ELSE 0)

\* A set of processes each of which waits for another of the set.
Deadlocked(S) ==
  S # {} /\ \A p \in S : waits[p] # NoFile /\ holder[waits[p]] \in S

\* The registry lock is taken before any state file's, except by the mpkg
\* target: without one, processes never wait for each other in a circle.
DeadlockNeedsMpkg ==
  \A S \in SUBSET Proc : Deadlocked(S) => \E p \in S : Open(p, "mpkg") # {}

\* A process in flock() gets the lock or is killed, unless an interactive
\* process went back to its prompt with it, or there is a deadlock.
KeptAtPrompt == \E p \in Interactive : pc[p] = "prompt" /\ holder[Registry] = p

Served ==
  \A p \in Proc :
    waits[p] # NoFile ~>
      waits[p] = NoFile \/ KeptAtPrompt \/ \E S \in SUBSET Proc : Deadlocked(S)

\* registry.tcl: "release exclusive lock on registry, do this when done writing
\* to it": a process that waits for its user's next command does not have it.
PromptReleases == ~KeptAtPrompt

\* registry.tcl: "acquire exclusive lock on registry, do this before modifying
\* it": an action that modifies the registry runs with the lock.
ModifiesLocked ==
  \A p \in Proc :
    Runs(p, "run") /\ word[p] \in {"listed", "other"} => holder[Registry] = p
===============================================================================
