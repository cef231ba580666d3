-------------------------------- MODULE Trace --------------------------------
(***************************************************************************)
(* Trace mode: the server in the port process (pextlib1.0/tracelib.c, run  *)
(* by a slave thread that port1.0/porttrace.tcl creates for each target)   *)
(* and the library loaded into every program that the target runs          *)
(* (darwintracelib1.0/darwintrace.c), which asks the server over a socket  *)
(* what the program may touch.                                             *)
(*                                                                         *)
(* Programs are single threaded; they fork, exec, and use descriptors.     *)
(* A path stands for the files that the same rule and the same registry    *)
(* row decide.  The kernel and the programs are external.                  *)
(***************************************************************************)
EXTENDS Integers, Sequences, FiniteSets, FiniteSetsExt, SequencesExt

CONSTANTS
  Client,      \* processes under trace
  Conn,        \* bound: connections at one time
  Buffer,      \* bound: lines a connection holds before send blocks
  Fd,          \* bound: descriptors of a process above stderr
  Path,
  Programs,    \* the paths that are executed
  Under,       \* root directory |-> the paths that begin with it
  Sandbox,     \* the roots of trace_sandboxbounds, a sequence
  System,      \* the roots appended after the prefix, a sequence
  Owner,       \* path |-> the port that file_registered answers, or NoPort
  Missing,     \* paths where there is no file
  Plans        \* the sequences of targets, each with fence, and deps or NoDeps,
               \* that one process runs under trace

\* The targets that the plans are made of.
Targets == UNION {Range(plan) : plan \in Plans}

ASSUME TraceAssumption ==
  /\ Fd \subseteq Nat /\ Buffer \in Nat /\ Missing \subseteq Path /\ Programs \subseteq Path
  /\ \A r \in DOMAIN Under : Under[r] \subseteq Path
  /\ {"prefix", "root"} \subseteq DOMAIN Under /\ Under["root"] = Path
  /\ {Sandbox, System} \subseteq Seq(DOMAIN Under)
  /\ Plans # {} /\ Plans \subseteq Seq(Targets) /\ \A t \in Targets : t.fence \in BOOLEAN
  /\ "none" \notin Client /\ "own" \notin Conn

NoPort == "none"
NoDeps == {"none"}     \* depends = NULL
NoMap == <<>>          \* filemap = NULL
NoFd == -2             \* __darwintrace_fd
NotSetUp == "none"        \* __darwintrace_pid = -1
NoLog == 0             \* __env_darwintrace_log = NULL
NoPath == "none"
FreeConn == "free"
Own == "own"           \* a descriptor that is free, or a file of the program's

VARIABLES
  master,      \* the port process: "idle", "running" a target, "check"
  sessions,    \* the targets run so far; the last is the current one
  cleanuping, sock, run, fence, filemap, depends,   \* tracelib.c
  crashed,     \* the port process has crashed
  conn,        \* connection |-> its state, what is sent up and down
  table,       \* client |-> its descriptors
  lib,         \* client |-> the library's pid, fd, filemap and log, the target whose
               \* socket its program was told of
  client       \* client |-> where it is, the path it asks for, its target

server == <<cleanuping, sock, run, fence, filemap, depends, crashed>>
port == <<master, sessions, server>>
process == <<table, lib>>
vars == <<port, conn, process, client>>

Acts == {"allow", "ask"}
Rules == [root: DOMAIN Under, act: Acts]
Asking == {"askMap", "askDep", "askExec"}
Judged == {"allowed", "denied", "exec"}
Live == {"run", "decide"} \cup Asking \cup Judged

Refs(k) == {c \in Client : \E n \in Fd : table[c][n] = k}
Channel(c) == table[c][lib[c].fd]

\* The library's descriptor is its own connection to the server, whatever the
\* program does with its descriptors; nobody else has it open but children
\* that have not called the library yet.
TypeOK ==
  /\ master \in {"idle", "running", "check"}
  /\ \E plan \in Plans : IsPrefix(sessions, plan)
  /\ run \in {"none", "running", "ended"}
  /\ {cleanuping, sock, fence, crashed} \subseteq BOOLEAN
  /\ filemap \in Seq(Rules)
  /\ \A k \in Conn : conn[k].st \in {FreeConn, "pending", "accepted", "closed"}
  /\ \A c \in Client :
       /\ client[c].st \in {"dead"} \cup Live
       /\ client[c].st \in Asking \cup Judged \cup {"decide"} => lib[c].pid = c
       /\ client[c].st \in Live /\ lib[c].pid = c =>
            /\ lib[c].fd \in Fd /\ Channel(c) \in Conn
            /\ \A d \in Refs(Channel(c)) \ {c} : lib[d].pid = c

-----------------------------------------------------------------------------
(* The server: tracelib.c *)

Rule(root, act) == [root |-> root, act |-> act]
Allowed(roots) == [i \in DOMAIN roots |-> Rule(roots[i], "allow")]

\* The map is built for the first client that asks, and kept.
FileMap ==
  IF filemap # NoMap THEN filemap
  ELSE IF fence
       THEN Allowed(Sandbox) \o <<Rule("prefix", "ask")>> \o Allowed(System)
       ELSE <<Rule("root", "allow")>>

Sent(k, answer) ==
  conn' = [conn EXCEPT ![k].up = Tail(@), ![k].down = Append(@, answer)]

send_file_map(k) ==
  /\ filemap' = FileMap
  /\ Sent(k, FileMap)
  /\ UNCHANGED crashed

\* The kernel closes what a process had open.
Hung == [k \in Conn |-> [conn[k] EXCEPT !.st = IF @ = FreeConn THEN FreeConn ELSE "closed",
                                        !.up = <<>>]]

\* Mutant: no answer is sent for a file that no port owns.
dep_check_silent(k, path) ==
  /\ crashed' = (Owner[path] # NoPort /\ depends = NoDeps)
  /\ IF Owner[path] = NoPort THEN conn' = [conn EXCEPT ![k].up = Tail(@)]
     ELSE Sent(k, IF Owner[path] \in depends THEN "+" ELSE "!")
  /\ UNCHANGED filemap

\* The owner of a file is looked for in depends, which is not there in
\* targets that have no dependency types.
dep_check(k, path) ==
  /\ \/ Owner[path] # NoPort /\ depends = NoDeps /\ crashed' = TRUE /\ conn' = Hung
     \/ /\ Owner[path] = NoPort \/ depends # NoDeps
        /\ Sent(k, IF Owner[path] # NoPort /\ Owner[path] \in depends THEN "+" ELSE "!")
        /\ UNCHANGED crashed
  /\ UNCHANGED filemap

\* Violations and execve's are only recorded.
Recorded(k) ==
  /\ conn' = [conn EXCEPT ![k].up = Tail(@)]
  /\ UNCHANGED <<filemap, crashed>>

ServerRuns == run = "running" /\ sock /\ ~cleanuping /\ ~crashed

Accept(k) ==
  /\ ServerRuns /\ conn[k].st = "pending"
  /\ conn' = [conn EXCEPT ![k].st = "accepted"]
  /\ UNCHANGED <<port, process, client>>

process_line(k) ==
  /\ ServerRuns /\ conn[k].st = "accepted" /\ conn[k].up # <<>>
  /\ LET line == Head(conn[k].up)
     IN \/ line.op = "filemap" /\ send_file_map(k)
        \/ line.op = "dep_check" /\ dep_check(k, line.path)
        \/ line.op \in {"sandbox_violation", "execve"} /\ Recorded(k)
  /\ UNCHANGED <<master, sessions, cleanuping, sock, run, fence, depends, process, client>>

NoConn == [st |-> FreeConn, up |-> <<>>, down |-> <<>>]

\* recv returns 0: nobody has the other end.
HangsUp(k) ==
  /\ ServerRuns /\ conn[k].st = "accepted" /\ conn[k].up = <<>> /\ Refs(k) = {}
  /\ conn' = [conn EXCEPT ![k] = NoConn]
  /\ UNCHANGED <<port, process, client>>

Closed(st) == [k \in Conn |-> IF conn[k].st = st
                              THEN [conn[k] EXCEPT !.st = "closed", !.up = <<>>] ELSE conn[k]]

\* TracelibRunCmd leaves its loop and closes every connection.
RunEnds ==
  /\ run = "running" /\ (~sock \/ cleanuping) /\ ~crashed
  /\ run' = "ended"
  /\ conn' = Closed("accepted")
  /\ UNCHANGED <<master, sessions, cleanuping, sock, fence, filemap, depends, crashed,
                 process, client>>

ServerStep == RunEnds \/ \E k \in Conn : Accept(k) \/ process_line(k) \/ HangsUp(k)

-----------------------------------------------------------------------------
(* The target: eval_targets of portutil.tcl, with porttrace.tcl *)

\* No socket while a clean-up has not ended.
TracelibOpenSocketCmd == sock' = ~cleanuping

\* What was allowed without the fence must not stay.
TracelibEnableFence == fence' = TRUE /\ filemap' = NoMap

TracelibSetDeps(deps) == depends' = deps

\* trace_start opens the socket and starts the thread; then come the sandbox,
\* the fence and the dependencies.
TraceStart(t) ==
  /\ master = "idle" /\ ~crashed
  /\ master' = "running" /\ sessions' = Append(sessions, t)
  /\ TracelibOpenSocketCmd /\ run' = "running"
  /\ IF t.fence THEN TracelibEnableFence ELSE UNCHANGED <<fence, filemap>>
  /\ IF t.deps = NoDeps THEN UNCHANGED depends ELSE TracelibSetDeps(t.deps)
  /\ UNCHANGED <<cleanuping, crashed, conn, process, client>>

\* The pre-run procedure fails: the trace is not started, and its socket is
\* closed all the same; then the missing thread makes the target fail.
PrerunFails(t) ==
  /\ master = "idle" /\ ~crashed
  /\ sessions' = Append(sessions, t)
  /\ cleanuping' = TRUE
  /\ UNCHANGED <<master, sock, run, fence, filemap, depends, crashed, conn, process, client>>

\* The target ends when the programs it waits for have ended.
CloseSocket ==
  /\ master = "running" /\ ~crashed
  /\ \A c \in Client : client[c].st \in Live => ~client[c].awaited
  /\ master' = "check"
  /\ cleanuping' = TRUE /\ sock' = FALSE
  /\ conn' = Closed("pending")
  /\ UNCHANGED <<sessions, run, fence, filemap, depends, crashed, process, client>>

\* Mutant: the map stays for the next target.
CleanKeepsMap ==
  /\ master = "check" /\ run = "ended" /\ ~crashed
  /\ master' = "idle" /\ run' = "none"
  /\ depends' = NoDeps /\ fence' = FALSE /\ cleanuping' = FALSE
  /\ UNCHANGED <<sessions, sock, filemap, crashed, conn, process, client>>

\* trace_check_violations waits for the thread to come back from
\* TracelibRunCmd; only then does trace_stop free what it used.
Clean ==
  /\ master = "check" /\ run = "ended" /\ ~crashed
  /\ master' = "idle" /\ run' = "none"
  /\ filemap' = NoMap /\ depends' = NoDeps /\ fence' = FALSE /\ cleanuping' = FALSE
  /\ UNCHANGED <<sessions, sock, crashed, conn, process, client>>

-----------------------------------------------------------------------------
(* The library: darwintrace.c *)

FreshLib == [pid |-> NotSetUp, fd |-> NoFd, filemap |-> NoMap, log |-> NoLog]
NoClient == [st |-> "dead", path |-> NoPath, session |-> 0, awaited |-> FALSE]

\* A library that is loaded keeps the environment of its program ...
__darwintrace_copy_env(env) == [FreshLib EXCEPT !.log = env.DARWINTRACE_LOG]

\* ... and a program that is executed gets that one, whatever its own says.
__darwintrace_restore_env(c, env) == [env EXCEPT !.DARWINTRACE_LOG = lib[c].log]

\* A program that the target runs: its descriptors above stderr are free.
Spawn(c) ==
  /\ master = "running" /\ client[c].st = "dead"
  /\ client' = [client EXCEPT ![c] =
       [st |-> "run", path |-> NoPath, session |-> Len(sessions), awaited |-> TRUE]]
  /\ table' = [table EXCEPT ![c] = [n \in Fd |-> Own]]
  /\ lib' = [lib EXCEPT ![c] = __darwintrace_copy_env([DARWINTRACE_LOG |-> Len(sessions)])]
  /\ UNCHANGED <<port, conn>>

\* abort, an exit or a signal.
Dead(c) ==
  /\ client' = [client EXCEPT ![c] = NoClient]
  /\ table' = [table EXCEPT ![c] = [n \in Fd |-> Own]]
  /\ lib' = [lib EXCEPT ![c] = FreshLib]
  /\ UNCHANGED <<port, conn>>

\* After a fork the descriptor is the parent's and is closed.
AfterFork(c) ==
  IF lib[c].pid # NotSetUp /\ lib[c].fd # NoFd
  THEN [table[c] EXCEPT ![lib[c].fd] = Own] ELSE table[c]

\* The socket has the name that the library knows.
Reachable(c) == sock /\ ~crashed /\ lib[c].log = Len(sessions)

Goes(c, st, path) == client' = [client EXCEPT ![c].st = st, ![c].path = path]

\* The connections that can be made: the kernel's choice is not seen.
Unused == {k \in Conn : conn[k].st \in {FreeConn, "closed"} /\ Refs(k) = {}}

\* The first call of a process connects and asks for the file map.
Connects(c) ==
  LET k == CHOOSE k \in Unused : TRUE
  IN /\ Unused # {} /\ Reachable(c)
     /\ \E fd \in Fd :
          /\ table' = [table EXCEPT ![c] = [AfterFork(c) EXCEPT ![fd] = k]]
          /\ lib' = [lib EXCEPT ![c].pid = c, ![c].fd = fd]
     /\ conn' = [conn EXCEPT ![k] = [st |-> "pending", down |-> <<>>,
                                      up |-> <<[op |-> "filemap", path |-> NoPath]>>]]
     /\ Goes(c, "askMap", NoPath)
     /\ UNCHANGED port

\* A connection is a process's own.
__darwintrace_setup(c) ==
  LET IsSetUp == lib[c].pid = c \/ lib[c].log = NoLog
  IN \/ IsSetUp /\ Goes(c, "decide", NoPath) /\ UNCHANGED <<port, conn, process>>
     \/ ~IsSetUp /\ ~Reachable(c) /\ Dead(c)
     \/ ~IsSetUp /\ Connects(c)

\* open, readlink, unlink, mkdir, rmdir, rename, stat, lstat, getdirentries
\* and execve; the path plays no part before the decision.
Call(c) == client[c].st = "run" /\ __darwintrace_setup(c)

Answered(c) == conn[Channel(c)].down # <<>>
Received(c) == conn' = [conn EXCEPT ![Channel(c)].down = Tail(@)]

\* At the end of the file exchange_with_port reads for ever: no step.
ask_for_filemap(c) ==
  /\ client[c].st = "askMap" /\ Answered(c)
  /\ lib' = [lib EXCEPT ![c].filemap = Head(conn[Channel(c)].down)]
  /\ client' = [client EXCEPT ![c].st = "decide"]
  /\ Received(c)
  /\ UNCHANGED <<port, table>>

\* A process that sends on a closed connection is killed, or aborts.
Sends(c, op, path) ==
  /\ conn[Channel(c)].st # "closed" /\ Len(conn[Channel(c)].up) < Buffer
  /\ conn' = [conn EXCEPT ![Channel(c)].up = Append(@, [op |-> op, path |-> path])]

CannotSend(c) == conn[Channel(c)].st = "closed" /\ Dead(c)

\* What the first rule whose root the path begins with says.
Ruling(c, path) ==
  LET first == SelectInSeq(lib[c].filemap, LAMBDA r : path \in Under[r.root])
  IN IF lib[c].filemap = NoMap THEN "allow"
     ELSE IF first = 0 THEN "violation" ELSE lib[c].filemap[first].act

\* __darwintrace_is_in_sandbox: what needs no word to the server...
Decides(c, path, exec) ==
  /\ client[c].st = "decide"
  /\ \/ Ruling(c, path) = "allow" /\ (exec => path \notin Missing)
     \/ Ruling(c, path) = "ask" /\ path \in Missing /\ ~exec
  /\ Goes(c, IF exec THEN "exec" ELSE "allowed", path)
  /\ UNCHANGED <<port, conn, process>>

\* ... and what does: the report of a violation, or a question.
Reports(c, path) ==
  /\ client[c].st = "decide" /\ Ruling(c, path) = "violation"
  /\ \/ CannotSend(c)
     \/ /\ Sends(c, "sandbox_violation", NoPath) /\ Goes(c, "denied", path)
        /\ UNCHANGED <<port, process>>

Asks(c, path, exec) ==
  /\ client[c].st = "decide" /\ Ruling(c, path) = "ask" /\ path \notin Missing
  /\ \/ CannotSend(c)
     \/ /\ Sends(c, "dep_check", path) /\ Goes(c, IF exec THEN "askExec" ELSE "askDep", path)
        /\ UNCHANGED <<port, process>>

ask_for_dependency(c) ==
  /\ client[c].st \in {"askDep", "askExec"} /\ Answered(c)
  /\ Goes(c, IF Head(conn[Channel(c)].down) # "+" THEN "denied"
             ELSE IF client[c].st = "askDep" THEN "allowed" ELSE "exec", client[c].path)
  /\ Received(c)
  /\ UNCHANGED <<port, process>>

\* The system call is made, or errno is set.
Returns(c) ==
  /\ client[c].st \in {"allowed", "denied"}
  /\ Goes(c, "run", NoPath)
  /\ UNCHANGED <<port, conn, process>>

\* The entries of a directory are judged one after another.
getdirentries(c) ==
  /\ client[c].st \in {"allowed", "denied"}
  /\ Goes(c, "decide", NoPath)
  /\ UNCHANGED <<port, conn, process>>

\* execve closes the connection before the system call.
Disconnected(c, newLib) ==
  /\ table' = [table EXCEPT ![c][lib[c].fd] = Own]
  /\ lib' = [lib EXCEPT ![c] = newLib]
  /\ Goes(c, "run", NoPath)
  /\ UNCHANGED port

\* An execve that is allowed is reported, and loads a new library.
execve(c) ==
  /\ client[c].st = "exec"
  /\ \/ CannotSend(c)
     \/ /\ Sends(c, "execve", NoPath)
        /\ \E env \in [DARWINTRACE_LOG: {NoLog, lib[c].log}] :
             Disconnected(c, __darwintrace_copy_env(__darwintrace_restore_env(c, env)))

\* execve of a file that is not there: nothing is asked, the call fails.
ExecFails(c) ==
  /\ client[c].st = "decide" /\ Programs \cap Missing # {}
  /\ Disconnected(c, [lib[c] EXCEPT !.pid = NotSetUp, !.fd = NoFd])
  /\ UNCHANGED conn

\* A child has its parent's memory and descriptors.  It may leave the tree
\* of processes that the target waits for.
Fork(c, d) ==
  /\ client[c].st = "run" /\ client[d].st = "dead"
  /\ \A b \in Client : lib[b].pid # d
  /\ \E awaited \in {client[c].awaited, FALSE} :
       client' = [client EXCEPT ![d] = [client[c] EXCEPT !.awaited = awaited]]
  /\ table' = [table EXCEPT ![d] = table[c]]
  /\ lib' = [lib EXCEPT ![d] = lib[c]]
  /\ UNCHANGED <<port, conn>>

Exit(c) == client[c].st \in Live /\ Dead(c)

\* close refuses the library's own descriptor.
close(c, n) ==
  /\ client[c].st = "run" /\ n # lib[c].fd
  /\ table' = [table EXCEPT ![c][n] = Own]
  /\ UNCHANGED <<port, conn, lib, client>>

\* dup2 of a file of the program's onto the library's own descriptor moves
\* that one out of the way (or fails, when no descriptor is free).
dup2(c, to) ==
  /\ client[c].st = "run"
  /\ \/ /\ to # lib[c].fd
        /\ table' = [table EXCEPT ![c][to] = Own]
        /\ UNCHANGED lib
     \/ /\ to = lib[c].fd
        /\ \E fd \in Fd \ {to} :
             /\ table' = [table EXCEPT ![c][fd] = table[c][to], ![c][to] = Own]
             /\ lib' = [lib EXCEPT ![c].fd = fd]
  /\ UNCHANGED <<port, conn, client>>

ClientStep(c) ==
  \/ Call(c) \/ ask_for_filemap(c) \/ ask_for_dependency(c)
  \/ \E path \in Path, exec \in BOOLEAN :
       /\ exec => path \in Programs
       /\ Decides(c, path, exec) \/ Reports(c, path) \/ Asks(c, path, exec)
  \/ Returns(c) \/ getdirentries(c) \/ execve(c) \/ ExecFails(c) \/ Exit(c)
  \/ \E d \in Client : Fork(c, d)
  \/ \E n \in Fd : close(c, n) \/ dup2(c, n)

-----------------------------------------------------------------------------
Init ==
  /\ master = "idle" /\ sessions = <<>> /\ run = "none" /\ filemap = NoMap
  /\ depends = NoDeps
  /\ cleanuping = FALSE /\ sock = FALSE /\ fence = FALSE /\ crashed = FALSE
  /\ conn = [k \in Conn |-> NoConn]
  /\ table = [c \in Client |-> [n \in Fd |-> Own]]
  /\ lib = [c \in Client |-> FreshLib]
  /\ client = [c \in Client |-> NoClient]

Next ==
  \/ ServerStep
  \/ \E plan \in {p \in Plans : IsStrictPrefix(sessions, p)} :
       LET t == plan[Len(sessions) + 1] IN TraceStart(t) \/ PrerunFails(t)
  \/ CloseSocket \/ Clean
  \/ \E c \in Client : Spawn(c) \/ ClientStep(c)

\* The server thread runs, and so do programs that wait for an answer.
Fairness ==
  /\ \A k \in Conn : WF_vars(Accept(k) \/ process_line(k))
  /\ \A c \in Client : WF_vars(ask_for_filemap(c) \/ ask_for_dependency(c))

Spec == Init /\ [][Next]_vars /\ Fairness

-----------------------------------------------------------------------------
\* What a program run by target t may do: everything without the fence; with
\* it, what is in the sandbox or the system, and in the prefix what is not
\* there or belongs to a dependency.
Policy(t, path) ==
  LET In(roots) == \E i \in DOMAIN roots : path \in Under[roots[i]]
  IN \/ ~t.fence
     \/ In(Sandbox)
     \/ path \in Under["prefix"] /\ (path \in Missing \/ Owner[path] \in t.deps \ NoDeps)
     \/ path \notin Under["prefix"] /\ In(System)

\* A program is allowed what the policy of the target that started it allows
\* and nothing else, whatever was forked, executed, closed and moved, and
\* whichever targets the port process has run since
\* (__darwintrace_is_in_sandbox, with the answers of tracelib.c).
VerdictIsPolicy ==
  \A c \in Client : client[c].st \in Judged =>
    (client[c].st # "denied" <=> Policy(sessions[client[c].session], client[c].path))

\* A program that the target waits for gets its answer: exchange_with_port
\* ends.  Otherwise the target would wait for ever.
AwaitedAreAnswered ==
  \A c \in Client :
    client[c].st \in Asking /\ client[c].awaited ~> client[c].st \notin Asking \/ crashed
=============================================================================
