------------------------------ MODULE TraceProofs ------------------------------
(***************************************************************************)
(* Proofs about Trace for any number of programs, connections and          *)
(* descriptors, any sandbox and any sequence of targets.                   *)
(***************************************************************************)
EXTENDS Trace, SequenceTheorems, WellFoundedInduction, TLAPS

-------------------------------------------------------------------------------
(* The rules *)

\* The file map that the server makes for target t.
MapOf(t) ==
  IF t.fence
  THEN Allowed(Sandbox) \o <<Rule("prefix", "ask")>> \o Allowed(System)
  ELSE <<Rule("root", "allow")>>

\* Whether one of the roots contains the path.
Below(roots, path) == \E i \in DOMAIN roots : path \in Under[roots[i]]

\* A file map is a sequence of rules: those of the sandbox, the one of the
\* prefix, and those of the system.
LEMMA MapOfRules ==
  ASSUME NEW t
  PROVE  /\ MapOf(t) \in Seq(Rules)
         /\ MapOf(t) # <<>>
         /\ t.fence =>
              /\ Len(MapOf(t)) = Len(Sandbox) + 1 + Len(System)
              /\ \A i \in 1..Len(Sandbox) : MapOf(t)[i] = Rule(Sandbox[i], "allow")
              /\ MapOf(t)[Len(Sandbox) + 1] = Rule("prefix", "ask")
              /\ \A i \in 1..Len(System) :
                   MapOf(t)[Len(Sandbox) + 1 + i] = Rule(System[i], "allow")
  <1>1. /\ Sandbox \in Seq(DOMAIN Under) /\ System \in Seq(DOMAIN Under)
        /\ "prefix" \in DOMAIN Under /\ "root" \in DOMAIN Under
    BY TraceAssumption
  <1>2. ASSUME NEW roots \in Seq(DOMAIN Under)
        PROVE  /\ Allowed(roots) \in Seq(Rules)
               /\ Len(Allowed(roots)) = Len(roots)
               /\ \A i \in 1..Len(roots) : Allowed(roots)[i] = Rule(roots[i], "allow")
    <2> DEFINE n == Len(roots)
    <2>1. n \in Nat /\ DOMAIN roots = 1..n /\ \A i \in 1..n : roots[i] \in DOMAIN Under
      OBVIOUS
    <2>2. Allowed(roots) = [i \in 1..n |-> Rule(roots[i], "allow")]
      BY <2>1 DEF Allowed
    <2>3. \A i \in 1..n : Rule(roots[i], "allow") \in Rules
      BY <2>1 DEF Rule, Rules, Acts
    <2>4. Allowed(roots) \in [1..n -> Rules]
      BY <2>2, <2>3
    <2>5. Allowed(roots) \in Seq(Rules)
      BY <2>1, <2>4, SeqDef
    <2>6. Len(Allowed(roots)) = n
      BY <2>1, <2>4, <2>5
    <2> QED BY <2>2, <2>5, <2>6
  <1>3. <<Rule("prefix", "ask")>> \in Seq(Rules) /\ <<Rule("root", "allow")>> \in Seq(Rules)
    BY <1>1 DEF Rule, Rules, Acts
  <1>4. CASE t.fence
    <2> DEFINE a == Allowed(Sandbox)
               b == <<Rule("prefix", "ask")>>
               d == Allowed(System)
    <2>1. /\ a \in Seq(Rules) /\ b \in Seq(Rules) /\ d \in Seq(Rules)
          /\ Len(a) = Len(Sandbox) /\ Len(b) = 1 /\ Len(d) = Len(System)
          /\ \A i \in 1..Len(Sandbox) : a[i] = Rule(Sandbox[i], "allow")
          /\ b[1] = Rule("prefix", "ask")
          /\ \A i \in 1..Len(System) : d[i] = Rule(System[i], "allow")
      BY <1>1, <1>2, <1>3
    <2>2. MapOf(t) = a \o b \o d
      BY <1>4 DEF MapOf
    <2>3. Len(Sandbox) \in Nat /\ Len(System) \in Nat
      BY <1>1
    <2> HIDE DEF a, b, d
    <2> DEFINE e == a \o b
    <2>4. /\ e \in Seq(Rules)
          /\ Len(e) = Len(Sandbox) + 1
          /\ \A i \in 1..Len(Sandbox) : e[i] = a[i]
          /\ e[Len(Sandbox) + 1] = b[1]
      BY <2>1, <2>3, ConcatProperties
    <2> HIDE DEF e
    <2>5. /\ (e \o d) \in Seq(Rules)
          /\ Len(e \o d) = Len(Sandbox) + 1 + Len(System)
          /\ \A i \in 1..Len(Sandbox) : (e \o d)[i] = e[i]
          /\ (e \o d)[Len(Sandbox) + 1] = e[Len(Sandbox) + 1]
          /\ \A i \in 1..Len(System) : (e \o d)[Len(Sandbox) + 1 + i] = d[i]
      <3>1. /\ (e \o d) \in Seq(Rules)
            /\ Len(e \o d) = Len(e) + Len(d)
            /\ \A i \in 1..(Len(e) + Len(d)) :
                 (e \o d)[i] = IF i <= Len(e) THEN e[i] ELSE d[i - Len(e)]
        <4>1. e \in Seq(Rules) /\ d \in Seq(Rules)
          BY <2>1, <2>4
        <4> QED BY <4>1, ConcatProperties, Zenon
      <3>2. \A i \in 1..Len(System) :
              LET j == Len(Sandbox) + 1 + i
              IN j \in 1..(Len(e) + Len(d)) /\ ~(j <= Len(e)) /\ j - Len(e) = i
        BY <2>1, <2>3, <2>4
      <3> QED BY <2>1, <2>3, <2>4, <3>1, <3>2
    <2>6. MapOf(t) = e \o d
      BY <2>2 DEF e
    <2>7. MapOf(t) # <<>>
      BY <2>3, <2>5, <2>6
    <2> QED BY <2>1, <2>4, <2>5, <2>6, <2>7
  <1>5. CASE ~t.fence
    BY <1>3, <1>5 DEF MapOf
  <1> QED BY <1>4, <1>5

\* Min of a set of positive numbers is in it and below the others.
LEMMA LeastIndex ==
  ASSUME NEW n \in Nat, NEW S \in SUBSET (1..n), S # {}
  PROVE  Min(S) \in S /\ \A j \in S : Min(S) <= j
  <1> DEFINE R == OpToRel(<, Nat)
  <1>1. \E m \in S : \A j \in S : <<j, m>> \notin R
    <2> HIDE DEF R
    <2>1. IsWellFoundedOn(R, Nat)
      BY NatLessThanWellFounded DEF R
    <2>2. S \in SUBSET Nat
      OBVIOUS
    <2> QED BY <2>1, <2>2, WFMin
  <1>2. \A j, k \in Nat : j < k => <<j, k>> \in R
    BY DEF OpToRel
  <1> HIDE DEF R
  <1>3. PICK m \in S : \A j \in S : <<j, m>> \notin R
    BY <1>1
  <1>4. \A j \in S : ~(j < m) /\ j \in Nat /\ m \in Nat
    <2>1. \A j \in S : j \in Nat
      OBVIOUS
    <2>2. m \in S /\ \A j \in S : <<j, m>> \notin R
      BY <1>3
    <2> QED BY <1>2, <2>1, <2>2
  <1>5. \A j \in S : m <= j
    BY <1>4
  <1> QED BY <1>5 DEF Min

\* The ruling is that of the first rule that the path comes under.
LEMMA RulingIsFirst ==
  ASSUME NEW c, NEW path, NEW n \in Nat, lib[c].filemap # <<>>, Len(lib[c].filemap) = n
  PROVE  \/ /\ \A j \in 1..n : path \notin Under[lib[c].filemap[j].root]
            /\ Ruling(c, path) = "violation"
         \/ \E i \in 1..n :
              /\ path \in Under[lib[c].filemap[i].root]
              /\ \A j \in 1..(i - 1) : path \notin Under[lib[c].filemap[j].root]
              /\ Ruling(c, path) = lib[c].filemap[i].act
  <1> DEFINE I == {i \in 1..n : path \in Under[lib[c].filemap[i].root]}
  <1>1. Ruling(c, path) = IF I = {} THEN "violation" ELSE lib[c].filemap[Min(I)].act
    <2>1. I # {} => Min(I) # 0
      <3>1. I \in SUBSET (1..n)
        OBVIOUS
      <3> HIDE DEF I
      <3>2. I # {} => Min(I) \in I
        BY <3>1, LeastIndex
      <3> QED BY <3>1, <3>2
    <2> QED BY <2>1 DEF Ruling, SelectInSeq, NoMap
  <1>2. CASE I = {}
    BY <1>1, <1>2
  <1>3. CASE I # {}
    <2>1. Min(I) \in I /\ \A j \in I : Min(I) <= j
      BY <1>3, LeastIndex
    <2>2. Ruling(c, path) = lib[c].filemap[Min(I)].act
      BY <1>1, <1>3
    <2>3. \A j \in 1..(Min(I) - 1) : path \notin Under[lib[c].filemap[j].root]
      BY <2>1
    <2> QED BY <2>1, <2>2, <2>3
  <1> QED BY <1>2, <1>3

\* A program with the map of target t goes by its policy; what it has to ask
\* for lies in the prefix and not in the sandbox.
LEMMA RulingFollowsPolicy ==
  ASSUME NEW c, NEW path \in Path, NEW t \in Targets, lib[c].filemap = MapOf(t)
  PROVE  \/ Ruling(c, path) = "allow" /\ Policy(t, path)
         \/ Ruling(c, path) = "violation" /\ ~Policy(t, path)
         \/ /\ Ruling(c, path) = "ask"
            /\ Policy(t, path) <=> path \in Missing \/ Owner[path] \in t.deps \ NoDeps
  <1> DEFINE m == lib[c].filemap
             s == Len(Sandbox)
  <1>1. /\ m \in Seq(Rules) /\ m # <<>> /\ s \in Nat /\ Len(System) \in Nat
        /\ DOMAIN Sandbox = 1..s /\ DOMAIN System = 1..Len(System)
        /\ t.fence \in BOOLEAN
    <2>1. Sandbox \in Seq(DOMAIN Under) /\ System \in Seq(DOMAIN Under)
      BY TraceAssumption
    <2>2. t.fence \in BOOLEAN
      BY TraceAssumption
    <2>3. m \in Seq(Rules) /\ m # <<>>
      BY MapOfRules
    <2> QED BY <2>1, <2>2, <2>3
  <1>2. CASE ~t.fence
    <2>1. m = <<Rule("root", "allow")>>
      BY <1>2 DEF MapOf
    <2>2. path \in Under["root"]
      BY TraceAssumption
    <2>3. Len(m) = 1 /\ m[1].root = "root" /\ m[1].act = "allow"
      BY <2>1 DEF Rule
    <2>4. Ruling(c, path) = "allow"
      <3> HIDE DEF m
      <3>1. \/ \A j \in 1..1 : path \notin Under[m[j].root]
            \/ \E i \in 1..1 : Ruling(c, path) = m[i].act
        BY <1>1, <2>3, RulingIsFirst DEF m
      <3> QED BY <2>2, <2>3, <3>1
    <2> QED BY <1>2, <2>4 DEF Policy
  <1>3. CASE t.fence
    <2>1. /\ Len(m) = s + 1 + Len(System)
          /\ \A i \in 1..s : m[i].root = Sandbox[i] /\ m[i].act = "allow"
          /\ m[s + 1].root = "prefix" /\ m[s + 1].act = "ask"
          /\ \A i \in 1..Len(System) :
               m[s + 1 + i].root = System[i] /\ m[s + 1 + i].act = "allow"
      <3>1. /\ Len(m) = s + 1 + Len(System)
            /\ \A i \in 1..s : m[i] = Rule(Sandbox[i], "allow")
            /\ m[s + 1] = Rule("prefix", "ask")
            /\ \A i \in 1..Len(System) : m[s + 1 + i] = Rule(System[i], "allow")
        BY <1>3, MapOfRules
      <3>2. \A root, act : Rule(root, act).root = root /\ Rule(root, act).act = act
        BY DEF Rule
      <3> HIDE DEF m, s
      <3> QED BY <3>1, <3>2
    <2>2. \A i \in (s + 2)..Len(m) : /\ i - (s + 1) \in 1..Len(System)
                                     /\ m[i].root = System[i - (s + 1)]
                                     /\ m[i].act = "allow"
      <3> TAKE i \in (s + 2)..Len(m)
      <3>1. i - (s + 1) \in 1..Len(System) /\ s + 1 + (i - (s + 1)) = i
        BY <1>1, <2>1
      <3> QED BY <2>1, <3>1
    <2>3. Policy(t, path) <=>
            \/ Below(Sandbox, path)
            \/ /\ path \in Under["prefix"]
               /\ path \in Missing \/ Owner[path] \in t.deps \ NoDeps
            \/ path \notin Under["prefix"] /\ Below(System, path)
      BY <1>3 DEF Policy, Below
    <2>4. CASE /\ \A j \in 1..Len(m) : path \notin Under[m[j].root]
               /\ Ruling(c, path) = "violation"
      <3>1. ~Below(Sandbox, path)
        BY <1>1, <2>1, <2>4 DEF Below
      <3>2. path \notin Under["prefix"]
        BY <1>1, <2>1, <2>4
      <3>3. ~Below(System, path)
        BY <1>1, <2>1, <2>4 DEF Below
      <3> QED BY <2>3, <2>4, <3>1, <3>2, <3>3
    <2>5. ASSUME NEW i \in 1..Len(m), path \in Under[m[i].root],
                 \A j \in 1..(i - 1) : path \notin Under[m[j].root],
                 Ruling(c, path) = m[i].act
          PROVE  \/ Ruling(c, path) = "allow" /\ Policy(t, path)
                 \/ /\ Ruling(c, path) = "ask"
                    /\ Policy(t, path) <=> path \in Missing \/ Owner[path] \in t.deps \ NoDeps
      <3>1. CASE i \in 1..s
        BY <1>1, <2>1, <2>3, <2>5, <3>1 DEF Below
      <3>2. CASE i = s + 1
        <4>1. ~Below(Sandbox, path)
          BY <1>1, <2>1, <2>5, <3>2 DEF Below
        <4> QED BY <2>1, <2>3, <2>5, <3>2, <4>1
      <3>3. CASE i \in (s + 2)..Len(m)
        <4>1. path \notin Under["prefix"]
          BY <1>1, <2>1, <2>5, <3>3
        <4>2. Below(System, path)
          BY <1>1, <2>2, <2>5, <3>3 DEF Below
        <4> QED BY <2>2, <2>3, <2>5, <3>3, <4>1, <4>2
      <3> QED BY <1>1, <2>1, <3>1, <3>2, <3>3
    <2> QED BY <1>1, <2>4, <2>5, RulingIsFirst
  <1> QED BY <1>1, <1>2, <1>3

-------------------------------------------------------------------------------
(* The invariant *)

\* A line, what is sent back, a connection, a library and a program.
Line == [op: {"filemap", "dep_check", "sandbox_violation", "execve"},
         path: Path \cup {NoPath}]
Answers == {"+", "!"} \cup Seq(Rules)
Chan == [st: {FreeConn, "pending", "accepted", "closed"}, up: Seq(Line), down: Seq(Answers)]
Library == [pid: Client \cup {NotSetUp}, fd: Fd \cup {NoFd}, filemap: Seq(Rules), log: Nat]
Program == [st: {"dead"} \cup Live, path: Path \cup {NoPath}, session: Nat, awaited: BOOLEAN]

\* The types that the steps need.
Typed ==
  /\ sessions \in Seq(Targets)
  /\ master \in {"idle", "running", "check"}
  /\ run \in {"none", "running", "ended"}
  /\ conn \in [Conn -> Chan]
  /\ table \in [Client -> [Fd -> Conn \cup {Own}]]
  /\ lib \in [Client -> Library]
  /\ client \in [Client -> Program]

\* The target that runs or has run last.
Current == sessions[Len(sessions)]

\* The server works for the current target, and between targets it has nothing.
Serves ==
  /\ sock => master = "running" /\ run = "running" /\ ~cleanuping
  /\ master = "idle" =>
       run = "none" /\ filemap = NoMap /\ fence = FALSE /\ depends = NoDeps
  /\ master # "idle" =>
       /\ sessions # <<>>
       /\ run # "none"
       /\ fence = Current.fence /\ depends = Current.deps
       /\ filemap \in {NoMap, MapOf(Current)}
  /\ \A k \in Conn : /\ conn[k].st = "pending" => sock
                     /\ conn[k].st = "accepted" => run = "running"

\* A process has at most one connection open, as its library's descriptor.
Descriptors(c) ==
  /\ lib[c].pid = NotSetUp <=> lib[c].fd = NoFd
  /\ \A n \in Fd : table[c][n] \in Conn => n = lib[c].fd
  /\ client[c].st = "dead" => lib[c].pid = NotSetUp
  /\ client[c].st \notin {"dead", "run"} => lib[c].pid = c
  /\ client[c].st # "dead" =>
       client[c].session \in 1..Len(sessions) /\ lib[c].log = client[c].session

\* The target that started c.
Its(c) == sessions[client[c].session]

\* The sender of such a line waits for an answer.
IsQuestion(line) == line.op \in {"filemap", "dep_check"}

\* The answer that c waits for.
Answer(c) ==
  IF client[c].st = "askMap" THEN MapOf(Its(c))
  ELSE IF Owner[client[c].path] \in Its(c).deps \ NoDeps THEN "+" ELSE "!"

\* A process has asked at most one question, with the last line that it sent;
\* the server has it before it, or has answered it.
Talks(c) ==
  LET k == conn[Channel(c)] IN
  /\ \A i \in 1..Len(k.up) : IsQuestion(k.up[i]) =>
       /\ i = Len(k.up) /\ k.down = <<>>
       /\ IF k.up[i].op = "filemap" THEN client[c].st = "askMap"
          ELSE client[c].st \in {"askDep", "askExec"} /\ k.up[i].path = client[c].path
  /\ k.down # <<>> => client[c].st \in Asking /\ k.down = <<Answer(c)>>

\* A process whose library is connected has its connection for itself, to the
\* server of its own target, and goes by the map of that target.
Connected(c) ==
  /\ Channel(c) \in Conn
  /\ \A d \in Client \ {c}, n \in Fd : table[d][n] = Channel(c) => lib[d].pid = c
  /\ conn[Channel(c)].st \in {"pending", "accepted"} => client[c].session = Len(sessions)
  /\ client[c].st # "askMap" => lib[c].filemap = MapOf(Its(c))
  /\ Talks(c)
  /\ client[c].st \in {"askDep", "askExec"} \cup Judged => client[c].path \in Path
  /\ client[c].st \in {"askDep", "askExec"} =>
       (Policy(Its(c), client[c].path) <=> Owner[client[c].path] \in Its(c).deps \ NoDeps)
  /\ client[c].st \in Judged => (client[c].st # "denied" <=> Policy(Its(c), client[c].path))

\* The inductive invariant.
IInv ==
  /\ Typed /\ Serves
  /\ \A c \in Client : Descriptors(c) /\ (lib[c].pid = c => Connected(c))

\* What a step leaves of a connection that it does not use: at most it is
\* closed or accepted.
Undisturbed(k) ==
  /\ conn'[k].down = conn[k].down
  /\ conn'[k].up \in {conn[k].up, <<>>}
  /\ conn'[k].st \in {"pending", "accepted"} => conn[k].st \in {"pending", "accepted"}

\* A connection whose state and lines are replaced is one still.
LEMMA ChanTypes ==
  ASSUME NEW r \in Chan
  PROVE  /\ r.up \in Seq(Line) /\ r.down \in Seq(Answers)
         /\ \A st \in {FreeConn, "pending", "accepted", "closed"} :
              [r EXCEPT !.st = st] \in Chan /\ [r EXCEPT !.st = st, !.up = <<>>] \in Chan
         /\ \A up \in Seq(Line) : [r EXCEPT !.up = up] \in Chan
         /\ \A down \in Seq(Answers) : [r EXCEPT !.down = down] \in Chan
         /\ \A up \in Seq(Line), down \in Seq(Answers) :
              [r EXCEPT !.up = up, !.down = down] \in Chan
  <1>1. r.up \in Seq(Line) /\ r.down \in Seq(Answers)
    BY DEF Chan
  <1>2. \A st \in {FreeConn, "pending", "accepted", "closed"} : [r EXCEPT !.st = st] \in Chan
    BY DEF Chan
  <1>3. \A st \in {FreeConn, "pending", "accepted", "closed"} :
          [r EXCEPT !.st = st, !.up = <<>>] \in Chan
    <2>1. <<>> \in Seq(Line)
      OBVIOUS
    <2> QED BY <2>1 DEF Chan
  <1>4. \A up \in Seq(Line) : [r EXCEPT !.up = up] \in Chan
    BY DEF Chan
  <1>5. \A down \in Seq(Answers) : [r EXCEPT !.down = down] \in Chan
    BY DEF Chan
  <1>6. \A up \in Seq(Line), down \in Seq(Answers) :
          [r EXCEPT !.up = up, !.down = down] \in Chan
    BY DEF Chan
  <1> QED BY <1>1, <1>2, <1>3, <1>4, <1>5, <1>6

\* What is new has its type.
LEMMA FreshTypes ==
  /\ NoConn \in Chan /\ FreshLib \in Library /\ NoClient \in Program
  /\ \A n \in Nat : [FreshLib EXCEPT !.log = n] \in Library
  <1>1. NoConn \in Chan
    BY DEF NoConn, Chan
  <1>2. FreshLib \in Library /\ \A n \in Nat : [FreshLib EXCEPT !.log = n] \in Library
    <2>1. <<>> \in Seq(Rules)
      OBVIOUS
    <2>2. ASSUME NEW n \in Nat
          PROVE  [pid |-> NotSetUp, fd |-> NoFd, filemap |-> <<>>, log |-> n] \in Library
      BY <2>1 DEF Library
    <2>3. \A n \in Nat : [FreshLib EXCEPT !.log = n] =
                         [pid |-> NotSetUp, fd |-> NoFd, filemap |-> <<>>, log |-> n]
      BY DEF FreshLib, NoMap
    <2>4. FreshLib = [pid |-> NotSetUp, fd |-> NoFd, filemap |-> <<>>, log |-> 0]
      BY DEF FreshLib, NoMap, NoLog
    <2> QED BY <2>2, <2>3, <2>4
  <1>3. NoClient \in Program
    BY DEF NoClient, Program
  <1> QED BY <1>1, <1>2, <1>3

\* A library that connects, disconnects or gets its map is one still.
LEMMA LibraryTypes ==
  ASSUME NEW r \in Library
  PROVE  /\ \A fd \in Fd : [r EXCEPT !.fd = fd] \in Library
         /\ \A fd \in Fd, c \in Client : [r EXCEPT !.pid = c, !.fd = fd] \in Library
         /\ [r EXCEPT !.pid = NotSetUp, !.fd = NoFd] \in Library
         /\ \A map \in Seq(Rules) : [r EXCEPT !.filemap = map] \in Library
  BY DEF Library

\* A program that goes on is one still.
LEMMA ProgramTypes ==
  ASSUME NEW r \in Program
  PROVE  /\ \A st \in Live : [r EXCEPT !.st = st] \in Program
         /\ \A st \in Live, path \in Path \cup {NoPath} :
              [r EXCEPT !.st = st, !.path = path] \in Program
         /\ \A awaited \in BOOLEAN : [r EXCEPT !.awaited = awaited] \in Program
  BY DEF Program

\* A target more does not change those that were run before.
LEMMA SessionsGrow ==
  ASSUME Typed, NEW t \in Targets, NEW i \in 1..Len(sessions), sessions' = Append(sessions, t)
  PROVE  /\ sessions' \in Seq(Targets)
         /\ Len(sessions') = Len(sessions) + 1
         /\ sessions'[i] = sessions[i]
         /\ i \in 1..Len(sessions')
  BY DEF Typed

\* The library's descriptor is one of the process's.
LEMMA ChannelIsOpen ==
  ASSUME IInv, NEW c \in Client, lib[c].pid = c
  PROVE  lib[c].fd \in Fd /\ Channel(c) = table[c][lib[c].fd] /\ Channel(c) \in Conn
  <1>1. NotSetUp \notin Client
    BY TraceAssumption DEF NotSetUp
  <1> QED BY <1>1 DEF IInv, Typed, Library, Descriptors, Connected, Channel

\* No two libraries share a connection.
LEMMA ChannelsDiffer ==
  ASSUME IInv, NEW c \in Client, NEW d \in Client, c # d, lib[c].pid = c, lib[d].pid = d
  PROVE  Channel(c) # Channel(d)
  BY ChannelIsOpen DEF IInv, Connected

\* A connected process that does nothing stays as it is, if its connection is
\* not used by others and targets change only when it has been closed.
LEMMA OthersStay ==
  ASSUME IInv, NEW c \in Client,
         lib'[c] = lib[c], table'[c] = table[c], client'[c] = client[c],
         \/ UNCHANGED sessions
         \/ \E t \in Targets :
              /\ sessions' = Append(sessions, t)
              /\ \A k \in Conn : conn'[k].st \notin {"pending", "accepted"},
         lib[c].pid = c => Undisturbed(Channel(c)),
         \A d \in Client \ {c}, n \in Fd :
           lib[c].pid = c /\ table'[d][n] = Channel(c) => lib'[d].pid = c
  PROVE  Descriptors(c)' /\ (lib'[c].pid = c => Connected(c)')
  <1>1. ASSUME client[c].session \in 1..Len(sessions)
        PROVE  /\ client'[c].session \in 1..Len(sessions')
               /\ Its(c)' = Its(c)
    BY <1>1, SessionsGrow DEF Its, IInv
  <1>2. Descriptors(c)'
    BY <1>1 DEF IInv, Descriptors
  <1>3. ASSUME lib[c].pid = c PROVE Connected(c)'
    <2>1. /\ client[c].st # "dead" /\ Connected(c)
          /\ client[c].session \in 1..Len(sessions)
      <3>1. NotSetUp \notin Client
        BY TraceAssumption DEF NotSetUp
      <3> QED BY <1>3, <3>1 DEF IInv, Descriptors
    <2>2. Channel(c)' = Channel(c) /\ Its(c)' = Its(c) /\ Undisturbed(Channel(c))
      BY <1>1, <1>3, <2>1 DEF Channel
    <2>3. Answer(c)' = Answer(c)
      BY <2>2 DEF Answer
    <2>4. conn[Channel(c)].up \in Seq(Line)
      BY <2>1, ChanTypes DEF IInv, Typed, Connected
    <2>5. Talks(c)'
      <3>1. Talks(c)
        BY <2>1 DEF Connected
      <3>2. CASE conn'[Channel(c)].up = conn[Channel(c)].up
        BY <2>2, <2>3, <3>1, <3>2 DEF Talks, Undisturbed, IsQuestion
      <3>3. CASE conn'[Channel(c)].up = <<>>
        BY <2>2, <2>3, <3>1, <3>3 DEF Talks, Undisturbed, IsQuestion
      <3> QED BY <2>2, <3>2, <3>3 DEF Undisturbed
    <2>6. conn'[Channel(c)].st \in {"pending", "accepted"} =>
            client'[c].session = Len(sessions')
      BY <2>1, <2>2 DEF Undisturbed, Connected
    <2> QED BY <1>3, <2>1, <2>2, <2>5, <2>6 DEF Connected
  <1> QED BY <1>2, <1>3

-------------------------------------------------------------------------------
(* The server and the targets *)

\* Nothing runs at first.
LEMMA InitHolds == Init => IInv
  <1> SUFFICES ASSUME Init PROVE IInv
    OBVIOUS
  <1>1. NotSetUp \notin Client /\ Own \notin Conn /\ NoFd \notin Fd
    BY TraceAssumption DEF NotSetUp, Own, NoFd
  <1>2. Typed
    BY FreshTypes DEF Init, Typed
  <1>3. Serves
    BY DEF Init, Serves, NoConn, FreeConn
  <1>4. ASSUME NEW c \in Client PROVE Descriptors(c) /\ lib[c].pid # c
    BY <1>1 DEF Init, Descriptors, FreshLib, NoClient
  <1> QED BY <1>2, <1>3, <1>4 DEF IInv

\* A step of the server or of a target that answers nobody.
LEMMA PortStepHolds ==
  ASSUME IInv, Typed', Serves', UNCHANGED <<process, client>>,
         \/ UNCHANGED sessions
         \/ \E t \in Targets :
              /\ sessions' = Append(sessions, t)
              /\ \A k \in Conn : conn'[k].st \notin {"pending", "accepted"},
         \A k \in Conn : Refs(k) # {} => Undisturbed(k)
  PROVE  IInv'
  <1>1. ASSUME NEW c \in Client
        PROVE  Descriptors(c)' /\ (lib'[c].pid = c => Connected(c)')
    <2>1. UNCHANGED <<lib, table, client>>
      BY DEF process
    <2>2. lib[c].pid = c => Channel(c) \in Conn /\ Refs(Channel(c)) # {}
      BY ChannelIsOpen DEF Refs
    <2>3. \A d \in Client \ {c}, n \in Fd :
            lib[c].pid = c /\ table'[d][n] = Channel(c) => lib'[d].pid = c
      BY <2>1 DEF IInv, Connected
    <2> QED BY <2>1, <2>2, <2>3, OthersStay
  <1> QED BY <1>1 DEF IInv

\* A new connection is taken.
LEMMA AcceptHolds ==
  ASSUME IInv, NEW k \in Conn, Accept(k)
  PROVE  IInv'
  <1>1. /\ conn' = [conn EXCEPT ![k].st = "accepted"] /\ conn[k].st = "pending"
        /\ UNCHANGED <<port, process, client>> /\ run = "running"
    BY DEF Accept, ServerRuns
  <1>2. Typed'
    <2>1. conn' \in [Conn -> Chan]
      BY <1>1, ChanTypes DEF IInv, Typed
    <2> QED BY <1>1, <2>1 DEF IInv, Typed, port, server, process
  <1>3. Serves'
    BY <1>1 DEF IInv, Typed, Serves, Current, port, server, Chan
  <1>4. \A j \in Conn : Undisturbed(j)
    BY <1>1 DEF IInv, Typed, Undisturbed
  <1> QED BY <1>1, <1>2, <1>3, <1>4, PortStepHolds DEF port

\* A connection that nobody has open is given back.
LEMMA HangsUpHolds ==
  ASSUME IInv, NEW k \in Conn, HangsUp(k)
  PROVE  IInv'
  <1>1. /\ conn' = [conn EXCEPT ![k] = NoConn] /\ Refs(k) = {}
        /\ UNCHANGED <<port, process, client>>
    BY DEF HangsUp
  <1>2. Typed'
    <2>1. conn' \in [Conn -> Chan]
      BY <1>1, FreshTypes DEF IInv, Typed
    <2> QED BY <1>1, <2>1 DEF IInv, Typed, port, server, process
  <1>3. Serves'
    BY <1>1 DEF IInv, Typed, Serves, Current, port, server, NoConn, FreeConn
  <1>4. \A j \in Conn : Refs(j) # {} => Undisturbed(j)
    BY <1>1 DEF IInv, Typed, Undisturbed
  <1> QED BY <1>1, <1>2, <1>3, <1>4, PortStepHolds DEF port

\* The thread comes back and closes what it had accepted.
LEMMA RunEndsHolds ==
  ASSUME IInv, RunEnds
  PROVE  IInv'
  <1>1. /\ conn' = Closed("accepted") /\ run' = "ended" /\ run = "running"
        /\ ~sock \/ cleanuping
        /\ UNCHANGED <<master, sessions, cleanuping, sock, fence, filemap, depends, process,
                       client>>
    BY DEF RunEnds
  <1>2. Typed'
    <2>1. conn' \in [Conn -> Chan]
      BY <1>1, ChanTypes DEF IInv, Typed, Closed
    <2> QED BY <1>1, <2>1 DEF IInv, Typed, process
  <1>3. Serves'
    <2>1. \A k \in Conn : /\ conn'[k].st = "pending" => conn[k].st = "pending"
                          /\ conn'[k].st = "accepted" => conn[k].st = "accepted"
                          /\ conn'[k].st # "accepted"
      BY <1>1 DEF IInv, Typed, Closed, Chan
    <2> QED BY <1>1, <2>1 DEF IInv, Serves, Current
  <1>4. \A j \in Conn : Undisturbed(j)
    BY <1>1 DEF IInv, Typed, Undisturbed, Closed, Chan
  <1> QED BY <1>1, <1>2, <1>3, <1>4, PortStepHolds

\* The target ends, and who waits for the server is turned away.
LEMMA CloseSocketHolds ==
  ASSUME IInv, CloseSocket
  PROVE  IInv'
  <1>1. /\ conn' = Closed("pending")
        /\ master = "running" /\ master' = "check" /\ sock' = FALSE
        /\ UNCHANGED <<sessions, run, fence, filemap, depends, process, client>>
    BY DEF CloseSocket
  <1>2. Typed'
    <2>1. conn' \in [Conn -> Chan]
      BY <1>1, ChanTypes DEF IInv, Typed, Closed
    <2> QED BY <1>1, <2>1 DEF IInv, Typed, process
  <1>3. Serves'
    <2>1. \A k \in Conn : /\ conn'[k].st = "pending" => conn[k].st = "pending"
                          /\ conn'[k].st = "accepted" => conn[k].st = "accepted"
                          /\ conn'[k].st # "pending"
      BY <1>1 DEF IInv, Typed, Closed, Chan
    <2> QED BY <1>1, <2>1 DEF IInv, Serves, Current
  <1>4. \A j \in Conn : Undisturbed(j)
    BY <1>1 DEF IInv, Typed, Undisturbed, Closed, Chan
  <1> QED BY <1>1, <1>2, <1>3, <1>4, PortStepHolds

\* What the thread used is freed.
LEMMA CleanHolds ==
  ASSUME IInv, Clean
  PROVE  IInv'
  <1>1. /\ master = "check" /\ run = "ended" /\ master' = "idle" /\ run' = "none"
        /\ filemap' = NoMap /\ depends' = NoDeps /\ fence' = FALSE
        /\ UNCHANGED <<sessions, sock, conn, process, client>>
    BY DEF Clean
  <1>2. Typed'
    BY <1>1 DEF IInv, Typed, process
  <1>3. Serves'
    BY <1>1 DEF IInv, Typed, Serves, Current
  <1>4. \A j \in Conn : Undisturbed(j)
    BY <1>1 DEF IInv, Typed, Undisturbed
  <1> QED BY <1>1, <1>2, <1>3, <1>4, PortStepHolds

\* The next target of a plan is one of its targets.
LEMMA NextTarget ==
  ASSUME IInv, NEW plan \in Plans, IsStrictPrefix(sessions, plan)
  PROVE  plan[Len(sessions) + 1] \in Targets
  <1>1. plan \in Seq(Targets) /\ sessions \in Seq(Targets)
    BY TraceAssumption DEF IInv, Typed
  <1>2. Len(sessions) <= Len(plan)
    BY DEF IsStrictPrefix, IsPrefix
  <1>3. Len(sessions) # Len(plan)
    <2> SUFFICES ASSUME Len(sessions) = Len(plan) PROVE FALSE
      OBVIOUS
    <2>1. SubSeq(sessions, 1, Len(sessions)) = SubSeq(plan, 1, Len(sessions))
      BY DEF IsStrictPrefix, IsPrefix
    <2>2. SubSeq(sessions, 1, Len(sessions)) = sessions /\ SubSeq(plan, 1, Len(plan)) = plan
      BY <1>1, SubSeqFull
    <2> QED BY <2>1, <2>2 DEF IsStrictPrefix
  <1> QED BY <1>1, <1>2, <1>3

\* A target begins with the server that it sets up.
LEMMA TraceStartHolds ==
  ASSUME IInv, NEW t \in Targets, TraceStart(t)
  PROVE  IInv'
  <1>1. /\ master = "idle" /\ master' = "running" /\ sessions' = Append(sessions, t)
        /\ run' = "running" /\ UNCHANGED <<conn, process, client>>
        /\ sock' => ~cleanuping'
    BY DEF TraceStart, TracelibOpenSocketCmd
  <1>2. /\ sessions \in Seq(Targets) /\ sessions' \in Seq(Targets)
        /\ sessions' # <<>> /\ Current' = t
    <2>1. sessions \in Seq(Targets)
      BY DEF IInv, Typed
    <2>2. /\ Append(sessions, t) \in Seq(Targets)
          /\ Len(Append(sessions, t)) = Len(sessions) + 1
          /\ Append(sessions, t)[Len(sessions) + 1] = t
      BY <2>1, AppendProperties
    <2> QED BY <1>1, <2>1, <2>2 DEF Current
  <1>3. /\ ~sock /\ run = "none" /\ filemap = NoMap /\ fence = FALSE /\ depends = NoDeps
        /\ \A k \in Conn : conn[k].st \notin {"pending", "accepted"}
    BY <1>1 DEF IInv, Serves
  <1>4. t.fence \in BOOLEAN
    BY TraceAssumption
  <1>5. fence' = t.fence /\ filemap' = NoMap
    BY <1>3, <1>4 DEF TraceStart, TracelibEnableFence
  <1>6. depends' = t.deps
    BY <1>3 DEF TraceStart, TracelibSetDeps
  <1>7. Typed'
    BY <1>1, <1>2 DEF IInv, Typed, process
  <1>8. Serves'
    BY <1>1, <1>2, <1>3, <1>5, <1>6 DEF Serves
  <1>9. \A k \in Conn : Undisturbed(k)
    BY <1>1 DEF Undisturbed
  <1> QED BY <1>1, <1>3, <1>7, <1>8, <1>9, PortStepHolds

\* A target that is not traced changes nothing but the list of targets.
LEMMA PrerunFailsHolds ==
  ASSUME IInv, NEW t \in Targets, PrerunFails(t)
  PROVE  IInv'
  <1>1. /\ master = "idle" /\ sessions' = Append(sessions, t)
        /\ UNCHANGED <<master, sock, run, fence, filemap, depends, conn, process, client>>
    BY DEF PrerunFails
  <1>2. \A k \in Conn : conn'[k].st \notin {"pending", "accepted"}
    BY <1>1 DEF IInv, Serves
  <1>3. Typed'
    BY <1>1 DEF IInv, Typed, process
  <1>4. Serves'
    BY <1>1 DEF IInv, Serves
  <1>5. \A k \in Conn : Undisturbed(k)
    BY <1>1 DEF Undisturbed
  <1> QED BY <1>1, <1>2, <1>3, <1>4, <1>5, PortStepHolds

-------------------------------------------------------------------------------
(* What the server answers *)

\* What a line is about is the question that its sender waits for.
LEMMA QuestionIsAsked ==
  ASSUME IInv, NEW c \in Client, lib[c].pid = c, conn[Channel(c)].up # <<>>
  PROVE  LET up == conn[Channel(c)].up
             line == Head(up)
         IN /\ up \in Seq(Line) /\ line \in Line /\ line = up[1]
            /\ Tail(up) \in Seq(Line) /\ Len(Tail(up)) = Len(up) - 1
            /\ \A i \in 1..Len(Tail(up)) : Tail(up)[i] = up[i + 1]
            /\ IsQuestion(line) =>
                 /\ Tail(up) = <<>> /\ conn[Channel(c)].down = <<>>
                 /\ IF line.op = "filemap" THEN client[c].st = "askMap"
                    ELSE client[c].st \in {"askDep", "askExec"} /\ line.path = client[c].path
  <1> DEFINE up == conn[Channel(c)].up
  <1>1. up \in Seq(Line) /\ up # <<>> /\ Connected(c)
    BY ChannelIsOpen, ChanTypes DEF IInv, Typed
  <1>2. /\ Head(up) \in Line /\ Head(up) = up[1] /\ Len(up) \in Nat /\ 1 \in 1..Len(up)
        /\ Tail(up) \in Seq(Line) /\ Len(Tail(up)) = Len(up) - 1
        /\ \A i \in 1..Len(Tail(up)) : Tail(up)[i] = up[i + 1]
    <2> HIDE DEF up
    <2> QED BY <1>1, HeadTailProperties
  <1>3. IsQuestion(up[1]) =>
          /\ 1 = Len(up) /\ conn[Channel(c)].down = <<>>
          /\ IF up[1].op = "filemap" THEN client[c].st = "askMap"
             ELSE client[c].st \in {"askDep", "askExec"} /\ up[1].path = client[c].path
    BY <1>1, <1>2 DEF Connected, Talks
  <1>4. 1 = Len(up) => Tail(up) = <<>>
    <2> HIDE DEF up
    <2> SUFFICES ASSUME 1 = Len(up) PROVE Tail(up) = <<>>
      OBVIOUS
    <2>1. Tail(up) \in Seq(Line) /\ Len(Tail(up)) = 0
      BY <1>2
    <2> QED BY <2>1, EmptySeq
  <1> QED BY <1>1, <1>2, <1>3, <1>4

\* A line is taken, and a question is answered with Answer.
Serving(k) ==
  LET line == Head(conn[k].up) IN
  /\ conn'[k].st = conn[k].st
  /\ conn'[k].up = Tail(conn[k].up)
  /\ IF IsQuestion(line)
     THEN conn'[k].down =
            Append(conn[k].down,
                   IF line.op = "filemap" THEN MapOf(Current)
                   ELSE IF Owner[line.path] \in Current.deps \ NoDeps THEN "+" ELSE "!")
     ELSE conn'[k].down = conn[k].down

\* Serving a connection keeps the invariant: the line comes from the process
\* whose connection it is, and the server works for that process's target.
LEMMA ServedHolds ==
  ASSUME IInv, Typed', Serves', UNCHANGED <<process, client, sessions>>, NEW k \in Conn,
         conn[k].st = "accepted", conn[k].up # <<>>, Serving(k),
         \A j \in Conn \ {k} : conn'[j] = conn[j]
  PROVE  IInv'
  <1>1. UNCHANGED <<lib, table, client>>
    BY DEF process
  <1>2. ASSUME NEW c \in Client, ~(lib[c].pid = c /\ Channel(c) = k)
        PROVE  Descriptors(c)' /\ (lib'[c].pid = c => Connected(c)')
    <2>1. lib[c].pid = c => Undisturbed(Channel(c))
      BY <1>2, ChannelIsOpen DEF Undisturbed
    <2>2. \A d \in Client \ {c}, n \in Fd :
            lib[c].pid = c /\ table'[d][n] = Channel(c) => lib'[d].pid = c
      BY <1>1 DEF IInv, Connected
    <2> QED BY <1>1, <2>1, <2>2, OthersStay
  <1>3. ASSUME NEW c \in Client, lib[c].pid = c, Channel(c) = k
        PROVE  Descriptors(c)' /\ Connected(c)'
    <2> DEFINE up == conn[k].up
               line == Head(up)
    <2>1. Connected(c) /\ Descriptors(c)
      BY <1>3 DEF IInv
    <2>2. /\ up \in Seq(Line) /\ line = up[1]
          /\ Tail(up) \in Seq(Line) /\ Len(Tail(up)) = Len(up) - 1
          /\ \A i \in 1..Len(Tail(up)) : Tail(up)[i] = up[i + 1]
          /\ IsQuestion(line) =>
               /\ Tail(up) = <<>> /\ conn[k].down = <<>>
               /\ IF line.op = "filemap" THEN client[c].st = "askMap"
                  ELSE client[c].st \in {"askDep", "askExec"} /\ line.path = client[c].path
      BY <1>3, QuestionIsAsked
    <2>3. Descriptors(c)' /\ Channel(c)' = k /\ Its(c)' = Its(c) /\ Answer(c)' = Answer(c)
      BY <1>1, <1>3, <2>1 DEF Descriptors, Channel, Its, Answer
    <2>4. Its(c) = Current
      BY <1>3, <2>1 DEF Connected, Its, Current
    <2>5. Talks(c)'
      <3>1. CASE IsQuestion(line)
        <4>1. conn'[k].up = <<>>
          BY <2>2, <3>1 DEF Serving
        <4>2. conn'[k].down = <<Answer(c)>> /\ client[c].st \in Asking
          BY <2>2, <2>4, <3>1 DEF Serving, Answer, Asking
        <4> QED BY <1>1, <2>3, <4>1, <4>2 DEF Talks
      <3>2. CASE ~IsQuestion(line)
        <4>1. conn'[k].up = Tail(up) /\ conn'[k].down = conn[k].down
          BY <3>2 DEF Serving
        <4>2. /\ \A i \in 1..Len(up) : IsQuestion(up[i]) =>
                   /\ i = Len(up) /\ conn[k].down = <<>>
                   /\ IF up[i].op = "filemap" THEN client[c].st = "askMap"
                      ELSE /\ client[c].st \in {"askDep", "askExec"}
                           /\ up[i].path = client[c].path
              /\ conn[k].down # <<>> => client[c].st \in Asking /\ conn[k].down = <<Answer(c)>>
          BY <1>3, <2>1 DEF Connected, Talks
        <4>3. ASSUME NEW i \in 1..Len(Tail(up)), IsQuestion(Tail(up)[i])
              PROVE  /\ i = Len(Tail(up)) /\ conn[k].down = <<>>
                     /\ IF Tail(up)[i].op = "filemap" THEN client[c].st = "askMap"
                        ELSE /\ client[c].st \in {"askDep", "askExec"}
                             /\ Tail(up)[i].path = client[c].path
          <5>1. /\ i + 1 \in 1..Len(up) /\ Tail(up)[i] = up[i + 1]
                /\ i + 1 = Len(up) => i = Len(Tail(up))
            <6>1. Len(up) \in Nat /\ i \in Nat
              BY <2>2
            <6> QED BY <2>2, <6>1
          <5> QED BY <4>2, <4>3, <5>1
        <4>4. \A i \in 1..Len(conn'[k].up) : IsQuestion(conn'[k].up[i]) =>
                 /\ i = Len(conn'[k].up) /\ conn'[k].down = <<>>
                 /\ IF conn'[k].up[i].op = "filemap" THEN client'[c].st = "askMap"
                    ELSE /\ client'[c].st \in {"askDep", "askExec"}
                         /\ conn'[k].up[i].path = client'[c].path
          BY <1>1, <4>1, <4>3 DEF IsQuestion
        <4> QED BY <1>1, <2>3, <4>1, <4>2, <4>4 DEF Talks
      <3> QED BY <3>1, <3>2
    <2>6. conn'[k].st \in {"pending", "accepted"} => client'[c].session = Len(sessions')
      BY <1>1, <1>3, <2>1 DEF Connected
    <2> QED BY <1>1, <1>3, <2>1, <2>3, <2>5, <2>6 DEF Connected
  <1> QED BY <1>1, <1>2, <1>3 DEF IInv

\* Every line is served, or the server crashes on it and all connections close.
LEMMA ProcessLineHolds ==
  ASSUME IInv, NEW k \in Conn, process_line(k)
  PROVE  IInv'
  <1> DEFINE line == Head(conn[k].up)
  <1>1. /\ conn[k].st = "accepted" /\ conn[k].up # <<>>
        /\ UNCHANGED <<master, sessions, cleanuping, sock, run, fence, depends, process,
                       client>>
        /\ master = "running"
    BY DEF process_line, ServerRuns, IInv, Serves
  <1>2. /\ sessions # <<>> /\ fence = Current.fence /\ depends = Current.deps
        /\ filemap \in {NoMap, MapOf(Current)}
    BY <1>1 DEF IInv, Serves
  <1>3. /\ conn \in [Conn -> Chan] /\ conn[k] \in Chan /\ line \in Line
        /\ Tail(conn[k].up) \in Seq(Line)
    <2>1. conn \in [Conn -> Chan]
      BY DEF IInv, Typed
    <2>2. conn[k].up \in Seq(Line)
      BY <2>1, ChanTypes
    <2> QED BY <1>1, <2>1, <2>2, HeadTailProperties
  <1>4. ASSUME NEW answer \in Answers, Sent(k, answer)
        PROVE  /\ conn' \in [Conn -> Chan]
               /\ conn'[k].st = conn[k].st
               /\ conn'[k].up = Tail(conn[k].up)
               /\ conn'[k].down = Append(conn[k].down, answer)
               /\ \A j \in Conn \ {k} : conn'[j] = conn[j]
    <2>1. conn' = [conn EXCEPT ![k] =
                     [conn[k] EXCEPT !.up = Tail(conn[k].up),
                                     !.down = Append(conn[k].down, answer)]]
      BY <1>3, <1>4 DEF Sent
    <2>2. Append(conn[k].down, answer) \in Seq(Answers)
      BY <1>3, <1>4, ChanTypes, AppendProperties
    <2>3. conn'[k] = [conn[k] EXCEPT !.up = Tail(conn[k].up),
                                     !.down = Append(conn[k].down, answer)]
      BY <1>3, <2>1
    <2>4. conn'[k] \in Chan
      <3> DEFINE r == conn[k]
                 up == Tail(conn[k].up)
                 down == Append(conn[k].down, answer)
      <3>1. r \in Chan /\ up \in Seq(Line) /\ down \in Seq(Answers)
        BY <1>3, <2>2
      <3> HIDE DEF r, up, down
      <3>2. [r EXCEPT !.up = up, !.down = down] \in Chan
        BY <3>1, ChanTypes
      <3> QED BY <2>3, <3>2 DEF r, up, down
    <2> QED BY <1>3, <2>1, <2>3, <2>4 DEF Chan
  <1>5. ASSUME conn' \in [Conn -> Chan] PROVE Typed'
    BY <1>1, <1>5 DEF IInv, Typed, process
  <1>6. ASSUME filemap' \in {filemap, MapOf(Current)},
               \A j \in Conn : conn'[j].st \in {conn[j].st, FreeConn, "closed"}
        PROVE  Serves'
    BY <1>1, <1>6 DEF IInv, Serves, Current, FreeConn
  <1>7. CASE line.op = "filemap" /\ send_file_map(k)
    <2>1. FileMap = MapOf(Current)
      BY <1>2 DEF FileMap, MapOf, Current
    <2>2. filemap' = MapOf(Current) /\ Sent(k, MapOf(Current))
      BY <1>7, <2>1 DEF send_file_map
    <2>3. MapOf(Current) \in Answers
      BY MapOfRules DEF Answers
    <2>4. Serving(k)
      BY <1>4, <1>7, <2>2, <2>3 DEF Serving, IsQuestion
    <2>5. \A j \in Conn : conn'[j].st \in {conn[j].st, FreeConn, "closed"}
      BY <1>4, <2>2, <2>3
    <2> QED BY <1>1, <1>4, <1>5, <1>6, <2>2, <2>3, <2>4, <2>5, ServedHolds
  <1>8. CASE line.op = "dep_check" /\ dep_check(k, line.path)
    <2> DEFINE answer == IF Owner[line.path] # NoPort /\ Owner[line.path] \in depends
                         THEN "+" ELSE "!"
    <2>1. UNCHANGED filemap
      BY <1>8 DEF dep_check
    <2>2. CASE conn' = Hung
      <3>1. conn' \in [Conn -> Chan]
        BY <1>3, <2>2, ChanTypes DEF Hung
      <3>2. \A j \in Conn : Undisturbed(j) /\ conn'[j].st \in {FreeConn, "closed"}
        BY <1>3, <2>2 DEF Hung, Chan, Undisturbed, FreeConn
      <3>3. Typed' /\ Serves'
        BY <1>5, <1>6, <2>1, <3>1, <3>2
      <3> QED BY <1>1, <3>2, <3>3, PortStepHolds
    <2>3. CASE Sent(k, answer)
      <3>1. answer = IF Owner[line.path] \in Current.deps \ NoDeps THEN "+" ELSE "!"
        BY <1>2 DEF NoPort, NoDeps
      <3>2. answer \in Answers
        BY DEF Answers
      <3> HIDE DEF answer
      <3>3. Serving(k)
        BY <1>4, <1>8, <2>3, <3>1, <3>2 DEF Serving, IsQuestion
      <3>4. \A j \in Conn : conn'[j].st \in {conn[j].st, FreeConn, "closed"}
        BY <1>4, <2>3, <3>2
      <3> QED BY <1>1, <1>4, <1>5, <1>6, <2>1, <2>3, <3>2, <3>3, <3>4, ServedHolds
    <2> QED BY <1>8, <2>2, <2>3 DEF dep_check
  <1>9. CASE line.op \in {"sandbox_violation", "execve"} /\ Recorded(k)
    <2>1. /\ conn' = [conn EXCEPT ![k] = [conn[k] EXCEPT !.up = Tail(conn[k].up)]]
          /\ UNCHANGED filemap
      BY <1>3, <1>9 DEF Recorded
    <2>2. conn'[k] = [conn[k] EXCEPT !.up = Tail(conn[k].up)]
      BY <1>3, <2>1
    <2>3. conn' \in [Conn -> Chan] /\ \A j \in Conn \ {k} : conn'[j] = conn[j]
      BY <1>3, <2>1, <2>2, ChanTypes
    <2>4. /\ conn'[k].up = Tail(conn[k].up) /\ conn'[k].st = conn[k].st
          /\ conn'[k].down = conn[k].down
      BY <1>3, <2>2 DEF Chan
    <2>5. Serving(k)
      BY <1>9, <2>4 DEF Serving, IsQuestion
    <2> QED BY <1>1, <1>5, <1>6, <2>1, <2>3, <2>4, <2>5, ServedHolds
  <1> QED BY <1>7, <1>8, <1>9 DEF process_line

-------------------------------------------------------------------------------
(* The library and the programs *)

\* Nothing but a new connection makes the server's part of the invariant
\* depend on a program.
LEMMA ServesStays ==
  ASSUME Serves, UNCHANGED port,
         \A k \in Conn : conn'[k].st = conn[k].st \/ (conn'[k].st = "pending" /\ sock)
  PROVE  Serves'
  BY DEF Serves, Current, port, server

\* A step of program x only touches what is its own.
LEMMA ProgramStepHolds ==
  ASSUME IInv, Typed', UNCHANGED port, NEW x \in Client,
         \A c \in Client \ {x} :
           lib'[c] = lib[c] /\ table'[c] = table[c] /\ client'[c] = client[c],
         \A k \in Conn :
           \/ conn'[k] = conn[k]
           \/ lib[x].pid = x /\ k = Channel(x) /\ conn'[k].st = conn[k].st,
         \A n \in Fd : table'[x][n] \in Conn =>
           lib'[x].pid = lib[x].pid /\ \E m \in Fd : table[x][m] = table'[x][n],
         Descriptors(x)',
         lib'[x].pid = x => Connected(x)'
  PROVE  IInv'
  <1>1. Serves'
    BY ServesStays DEF IInv
  <1>2. ASSUME NEW c \in Client, c # x
        PROVE  Descriptors(c)' /\ (lib'[c].pid = c => Connected(c)')
    <2>1. ASSUME lib[c].pid = c PROVE Undisturbed(Channel(c))
      <3>1. Channel(c) \in Conn /\ (lib[x].pid = x => Channel(c) # Channel(x))
        BY <1>2, <2>1, ChannelIsOpen, ChannelsDiffer
      <3>2. conn'[Channel(c)] = conn[Channel(c)]
        BY <3>1
      <3> QED BY <3>2 DEF Undisturbed
    <2>2. ASSUME NEW d \in Client \ {c}, NEW n \in Fd,
                 lib[c].pid = c, table'[d][n] = Channel(c)
          PROVE  lib'[d].pid = c
      <3>1. /\ Channel(c) \in Conn
            /\ \A m \in Fd : table[d][m] = Channel(c) => lib[d].pid = c
        BY <2>2 DEF IInv, Connected
      <3>2. CASE d = x
        <4>1. table'[x][n] \in Conn
          BY <2>2, <3>1, <3>2
        <4>2. lib'[x].pid = lib[x].pid /\ \E m \in Fd : table[x][m] = Channel(c)
          BY <2>2, <3>2, <4>1
        <4> QED BY <3>1, <3>2, <4>2
      <3>3. CASE d # x
        BY <2>2, <3>1, <3>3
      <3> QED BY <3>2, <3>3
    <2>3. UNCHANGED sessions
      BY DEF port
    <2> QED BY <1>2, <2>1, <2>2, <2>3, OthersStay
  <1> QED BY <1>1, <1>2 DEF IInv

\* A program that dies leaves nothing behind.
LEMMA DeadHolds ==
  ASSUME IInv, NEW c \in Client, Dead(c)
  PROVE  IInv'
  <1>1. /\ client' = [client EXCEPT ![c] = NoClient]
        /\ table' = [table EXCEPT ![c] = [n \in Fd |-> Own]]
        /\ lib' = [lib EXCEPT ![c] = FreshLib]
        /\ UNCHANGED <<port, conn>>
    BY DEF Dead
  <1>2. /\ client'[c] = NoClient /\ table'[c] = [n \in Fd |-> Own] /\ lib'[c] = FreshLib
        /\ \A d \in Client \ {c} :
             lib'[d] = lib[d] /\ table'[d] = table[d] /\ client'[d] = client[d]
    BY <1>1 DEF IInv, Typed
  <1>3. Typed'
    BY <1>1, FreshTypes DEF IInv, Typed, port, server
  <1>4. NotSetUp \notin Client /\ Own \notin Conn
    BY TraceAssumption DEF NotSetUp, Own
  <1>5. Descriptors(c)' /\ lib'[c].pid # c /\ \A n \in Fd : table'[c][n] \notin Conn
    BY <1>2, <1>4 DEF Descriptors, FreshLib, NoClient
  <1> QED BY <1>1, <1>2, <1>3, <1>5, ProgramStepHolds

\* A target runs a program, with a library that is not connected.
LEMMA SpawnHolds ==
  ASSUME IInv, NEW c \in Client, Spawn(c)
  PROVE  IInv'
  <1> DEFINE new == [st |-> "run", path |-> NoPath, session |-> Len(sessions),
                     awaited |-> TRUE]
             loaded == [FreshLib EXCEPT !.log = Len(sessions)]
  <1>1. /\ client' = [client EXCEPT ![c] = new]
        /\ table' = [table EXCEPT ![c] = [n \in Fd |-> Own]]
        /\ lib' = [lib EXCEPT ![c] = loaded]
        /\ UNCHANGED <<port, conn>>
    BY DEF Spawn, __darwintrace_copy_env
  <1>2. /\ client'[c] = new /\ table'[c] = [n \in Fd |-> Own] /\ lib'[c] = loaded
        /\ \A d \in Client \ {c} :
             lib'[d] = lib[d] /\ table'[d] = table[d] /\ client'[d] = client[d]
    BY <1>1 DEF IInv, Typed
  <1>3. Len(sessions) \in Nat /\ Len(sessions) \in 1..Len(sessions) /\ UNCHANGED sessions
    <2>1. sessions \in Seq(Targets) /\ sessions # <<>>
      BY DEF IInv, Typed, Serves, Spawn
    <2> QED BY <1>1, <2>1, EmptySeq DEF port
  <1>4. Typed'
    <2>1. loaded \in Library
      BY <1>3, FreshTypes
    <2>2. new \in Program
      BY <1>3 DEF Live, Program
    <2> HIDE DEF new, loaded
    <2> QED BY <1>1, <2>1, <2>2 DEF IInv, Typed, port, server
  <1>5. NotSetUp \notin Client /\ Own \notin Conn
    BY TraceAssumption DEF NotSetUp, Own
  <1>6. loaded.pid = NotSetUp /\ loaded.fd = NoFd /\ loaded.log = Len(sessions)
    BY DEF FreshLib
  <1> HIDE DEF loaded
  <1>7. Descriptors(c)' /\ lib'[c].pid # c /\ \A n \in Fd : table'[c][n] \notin Conn
    BY <1>2, <1>3, <1>5, <1>6 DEF Descriptors
  <1> HIDE DEF new
  <1> QED BY <1>1, <1>2, <1>4, <1>7, ProgramStepHolds

\* A program closes a descriptor, or puts a file on it, that is not the
\* library's.
LEMMA CloseHolds ==
  ASSUME IInv, NEW c \in Client, NEW n \in Fd, n # lib[c].fd, client[c].st = "run",
         table' = [table EXCEPT ![c][n] = Own], UNCHANGED <<port, conn, lib, client>>
  PROVE  IInv'
  <1>1. Own \notin Conn
    BY TraceAssumption DEF Own
  <1>2. /\ table'[c] = [table[c] EXCEPT ![n] = Own]
        /\ \A d \in Client \ {c} : table'[d] = table[d]
    BY DEF IInv, Typed
  <1>3. \A m \in Fd : table'[c][m] = IF m = n THEN Own ELSE table[c][m]
    BY <1>2 DEF IInv, Typed
  <1>4. Typed'
    BY DEF IInv, Typed, port, server
  <1>5. Descriptors(c)'
    BY <1>1, <1>3 DEF IInv, Descriptors, port
  <1>6. ASSUME lib[c].pid = c PROVE Connected(c)'
    <2>1. Connected(c) /\ lib[c].fd \in Fd
      BY <1>6, ChannelIsOpen DEF IInv
    <2>2. Channel(c)' = Channel(c) /\ Its(c)' = Its(c) /\ UNCHANGED sessions
      BY <1>3, <2>1 DEF Channel, Its, port
    <2>3. Talks(c)'
      BY <2>1, <2>2 DEF Connected, Talks, Answer, IsQuestion
    <2> QED BY <1>2, <2>1, <2>2, <2>3 DEF Connected
  <1>7. \A m \in Fd : table'[c][m] \in Conn => table[c][m] = table'[c][m]
    BY <1>1, <1>3
  <1> QED BY <1>2, <1>4, <1>5, <1>6, <1>7, ProgramStepHolds

\* The library's descriptor is moved out of the way of a dup2.
LEMMA Dup2Holds ==
  ASSUME IInv, NEW c \in Client, NEW to \in Fd, dup2(c, to)
  PROVE  IInv'
  <1>1. CASE to # lib[c].fd /\ table' = [table EXCEPT ![c][to] = Own] /\ UNCHANGED lib
    BY <1>1, CloseHolds DEF dup2
  <1>2. ASSUME NEW fd \in Fd \ {to}, to = lib[c].fd,
               table' = [table EXCEPT ![c][fd] = table[c][to], ![c][to] = Own],
               lib' = [lib EXCEPT ![c].fd = fd]
        PROVE  IInv'
    <2>0. Own \notin Conn /\ NoFd \notin Fd
      BY TraceAssumption DEF Own, NoFd
    <2>1. /\ lib'[c] = [lib[c] EXCEPT !.fd = fd] /\ lib[c].fd = to
          /\ lib'[c].fd = fd /\ lib'[c].pid = lib[c].pid
          /\ lib'[c].log = lib[c].log /\ lib'[c].filemap = lib[c].filemap
          /\ \A d \in Client \ {c} : table'[d] = table[d] /\ lib'[d] = lib[d]
      BY <1>2 DEF IInv, Typed, Library
    <2>2. \A m \in Fd : table'[c][m] = IF m = to THEN Own
                                       ELSE IF m = fd THEN table[c][to] ELSE table[c][m]
      BY <1>2 DEF IInv, Typed
    <2>3. UNCHANGED <<port, conn, client, sessions>>
      BY DEF dup2, port
    <2>4. Typed'
      <3>1. lib' \in [Client -> Library]
        BY <1>2, LibraryTypes DEF IInv, Typed
      <3>2. table' \in [Client -> [Fd -> Conn \cup {Own}]]
        BY <1>2 DEF IInv, Typed
      <3> QED BY <2>3, <3>1, <3>2 DEF IInv, Typed, port, server
    <2>5. \A m \in Fd : table[c][m] \in Conn => m = to
      BY <2>1 DEF IInv, Descriptors
    <2>6. Descriptors(c)'
      BY <2>0, <2>1, <2>2, <2>3, <2>5 DEF IInv, Descriptors
    <2>7. ASSUME lib[c].pid = c PROVE Connected(c)'
      <3>1. Connected(c)
        BY <2>7 DEF IInv
      <3>2. Channel(c)' = Channel(c) /\ Its(c)' = Its(c)
        BY <2>1, <2>2, <2>3 DEF Channel, Its
      <3>3. Talks(c)'
        BY <2>3, <3>1, <3>2 DEF Connected, Talks, Answer, IsQuestion
      <3> QED BY <2>1, <2>3, <3>1, <3>2, <3>3 DEF Connected
    <2>8. \A m \in Fd : table'[c][m] \in Conn => \E i \in Fd : table[c][i] = table'[c][m]
      BY <2>0, <2>2
    <2> QED BY <2>1, <2>3, <2>4, <2>6, <2>7, <2>8, ProgramStepHolds
  <1> QED BY <1>1, <1>2 DEF dup2

\* What is known of a program whose library is connected.
LEMMA WhenConnected ==
  ASSUME IInv, NEW x \in Client, lib[x].pid = x
  PROVE  /\ Connected(x) /\ client[x].st \in Live /\ lib[x].fd \in Fd
         /\ client[x].session \in 1..Len(sessions) /\ Its(x) \in Targets
         /\ Channel(x) \in Conn /\ conn[Channel(x)] \in Chan
         /\ conn[Channel(x)].up \in Seq(Line)
         /\ client[x].path \in Path \cup {NoPath}
         /\ client[x].st \notin Asking =>
              /\ conn[Channel(x)].down = <<>>
              /\ \A i \in 1..Len(conn[Channel(x)].up) : ~IsQuestion(conn[Channel(x)].up[i])
  <1>1. NotSetUp \notin Client
    BY TraceAssumption DEF NotSetUp
  <1>2. Connected(x) /\ Descriptors(x) /\ Channel(x) \in Conn /\ lib[x].fd \in Fd
    BY ChannelIsOpen DEF IInv
  <1>3. client[x].st \in Live /\ client[x].path \in Path \cup {NoPath}
    BY <1>1, <1>2 DEF IInv, Typed, Program, Descriptors
  <1>4. client[x].session \in 1..Len(sessions)
    BY <1>1, <1>2 DEF Descriptors
  <1>5. Its(x) \in Targets
    BY <1>4 DEF IInv, Typed, Its
  <1>6. conn[Channel(x)] \in Chan /\ conn[Channel(x)].up \in Seq(Line)
    BY <1>2, ChanTypes DEF IInv, Typed
  <1>7. client[x].st \notin Asking =>
          /\ conn[Channel(x)].down = <<>>
          /\ \A i \in 1..Len(conn[Channel(x)].up) : ~IsQuestion(conn[Channel(x)].up[i])
    BY <1>2 DEF Connected, Talks, Asking
  <1> QED BY <1>2, <1>3, <1>4, <1>5, <1>6, <1>7

\* A connected program goes on, with the same descriptors.
LEMMA ConnectedStepHolds ==
  ASSUME IInv, Typed', UNCHANGED <<port, table>>, NEW x \in Client, lib[x].pid = x,
         lib'[x].pid = x, lib'[x].fd = lib[x].fd, lib'[x].log = lib[x].log,
         \A c \in Client \ {x} : lib'[c] = lib[c] /\ client'[c] = client[c],
         client'[x].session = client[x].session, client'[x].st \in Live,
         \A k \in Conn \ {Channel(x)} : conn'[k] = conn[k],
         conn'[Channel(x)].st = conn[Channel(x)].st,
         client'[x].st # "askMap" => lib'[x].filemap = MapOf(Its(x)),
         Talks(x)',
         client'[x].st \in {"askDep", "askExec"} \cup Judged => client'[x].path \in Path,
         client'[x].st \in {"askDep", "askExec"} =>
           (Policy(Its(x), client'[x].path)
              <=> Owner[client'[x].path] \in Its(x).deps \ NoDeps),
         client'[x].st \in Judged =>
           (client'[x].st # "denied" <=> Policy(Its(x), client'[x].path))
  PROVE  IInv'
  <1>1. NotSetUp \notin Client
    BY TraceAssumption DEF NotSetUp
  <1>2. Connected(x) /\ Descriptors(x) /\ UNCHANGED sessions
    BY DEF IInv, port
  <1>3. Descriptors(x)'
    <2>1. "dead" \notin Live /\ client[x].st # "dead"
      BY <1>1, <1>2 DEF Descriptors, Live, Asking, Judged
    <2> QED BY <1>1, <1>2, <2>1 DEF Descriptors
  <1>4. Channel(x)' = Channel(x) /\ Its(x)' = Its(x)
    BY <1>2 DEF Channel, Its
  <1>5. Connected(x)'
    BY <1>2, <1>4 DEF Connected
  <1>6. \A n \in Fd : table'[x][n] \in Conn =>
          lib'[x].pid = lib[x].pid /\ \E m \in Fd : table[x][m] = table'[x][n]
    OBVIOUS
  <1>7. \A k \in Conn :
          \/ conn'[k] = conn[k]
          \/ lib[x].pid = x /\ k = Channel(x) /\ conn'[k].st = conn[k].st
    OBVIOUS
  <1> QED BY <1>3, <1>5, <1>6, <1>7, ProgramStepHolds

\* A program goes on without a word to the server.
LEMMA GoesHolds ==
  ASSUME IInv, NEW x \in Client, lib[x].pid = x, client[x].st \notin Asking,
         NEW st \in {"decide", "run"} \cup Judged, NEW path \in Path \cup {NoPath},
         Goes(x, st, path), UNCHANGED <<port, conn, process>>,
         st \in Judged => path \in Path /\ (st # "denied" <=> Policy(Its(x), path))
  PROVE  IInv'
  <1>1. st \in Live /\ st \notin Asking
    BY DEF Live, Asking, Judged
  <1>2. client' = [client EXCEPT ![x] = [client[x] EXCEPT !.st = st, !.path = path]]
    BY DEF Goes, IInv, Typed, Program
  <1>3. client[x] \in Program
    BY DEF IInv, Typed
  <1>4. /\ client'[x] = [client[x] EXCEPT !.st = st, !.path = path]
        /\ client' \in [Client -> Program]
        /\ \A c \in Client \ {x} : client'[c] = client[c]
    BY <1>1, <1>2, <1>3, ProgramTypes DEF IInv, Typed
  <1>5. client'[x].st = st /\ client'[x].path = path /\ client'[x].session = client[x].session
    BY <1>3, <1>4 DEF Program
  <1>6. Typed'
    BY <1>4 DEF IInv, Typed, port, server, process
  <1>7. UNCHANGED <<lib, table, conn, sessions>>
    BY DEF process, port
  <1>8. Talks(x)'
    <2>1. Channel(x)' = Channel(x)
      BY <1>7 DEF Channel
    <2>2. conn[Channel(x)].down = <<>>
          /\ \A i \in 1..Len(conn[Channel(x)].up) : ~IsQuestion(conn[Channel(x)].up[i])
      BY WhenConnected
    <2> QED BY <1>7, <2>1, <2>2 DEF Talks, IsQuestion
  <1>9. lib'[x].filemap = MapOf(Its(x))
    BY <1>7, WhenConnected DEF Connected, Asking
  <1>10. st \notin {"askMap", "askDep", "askExec"}
    BY <1>1 DEF Asking
  <1> QED BY <1>1, <1>4, <1>5, <1>6, <1>7, <1>8, <1>9, <1>10, ConnectedStepHolds

\* A program that waits for no answer sends a line: it asks, or reports.
LEMMA SendsHolds ==
  ASSUME IInv, NEW x \in Client, lib[x].pid = x, client[x].st \notin Asking,
         NEW op, NEW about \in Path \cup {NoPath}, Sends(x, op, about),
         NEW st, NEW path \in Path, Goes(x, st, path), UNCHANGED <<port, process>>,
         \/ op = "sandbox_violation" /\ st = "denied" /\ ~Policy(Its(x), path)
         \/ /\ op = "dep_check" /\ st \in {"askDep", "askExec"} /\ about = path
            /\ Policy(Its(x), path) <=> Owner[path] \in Its(x).deps \ NoDeps
  PROVE  IInv'
  <1> DEFINE k == Channel(x)
             line == [op |-> op, path |-> about]
             up == conn[k].up
  <1>1. st \in Live /\ st # "askMap"
    BY DEF Live, Asking, Judged
  <1>2. /\ Connected(x) /\ k \in Conn /\ conn[k] \in Chan /\ up \in Seq(Line)
        /\ conn[k].down = <<>> /\ \A i \in 1..Len(up) : ~IsQuestion(up[i])
    BY WhenConnected
  <1>3. client[x] \in Program /\ conn \in [Conn -> Chan]
    BY DEF IInv, Typed
  <1>4. client' = [client EXCEPT ![x] = [client[x] EXCEPT !.st = st, !.path = path]]
    BY DEF Goes, IInv, Typed, Program
  <1>5. /\ client'[x] = [client[x] EXCEPT !.st = st, !.path = path]
        /\ client' \in [Client -> Program]
        /\ \A c \in Client \ {x} : client'[c] = client[c]
    BY <1>1, <1>3, <1>4, ProgramTypes DEF IInv, Typed
  <1>6. client'[x].st = st /\ client'[x].path = path /\ client'[x].session = client[x].session
    BY <1>3, <1>5 DEF Program
  <1>7. line \in Line /\ line.op = op /\ line.path = about
    BY DEF Line
  <1>8. /\ Append(up, line) \in Seq(Line) /\ Len(Append(up, line)) = Len(up) + 1
        /\ Len(up) \in Nat
        /\ \A i \in 1..Len(up) : Append(up, line)[i] = up[i]
        /\ Append(up, line)[Len(up) + 1] = line
    <2> HIDE DEF up, line
    <2> QED BY <1>2, <1>7, AppendProperties
  <1>9. conn' = [conn EXCEPT ![k] = [conn[k] EXCEPT !.up = Append(up, line)]]
    BY <1>2, <1>3 DEF Sends
  <1>10. /\ conn' \in [Conn -> Chan]
         /\ \A j \in Conn \ {k} : conn'[j] = conn[j]
         /\ conn'[k].st = conn[k].st /\ conn'[k].down = <<>> /\ conn'[k].up = Append(up, line)
    <2>1. [conn[k] EXCEPT !.up = Append(up, line)] \in Chan
      BY <1>2, <1>8, ChanTypes
    <2>2. conn'[k] = [conn[k] EXCEPT !.up = Append(up, line)]
      BY <1>2, <1>3, <1>9
    <2>3. conn' \in [Conn -> Chan] /\ \A j \in Conn \ {k} : conn'[j] = conn[j]
      BY <1>2, <1>3, <1>9, <2>1
    <2> QED BY <1>2, <2>2, <2>3 DEF Chan
  <1>11. Typed'
    BY <1>5, <1>10 DEF IInv, Typed, port, server, process
  <1>12. UNCHANGED <<lib, table, sessions>>
    BY DEF process, port
  <1>13. Talks(x)'
    <2>1. Channel(x)' = k
      BY <1>12 DEF Channel
    <2> HIDE DEF k
    <2>2. ASSUME NEW i \in 1..(Len(up) + 1), IsQuestion(Append(up, line)[i])
          PROVE  /\ i = Len(up) + 1
                 /\ op = "dep_check" /\ st \in {"askDep", "askExec"} /\ about = path
      <3> HIDE DEF up, line
      <3>1. i \in 1..Len(up) \/ i = Len(up) + 1
        BY <1>8
      <3>2. i = Len(up) + 1 /\ IsQuestion(line)
        BY <1>2, <1>8, <2>2, <3>1
      <3> QED BY <1>7, <3>2 DEF IsQuestion
    <2> HIDE DEF up
    <2>3. \A i \in 1..Len(conn'[k].up) : IsQuestion(conn'[k].up[i]) =>
            /\ i = Len(conn'[k].up) /\ conn'[k].down = <<>>
            /\ conn'[k].up[i].op = "dep_check"
            /\ client'[x].st \in {"askDep", "askExec"}
            /\ conn'[k].up[i].path = client'[x].path
      BY <1>6, <1>7, <1>8, <1>10, <2>2
    <2> QED BY <1>10, <2>1, <2>3 DEF Talks, IsQuestion
  <1>14. lib'[x].filemap = MapOf(Its(x))
    BY <1>2, <1>12 DEF Connected, Asking
  <1>15. st \in {"askDep", "askExec"} <=> op = "dep_check"
    OBVIOUS
  <1>16. st \in {"askDep", "askExec"} =>
           (Policy(Its(x), path) <=> Owner[path] \in Its(x).deps \ NoDeps)
    BY <1>15
  <1>17. st \in Judged => (st # "denied" <=> Policy(Its(x), path))
    BY DEF Judged
  <1> HIDE DEF k, line, up
  <1> QED BY <1>1, <1>5, <1>6, <1>10, <1>11, <1>12, <1>13, <1>14, <1>16, <1>17,
             ConnectedStepHolds DEF k

\* A program receives the answer that it waits for.
LEMMA AnswerIsMine ==
  ASSUME IInv, NEW x \in Client, lib[x].pid = x, Answered(x)
  PROVE  LET k == Channel(x) IN
         /\ conn[k].down = <<Answer(x)>> /\ Head(conn[k].down) = Answer(x)
         /\ Tail(conn[k].down) = <<>>
         /\ \A i \in 1..Len(conn[k].up) : ~IsQuestion(conn[k].up[i])
  <1> DEFINE k == Channel(x)
  <1>1. conn[k].down = <<Answer(x)>>
    BY WhenConnected DEF Connected, Talks, Answered
  <1>2. Head(<<Answer(x)>>) = Answer(x) /\ Tail(<<Answer(x)>>) = <<>>
    OBVIOUS
  <1>3. \A i \in 1..Len(conn[k].up) : ~IsQuestion(conn[k].up[i])
    <2>1. conn[k].down # <<>>
      BY DEF Answered
    <2> QED BY <2>1, WhenConnected DEF Connected, Talks
  <1> QED BY <1>1, <1>2, <1>3

\* With the answer it goes on.
LEMMA ReceivedHolds ==
  ASSUME IInv, NEW x \in Client, lib[x].pid = x, Answered(x), Received(x),
         UNCHANGED <<port, table>>,
         NEW st \in {"decide"} \cup Judged,
         client' = [client EXCEPT ![x].st = st],
         st \in Judged =>
           client[x].path \in Path /\ (st # "denied" <=> Policy(Its(x), client[x].path)),
         lib' \in [Client -> Library], lib'[x].filemap = MapOf(Its(x)),
         lib'[x].pid = x, lib'[x].fd = lib[x].fd, lib'[x].log = lib[x].log,
         \A c \in Client \ {x} : lib'[c] = lib[c]
  PROVE  IInv'
  <1> DEFINE k == Channel(x)
  <1>1. st \in Live /\ st \notin {"askMap", "askDep", "askExec"}
    BY DEF Live, Asking, Judged
  <1>2. k \in Conn /\ conn[k] \in Chan /\ conn \in [Conn -> Chan]
    BY WhenConnected DEF IInv, Typed
  <1>3. Tail(conn[k].down) = <<>> /\ \A i \in 1..Len(conn[k].up) : ~IsQuestion(conn[k].up[i])
    BY AnswerIsMine
  <1>4. /\ conn' \in [Conn -> Chan]
        /\ \A j \in Conn \ {k} : conn'[j] = conn[j]
        /\ conn'[k].st = conn[k].st /\ conn'[k].up = conn[k].up /\ conn'[k].down = <<>>
    <2>1. conn' = [conn EXCEPT ![k] = [conn[k] EXCEPT !.down = <<>>]]
      BY <1>2, <1>3 DEF Received
    <2>2. [conn[k] EXCEPT !.down = <<>>] \in Chan
      <3> HIDE DEF k
      <3>1. <<>> \in Seq(Answers)
        OBVIOUS
      <3> QED BY <1>2, <3>1, ChanTypes
    <2>3. conn'[k] = [conn[k] EXCEPT !.down = <<>>]
      BY <1>2, <2>1
    <2>4. conn' \in [Conn -> Chan] /\ \A j \in Conn \ {k} : conn'[j] = conn[j]
      BY <1>2, <2>1, <2>2
    <2> QED BY <1>2, <2>3, <2>4 DEF Chan
  <1>5. /\ client' \in [Client -> Program]
        /\ client'[x].st = st /\ client'[x].path = client[x].path
        /\ client'[x].session = client[x].session
        /\ \A c \in Client \ {x} : client'[c] = client[c]
    <2>1. client' = [client EXCEPT ![x] = [client[x] EXCEPT !.st = st]]
      BY DEF IInv, Typed
    <2>2. client[x] \in Program /\ [client[x] EXCEPT !.st = st] \in Program
      BY <1>1, ProgramTypes DEF IInv, Typed
    <2>3. client'[x] = [client[x] EXCEPT !.st = st]
      BY <2>1 DEF IInv, Typed
    <2>4. /\ client' \in [Client -> Program]
          /\ \A c \in Client \ {x} : client'[c] = client[c]
      BY <2>1, <2>2 DEF IInv, Typed
    <2> QED BY <2>2, <2>3, <2>4 DEF Program
  <1>6. Typed'
    BY <1>4, <1>5 DEF IInv, Typed, port, server
  <1>7. Talks(x)'
    <2>1. Channel(x)' = k
      BY DEF Channel
    <2> QED BY <1>3, <1>4, <2>1 DEF Talks, IsQuestion
  <1> HIDE DEF k
  <1> QED BY <1>1, <1>4, <1>5, <1>6, <1>7, ConnectedStepHolds DEF k

\* A program whose connection is closed is killed; any program may be.
LEMMA CannotSendHolds ==
  ASSUME IInv, NEW c \in Client, CannotSend(c)
  PROVE  IInv'
  BY DeadHolds DEF CannotSend

\* execve leaves a program without connection.
LEMMA DisconnectedHolds ==
  ASSUME IInv, NEW c \in Client, lib[c].pid = c,
         NEW newLib \in Library, newLib.pid = NotSetUp, newLib.fd = NoFd,
         newLib.log = lib[c].log, Disconnected(c, newLib),
         conn' \in [Conn -> Chan],
         \A k \in Conn : \/ conn'[k] = conn[k]
                         \/ k = Channel(c) /\ conn'[k].st = conn[k].st
  PROVE  IInv'
  <1>1. NotSetUp \notin Client /\ Own \notin Conn
    BY TraceAssumption DEF NotSetUp, Own
  <1>2. /\ Descriptors(c) /\ lib[c].fd \in Fd /\ client[c].st # "dead"
        /\ client[c] \in Program
    BY <1>1, ChannelIsOpen DEF IInv, Typed, Descriptors
  <1>3. /\ table' = [table EXCEPT ![c] = [table[c] EXCEPT ![lib[c].fd] = Own]]
        /\ lib' = [lib EXCEPT ![c] = newLib]
        /\ client' = [client EXCEPT ![c] = [client[c] EXCEPT !.st = "run", !.path = NoPath]]
        /\ UNCHANGED port
    BY <1>2 DEF Disconnected, Goes, IInv, Typed, Program
  <1>4. "run" \in Live
    BY DEF Live
  <1>5. [client[c] EXCEPT !.st = "run", !.path = NoPath] \in Program
    BY <1>2, <1>4, ProgramTypes
  <1>6. /\ table'[c] = [table[c] EXCEPT ![lib[c].fd] = Own]
        /\ lib'[c] = newLib
        /\ client'[c] = [client[c] EXCEPT !.st = "run", !.path = NoPath]
        /\ \A d \in Client \ {c} :
             lib'[d] = lib[d] /\ table'[d] = table[d] /\ client'[d] = client[d]
    BY <1>3 DEF IInv, Typed
  <1>7. client'[c].st = "run" /\ client'[c].session = client[c].session
    BY <1>2, <1>6 DEF Program
  <1>8. Typed'
    <2>1. client' \in [Client -> Program]
      BY <1>3, <1>5 DEF IInv, Typed
    <2>2. lib' \in [Client -> Library]
      BY <1>3 DEF IInv, Typed
    <2>3. table' \in [Client -> [Fd -> Conn \cup {Own}]]
      BY <1>3 DEF IInv, Typed
    <2> QED BY <1>3, <2>1, <2>2, <2>3 DEF IInv, Typed, port, server
  <1>9. \A n \in Fd : table'[c][n] \notin Conn
    BY <1>1, <1>2, <1>6 DEF IInv, Typed, Descriptors
  <1>10. Descriptors(c)'
    BY <1>2, <1>3, <1>6, <1>7, <1>9 DEF Descriptors, port
  <1>11. lib'[c].pid # c
    BY <1>1, <1>6
  <1> QED BY <1>3, <1>6, <1>8, <1>9, <1>10, <1>11, ProgramStepHolds

\* A program that is executed has the log of the one that executes it.
LEMMA ExecveHolds ==
  ASSUME IInv, NEW c \in Client, execve(c)
  PROVE  IInv'
  <1>1. CASE CannotSend(c)
    BY <1>1, CannotSendHolds
  <1>2. ASSUME NEW env \in [DARWINTRACE_LOG: {NoLog, lib[c].log}],
               Sends(c, "execve", NoPath),
               Disconnected(c, __darwintrace_copy_env(__darwintrace_restore_env(c, env)))
        PROVE  IInv'
    <2> DEFINE newLib == __darwintrace_copy_env(__darwintrace_restore_env(c, env))
               k == Channel(c)
               line == [op |-> "execve", path |-> NoPath]
    <2>1. lib[c].pid = c
      BY DEF execve, IInv, Descriptors
    <2>2. lib[c].log \in Nat
      BY DEF IInv, Typed, Library
    <2>3. newLib = [FreshLib EXCEPT !.log = lib[c].log]
      BY DEF __darwintrace_copy_env, __darwintrace_restore_env
    <2>4. newLib \in Library
      BY <2>2, <2>3, FreshTypes
    <2>5. newLib.pid = NotSetUp /\ newLib.fd = NoFd /\ newLib.log = lib[c].log
      BY <2>3 DEF FreshLib
    <2>6. k \in Conn /\ conn[k] \in Chan /\ conn[k].up \in Seq(Line) /\ conn \in [Conn -> Chan]
      BY <2>1, WhenConnected DEF IInv, Typed
    <2>7. line \in Line
      BY DEF Line
    <2>8. Append(conn[k].up, line) \in Seq(Line)
      <3> HIDE DEF k, line
      <3> QED BY <2>6, <2>7, AppendProperties
    <2>9. conn' = [conn EXCEPT ![k] = [conn[k] EXCEPT !.up = Append(conn[k].up, line)]]
      BY <1>2, <2>6 DEF Sends
    <2> HIDE DEF newLib, k, line
    <2>10. [conn[k] EXCEPT !.up = Append(conn[k].up, line)] \in Chan
      BY <2>6, <2>8, ChanTypes
    <2>11. conn' \in [Conn -> Chan] /\ \A j \in Conn \ {k} : conn'[j] = conn[j]
      BY <2>6, <2>9, <2>10
    <2>12. conn'[k].st = conn[k].st
      BY <2>6, <2>9 DEF Chan
    <2>13. Disconnected(c, newLib)
      BY <1>2 DEF newLib
    <2>14. \A j \in Conn : \/ conn'[j] = conn[j]
                           \/ j = Channel(c) /\ conn'[j].st = conn[j].st
      BY <2>11, <2>12 DEF k
    <2> QED BY <2>1, <2>4, <2>5, <2>11, <2>13, <2>14, DisconnectedHolds
  <1> QED BY <1>1, <1>2 DEF execve

\* An execve that fails leaves a library without connection.
LEMMA ExecFailsHolds ==
  ASSUME IInv, NEW c \in Client, ExecFails(c)
  PROVE  IInv'
  <1> DEFINE newLib == [lib[c] EXCEPT !.pid = NotSetUp, !.fd = NoFd]
  <1>1. lib[c].pid = c
    BY DEF ExecFails, IInv, Descriptors
  <1>2. lib[c] \in Library /\ conn \in [Conn -> Chan]
    BY DEF IInv, Typed
  <1>3. newLib.pid = NotSetUp /\ newLib.fd = NoFd /\ newLib.log = lib[c].log
    BY <1>2 DEF Library
  <1>4. newLib \in Library
    BY <1>2, LibraryTypes
  <1>5. Disconnected(c, newLib) /\ UNCHANGED conn
    BY DEF ExecFails
  <1> HIDE DEF newLib
  <1> QED BY <1>1, <1>2, <1>3, <1>4, <1>5, DisconnectedHolds

\* A program connects: the connection has been nobody's, and the server that
\* listens is the one of its target.
LEMMA ConnectsHolds ==
  ASSUME IInv, NEW c \in Client, client[c].st = "run", lib[c].pid # c, Connects(c)
  PROVE  IInv'
  <1> DEFINE ask == [op |-> "filemap", path |-> NoPath]
             new == [st |-> "pending", down |-> <<>>, up |-> <<ask>>]
             asking == [client[c] EXCEPT !.st = "askMap", !.path = NoPath]
  <1>1. PICK k \in Unused :
          \E fd \in Fd :
            /\ table' = [table EXCEPT ![c] = [AfterFork(c) EXCEPT ![fd] = k]]
            /\ lib' = [lib EXCEPT ![c].pid = c, ![c].fd = fd]
            /\ conn' = [conn EXCEPT ![k] = new]
    BY DEF Connects
  <1>2. PICK fd \in Fd :
          /\ table' = [table EXCEPT ![c] = [AfterFork(c) EXCEPT ![fd] = k]]
          /\ lib' = [lib EXCEPT ![c].pid = c, ![c].fd = fd]
          /\ conn' = [conn EXCEPT ![k] = new]
    BY <1>1
  <1>3. k \in Conn /\ \A d \in Client, n \in Fd : table[d][n] # k
    BY DEF Unused, Refs
  <1>4. UNCHANGED port /\ sock /\ lib[c].log = Len(sessions) /\ UNCHANGED sessions
    BY DEF Connects, Reachable, port
  <1>5. NotSetUp \notin Client /\ Own \notin Conn /\ NoFd \notin Fd
    BY TraceAssumption DEF NotSetUp, Own, NoFd
  <1>6. /\ lib[c] \in Library /\ table[c] \in [Fd -> Conn \cup {Own}]
        /\ client[c] \in Program /\ Descriptors(c)
    BY DEF IInv, Typed
  <1>7. AfterFork(c) \in [Fd -> Conn \cup {Own}] /\ \A n \in Fd : AfterFork(c)[n] \notin Conn
    BY <1>5, <1>6 DEF AfterFork, Descriptors, Library
  <1>8. /\ table'[c] = [AfterFork(c) EXCEPT ![fd] = k]
        /\ lib'[c] = [lib[c] EXCEPT !.pid = c, !.fd = fd]
        /\ \A d \in Client \ {c} : lib'[d] = lib[d] /\ table'[d] = table[d]
    BY <1>2 DEF IInv, Typed
  <1>9. lib'[c].pid = c /\ lib'[c].fd = fd /\ lib'[c].log = lib[c].log
    BY <1>6, <1>8 DEF Library
  <1>10. table'[c][fd] = k /\ \A n \in Fd \ {fd} : table'[c][n] \notin Conn
    BY <1>7, <1>8
  <1>11. client' = [client EXCEPT ![c] = asking]
    BY DEF Connects, Goes, IInv, Typed, Program
  <1>12. /\ client'[c] = asking
         /\ \A d \in Client \ {c} : client'[d] = client[d]
    BY <1>11 DEF IInv, Typed
  <1>13. client'[c].st = "askMap" /\ client'[c].session = client[c].session
    BY <1>6, <1>12 DEF Program
  <1>14. conn'[k] = new /\ \A j \in Conn \ {k} : conn'[j] = conn[j]
    BY <1>2, <1>3 DEF IInv, Typed
  <1>15. Typed'
    <2>1. new \in Chan
      <3>1. ask \in Line
        BY DEF Line
      <3> HIDE DEF ask
      <3>2. <<ask>> \in Seq(Line) /\ <<>> \in Seq(Answers)
        BY <3>1
      <3> QED BY <3>2 DEF Chan
    <2>2. asking \in Program
      <3>1. "askMap" \in Live
        BY DEF Live, Asking
      <3> QED BY <1>6, <3>1, ProgramTypes
    <2>3. [lib[c] EXCEPT !.pid = c, !.fd = fd] \in Library
      BY <1>6, LibraryTypes
    <2> HIDE DEF new, asking
    <2>4. conn' \in [Conn -> Chan]
      BY <1>2, <2>1 DEF IInv, Typed
    <2>5. client' \in [Client -> Program]
      BY <1>11, <2>2 DEF IInv, Typed
    <2>6. lib' \in [Client -> Library]
      <3>1. lib' = [lib EXCEPT ![c] = [lib[c] EXCEPT !.pid = c, !.fd = fd]]
        BY <1>2, <1>6 DEF IInv, Typed, Library
      <3> QED BY <2>3, <3>1 DEF IInv, Typed
    <2>7. table' \in [Client -> [Fd -> Conn \cup {Own}]]
      BY <1>2, <1>3, <1>7 DEF IInv, Typed
    <2> QED BY <1>4, <2>4, <2>5, <2>6, <2>7 DEF IInv, Typed, port, server
  <1>16. Serves'
    <2>1. \A j \in Conn : conn'[j].st = conn[j].st \/ (conn'[j].st = "pending" /\ sock)
      BY <1>4, <1>14
    <2> QED BY <1>4, <2>1, ServesStays DEF IInv
  <1>17. Descriptors(c)'
    BY <1>4, <1>5, <1>6, <1>9, <1>10, <1>13 DEF Descriptors
  <1>18. Connected(c)'
    <2>1. Channel(c)' = k /\ k \in Conn
      BY <1>3, <1>9, <1>10 DEF Channel
    <2>2. \A d \in Client \ {c}, n \in Fd : table'[d][n] # k
      BY <1>3, <1>8
    <2>3. client'[c].session = Len(sessions')
      BY <1>4, <1>6, <1>13 DEF Descriptors
    <2>4. Talks(c)'
      <3>1. conn'[k].up = <<ask>> /\ conn'[k].down = <<>>
        BY <1>14
      <3>2. Len(<<ask>>) = 1 /\ \A i \in 1..1 : <<ask>>[i] = ask
        OBVIOUS
      <3>3. ask.op = "filemap"
        OBVIOUS
      <3> HIDE DEF ask
      <3> QED BY <1>13, <2>1, <3>1, <3>2, <3>3 DEF Talks
    <2> QED BY <1>13, <2>1, <2>2, <2>3, <2>4 DEF Connected, Judged
  <1>19. ASSUME NEW d \in Client, d # c
         PROVE  Descriptors(d)' /\ (lib'[d].pid = d => Connected(d)')
    <2>1. ASSUME lib[d].pid = d PROVE Undisturbed(Channel(d))
      <3>1. Channel(d) \in Conn /\ Channel(d) # k
        BY <1>3, <2>1, ChannelIsOpen
      <3> QED BY <1>14, <3>1 DEF Undisturbed
    <2>2. ASSUME NEW e \in Client \ {d}, NEW n \in Fd,
                 lib[d].pid = d, table'[e][n] = Channel(d)
          PROVE  lib'[e].pid = d
      <3>1. Channel(d) \in Conn /\ Channel(d) # k
        BY <1>3, <2>2, ChannelIsOpen
      <3>2. e # c
        BY <1>10, <2>2, <3>1
      <3> QED BY <1>8, <2>2, <3>2 DEF IInv, Connected
    <2> QED BY <1>4, <1>8, <1>12, <1>19, <2>1, <2>2, OthersStay
  <1> QED BY <1>15, <1>16, <1>17, <1>18, <1>19 DEF IInv

\* A call of a program.
LEMMA CallHolds ==
  ASSUME IInv, NEW c \in Client, Call(c)
  PROVE  IInv'
  <1>1. /\ client[c].st = "run" /\ lib[c].log # NoLog
        /\ client[c].st \notin Asking
    <2>1. client[c].st = "run"
      BY DEF Call
    <2>2. lib[c].log \in 1..Len(sessions) /\ Len(sessions) \in Nat
      BY <2>1 DEF IInv, Typed, Descriptors
    <2> QED BY <2>1, <2>2 DEF NoLog, Asking
  <1>2. CASE lib[c].pid = c /\ Goes(c, "decide", NoPath) /\ UNCHANGED <<port, conn, process>>
    <2>1. "decide" \notin Judged
      BY DEF Judged
    <2> QED BY <1>1, <1>2, <2>1, GoesHolds
  <1>3. CASE Dead(c)
    BY <1>3, DeadHolds
  <1>4. CASE lib[c].pid # c /\ Connects(c)
    BY <1>1, <1>4, ConnectsHolds
  <1> QED BY <1>1, <1>2, <1>3, <1>4 DEF Call, __darwintrace_setup

\* The rules decide for a program that has made a call.
LEMMA Deciding ==
  ASSUME IInv, NEW c \in Client, NEW path \in Path, client[c].st = "decide"
  PROVE  /\ lib[c].pid = c /\ client[c].st \notin Asking
         /\ \/ Ruling(c, path) = "allow" /\ Policy(Its(c), path)
            \/ /\ Ruling(c, path) = "ask"
               /\ Policy(Its(c), path)
                    <=> path \in Missing \/ Owner[path] \in Its(c).deps \ NoDeps
            \/ Ruling(c, path) = "violation" /\ ~Policy(Its(c), path)
  <1>1. lib[c].pid = c /\ client[c].st \notin Asking
    BY DEF IInv, Descriptors, Asking
  <1>2. Its(c) \in Targets /\ lib[c].filemap = MapOf(Its(c))
    BY <1>1, WhenConnected DEF Connected
  <1> QED BY <1>1, <1>2, RulingFollowsPolicy

\* What the rules allow is what the policy allows.
LEMMA DecidesHolds ==
  ASSUME IInv, NEW c \in Client, NEW path \in Path, NEW exec \in BOOLEAN,
         Decides(c, path, exec)
  PROVE  IInv'
  <1> DEFINE st == IF exec THEN "exec" ELSE "allowed"
  <1>1. /\ Goes(c, st, path) /\ UNCHANGED <<port, conn, process>>
        /\ client[c].st = "decide"
    BY DEF Decides
  <1>2. Policy(Its(c), path)
    BY <1>1, Deciding DEF Decides
  <1>3. st \in Judged /\ st # "denied"
    BY DEF Judged
  <1> HIDE DEF st
  <1> QED BY <1>1, <1>2, <1>3, Deciding, GoesHolds

\* What no rule allows is denied and reported.
LEMMA ReportsHolds ==
  ASSUME IInv, NEW c \in Client, NEW path \in Path, Reports(c, path)
  PROVE  IInv'
  <1>1. CASE CannotSend(c)
    BY <1>1, CannotSendHolds
  <1>2. CASE /\ Sends(c, "sandbox_violation", NoPath) /\ Goes(c, "denied", path)
             /\ UNCHANGED <<port, process>>
    <2>1. ~Policy(Its(c), path) /\ lib[c].pid = c /\ client[c].st \notin Asking
      BY Deciding DEF Reports
    <2> QED BY <1>2, <2>1, SendsHolds
  <1> QED BY <1>1, <1>2 DEF Reports

\* What the rules leave to the server is asked.
LEMMA AsksHolds ==
  ASSUME IInv, NEW c \in Client, NEW path \in Path, NEW exec \in BOOLEAN,
         Asks(c, path, exec)
  PROVE  IInv'
  <1> DEFINE st == IF exec THEN "askExec" ELSE "askDep"
  <1>1. CASE CannotSend(c)
    BY <1>1, CannotSendHolds
  <1>2. CASE Sends(c, "dep_check", path) /\ Goes(c, st, path) /\ UNCHANGED <<port, process>>
    <2>1. /\ lib[c].pid = c /\ client[c].st \notin Asking
          /\ Policy(Its(c), path) <=> Owner[path] \in Its(c).deps \ NoDeps
      BY Deciding DEF Asks
    <2>2. st \in {"askDep", "askExec"}
      OBVIOUS
    <2> HIDE DEF st
    <2> QED BY <1>2, <2>1, <2>2, SendsHolds
  <1> QED BY <1>1, <1>2 DEF Asks

\* The map that arrives is the one of the program's target.
LEMMA AskForFilemapHolds ==
  ASSUME IInv, NEW c \in Client, ask_for_filemap(c)
  PROVE  IInv'
  <1> DEFINE map == Head(conn[Channel(c)].down)
  <1>1. /\ client[c].st = "askMap" /\ Answered(c) /\ Received(c)
        /\ lib' = [lib EXCEPT ![c].filemap = map]
        /\ client' = [client EXCEPT ![c].st = "decide"]
        /\ UNCHANGED <<port, table>>
    BY DEF ask_for_filemap
  <1>2. lib[c].pid = c
    BY <1>1 DEF IInv, Descriptors
  <1>3. map = MapOf(Its(c)) /\ map \in Seq(Rules)
    BY <1>1, <1>2, AnswerIsMine, MapOfRules DEF Answer
  <1> HIDE DEF map
  <1>4. lib[c] \in Library
    BY DEF IInv, Typed
  <1>5. lib' = [lib EXCEPT ![c] = [lib[c] EXCEPT !.filemap = map]]
    BY <1>1 DEF IInv, Typed
  <1>6. lib'[c] = [lib[c] EXCEPT !.filemap = map]
    BY <1>5 DEF IInv, Typed
  <1>7. /\ lib' \in [Client -> Library]
        /\ \A d \in Client \ {c} : lib'[d] = lib[d]
    <2>1. [lib[c] EXCEPT !.filemap = map] \in Library
      BY <1>3, <1>4, LibraryTypes
    <2> QED BY <1>5, <2>1 DEF IInv, Typed
  <1>8. /\ lib'[c].filemap = MapOf(Its(c)) /\ lib'[c].pid = c
        /\ lib'[c].fd = lib[c].fd /\ lib'[c].log = lib[c].log
    BY <1>2, <1>3, <1>4, <1>6 DEF Library
  <1>9. "decide" \notin Judged
    BY DEF Judged
  <1> QED BY <1>1, <1>2, <1>7, <1>8, <1>9, ReceivedHolds

\* The word of the server is the word of the policy.
LEMMA AskForDependencyHolds ==
  ASSUME IInv, NEW c \in Client, ask_for_dependency(c)
  PROVE  IInv'
  <1> DEFINE st == IF Head(conn[Channel(c)].down) # "+" THEN "denied"
                   ELSE IF client[c].st = "askDep" THEN "allowed" ELSE "exec"
  <1>1. /\ client[c].st \in {"askDep", "askExec"} /\ Answered(c) /\ Received(c)
        /\ Goes(c, st, client[c].path)
        /\ UNCHANGED <<port, process>>
    BY DEF ask_for_dependency
  <1>2. lib[c].pid = c
    BY <1>1 DEF IInv, Descriptors
  <1>3. /\ Connected(c) /\ client[c].path \in Path
        /\ Policy(Its(c), client[c].path) <=> Owner[client[c].path] \in Its(c).deps \ NoDeps
    BY <1>1, <1>2, WhenConnected DEF Connected
  <1>4. Head(conn[Channel(c)].down) =
          IF Owner[client[c].path] \in Its(c).deps \ NoDeps THEN "+" ELSE "!"
    BY <1>1, <1>2, AnswerIsMine DEF Answer
  <1>5. st \in Judged /\ (st # "denied" <=> Policy(Its(c), client[c].path))
    <2>1. CASE Owner[client[c].path] \in Its(c).deps \ NoDeps
      <3>1. st \in {"allowed", "exec"} /\ Policy(Its(c), client[c].path)
        BY <1>1, <1>3, <1>4, <2>1
      <3> QED BY <3>1 DEF Judged
    <2>2. CASE Owner[client[c].path] \notin Its(c).deps \ NoDeps
      <3>1. st = "denied" /\ ~Policy(Its(c), client[c].path)
        BY <1>3, <1>4, <2>2
      <3> QED BY <3>1 DEF Judged
    <2> QED BY <2>1, <2>2
  <1> HIDE DEF st
  <1>6. client' = [client EXCEPT ![c].st = st]
    BY <1>1 DEF Goes, IInv, Typed, Program
  <1>7. UNCHANGED <<lib, table>> /\ lib \in [Client -> Library]
    BY <1>1 DEF process, IInv, Typed
  <1>8. lib[c].filemap = MapOf(Its(c))
    BY <1>1, <1>3 DEF Connected
  <1> QED BY <1>1, <1>2, <1>3, <1>5, <1>6, <1>7, <1>8, ReceivedHolds

\* The call is over, or goes on with the next entry of a directory.
LEMMA ReturnsHolds ==
  ASSUME IInv, NEW c \in Client, Returns(c) \/ getdirentries(c)
  PROVE  IInv'
  <1>1. PICK st \in {"run", "decide"} :
          /\ Goes(c, st, NoPath) /\ UNCHANGED <<port, conn, process>>
          /\ client[c].st \in {"allowed", "denied"}
    BY DEF Returns, getdirentries
  <1>2. lib[c].pid = c /\ client[c].st \notin Asking
    BY <1>1 DEF IInv, Descriptors, Asking
  <1>3. st \notin Judged
    BY DEF Judged
  <1> QED BY <1>1, <1>2, <1>3, GoesHolds

\* A child has its parent's connection, until it makes a call.
LEMMA ForkHolds ==
  ASSUME IInv, NEW c \in Client, NEW d \in Client, Fork(c, d)
  PROVE  IInv'
  <1>1. /\ client[c].st = "run" /\ client[d].st = "dead"
        /\ \A b \in Client : lib[b].pid # d
        /\ table' = [table EXCEPT ![d] = table[c]]
        /\ lib' = [lib EXCEPT ![d] = lib[c]]
        /\ UNCHANGED <<port, conn>>
    BY DEF Fork
  <1>2. PICK awaited \in {client[c].awaited, FALSE} :
          client' = [client EXCEPT ![d] = [client[c] EXCEPT !.awaited = awaited]]
    BY DEF Fork
  <1>3. client[c] \in Program
    BY DEF IInv, Typed
  <1>4. awaited \in BOOLEAN
    BY <1>3 DEF Program
  <1>5. [client[c] EXCEPT !.awaited = awaited] \in Program
    BY <1>3, <1>4, ProgramTypes
  <1>6. /\ table'[d] = table[c] /\ lib'[d] = lib[c]
        /\ client'[d] = [client[c] EXCEPT !.awaited = awaited]
        /\ \A b \in Client \ {d} :
             lib'[b] = lib[b] /\ table'[b] = table[b] /\ client'[b] = client[b]
    BY <1>1, <1>2 DEF IInv, Typed
  <1>7. client'[d].st = "run" /\ client'[d].session = client[c].session
    BY <1>1, <1>3, <1>6 DEF Program
  <1>8. Typed'
    <2>1. client' \in [Client -> Program]
      BY <1>2, <1>5 DEF IInv, Typed
    <2>2. table' \in [Client -> [Fd -> Conn \cup {Own}]] /\ lib' \in [Client -> Library]
      BY <1>1 DEF IInv, Typed
    <2> QED BY <1>1, <2>1, <2>2 DEF IInv, Typed, port, server
  <1>9. Serves'
    BY <1>1, ServesStays DEF IInv
  <1>10. UNCHANGED sessions
    BY <1>1 DEF port
  <1>11. Descriptors(d)' /\ lib'[d].pid # d
    <2>1. Descriptors(c)
      BY DEF IInv
    <2> QED BY <1>1, <1>6, <1>7, <1>10, <2>1 DEF Descriptors
  <1>12. ASSUME NEW b \in Client, b # d
         PROVE  Descriptors(b)' /\ (lib'[b].pid = b => Connected(b)')
    <2>1. ASSUME lib[b].pid = b PROVE Undisturbed(Channel(b))
      BY <1>1 DEF Undisturbed
    <2>2. ASSUME NEW e \in Client \ {b}, NEW n \in Fd,
                 lib[b].pid = b, table'[e][n] = Channel(b)
          PROVE  lib'[e].pid = b
      <3>1. \A f \in Client \ {b}, m \in Fd : table[f][m] = Channel(b) => lib[f].pid = b
        BY <2>2 DEF IInv, Connected
      <3>2. CASE e = d
        BY <1>6, <2>2, <3>1, <3>2
      <3>3. CASE e # d
        BY <1>6, <2>2, <3>1, <3>3
      <3> QED BY <3>2, <3>3
    <2> QED BY <1>6, <1>10, <1>12, <2>1, <2>2, OthersStay
  <1> QED BY <1>8, <1>9, <1>11, <1>12 DEF IInv

-------------------------------------------------------------------------------
(* The specification *)

\* Every step of a program keeps the invariant.
LEMMA ClientStepHolds ==
  ASSUME IInv, NEW c \in Client, ClientStep(c)
  PROVE  IInv'
  <1>1. CASE Call(c)
    BY <1>1, CallHolds
  <1>2. CASE ask_for_filemap(c)
    BY <1>2, AskForFilemapHolds
  <1>3. CASE ask_for_dependency(c)
    BY <1>3, AskForDependencyHolds
  <1>4. ASSUME NEW path \in Path, NEW exec \in BOOLEAN,
               Decides(c, path, exec) \/ Reports(c, path) \/ Asks(c, path, exec)
        PROVE  IInv'
    BY <1>4, DecidesHolds, ReportsHolds, AsksHolds
  <1>5. CASE Returns(c) \/ getdirentries(c)
    BY <1>5, ReturnsHolds
  <1>6. CASE execve(c)
    BY <1>6, ExecveHolds
  <1>7. CASE ExecFails(c)
    BY <1>7, ExecFailsHolds
  <1>8. CASE Exit(c)
    BY <1>8, DeadHolds DEF Exit
  <1>9. ASSUME NEW d \in Client, Fork(c, d)
        PROVE  IInv'
    BY <1>9, ForkHolds
  <1>10. ASSUME NEW n \in Fd, close(c, n)
         PROVE  IInv'
    BY <1>10, CloseHolds DEF close
  <1>11. ASSUME NEW n \in Fd, dup2(c, n)
         PROVE  IInv'
    BY <1>11, Dup2Holds
  <1> QED BY <1>1, <1>2, <1>3, <1>4, <1>5, <1>6, <1>7, <1>8, <1>9, <1>10, <1>11
          DEF ClientStep

\* Every step keeps the invariant.
LEMMA NextHolds ==
  ASSUME IInv, [Next]_vars
  PROVE  IInv'
  <1>1. CASE ServerStep
    BY <1>1, AcceptHolds, ProcessLineHolds, HangsUpHolds, RunEndsHolds DEF ServerStep
  <1>2. ASSUME NEW plan \in Plans, IsStrictPrefix(sessions, plan),
               LET t == plan[Len(sessions) + 1] IN TraceStart(t) \/ PrerunFails(t)
        PROVE  IInv'
    <2>1. plan[Len(sessions) + 1] \in Targets
      BY <1>2, NextTarget
    <2> QED BY <1>2, <2>1, TraceStartHolds, PrerunFailsHolds
  <1>3. CASE CloseSocket
    BY <1>3, CloseSocketHolds
  <1>4. CASE Clean
    BY <1>4, CleanHolds
  <1>5. ASSUME NEW c \in Client, Spawn(c) \/ ClientStep(c)
        PROVE  IInv'
    BY <1>5, SpawnHolds, ClientStepHolds
  <1>6. CASE UNCHANGED vars
    <2>1. UNCHANGED <<port, conn, process, client>>
      BY <1>6 DEF vars
    <2>2. Typed' /\ Serves'
      BY <2>1, ServesStays DEF IInv, Typed, port, server, process
    <2>3. \A k \in Conn : Undisturbed(k)
      BY <2>1 DEF Undisturbed
    <2> QED BY <2>1, <2>2, <2>3, PortStepHolds DEF port
  <1> QED BY <1>1, <1>2, <1>3, <1>4, <1>5, <1>6 DEF Next

\* The invariant holds in every state.
LEMMA SpecHolds == Spec => []IInv
  <1>1. Init => IInv
    BY InitHolds
  <1>2. IInv /\ [Next]_vars => IInv'
    BY NextHolds
  <1> QED BY <1>1, <1>2, PTL DEF Spec

\* The targets are those of a plan, and the server's variables have their types.
Planned ==
  /\ \E plan \in Plans : IsPrefix(sessions, plan)
  /\ {cleanuping, sock, fence, crashed} \subseteq BOOLEAN
  /\ filemap \in Seq(Rules)

\* The next target makes a longer beginning of the same plan.
LEMMA PlanGoesOn ==
  ASSUME Typed, NEW plan \in Plans, IsStrictPrefix(sessions, plan),
         plan[Len(sessions) + 1] \in Targets
  PROVE  IsPrefix(Append(sessions, plan[Len(sessions) + 1]), plan)
  <1> DEFINE n == Len(sessions)
             t == plan[n + 1]
             more == Append(sessions, t)
  <1>1. plan \in Seq(Targets) /\ sessions \in Seq(Targets) /\ n \in Nat /\ Len(plan) \in Nat
    BY TraceAssumption DEF Typed
  <1>2. n <= Len(plan) /\ SubSeq(sessions, 1, n) = SubSeq(plan, 1, n) /\ sessions # plan
    BY DEF IsStrictPrefix, IsPrefix
  <1>3. SubSeq(sessions, 1, n) = sessions
    BY <1>1, SubSeqFull
  <1>4. n # Len(plan)
    BY <1>1, <1>2, <1>3, SubSeqFull
  <1>5. \A i \in 1..n : sessions[i] = plan[i]
    BY <1>1, <1>2, <1>3, <1>4
  <1>6. /\ more \in Seq(Targets) /\ Len(more) = n + 1
        /\ \A i \in 1..n : more[i] = sessions[i]
        /\ more[n + 1] = t
    <2> HIDE DEF t
    <2>1. t \in Targets
      BY DEF t
    <2> QED BY <1>1, <2>1, AppendProperties
  <1> HIDE DEF n, more, t
  <1>7. \A i \in 1..(n + 1) : more[i] = plan[i]
    <2> TAKE i \in 1..(n + 1)
    <2>1. i \in 1..n \/ i = n + 1
      BY <1>1
    <2> QED BY <1>5, <1>6, <2>1 DEF t
  <1>8. SubSeq(more, 1, n + 1) = SubSeq(plan, 1, n + 1)
    <2>1. SubSeq(more, 1, n + 1) = [i \in 1..(n + 1) |-> more[i]]
      BY <1>1, <1>6, SubSeqProperties
    <2>2. SubSeq(plan, 1, n + 1) = [i \in 1..(n + 1) |-> plan[i]]
      BY <1>1, <1>2, <1>4
    <2> QED BY <1>7, <2>1, <2>2
  <1> QED BY <1>1, <1>2, <1>4, <1>6, <1>8 DEF IsPrefix, more, t, n

\* What a program does leaves the port process as it is.
LEMMA ProgramsLeavePort ==
  ASSUME NEW c \in Client, Spawn(c) \/ ClientStep(c)
  PROVE  UNCHANGED port
  <1>1. CASE Spawn(c)
    BY <1>1 DEF Spawn
  <1>2. ASSUME Call(c) PROVE UNCHANGED port
    BY <1>2 DEF Call, __darwintrace_setup, Dead, Connects
  <1>3. ASSUME ask_for_filemap(c) \/ ask_for_dependency(c) PROVE UNCHANGED port
    BY <1>3 DEF ask_for_filemap, ask_for_dependency
  <1>4. ASSUME NEW path, NEW exec,
               Decides(c, path, exec) \/ Reports(c, path) \/ Asks(c, path, exec)
        PROVE  UNCHANGED port
    BY <1>4 DEF Decides, Reports, Asks, CannotSend, Dead
  <1>5. ASSUME Returns(c) \/ getdirentries(c) PROVE UNCHANGED port
    BY <1>5 DEF Returns, getdirentries
  <1>6. ASSUME execve(c) \/ ExecFails(c) PROVE UNCHANGED port
    BY <1>6 DEF execve, ExecFails, CannotSend, Dead, Disconnected
  <1>7. ASSUME Exit(c) PROVE UNCHANGED port
    BY <1>7 DEF Exit, Dead
  <1>8. ASSUME NEW d, Fork(c, d) PROVE UNCHANGED port
    BY <1>8 DEF Fork
  <1>9. ASSUME NEW n, close(c, n) \/ dup2(c, n) PROVE UNCHANGED port
    BY <1>9 DEF close, dup2
  <1> QED BY <1>1, <1>2, <1>3, <1>4, <1>5, <1>6, <1>7, <1>8, <1>9 DEF ClientStep

\* Every step keeps the plan and the types.
LEMMA PlannedHolds ==
  ASSUME IInv, IInv', Planned, [Next]_vars
  PROVE  Planned'
  <1>1. filemap' \in Seq(Rules)
    <2>1. filemap' = <<>> \/ filemap' = MapOf(Current')
      BY DEF IInv, Serves, NoMap
    <2>2. MapOf(Current') \in Seq(Rules) /\ <<>> \in Seq(Rules)
      BY MapOfRules
    <2> QED BY <2>1, <2>2
  <1>2. ASSUME UNCHANGED sessions, {cleanuping, sock, fence, crashed}' \subseteq BOOLEAN
        PROVE  Planned'
    BY <1>1, <1>2 DEF Planned
  <1>3. CASE RunEnds
    BY <1>2, <1>3 DEF RunEnds, Planned
  <1>4. ASSUME NEW k \in Conn, Accept(k) \/ process_line(k) \/ HangsUp(k)
        PROVE  Planned'
    <2>1. UNCHANGED <<sessions, cleanuping, sock, fence>>
      BY <1>4 DEF Accept, process_line, HangsUp, port, server
    <2>2. crashed' \in {crashed, TRUE}
      BY <1>4 DEF Accept, process_line, HangsUp, port, server, send_file_map, dep_check,
           Recorded
    <2> QED BY <1>2, <2>1, <2>2 DEF Planned
  <1>5. ASSUME NEW plan \in Plans, IsStrictPrefix(sessions, plan),
               LET t == plan[Len(sessions) + 1] IN TraceStart(t) \/ PrerunFails(t)
        PROVE  Planned'
    <2> DEFINE t == plan[Len(sessions) + 1]
    <2>1. sessions' = Append(sessions, t)
      BY <1>5 DEF TraceStart, PrerunFails
    <2>2. t \in Targets
      BY <1>5, NextTarget
    <2>3. IsPrefix(sessions', plan)
      BY <1>5, <2>1, <2>2, PlanGoesOn DEF IInv
    <2>4. {cleanuping, sock, fence, crashed}' \subseteq BOOLEAN
      BY <1>5 DEF TraceStart, PrerunFails, TracelibOpenSocketCmd, TracelibEnableFence, Planned
    <2> QED BY <1>1, <2>3, <2>4 DEF Planned
  <1>6. CASE CloseSocket \/ Clean
    BY <1>2, <1>6 DEF CloseSocket, Clean, Planned
  <1>7. ASSUME UNCHANGED port PROVE Planned'
    BY <1>7 DEF port, server, Planned
  <1>8. CASE UNCHANGED vars
    BY <1>7, <1>8 DEF vars
  <1> QED BY <1>3, <1>4, <1>5, <1>6, <1>7, <1>8, ProgramsLeavePort DEF Next, ServerStep

\* The types of the variables, and the library's descriptor is its own
\* connection.
THEOREM TraceTypeOK == Spec => []TypeOK
  <1>1. Init => Planned
    <2> SUFFICES ASSUME Init PROVE Planned
      OBVIOUS
    <2>1. PICK plan \in Plans : plan \in Seq(Targets)
      BY TraceAssumption
    <2>2. IsPrefix(<<>>, plan)
      <3>1. SubSeq(plan, 1, 0) = <<>>
        BY <2>1
      <3> QED BY <2>1, <3>1 DEF IsPrefix
    <2>3. sessions = <<>> /\ filemap \in Seq(Rules)
      BY DEF Init, NoMap
    <2>4. {cleanuping, sock, fence, crashed} \subseteq BOOLEAN
      BY DEF Init
    <2> QED BY <2>2, <2>3, <2>4 DEF Planned
  <1>2. IInv /\ IInv' /\ Planned /\ [Next]_vars => Planned'
    BY PlannedHolds
  <1>3. IInv /\ Planned => TypeOK
    <2> SUFFICES ASSUME IInv, Planned PROVE TypeOK
      OBVIOUS
    <2>1. master \in {"idle", "running", "check"} /\ run \in {"none", "running", "ended"}
      BY DEF IInv, Typed
    <2>2. \A k \in Conn : conn[k].st \in {FreeConn, "pending", "accepted", "closed"}
      BY DEF IInv, Typed, Chan
    <2>3. ASSUME NEW c \in Client
          PROVE  /\ client[c].st \in {"dead"} \cup Live
                 /\ client[c].st \in Asking \cup Judged \cup {"decide"} => lib[c].pid = c
                 /\ client[c].st \in Live /\ lib[c].pid = c =>
                      /\ lib[c].fd \in Fd /\ Channel(c) \in Conn
                      /\ \A d \in Refs(Channel(c)) \ {c} : lib[d].pid = c
      <3>1. client[c].st \in {"dead"} \cup Live
        BY DEF IInv, Typed, Program
      <3>2. client[c].st \in Asking \cup Judged \cup {"decide"} => lib[c].pid = c
        BY DEF IInv, Descriptors, Asking, Judged
      <3>3. lib[c].pid = c =>
              /\ lib[c].fd \in Fd /\ Channel(c) \in Conn
              /\ \A d \in Refs(Channel(c)) \ {c} : lib[d].pid = c
        BY ChannelIsOpen DEF IInv, Connected, Refs
      <3> QED BY <3>1, <3>2, <3>3
    <2> QED BY <2>1, <2>2, <2>3 DEF Planned, TypeOK
  <1> QED BY <1>1, <1>2, <1>3, SpecHolds, PTL DEF Spec

\* A process has at most one connection of the server open, as its library's
\* descriptor, and no process that answers to another library holds it: what a
\* program closes, moves, forks or executes does not mix up the connections
\* (darwintrace.c, close and dup2 and the pid that __darwintrace_setup checks).
ConnectionsApart ==
  \A c \in Client :
    /\ \A n \in Fd : table[c][n] \in Conn => n = lib[c].fd
    /\ lib[c].pid = c =>
         /\ Channel(c) \in Conn
         /\ \A d \in Refs(Channel(c)) \ {c} : lib[d].pid = c

\* Connections are never mixed up.
THEOREM TraceConnectionsApart == Spec => []ConnectionsApart
  <1>1. IInv => ConnectionsApart
    BY DEF IInv, Descriptors, Connected, ConnectionsApart, Refs
  <1> QED BY <1>1, SpecHolds, PTL

\* A program is allowed what the policy of the target that started it allows,
\* and nothing else.
THEOREM TraceVerdictIsPolicy == Spec => []VerdictIsPolicy
  <1>1. IInv => VerdictIsPolicy
    <2> SUFFICES ASSUME IInv, NEW c \in Client, client[c].st \in Judged
                 PROVE  client[c].st # "denied" <=> Policy(Its(c), client[c].path)
      BY DEF VerdictIsPolicy, Its
    <2>1. lib[c].pid = c
      BY DEF IInv, Descriptors, Judged
    <2> QED BY <2>1 DEF IInv, Connected
  <1> QED BY <1>1, SpecHolds, PTL
===============================================================================
