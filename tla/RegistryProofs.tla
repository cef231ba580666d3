---------------------------- MODULE RegistryProofs ----------------------------
(***************************************************************************)
(* Proofs about Registry for every value of its constants: any number of   *)
(* processes, ports, paths and ids.                                        *)
(*                                                                         *)
(* The invariant has four parts: the types; LockInv, what the locks say    *)
(* about where a process is and which schema it has seen; Handles, how the *)
(* objects of one process fit together, the half-deleted ones of a body    *)
(* included; and RowsInv, that the working copy follows the file and the   *)
(* file follows whatever a command was given out for.                      *)
(***************************************************************************)
EXTENDS Registry, FiniteSetTheorems, WellFoundedInduction, TLAPS

\* Every set of numbers but the empty one has a least one.
LEMMA LeastExists ==
  ASSUME NEW T \in SUBSET Nat, T # {}
  PROVE  \E x \in T : \A y \in T : x <= y
  <1> DEFINE R == OpToRel(<, Nat)
  <1>1. \E x \in T : \A y \in T : <<y, x>> \notin R
    <2> HIDE DEF R
    <2>1. IsWellFoundedOn(R, Nat)
      BY NatLessThanWellFounded DEF R
    <2> QED BY <2>1, WFMin
  <1>2. \A x, y \in Nat : y < x => <<y, x>> \in R
    BY DEF OpToRel
  <1> HIDE DEF R
  <1>3. PICK x \in T : \A y \in T : <<y, x>> \notin R
    BY <1>1
  <1>4. \A y \in T : ~(y < x) /\ y \in Nat /\ x \in Nat
    BY <1>2, <1>3
  <1>5. \A y \in T : x <= y
    BY <1>4
  <1> QED BY <1>5

\* The numbers of a set below n: how many there are is n's rank.
Below(F, n) == {m \in F : m < n}

\* Ranks grow with the numbers.
LEMMA RankLess ==
  ASSUME NEW F \in SUBSET Nat, IsFiniteSet(F), NEW m \in F, NEW n \in F, m < n
  PROVE  Cardinality(Below(F, m)) < Cardinality(Below(F, n))
  <1>1. /\ IsFiniteSet(Below(F, n)) /\ IsFiniteSet(Below(F, m))
        /\ Below(F, m) \subseteq Below(F, n) \ {m} /\ m \in Below(F, n)
    <2>1. Below(F, m) \in SUBSET F /\ Below(F, n) \in SUBSET F
      BY DEF Below
    <2>2. IsFiniteSet(Below(F, n)) /\ IsFiniteSet(Below(F, m))
      BY <2>1, FS_Subset
    <2>3. m \in Nat /\ n \in Nat /\ \A x \in F : x \in Nat
      OBVIOUS
    <2>4. \A x \in F : x < m => x < n /\ x # m
      BY <2>3
    <2> QED BY <2>2, <2>4 DEF Below
  <1>2. /\ IsFiniteSet(Below(F, n) \ {m})
        /\ Cardinality(Below(F, n) \ {m}) = Cardinality(Below(F, n)) - 1
    BY <1>1, FS_RemoveElement
  <1>3. Cardinality(Below(F, m)) <= Cardinality(Below(F, n) \ {m})
    BY <1>1, <1>2, FS_Subset
  <1> QED BY <1>1, <1>2, <1>3, FS_CardinalityType

\* A rank is below the size of the set.
LEMMA RankBound ==
  ASSUME NEW F \in SUBSET Nat, IsFiniteSet(F), NEW n \in F
  PROVE  /\ Cardinality(Below(F, n)) \in Nat
         /\ Cardinality(Below(F, n)) < Cardinality(F)
  <1>1. Below(F, n) \in SUBSET (F \ {n})
    BY DEF Below
  <1>2. /\ IsFiniteSet(F \ {n})
        /\ Cardinality(F \ {n}) = Cardinality(F) - 1
    BY FS_RemoveElement
  <1>3. IsFiniteSet(Below(F, n)) /\ Cardinality(Below(F, n)) <= Cardinality(F \ {n})
    BY <1>1, <1>2, FS_Subset
  <1> QED BY <1>2, <1>3, FS_CardinalityType

\* Every rank below the size of the set is the rank of one of its numbers.
LEMMA RankExists ==
  ASSUME NEW F \in SUBSET Nat, IsFiniteSet(F), NEW k \in Nat,
         k < Cardinality(F)
  PROVE  \E n \in F : Cardinality(Below(F, n)) = k
  <1> DEFINE T == {j \in Nat : j < Cardinality(F) /\ \A n \in F : Cardinality(Below(F, n)) # j}
  <1>0. Cardinality(F) \in Nat /\ \A x \in F : x \in Nat
    BY FS_CardinalityType
  <1>1. SUFFICES ASSUME T # {} PROVE FALSE
    OBVIOUS
  <1>2. PICK j \in T : \A i \in T : j <= i
    BY <1>1, LeastExists
  <1>3. CASE j = 0
    <2>1. F # {}
      BY <1>2, <1>3, FS_EmptySet
    <2>2. PICK n \in F : \A m \in F : n <= m
      BY <2>1, LeastExists
    <2>3. Below(F, n) = {}
      <3>1. \A m \in F : ~(m < n)
        BY <1>0, <2>2
      <3> QED BY <3>1 DEF Below
    <2> QED BY <1>2, <1>3, <2>3, FS_EmptySet
  <1>4. CASE j > 0
    <2>1. j - 1 \in Nat /\ j - 1 < Cardinality(F) /\ j - 1 \notin T
      BY <1>0, <1>2, <1>4
    <2>2. PICK n \in F : Cardinality(Below(F, n)) = j - 1
      BY <2>1
    <2>3. IsFiniteSet(Below(F, n)) /\ n \notin Below(F, n)
      <3>1. Below(F, n) \in SUBSET F
        BY DEF Below
      <3> QED BY <3>1, FS_Subset DEF Below
    <2>4. /\ IsFiniteSet(Below(F, n) \cup {n})
          /\ Cardinality(Below(F, n) \cup {n}) = j
      <3>1. j - 1 + 1 = j
        BY <1>2
      <3> QED BY <2>2, <2>3, <3>1, FS_AddElement
    <2>5. {m \in F : m > n} # {}
      <3>1. SUFFICES ASSUME \A m \in F : ~(m > n) PROVE FALSE
        OBVIOUS
      <3>2. \A m \in F : m < n \/ m = n
        BY <1>0, <3>1
      <3>3. F = Below(F, n) \cup {n}
        BY <3>2 DEF Below
      <3> QED BY <3>3, <2>4, <1>2
    <2>6. PICK m \in {x \in F : x > n} : \A x \in F : x > n => m <= x
      <3> DEFINE G == {x \in F : x > n}
      <3>1. G \subseteq Nat /\ G # {}
        BY <2>5
      <3> HIDE DEF G
      <3>2. \E m \in G : \A x \in G : m <= x
        BY <3>1, LeastExists
      <3> QED BY <3>2 DEF G
    <2>7. Below(F, m) = Below(F, n) \cup {n}
      <3>1. \A x \in F : x < m <=> x < n \/ x = n
        BY <1>0, <2>6
      <3> QED BY <3>1 DEF Below
    <2> QED BY <1>2, <2>4, <2>7
  <1> QED BY <1>2, <1>3, <1>4

-------------------------------------------------------------------------------
(* The invariant *)

\* What a process has locked says where it is.
InStep(p) ==
  /\ pc[p] \in {"none", "create", "version", "reread", "ready"} => lock[p] = "none"
  /\ pc[p] \in {"upgrade", "read"} => lock[p] = "shared"
  /\ pc[p] \in {"write", "wrote"} => lock[p] = "reserved"
  /\ pc[p] \in {"createCommit", "upgradeCommit", "commit"} => lock[p] = "pending"

\* The schema that a process has seen stays until it has done with it.
Schema(p) ==
  /\ pc[p] \in Attached \cup {"reread"} => db.version = "1.1"
  /\ pc[p] \in {"upgrade", "upgradeCommit"} => db.version = "1.0"
  /\ pc[p] = "createCommit" => db.version = "empty"

Typed ==
  /\ db \in Database /\ work \in Database
  /\ lock \in [Procs -> {"none", "shared", "reserved", "pending"}]
  /\ pc \in [Procs -> {"none"} \cup Begun \cup Attached]
  /\ open \in [Procs -> [Ids -> Names \cup {Closed, NoProc}]]
  /\ cmds \in [Procs -> [Names -> Cmd \cup {NoCmd}]]
  /\ found \in [Procs -> SUBSET (Ids \X Paths)]
  /\ deleted \in [Procs -> SUBSET Ids]

OneWriter == \A p, q \in Writers : p = q

LockInv ==
  /\ OneWriter
  /\ Writers = {} => work = db
  /\ Writers # {} => work.version = "1.1"
  /\ \A p \in Procs : InStep(p) /\ Schema(p)

\* What the objects of one process say about each other: open_entries, the
\* commands and the list of deleted entries.
Handles(p) ==
  /\ deleted[p] # {} => pc[p] \in {"wrote", "commit"}
  /\ \A i, j \in deleted[p] : i = j
  /\ \A i \in Ids :
       /\ open[p][i] \in Names /\ i \notin deleted[p] => cmds[p][open[p][i]].id = i
       /\ open[p][i] \in Names /\ i \in deleted[p] => cmds[p][open[p][i]] = NoCmd
       /\ i \notin deleted[p] => open[p][i] # NoProc

\* Rows have ids that were given out, and no other row is without its entry.
Sound(d) ==
  /\ \A i \in Rows(d) : i < d.next
  /\ \A f \in d.files : f.id \in Rows(d)
  /\ \A x \in d.deps : x.id \in Rows(d)

\* Database e was made of d: no id of d has a port that it had not.
Follows(e, d) ==
  /\ d.next <= e.next
  /\ \A i \in Ids : i < d.next => e.ports[i].port \in {d.ports[i].port, NoPort}

\* The port of a command is that of its entry, if that is still there.
Denotes(c, d) ==
  c.port # NoPort => c.id < d.next /\ d.ports[c.id].port \in {c.port, NoPort}

RowsInv ==
  /\ db.version \in {"absent", "empty"} => db = Tables(db.version)
  /\ Sound(db) /\ Sound(work) /\ Follows(work, db)
  /\ \A p \in Procs, n \in Names :
       /\ Denotes(cmds[p][n], View(p))
       /\ cmds[p][n].id < db.next => Denotes(cmds[p][n], db)

IInv == Typed /\ LockInv /\ (\A p \in Procs : Handles(p)) /\ RowsInv

-------------------------------------------------------------------------------
(* Statements *)

\* What every statement of a body does to the tables.
Kept(e, d) ==
  /\ e \in Database /\ Sound(e) /\ Follows(e, d)
  /\ e.version = d.version

\* The parts of a database.
LEMMA DatabaseFields ==
  ASSUME NEW d \in Database
  PROVE  /\ d = [version |-> d.version, ports |-> d.ports, next |-> d.next,
                files |-> d.files, deps |-> d.deps]
         /\ d.version \in {"absent", "empty", "1.0", "1.1"}
         /\ d.ports \in [Ids -> Row \cup {NoRow}]
         /\ d.next \in 1..MaxId + 1
         /\ d.files \in SUBSET FileRow
         /\ d.deps \in SUBSET DepRow
  BY DEF Database

\* The port of a row is a port, and no row has none.
LEMMA RowPort ==
  ASSUME NEW d \in Database, NEW i \in Ids
  PROVE  /\ i \in Rows(d) => d.ports[i].port \in Ports /\ d.ports[i].port # NoPort
         /\ i \notin Rows(d) => d.ports[i].port = NoPort
  BY RegTablesAssumption DEF Database, Row, NoRow, NoPort, Rows

\* A made database follows what its maker followed.
LEMMA FollowsOn ==
  ASSUME NEW d \in Database, NEW e \in Database, NEW f \in Database,
         Follows(e, d), Follows(f, e)
  PROVE  Follows(f, d)
  <1>1. \A x \in {d, e, f} : x.next \in Nat
    BY RegTablesAssumption DEF Database
  <1>2. \A i \in Ids : i \in Nat
    BY DEF Ids
  <1> QED BY <1>1, <1>2 DEF Follows

\* A database follows itself.
LEMMA FollowsItself ==
  ASSUME NEW d \in Database
  PROVE  Follows(d, d)
  <1>1. d.next \in Nat
    BY RegTablesAssumption DEF Database
  <1> QED BY <1>1 DEF Follows

\* What a command denoted it denotes later on.
LEMMA DenotesOn ==
  ASSUME NEW d \in Database, NEW e \in Database, Follows(e, d),
         NEW c \in Cmd \cup {NoCmd}, Denotes(c, d)
  PROVE  Denotes(c, e)
  <1>1. d.next \in Nat /\ e.next \in Nat /\ d.next <= e.next
    BY RegTablesAssumption DEF Database, Follows
  <1>2. CASE c.port = NoPort
    BY <1>2 DEF Denotes
  <1>3. CASE c.port # NoPort
    <2>1. c \in Cmd /\ c.id \in Ids /\ c.id \in Nat
      BY <1>3 DEF Cmd, NoCmd, Ids
    <2>2. c.id < d.next /\ d.ports[c.id].port \in {c.port, NoPort}
      BY <1>3 DEF Denotes
    <2>3. c.id < e.next
      BY <1>1, <2>1, <2>2
    <2>4. e.ports[c.id].port \in {d.ports[c.id].port, NoPort}
      BY <2>1, <2>2 DEF Follows
    <2> QED BY <2>2, <2>3, <2>4 DEF Denotes
  <1> QED BY <1>2, <1>3

\* The body that registers a port.
Made(d, i, port, dep) ==
  reg_entry_map(
    reg_entry_depends(
      reg_entry_propset(reg_entry_create(d, i, port), i, "imaged"), i, dep), i, Paths)

\* create takes the next id, and the rest of the body adds rows for it.
LEMMA CreateKept ==
  ASSUME NEW d \in Database, Sound(d), NEW i \in NewIds(d), NEW port \in Ports,
         NEW dep \in Ports
  PROVE  /\ Kept(Made(d, i, port, dep), d)
         /\ i \in Ids /\ i = d.next /\ Made(d, i, port, dep).next = i + 1
         /\ Made(d, i, port, dep).ports =
              [d.ports EXCEPT ![i] = [port |-> port, state |-> "imaged"]]
  <1> DEFINE c1 == reg_entry_create(d, i, port)
             c == reg_entry_propset(c1, i, "imaged")
             e == reg_entry_map(reg_entry_depends(c, i, dep), i, Paths)
             ports == [d.ports EXCEPT ![i] = [port |-> port, state |-> "imaged"]]
             files == d.files \cup {[id |-> i, path |-> a, active |-> FALSE,
                                     binary |-> "null"] : a \in Paths}
             deps == d.deps \cup {[id |-> i, name |-> dep]}
  <1>1. i \in Ids /\ i = d.next /\ i \in Nat /\ i + 1 \in 1..MaxId + 1
    BY RegTablesAssumption DEF NewIds, Ids
  <1>2. c1 = [version |-> d.version,
              ports |-> [d.ports EXCEPT ![i] = [port |-> port, state |-> "null"]],
              next |-> i + 1, files |-> d.files, deps |-> d.deps]
    <2>1. c1 = [d EXCEPT !.ports = [@ EXCEPT ![i] = [port |-> port, state |-> "null"]],
                         !.next = i + 1]
      BY DEF reg_entry_create
    <2> HIDE DEF c1
    <2> QED BY <2>1 DEF Database
  <1>3. i \in Rows(c1)
    BY <1>1, <1>2, DatabaseFields, RegTablesAssumption DEF Rows, NoRow
  <1>4. c = [c1 EXCEPT !.ports[i].state = "imaged"]
    BY <1>3 DEF reg_entry_propset
  <1>5. c = [version |-> d.version, ports |-> ports,
              next |-> i + 1, files |-> d.files, deps |-> d.deps]
    BY <1>1, <1>2, <1>4, DatabaseFields
  <1> HIDE DEF c, c1
  <1>6. e = [version |-> d.version, ports |-> ports, next |-> i + 1,
             files |-> files, deps |-> deps]
    <2>1. reg_entry_depends(c, i, dep) =
            [version |-> d.version, ports |-> ports, next |-> i + 1,
             files |-> d.files, deps |-> deps]
      BY <1>5 DEF reg_entry_depends
    <2> DEFINE b == reg_entry_depends(c, i, dep)
    <2>2. e = [b EXCEPT !.files = b.files \cup {[id |-> i, path |-> a, active |-> FALSE,
                                                binary |-> "null"] : a \in Paths}]
      BY DEF reg_entry_map
    <2>3. b.files = d.files
      BY <2>1
    <2>4. e = [b EXCEPT !.files = files]
      BY <2>2, <2>3
    <2> HIDE DEF b, e, files
    <2> QED BY <2>1, <2>4 DEF b
  <1> HIDE DEF e
  <1>7. /\ e.version = d.version /\ e.ports = ports /\ e.next = i + 1
        /\ e.files = files /\ e.deps = deps
    BY <1>6
  <1>8. e \in Database
    <2>1. ports \in [Ids -> Row \cup {NoRow}]
      BY <1>1, DatabaseFields DEF Row, States
    <2>2. files \in SUBSET FileRow
      <3>1. \A a \in Paths : [id |-> i, path |-> a, active |-> FALSE, binary |-> "null"]
                                \in FileRow
        BY <1>1 DEF FileRow
      <3> QED BY <3>1, DatabaseFields
    <2>3. deps \in SUBSET DepRow
      BY <1>1, DatabaseFields DEF DepRow
    <2> HIDE DEF ports, files, deps
    <2> QED BY <1>1, <1>6, <2>1, <2>2, <2>3, DatabaseFields DEF Database
  <1>9. Rows(e) = Rows(d) \cup {i}
    BY <1>1, <1>7, DatabaseFields, RegTablesAssumption DEF Rows, NoRow
  <1>10. Sound(e)
    <2>1. \A j \in Rows(e) : j < e.next
      BY <1>1, <1>7, <1>9, DatabaseFields DEF Sound, Rows, Ids
    <2>2. \A f \in files : f.id \in Rows(e)
      BY <1>9 DEF Sound
    <2>3. \A x \in deps : x.id \in Rows(e)
      BY <1>9 DEF Sound
    <2> QED BY <1>7, <2>1, <2>2, <2>3 DEF Sound
  <1>11. Follows(e, d)
    <2>1. d.next <= e.next
      BY <1>1, <1>7
    <2>2. ASSUME NEW j \in Ids, j < d.next
          PROVE  e.ports[j] = d.ports[j]
      BY <1>1, <1>7, <2>2, DatabaseFields DEF Ids
    <2> QED BY <2>1, <2>2 DEF Follows
  <1> QED BY <1>1, <1>7, <1>8, <1>10, <1>11 DEF Kept, Made, e, c, c1

\* delete takes the row and what belongs to it.
LEMMA DeleteKept ==
  ASSUME NEW d \in Database, Sound(d), NEW i \in Ids
  PROVE  LET e == reg_entry_delete(d, i) IN
         /\ Kept(e, d)
         /\ e.next = d.next
         /\ e.ports = [d.ports EXCEPT ![i] = NoRow]
  <1> DEFINE e == reg_entry_delete(d, i)
             files == {f \in d.files : f.id # i}
             deps == {x \in d.deps : x.id # i}
             ports == [d.ports EXCEPT ![i] = NoRow]
  <1>1. e = [d EXCEPT !.ports = ports, !.files = files, !.deps = deps]
    BY DEF reg_entry_delete
  <1> HIDE DEF e
  <1>2. /\ e = [version |-> d.version, ports |-> ports, next |-> d.next,
                files |-> files, deps |-> deps]
        /\ ports \in [Ids -> Row \cup {NoRow}]
        /\ files \in SUBSET FileRow /\ deps \in SUBSET DepRow
    BY <1>1, DatabaseFields DEF Database
  <1>3. Rows(e) = Rows(d) \ {i}
    BY <1>2, DatabaseFields DEF Rows
  <1>4. e \in Database
    BY <1>2, DatabaseFields DEF Database
  <1>5. Sound(e)
    <2>1. \A j \in Rows(e) : j < e.next
      BY <1>2, <1>3 DEF Sound
    <2>2. \A f \in files : f.id \in Rows(e)
      BY <1>3 DEF Sound
    <2>3. \A x \in deps : x.id \in Rows(e)
      BY <1>3 DEF Sound
    <2> QED BY <1>2, <2>1, <2>2, <2>3 DEF Sound
  <1>6. Follows(e, d)
    <2>1. d.next <= e.next
      BY <1>2, DatabaseFields
    <2>2. ASSUME NEW j \in Ids
          PROVE  e.ports[j].port \in {d.ports[j].port, NoPort}
      BY <1>2, DatabaseFields DEF NoRow, NoPort
    <2> QED BY <2>1, <2>2 DEF Follows
  <1> QED BY <1>2, <1>4, <1>5, <1>6 DEF Kept, e

\* A statement on file rows keeps everything but their flags.
LEMMA FilesKept ==
  ASSUME NEW d \in Database, Sound(d), NEW files \in SUBSET FileRow,
         \A f \in files : \E g \in d.files : g.id = f.id
  PROVE  LET e == [d EXCEPT !.files = files] IN
         /\ Kept(e, d)
         /\ e.next = d.next /\ e.ports = d.ports
  <1> DEFINE e == [d EXCEPT !.files = files]
  <1>1. e = [version |-> d.version, ports |-> d.ports, next |-> d.next,
             files |-> files, deps |-> d.deps]
    BY DEF Database
  <1> HIDE DEF e
  <1>2. e \in Database
    BY <1>1, DatabaseFields DEF Database
  <1>3. Rows(e) = Rows(d)
    BY <1>1 DEF Rows
  <1>4. Sound(e)
    BY <1>1, <1>3 DEF Sound
  <1>5. Follows(e, d)
    BY <1>1, FollowsItself DEF Follows
  <1> QED BY <1>1, <1>2, <1>4, <1>5 DEF Kept, e

\* activate and deactivate.
LEMMA SetActiveKept ==
  ASSUME NEW d \in Database, Sound(d), NEW i, NEW paths, NEW on \in BOOLEAN
  PROVE  LET e == SetActive(d, i, paths, on) IN
         /\ Kept(e, d)
         /\ e.next = d.next /\ e.ports = d.ports
  <1> DEFINE New(f) == IF f.id = i /\ f.path \in paths THEN [f EXCEPT !.active = on] ELSE f
             files == {New(f) : f \in d.files}
  <1>1. \A f \in FileRow : New(f) \in FileRow /\ New(f).id = f.id
    BY DEF FileRow
  <1>2. /\ files \in SUBSET FileRow
        /\ \A f \in files : \E g \in d.files : g.id = f.id
    <2> HIDE DEF New
    <2> QED BY <1>1, DatabaseFields
  <1>3. SetActive(d, i, paths, on) = [d EXCEPT !.files = files]
    BY DEF SetActive
  <1> HIDE DEF files
  <1> QED BY <1>2, <1>3, FilesKept

\* rev-upgrade flags the rows it looked at.
LEMMA FlagKept ==
  ASSUME NEW d \in Database, Sound(d), NEW keys
  PROVE  LET e == reg_file_propset(d, keys, "yes") IN
         /\ Kept(e, d)
         /\ e.next = d.next /\ e.ports = d.ports
  <1> DEFINE New(f) == IF <<f.id, f.path>> \in keys THEN [f EXCEPT !.binary = "yes"] ELSE f
             files == {New(f) : f \in d.files}
  <1>1. \A f \in FileRow : New(f) \in FileRow /\ New(f).id = f.id
    BY DEF FileRow
  <1>2. /\ files \in SUBSET FileRow
        /\ \A f \in files : \E g \in d.files : g.id = f.id
    <2> HIDE DEF New
    <2> QED BY <1>1, DatabaseFields
  <1>3. reg_file_propset(d, keys, "yes") = [d EXCEPT !.files = files]
    BY DEF reg_file_propset
  <1> HIDE DEF files
  <1> QED BY <1>2, <1>3, FilesKept

\* A row's state is set; its port stays.
LEMMA StateKept ==
  ASSUME NEW d \in Database, Sound(d), NEW i \in Ids, NEW state \in States
  PROVE  LET e == reg_entry_propset(d, i, state) IN
         /\ Kept(e, d)
         /\ e.next = d.next
         /\ \A j \in Ids : e.ports[j].port = d.ports[j].port
  <1> DEFINE e == reg_entry_propset(d, i, state)
  <1>1. CASE i \notin Rows(d)
    <2>1. e = d
      BY <1>1 DEF reg_entry_propset
    <2> QED BY <2>1, FollowsItself DEF Kept
  <1>2. CASE i \in Rows(d)
    <2> DEFINE ports == [d.ports EXCEPT ![i].state = state]
    <2>1. e = [d EXCEPT !.ports = ports]
      BY <1>2 DEF reg_entry_propset
    <2> HIDE DEF e
    <2>2. d.ports[i] \in Row /\ d.ports[i].port # NoPort
      BY <1>2, DatabaseFields, RowPort DEF Rows
    <2>3. /\ ports \in [Ids -> Row \cup {NoRow}]
          /\ \A j \in Ids : ports[j].port = d.ports[j].port
          /\ \A j \in Ids : ports[j] = NoRow <=> d.ports[j] = NoRow
      BY <2>2, DatabaseFields DEF Row, NoRow, NoPort
    <2> HIDE DEF ports
    <2>4. e = [version |-> d.version, ports |-> ports, next |-> d.next,
               files |-> d.files, deps |-> d.deps]
      BY <2>1 DEF Database
    <2>5. e \in Database
      BY <2>3, <2>4, DatabaseFields DEF Database
    <2>6. Rows(e) = Rows(d)
      BY <2>3, <2>4 DEF Rows
    <2>7. Sound(e)
      BY <2>4, <2>6 DEF Sound
    <2>8. Follows(e, d)
      BY <2>3, <2>4, FollowsItself DEF Follows
    <2> QED BY <2>3, <2>4, <2>5, <2>7, <2>8 DEF Kept, e
  <1> QED BY <1>1, <1>2

\* Empty tables, those just made and those of the new schema.
LEMMA TablesKept ==
  ASSUME NEW v \in {"absent", "empty", "1.0", "1.1"}
  PROVE  /\ Tables(v) \in Database /\ Sound(Tables(v))
         /\ Tables(v).version = v /\ Tables(v).next = 1 /\ Rows(Tables(v)) = {}
         /\ Tables(v).ports = [i \in Ids |-> NoRow]
  BY RegTablesAssumption DEF Tables, Database, Sound, Rows

\* The upgrade of the schema changes no row.
LEMMA UpdateKept ==
  ASSUME NEW d \in Database, Sound(d)
  PROVE  LET e == update_db(d) IN
         /\ e \in Database /\ Sound(e) /\ Follows(e, d)
         /\ e.version = "1.1" /\ e.next = d.next /\ e.ports = d.ports
  <1> DEFINE e == update_db(d)
  <1>1. e = [version |-> "1.1", ports |-> d.ports, next |-> d.next,
             files |-> d.files, deps |-> d.deps]
    BY DEF Database, update_db
  <1> HIDE DEF e
  <1>2. e \in Database
    BY <1>1, DatabaseFields DEF Database
  <1>3. Rows(e) = Rows(d)
    BY <1>1 DEF Rows
  <1>4. Sound(e)
    BY <1>1, <1>3 DEF Sound
  <1>5. Follows(e, d)
    BY <1>1, FollowsItself DEF Follows
  <1> QED BY <1>1, <1>2, <1>4, <1>5 DEF e

\* The registry of an old installation, with one port.
LEMMA OldKept ==
  ASSUME NEW port \in Ports
  PROVE  LET d == reg_entry_map(reg_entry_create(Tables("1.0"), 1, port), 1, Paths) IN
         d \in Database /\ Sound(d) /\ d.version = "1.0"
  <1> DEFINE d == reg_entry_map(reg_entry_create(Tables("1.0"), 1, port), 1, Paths)
             c == reg_entry_create(Tables("1.0"), 1, port)
             none == [i \in Ids |-> NoRow]
             ports == [none EXCEPT ![1] = [port |-> port, state |-> "null"]]
             files == {[id |-> 1, path |-> a, active |-> FALSE, binary |-> "null"] : a \in Paths}
  <1>1. 1 \in Ids /\ 2 \in 1..MaxId + 1
    BY RegTablesAssumption DEF Ids
  <1>2. c = [version |-> "1.0", ports |-> ports, next |-> 2, files |-> {}, deps |-> {}]
    <2> DEFINE t == Tables("1.0")
    <2>1. c = [t EXCEPT !.ports = [@ EXCEPT ![1] = [port |-> port, state |-> "null"]],
                        !.next = 1 + 1]
      BY DEF reg_entry_create
    <2>2. /\ t \in Database /\ t.version = "1.0" /\ t.ports = none
          /\ t.files = {} /\ t.deps = {}
      BY TablesKept DEF Tables
    <2>3. 1 + 1 = 2
      OBVIOUS
    <2> HIDE DEF c, none, t
    <2>4. c = [version |-> t.version,
               ports |-> [t.ports EXCEPT ![1] = [port |-> port, state |-> "null"]],
               next |-> 2, files |-> t.files, deps |-> t.deps]
      BY <2>1, <2>2, <2>3 DEF Database
    <2> QED BY <2>2, <2>4
  <1> HIDE DEF c
  <1>3. d = [c EXCEPT !.files = c.files \cup files]
    BY DEF reg_entry_map, c
  <1>4. /\ files \in SUBSET FileRow
        /\ \A f \in files : f.id = 1
    <2>1. \A a \in Paths : [id |-> 1, path |-> a, active |-> FALSE, binary |-> "null"]
                              \in FileRow
      BY <1>1 DEF FileRow
    <2> QED BY <2>1
  <1> HIDE DEF d, files
  <1>5. d = [version |-> "1.0", ports |-> ports, next |-> 2, files |-> files, deps |-> {}]
    BY <1>2, <1>3
  <1>6. /\ ports \in [Ids -> Row \cup {NoRow}]
        /\ \A i \in Ids : ports[i] # NoRow <=> i = 1
    BY <1>1, RegTablesAssumption DEF Row, NoRow
  <1> HIDE DEF ports
  <1>7. d \in Database
    BY <1>1, <1>4, <1>5, <1>6 DEF Database
  <1>8. Rows(d) = {1}
    BY <1>1, <1>5, <1>6 DEF Rows
  <1> QED BY <1>4, <1>5, <1>7, <1>8 DEF Sound, d

-------------------------------------------------------------------------------
(* Queries and names *)

\* A query returns ids.
LEMMA ResultsAreIds ==
  ASSUME NEW d \in Database, NEW ids, NEW S \in Results(d, ids)
  PROVE  S \in SUBSET Ids
  <1>1. Rows(d) \in SUBSET Ids
    BY DEF Rows
  <1>2. \A f \in d.files : f.id \in Ids
    BY DatabaseFields DEF FileRow
  <1>3. \A x \in d.deps : x.id \in Ids
    BY DatabaseFields DEF DepRow
  <1>4. \A M : /\ reg_entry_search(d, M) \in SUBSET Ids
               /\ reg_entry_imaged(d, M) \in SUBSET Ids
               /\ reg_entry_installed(d, M) \in SUBSET Ids
    BY <1>1 DEF reg_entry_search, reg_entry_imaged, reg_entry_installed
  <1>5. \A a : reg_entry_owner(d, a) \in SUBSET Ids
    BY <1>2 DEF reg_entry_owner
  <1>6. \A i : reg_entry_dependents(d, i) \in SUBSET Ids
    BY <1>3 DEF reg_entry_dependents
  <1>7. \A i : reg_entry_dependencies(d, i) \in SUBSET Ids
    BY <1>1 DEF reg_entry_dependencies
  <1>8. CASE S \in {reg_entry_open(d, x) : x \in Ports}
    BY <1>4, <1>8 DEF reg_entry_open
  <1>9. CASE S \in Searches(d)
    BY <1>4, <1>9 DEF Searches
  <1>10. CASE S \in Owners(d)
    BY <1>5, <1>10 DEF Owners
  <1>11. CASE \E i \in ids : S \in Related(d, i)
    BY <1>6, <1>7, <1>11 DEF Related
  <1> QED BY <1>8, <1>9, <1>10, <1>11 DEF Results

\* Free names are names, of which there are finitely many.
LEMMA ProcNames ==
  ASSUME NEW p \in Procs
  PROVE  /\ Free(p) \in SUBSET Names /\ Free(p) \in SUBSET Nat
         /\ IsFiniteSet(Free(p))
         /\ \A n \in Names : n \in Nat /\ n # Closed /\ n # NoProc
         /\ \A n \in Free(p) : cmds[p][n] = NoCmd
  <1>1. \A q \in Procs : MaxName[q] \in Nat
    BY RegistryAssumption
  <1>2. IsFiniteSet(0..MaxName[p])
    BY <1>1, FS_Interval
  <1>3. Free(p) \in SUBSET (0..MaxName[p])
    BY DEF Free
  <1>4. IsFiniteSet(Free(p))
    BY <1>2, <1>3, FS_Subset
  <1>5. \A n \in Names : n \in Nat /\ n # Closed /\ n # NoProc
    BY <1>1 DEF Names, Closed, NoProc
  <1>6. 0..MaxName[p] \in SUBSET Names
    BY DEF Names
  <1> QED BY <1>3, <1>4, <1>5, <1>6 DEF Free

\* Each new object gets a free name of its own.
LEMMA NamesAreUnique ==
  ASSUME NEW p \in Procs, NEW new \in SUBSET Ids,
         Cardinality(new) <= Cardinality(Free(p))
  PROVE  /\ \A i \in new : unique_name(p, new, i) \in Free(p)
         /\ \A i, j \in new :
              unique_name(p, new, i) = unique_name(p, new, j) => i = j
  <1>1. /\ new \in SUBSET Nat /\ IsFiniteSet(new)
        /\ \A i \in new : i \in Nat
    <2>1. IsFiniteSet(Ids) /\ Ids \subseteq Nat
      BY RegTablesAssumption, FS_Interval DEF Ids
    <2> QED BY <2>1, FS_Subset
  <1>2. ASSUME NEW i \in new
        PROVE  /\ unique_name(p, new, i) \in Free(p)
               /\ Cardinality(Below(Free(p), unique_name(p, new, i)))
                    = Cardinality(Below(new, i))
    <2>1. /\ Cardinality(Below(new, i)) \in Nat
          /\ Cardinality(Below(new, i)) < Cardinality(Free(p))
      BY <1>1, RankBound, FS_CardinalityType, ProcNames
    <2>2. \E n \in Free(p) : Cardinality(Below(Free(p), n)) = Cardinality(Below(new, i))
      BY <2>1, RankExists, ProcNames
    <2>3. unique_name(p, new, i) =
            CHOOSE n \in Free(p) : Cardinality(Below(Free(p), n)) = Cardinality(Below(new, i))
      BY DEF unique_name, Below
    <2> HIDE DEF unique_name
    <2> QED BY <2>2, <2>3
  <1>3. ASSUME NEW i \in new, NEW j \in new, i < j
        PROVE  unique_name(p, new, i) # unique_name(p, new, j)
    <2>1. Cardinality(Below(new, i)) < Cardinality(Below(new, j))
      BY <1>1, <1>3, RankLess
    <2>2. /\ Cardinality(Below(new, i)) \in Nat
          /\ Cardinality(Below(new, j)) \in Nat
      BY <1>1, RankBound
    <2>3. Cardinality(Below(new, i)) # Cardinality(Below(new, j))
      BY <2>1, <2>2
    <2> QED BY <1>2, <2>3
  <1>4. \A i, j \in new : i = j \/ i < j \/ j < i
    BY <1>1
  <1> QED BY <1>2, <1>3, <1>4

\* Open ids have names of their own.
LEMMA OneIdPerName ==
  ASSUME NEW p \in Procs, Handles(p), NEW i \in Ids, NEW j \in Ids,
         open[p][i] \in Names, open[p][i] = open[p][j]
  PROVE  i = j
  <1>1. i # NoCmd.id /\ j # NoCmd.id
    BY DEF NoCmd, Ids
  <1> QED BY <1>1 DEF Handles

\* GiveOut: an object for each row of a query, whose command denotes it.
LEMMA GiveOutGives ==
  ASSUME Typed, NEW p \in Procs, Handles(p), deleted[p] = {}, UNCHANGED <<deleted, pc>>,
         NEW S \in SUBSET Ids, NEW d \in Database, GiveOut(p, S, d)
  PROVE  /\ open' \in [Procs -> [Ids -> Names \cup {Closed, NoProc}]]
         /\ cmds' \in [Procs -> [Names -> Cmd \cup {NoCmd}]]
         /\ Handles(p)'
         /\ \A q \in Procs : q # p => open'[q] = open[q] /\ cmds'[q] = cmds[q]
         /\ \A n \in Names :
              \/ cmds'[p][n] = cmds[p][n]
              \/ \E i \in S : cmds'[p][n].id = i /\ cmds'[p][n].port = d.ports[i].port
  <1> DEFINE new == {i \in S : open[p][i] = Closed}
             name(i) == IF i \in new THEN unique_name(p, new, i) ELSE open[p][i]
             given(n) == CHOOSE j \in S : name(j) = n
             cmd(n) == IF \E i \in S : name(i) = n
                       THEN [id |-> given(n), deleter |-> cmds[p][n].deleter,
                             port |-> d.ports[given(n)].port]
                       ELSE cmds[p][n]
  <1>1. /\ Cardinality(new) <= Cardinality(Free(p))
        /\ \A i \in S : open[p][i] # NoProc
        /\ open' = [open EXCEPT ![p] = [i \in Ids |-> IF i \in S THEN name(i) ELSE open[p][i]]]
        /\ cmds' = [cmds EXCEPT ![p] = [n \in Names |-> cmd(n)]]
    BY DEF GiveOut
  <1>2. \A i \in Ids : open[p][i] \in Names \cup {Closed, NoProc}
    BY DEF Typed
  <1>3. \A n \in Names : cmds[p][n] \in Cmd \cup {NoCmd}
    BY DEF Typed
  <1>4. /\ \A i \in new : name(i) \in Free(p) /\ name(i) \in Names
        /\ \A i, j \in new : name(i) = name(j) => i = j
    <2>1. new \in SUBSET Ids
      OBVIOUS
    <2> QED BY <1>1, <2>1, NamesAreUnique, ProcNames
  <1>5. \A i \in S : name(i) \in Names
    BY <1>1, <1>2, <1>4
  <1>6. \A i \in Ids : open[p][i] \in Names =>
          cmds[p][open[p][i]].id = i /\ open[p][i] \notin Free(p)
    BY ProcNames DEF Handles, NoCmd, Ids
  <1>7. ASSUME NEW i \in S, NEW j \in S, name(i) = name(j)
        PROVE  i = j
    <2>1. CASE i \in new /\ j \in new
      BY <1>4, <1>7, <2>1
    <2>2. CASE i \in new /\ j \notin new
      BY <1>4, <1>5, <1>6, <1>7, <2>2
    <2>3. CASE i \notin new /\ j \in new
      BY <1>4, <1>5, <1>6, <1>7, <2>3
    <2>4. CASE i \notin new /\ j \notin new
      BY <1>5, <1>7, <2>4, OneIdPerName
    <2> QED BY <2>1, <2>2, <2>3, <2>4
  <1>8. ASSUME NEW i \in Ids \ S, open[p][i] \in Names, NEW j \in S
        PROVE  name(j) # open[p][i]
    <2>1. CASE j \in new
      BY <1>4, <1>6, <1>8, <2>1
    <2>2. CASE j \notin new
      BY <1>8, <2>2, OneIdPerName
    <2> QED BY <2>1, <2>2
  <1>9. \A i \in S : given(name(i)) = i
    <2> HIDE DEF name
    <2> QED BY <1>7
  <1>10. ASSUME NEW n \in Names
         PROVE  /\ cmd(n) \in Cmd \cup {NoCmd}
                /\ \/ cmd(n) = cmds[p][n]
                   \/ \E i \in S : cmd(n).id = i /\ cmd(n).port = d.ports[i].port
    <2>1. CASE \E i \in S : name(i) = n
      <3>1. PICK i \in S : name(i) = n
        BY <2>1
      <3>2. given(n) = i
        BY <1>9, <3>1
      <3> HIDE DEF given
      <3>3. cmd(n) = [id |-> i, deleter |-> cmds[p][n].deleter, port |-> d.ports[i].port]
        BY <2>1, <3>2
      <3>4. cmds[p][n].deleter \in BOOLEAN
        <4>1. CASE cmds[p][n] \in Cmd
          BY <4>1 DEF Cmd
        <4>2. CASE cmds[p][n] = NoCmd
          BY <4>2 DEF NoCmd
        <4> QED BY <1>3, <4>1, <4>2
      <3>5. d.ports[i].port \in Ports \cup {NoPort}
        BY RowPort
      <3>6. cmd(n) \in Cmd
        BY <3>3, <3>4, <3>5 DEF Cmd
      <3> QED BY <3>3, <3>6
    <2>2. CASE ~\E i \in S : name(i) = n
      BY <1>3, <2>2
    <2> QED BY <2>1, <2>2
  <1>11. ASSUME NEW i \in S
         PROVE  cmd(name(i)).id = i
    <2> HIDE DEF name, given
    <2> QED BY <1>9
  <1>12. ASSUME NEW i \in Ids \ S, open[p][i] \in Names
         PROVE  cmd(open[p][i]) = cmds[p][open[p][i]]
    BY <1>8, <1>12
  <1> HIDE DEF name, cmd, new
  <1>13. /\ \A i \in Ids : open'[p][i] = IF i \in S THEN name(i) ELSE open[p][i]
         /\ \A n \in Names : cmds'[p][n] = cmd(n)
         /\ \A q \in Procs : q # p => open'[q] = open[q] /\ cmds'[q] = cmds[q]
    BY <1>1 DEF Typed
  <1>14. open' \in [Procs -> [Ids -> Names \cup {Closed, NoProc}]]
    BY <1>1, <1>2, <1>5 DEF Typed
  <1>15. cmds' \in [Procs -> [Names -> Cmd \cup {NoCmd}]]
    BY <1>1, <1>10 DEF Typed
  <1>16. Handles(p)'
    <2>1. ASSUME NEW i \in Ids
          PROVE  /\ open'[p][i] \in Names => cmds'[p][open'[p][i]].id = i
                 /\ open'[p][i] # NoProc
      <3>1. CASE i \in S
        BY <1>5, <1>11, <1>13, <3>1, ProcNames
      <3>2. CASE i \notin S
        BY <1>6, <1>12, <1>13, <3>2 DEF Handles
      <3> QED BY <3>1, <3>2
    <2> QED BY <2>1 DEF Handles
  <1> QED BY <1>10, <1>13, <1>14, <1>15, <1>16

-------------------------------------------------------------------------------
(* What a step of one process leaves of the invariant *)

Locks == {"none", "shared", "reserved", "pending"}
Labels == {"none"} \cup Begun \cup Attached

\* The locks: a step that takes the lock l and goes to label.
LEMMA LockHold ==
  ASSUME Typed, LockInv, NEW p \in Procs, NEW l \in Locks, NEW label \in Labels,
         SetLock(p, l), Go(p, label),
         InStep(p)', Schema(p)', \A q \in Others(p) : Schema(q)',
         l \in {"reserved", "pending"} => CanReserve(p) /\ work'.version = "1.1",
         l \notin {"reserved", "pending"} =>
           IF CanReserve(p) THEN work' = db' ELSE work' = work
  PROVE  LockInv'
  <1>1. /\ lock'[p] = l /\ \A q \in Others(p) : lock'[q] = lock[q] /\ pc'[q] = pc[q]
        /\ \A q \in Procs : q = p \/ q \in Others(p)
    BY DEF Typed, SetLock, Go, Others
  <1>2. Writers' = (Writers \cap Others(p)) \cup {q \in {p} : l \in {"reserved", "pending"}}
    BY <1>1 DEF Writers, Others
  <1>3. OneWriter'
    BY <1>2 DEF OneWriter, LockInv, CanReserve
  <1>4. (Writers = {} => work = db)'
    BY <1>2 DEF CanReserve
  <1>5. (Writers # {} => work.version = "1.1")'
    BY <1>2 DEF CanReserve, LockInv
  <1>6. \A q \in Others(p) : InStep(q)'
    BY <1>1 DEF LockInv, InStep, Others
  <1>7. \A q \in Procs : InStep(q)' /\ Schema(q)'
    BY <1>1, <1>6
  <1> QED BY <1>3, <1>4, <1>5, <1>7 DEF LockInv

\* The objects of the other processes.
LEMMA HandlesHold ==
  ASSUME NEW q \in Procs, Handles(q), pc'[q] = pc[q],
         open'[q] = open[q], cmds'[q] = cmds[q], deleted'[q] = deleted[q]
  PROVE  Handles(q)'
  BY DEF Handles

\* The tables: what the other processes' commands denote they denote on.
LEMMA RowsHold ==
  ASSUME Typed, Typed', RowsInv, NEW p \in Procs, NEW l, SetLock(p, l),
         db'.version \in {"absent", "empty"} => db' = Tables(db'.version),
         Sound(db'), Sound(work'), Follows(work', db'), Follows(db', db),
         CanReserve(p) \/ UNCHANGED <<db, work>>,
         \A q \in Others(p) : cmds'[q] = cmds[q],
         \A n \in Names :
           /\ Denotes(cmds'[p][n], View(p)')
           /\ cmds'[p][n].id < db'.next => Denotes(cmds'[p][n], db')
  PROVE  RowsInv'
  <1>1. /\ \A q \in Others(p) : lock'[q] = lock[q]
        /\ \A q \in Procs : q = p \/ q \in Others(p)
    BY DEF Typed, SetLock, Others
  <1>2. ASSUME NEW q \in Others(p), NEW n \in Names
        PROVE  /\ Denotes(cmds'[q][n], View(q)')
               /\ cmds'[q][n].id < db'.next => Denotes(cmds'[q][n], db')
    <2>1. /\ q \in Procs
          /\ q \in Writers <=> q \in Writers'
          /\ cmds'[q][n] = cmds[q][n]
      BY <1>1 DEF Writers, Others
    <2>2. /\ Denotes(cmds[q][n], View(q))
          /\ cmds[q][n].id < db.next => Denotes(cmds[q][n], db)
      BY <2>1 DEF RowsInv
    <2>3. CASE UNCHANGED <<db, work>>
      BY <2>1, <2>2, <2>3 DEF View
    <2>4. CASE CanReserve(p)
      <3>1. q \notin Writers
        BY <2>4 DEF CanReserve
      <3>2. View(q) = db /\ View(q)' = db'
        BY <2>1, <3>1 DEF View
      <3>3. cmds[q][n] \in Cmd \cup {NoCmd} /\ db \in Database /\ db' \in Database
        BY <2>1 DEF Typed
      <3>4. Denotes(cmds[q][n], db')
        BY <2>2, <3>2, <3>3, DenotesOn
      <3> QED BY <2>1, <3>2, <3>4
    <2> QED BY <2>3, <2>4
  <1>3. \A q \in Procs, n \in Names :
          /\ Denotes(cmds'[q][n], View(q)')
          /\ cmds'[q][n].id < db'.next => Denotes(cmds'[q][n], db')
    BY <1>1, <1>2
  <1> QED BY <1>3 DEF RowsInv

\* A step that changes neither the tables nor an object: p's view changes
\* only if the working copy is the file.
LEMMA RowsStay ==
  ASSUME Typed, Typed', LockInv, RowsInv, NEW p \in Procs, NEW l, SetLock(p, l),
         l \in {"reserved", "pending"} => CanReserve(p),
         UNCHANGED <<db, work, cmds>>,
         p \in Writers => l \in {"reserved", "pending"}
  PROVE  RowsInv'
  <1>1. \A q \in Procs : q \in Writers => q \in Writers'
    BY DEF Writers, SetLock, Typed
  <1>2. ASSUME NEW q \in Procs
        PROVE  View(q)' = View(q)
    <2>1. CASE q \in Writers
      BY <1>1, <2>1 DEF View
    <2>2. CASE q \notin Writers /\ q \notin Writers'
      BY <2>2 DEF View
    <2>3. CASE q \notin Writers /\ q \in Writers'
      <3>1. q = p /\ l \in {"reserved", "pending"}
        BY <2>3 DEF Writers, SetLock, Typed
      <3>2. Writers = {}
        BY <2>3, <3>1 DEF CanReserve, Others, Writers
      <3> QED BY <3>2 DEF View, LockInv
    <2> QED BY <2>1, <2>2, <2>3
  <1> QED BY <1>2 DEF RowsInv

\* A step that only takes a lock and goes on.
LEMMA MoveStep ==
  ASSUME IInv, NEW p \in Procs, NEW l \in Locks, NEW label \in Labels,
         SetLock(p, l), Go(p, label), UNCHANGED <<db, work, open, cmds, deleted>>,
         found' \in [Procs -> SUBSET (Ids \X Paths)],
         deleted[p] # {} => label \in {"wrote", "commit"},
         InStep(p)', Schema(p)',
         l \in {"reserved", "pending"} => CanReserve(p) /\ work.version = "1.1",
         p \in Writers => l \in {"reserved", "pending"}
  PROVE  IInv'
  <1>1. Typed'
    BY DEF IInv, Typed, SetLock, Go, Locks, Labels
  <1>2. /\ pc'[p] = label
        /\ \A q \in Others(p) : q \in Procs /\ pc'[q] = pc[q]
        /\ \A q \in Procs : q = p \/ q \in Others(p)
    BY DEF IInv, Typed, Go, Others
  <1>3. LockInv'
    <2>1. \A q \in Others(p) : Schema(q)'
      BY <1>2 DEF IInv, LockInv, Schema
    <2>2. l \notin {"reserved", "pending"} =>
            IF CanReserve(p) THEN work' = db' ELSE work' = work
      BY DEF IInv, LockInv, CanReserve, Others, Writers
    <2> QED BY <2>1, <2>2, LockHold DEF IInv
  <1>4. ASSUME NEW q \in Procs
        PROVE  Handles(q)'
    BY <1>2 DEF Handles, IInv
  <1>5. RowsInv'
    BY <1>1, RowsStay DEF IInv
  <1> QED BY <1>1, <1>3, <1>4, <1>5 DEF IInv

\* ROLLBACK, and the death of a process.
LEMMA GoneStep ==
  ASSUME IInv, NEW p \in Procs, Gone(p)
  PROVE  IInv'
  <1>1. /\ SetLock(p, "none") /\ Go(p, "none") /\ UNCHANGED db
        /\ work' = IF p \in Writers THEN db ELSE work
    BY DEF Gone, Drop
  <1>2. /\ \A q \in Others(p) : /\ q \in Procs /\ pc'[q] = pc[q] /\ open'[q] = open[q]
                                /\ cmds'[q] = cmds[q] /\ deleted'[q] = deleted[q]
        /\ pc'[p] = "none" /\ lock'[p] = "none" /\ deleted'[p] = {}
        /\ open'[p] = [i \in Ids |-> Closed] /\ cmds'[p] = [n \in Names |-> NoCmd]
        /\ \A q \in Procs : q = p \/ q \in Others(p)
    BY DEF Gone, Drop, SetLock, Go, IInv, Typed, Others
  <1>3. Typed'
    BY <1>1 DEF Gone, SetLock, Go, IInv, Typed
  <1>4. LockInv'
    <2>1. InStep(p)' /\ Schema(p)'
      BY <1>2 DEF InStep, Schema, Begun, Attached
    <2>2. \A q \in Others(p) : Schema(q)'
      BY <1>1, <1>2 DEF IInv, LockInv, Schema
    <2>3. IF CanReserve(p) THEN work' = db' ELSE work' = work
      BY <1>1 DEF IInv, LockInv, OneWriter, CanReserve, Others, Writers
    <2> QED BY <1>1, <2>1, <2>2, <2>3, LockHold DEF IInv, Locks, Labels
  <1>5. ASSUME NEW q \in Procs
        PROVE  Handles(q)'
    <2>1. CASE q = p
      <3>1. Closed \notin Names /\ Closed # NoProc
        BY ProcNames DEF Closed, NoProc
      <3> QED BY <1>2, <2>1, <3>1 DEF Handles
    <2>2. CASE q \in Others(p)
      BY <1>2, <2>2, HandlesHold DEF IInv
    <2> QED BY <1>2, <2>1, <2>2
  <1>6. RowsInv'
    <2>1. \A n \in Names : cmds'[p][n] = NoCmd
      BY <1>2
    <2>2. \A d : Denotes(NoCmd, d)
      BY DEF Denotes, NoCmd
    <2>3. /\ Sound(db') /\ Sound(work') /\ Follows(work', db') /\ Follows(db', db)
          /\ db'.version \in {"absent", "empty"} => db' = Tables(db'.version)
      BY <1>1, FollowsItself DEF IInv, RowsInv, Typed
    <2>4. CanReserve(p) \/ UNCHANGED <<db, work>>
      BY <1>1 DEF IInv, LockInv, OneWriter, CanReserve, Others, Writers
    <2> QED BY <1>1, <1>2, <1>3, <2>1, <2>2, <2>3, <2>4, RowsHold DEF IInv
  <1> QED BY <1>3, <1>4, <1>5, <1>6 DEF IInv

-------------------------------------------------------------------------------
(* Opening the registry *)

\* stat(2) takes no lock.
LEMMA AttachStep == ASSUME IInv, NEW p \in Procs, Attach(p) PROVE IInv'
  <1>1. \E label \in {"create", "version"} : Go(p, label)
    BY DEF Attach
  <1>2. PICK label \in {"create", "version"} : Go(p, label)
    BY <1>1
  <1>3. /\ lock[p] = "none" /\ pc'[p] = label /\ deleted[p] = {}
        /\ SetLock(p, "none")
    BY <1>2 DEF Attach, IInv, LockInv, InStep, Typed, Go, shared, SetLock, Handles
  <1>4. InStep(p)' /\ Schema(p)'
    BY <1>2, <1>3 DEF InStep, Schema, Attached, SetLock, IInv, Typed, Attach, shared
  <1>5. p \notin Writers
    BY <1>3 DEF Writers
  <1> QED
    BY <1>2, <1>3, <1>4, <1>5, MoveStep
    DEF Attach, Locks, Labels, Begun, shared, objects, IInv, Typed

\* Nobody has a command for a file without tables, so none goes wrong when
\* they are made.
LEMMA CreateTablesStep == ASSUME IInv, NEW p \in Procs, CreateTables(p) PROVE IInv'
  <1>1. CASE Gone(p)
    BY <1>1, GoneStep
  <1>2. CASE ~Gone(p)
    <2>1. /\ pc[p] = "create" /\ db.version \in {"absent", "empty"} /\ CanReserve(p)
          /\ SetLock(p, "pending") /\ Go(p, "createCommit")
          /\ db' = [db EXCEPT !.version = "empty"] /\ work' = Tables("1.1")
          /\ UNCHANGED <<open, cmds, found, deleted>>
      BY <1>2 DEF CreateTables, objects, create_tables
    <2>2. db = Tables(db.version) /\ db' = Tables("empty")
      <3>1. db = Tables(db.version)
        BY <2>1 DEF IInv, RowsInv
      <3> QED BY <2>1, <3>1 DEF Tables
    <2>3. Typed'
      BY <2>1, <2>2, TablesKept DEF IInv, Typed, SetLock, Go, Begun
    <2>4. /\ pc'[p] = "createCommit" /\ lock'[p] = "pending"
          /\ \A q \in Others(p) : q \in Procs /\ pc'[q] = pc[q]
          /\ \A q \in Procs : q = p \/ q \in Others(p)
      BY <2>1 DEF IInv, Typed, SetLock, Go, Others
    <2>5. LockInv'
      <3>1. InStep(p)' /\ Schema(p)'
        BY <2>2, <2>4, TablesKept DEF InStep, Schema, Attached
      <3>2. ASSUME NEW q \in Others(p)
            PROVE  Schema(q)'
        <4>1. Schema(q)
          BY <2>4 DEF IInv, LockInv
        <4> QED BY <2>1, <2>2, <2>4, <4>1, TablesKept DEF Schema
      <3> QED BY <2>1, <3>1, <3>2, TablesKept, LockHold DEF IInv, Locks, Labels, Begun
    <2>6. ASSUME NEW q \in Procs
          PROVE  Handles(q)'
      BY <2>1, <2>4 DEF IInv, Handles
    <2>7. RowsInv'
      <3>1. /\ Sound(db') /\ Sound(work')
            /\ db'.version \in {"absent", "empty"} => db' = Tables(db'.version)
        BY <2>1, <2>2, TablesKept
      <3>2. Follows(work', db') /\ Follows(db', db)
        BY <2>1, <2>2, TablesKept DEF Follows, IInv, Typed, Database
      <3>3. ASSUME NEW n \in Names
            PROVE  cmds[p][n].port = NoPort
        <4>1. pc[p] \notin {"write", "wrote", "commit", "createCommit", "upgradeCommit"}
          BY <2>1
        <4>2. lock[p] = "none"
          BY <2>1 DEF IInv, LockInv, InStep
        <4>3. View(p) = db /\ db.next = 1
          BY <2>1, <2>2, <4>2, TablesKept DEF View, Writers, IInv, Typed, Database
        <4>4. Denotes(cmds[p][n], db)
          BY <4>3 DEF IInv, RowsInv
        <4>5. cmds[p][n] \in Cmd \cup {NoCmd}
          BY DEF IInv, Typed
        <4> QED BY <4>3, <4>4, <4>5 DEF Denotes, Cmd, NoCmd, Ids
      <3>4. \A n \in Names : \A d : Denotes(cmds'[p][n], d)
        BY <2>1, <3>3 DEF Denotes
      <3>5. \A q \in Others(p) : cmds'[q] = cmds[q]
        BY <2>1
      <3> QED BY <2>1, <2>3, <3>1, <3>2, <3>4, <3>5, RowsHold DEF IInv
    <2> QED BY <2>3, <2>5, <2>6, <2>7 DEF IInv
  <1> QED BY <1>1, <1>2

\* A process with a SHARED lock has seen the old schema; one that is ready
\* has seen the new one.
LEMMA ReadVersionStep == ASSUME IInv, NEW p \in Procs, ReadVersion(p) PROVE IInv'
  <1>1. CASE Gone(p)
    BY <1>1, GoneStep
  <1>2. CASE ~Gone(p)
    <2>1. lock[p] = "none" /\ deleted[p] = {} /\ p \notin Writers
      BY DEF ReadVersion, IInv, LockInv, InStep, Handles, Writers
    <2>2. \E l \in {"none", "shared"}, label \in {"ready", "upgrade"} :
            /\ SetLock(p, l) /\ Go(p, label) /\ InStep(p)' /\ Schema(p)'
            /\ UNCHANGED <<db, work, open, cmds, found, deleted>>
      <3>1. CASE db.version = "1.1"
        <4>1. /\ SetLock(p, "none") /\ Go(p, "ready")
              /\ UNCHANGED <<db, work, open, cmds, found, deleted>>
          BY <1>2, <2>1, <3>1 DEF ReadVersion, SetLock, IInv, Typed, shared, objects
        <4>2. InStep(p)' /\ Schema(p)'
          BY <3>1, <4>1 DEF InStep, Schema, SetLock, Go, IInv, Typed
        <4> QED BY <4>1, <4>2
      <3>2. CASE db.version # "1.1"
        <4>1. /\ db.version = "1.0" /\ SetLock(p, "shared") /\ Go(p, "upgrade")
              /\ UNCHANGED <<db, work, open, cmds, found, deleted>>
          BY <1>2, <3>2 DEF ReadVersion, objects
        <4>2. InStep(p)' /\ Schema(p)'
          BY <4>1 DEF InStep, Schema, SetLock, Go, IInv, Typed, Attached
        <4> QED BY <4>1, <4>2
      <3> QED BY <3>1, <3>2
    <2>3. found' \in [Procs -> SUBSET (Ids \X Paths)]
      BY <2>2 DEF IInv, Typed
    <2> QED BY <2>1, <2>2, <2>3, MoveStep DEF Locks, Labels, Begun, Attached
  <1> QED BY <1>1, <1>2

\* The second pass of update_db's loop ends without a lock.
LEMMA RereadStep == ASSUME IInv, NEW p \in Procs, Reread(p) PROVE IInv'
  <1>1. CASE Gone(p)
    BY <1>1, GoneStep
  <1>2. CASE ~Gone(p)
    <2>1. lock[p] = "none" /\ deleted[p] = {} /\ p \notin Writers /\ db.version = "1.1"
      BY DEF Reread, IInv, LockInv, InStep, Schema, Handles, Writers
    <2>2. /\ SetLock(p, "none") /\ Go(p, "ready")
          /\ UNCHANGED <<db, work, open, cmds, found, deleted>>
      BY <1>2, <2>1 DEF Reread, SetLock, IInv, Typed, shared, objects
    <2>3. InStep(p)' /\ Schema(p)'
      BY <2>1, <2>2 DEF InStep, Schema, SetLock, Go, IInv, Typed
    <2> QED BY <2>1, <2>2, <2>3, MoveStep DEF Locks, Labels, Attached, IInv, Typed
  <1> QED BY <1>1, <1>2

\* The one writer upgrades: what it sees has the rows of the file.
LEMMA UpgradeStep == ASSUME IInv, NEW p \in Procs, Upgrade(p) PROVE IInv'
  <1>1. /\ pc[p] = "upgrade" /\ CanReserve(p) /\ SetLock(p, "pending")
        /\ work' = update_db(db) /\ Go(p, "upgradeCommit")
        /\ UNCHANGED <<db, open, cmds, found, deleted>>
    BY DEF Upgrade, objects
  <1>2. /\ db.version = "1.0" /\ lock[p] = "shared" /\ p \notin Writers
        /\ db \in Database /\ Sound(db)
    BY <1>1 DEF IInv, LockInv, InStep, Schema, Writers, RowsInv, Typed
  <1>3. /\ work' \in Database /\ Sound(work') /\ Follows(work', db)
        /\ work'.version = "1.1"
    BY <1>1, <1>2, UpdateKept
  <1>4. Typed'
    BY <1>1, <1>3 DEF IInv, Typed, SetLock, Go, Begun
  <1>5. /\ pc'[p] = "upgradeCommit" /\ lock'[p] = "pending"
        /\ \A q \in Others(p) : q \in Procs /\ pc'[q] = pc[q]
        /\ \A q \in Procs : q = p \/ q \in Others(p)
    BY <1>1 DEF IInv, Typed, SetLock, Go, Others
  <1>6. LockInv'
    <2>1. InStep(p)' /\ Schema(p)'
      BY <1>1, <1>2, <1>5 DEF InStep, Schema, Attached
    <2>2. \A q \in Others(p) : Schema(q)'
      BY <1>1, <1>5 DEF IInv, LockInv, Schema
    <2> QED BY <1>1, <1>3, <2>1, <2>2, LockHold DEF IInv, Locks, Labels, Begun
  <1>7. ASSUME NEW q \in Procs
        PROVE  Handles(q)'
    BY <1>1, <1>5 DEF IInv, Handles
  <1>8. RowsInv'
    <2>1. ASSUME NEW n \in Names
          PROVE  Denotes(cmds'[p][n], View(p)') /\ Denotes(cmds'[p][n], db')
      <3>1. Denotes(cmds[p][n], db)
        BY <1>2 DEF View, IInv, RowsInv
      <3>2. cmds[p][n] \in Cmd \cup {NoCmd}
        BY DEF IInv, Typed
      <3>3. Denotes(cmds[p][n], work')
        BY <1>2, <1>3, <3>1, <3>2, DenotesOn
      <3> QED BY <1>1, <3>1, <3>3 DEF View
    <2>2. /\ Sound(db') /\ Follows(db', db)
          /\ db'.version \in {"absent", "empty"} => db' = Tables(db'.version)
          /\ Follows(work', db')
      BY <1>1, <1>2, <1>3, FollowsItself
    <2>3. \A q \in Others(p) : cmds'[q] = cmds[q]
      BY <1>1
    <2> QED BY <1>1, <1>3, <1>4, <2>1, <2>2, <2>3, RowsHold DEF IInv
  <1> QED BY <1>4, <1>6, <1>7, <1>8 DEF IInv

\* A COMMIT: the file is what its writer saw, and nobody else has a lock.
LEMMA CommitStep ==
  ASSUME IInv, NEW p \in Procs, Committed(p), NEW label \in Labels, Go(p, label),
         InStep(p)', label = "createCommit" => FALSE, label = "upgrade" => FALSE,
         label = "upgradeCommit" => FALSE,
         UNCHANGED <<cmds, found>>,
         open' \in [Procs -> [Ids -> Names \cup {Closed, NoProc}]],
         deleted' \in [Procs -> SUBSET Ids],
         \A q \in Others(p) : open'[q] = open[q] /\ deleted'[q] = deleted[q],
         Handles(p)'
  PROVE  IInv'
  <1>1. /\ lock[p] = "pending" /\ p \in Writers /\ db' = work /\ work' = work
        /\ SetLock(p, "none") /\ \A q \in Others(p) : lock[q] = "none"
    BY DEF Committed, CanCommit, Writers
  <1>2. /\ work.version = "1.1" /\ CanReserve(p) /\ Others(p) \cap Writers = {}
        /\ db \in Database /\ work \in Database
    BY <1>1 DEF IInv, LockInv, Writers, CanReserve, Typed
  <1>3. Typed'
    BY <1>1 DEF IInv, Typed, SetLock, Go, Labels
  <1>4. /\ pc'[p] = label
        /\ \A q \in Others(p) : q \in Procs /\ pc'[q] = pc[q]
        /\ \A q \in Procs : q = p \/ q \in Others(p)
    BY DEF IInv, Typed, Go, Others
  <1>5. LockInv'
    <2>1. Schema(p)'
      BY <1>1, <1>2, <1>4 DEF Schema
    <2>2. ASSUME NEW q \in Others(p)
          PROVE  Schema(q)'
      <3>1. pc'[q] \notin {"upgrade", "upgradeCommit", "createCommit"}
        BY <1>1, <1>4 DEF IInv, LockInv, InStep
      <3> QED BY <1>1, <1>2, <3>1 DEF Schema
    <2> QED BY <1>1, <1>2, <2>1, <2>2, LockHold DEF IInv, Locks
  <1>6. ASSUME NEW q \in Procs
        PROVE  Handles(q)'
    BY <1>4, HandlesHold DEF IInv
  <1>7. RowsInv'
    <2>1. ASSUME NEW n \in Names
          PROVE  Denotes(cmds'[p][n], View(p)') /\ Denotes(cmds'[p][n], db')
      BY <1>1 DEF View, IInv, RowsInv
    <2>2. /\ Sound(db') /\ Sound(work') /\ Follows(work', db') /\ Follows(db', db)
          /\ db'.version \in {"absent", "empty"} => db' = Tables(db'.version)
      BY <1>1, <1>2, FollowsItself DEF IInv, RowsInv
    <2> QED BY <1>1, <1>2, <1>3, <2>1, <2>2, RowsHold DEF IInv
  <1> QED BY <1>3, <1>5, <1>6, <1>7 DEF IInv

\* New tables, or upgraded ones, are in the file.
LEMMA SchemaCommittedStep == ASSUME IInv, NEW p \in Procs, SchemaCommitted(p) PROVE IInv'
  <1>1. PICK label \in {"version", "reread"} : Go(p, label)
    BY DEF SchemaCommitted
  <1>2. /\ Committed(p) /\ UNCHANGED <<open, cmds, found, deleted>>
        /\ deleted[p] = {} /\ pc'[p] = label /\ lock'[p] = "none"
    BY <1>1 DEF SchemaCommitted, objects, IInv, Handles, Typed, Go, Committed, SetLock
  <1>3. InStep(p)'
    BY <1>1, <1>2 DEF InStep
  <1>4. Handles(p)'
    BY <1>2 DEF IInv, Handles
  <1> QED BY <1>1, <1>2, <1>3, <1>4, CommitStep DEF Labels, Begun, IInv, Typed

-------------------------------------------------------------------------------
(* Queries *)

\* A query gives out commands for rows of the file.
LEMMA LookupStep == ASSUME IInv, NEW p \in Procs, Lookup(p) PROVE IInv'
  <1>1. PICK S \in Results(db, {cmds[p][n].id : n \in Commands(p)}) : GiveOut(p, S, db)
    BY DEF Lookup
  <1>2. /\ S \in SUBSET Ids /\ db \in Database
    BY ResultsAreIds DEF IInv, Typed
  <1>3. /\ pc[p] \in {"ready", "read"} /\ deleted[p] = {} /\ p \notin Writers
        /\ UNCHANGED <<db, work, lock, pc, found, deleted>>
    BY DEF Lookup, shared, IInv, LockInv, InStep, Handles, Writers
  <1>4. /\ open' \in [Procs -> [Ids -> Names \cup {Closed, NoProc}]]
        /\ cmds' \in [Procs -> [Names -> Cmd \cup {NoCmd}]]
        /\ Handles(p)'
        /\ \A q \in Procs : q # p => open'[q] = open[q] /\ cmds'[q] = cmds[q]
        /\ \A n \in Names :
             \/ cmds'[p][n] = cmds[p][n]
             \/ \E i \in S : cmds'[p][n].id = i /\ cmds'[p][n].port = db.ports[i].port
    BY <1>1, <1>2, <1>3, GiveOutGives DEF IInv
  <1>5. Typed'
    BY <1>3, <1>4 DEF IInv, Typed
  <1>6. LockInv'
    BY <1>3 DEF IInv, LockInv, OneWriter, Writers, InStep, Schema
  <1>7. ASSUME NEW q \in Procs
        PROVE  Handles(q)'
    BY <1>3, <1>4, HandlesHold DEF IInv
  <1>8. RowsInv'
    <2>1. SetLock(p, lock[p])
      BY <1>3 DEF SetLock, IInv, Typed
    <2>2. ASSUME NEW n \in Names
          PROVE  Denotes(cmds'[p][n], db)
      <3>1. CASE cmds'[p][n] = cmds[p][n]
        BY <1>3, <3>1 DEF IInv, RowsInv, View
      <3>2. CASE \E i \in S : cmds'[p][n].id = i /\ cmds'[p][n].port = db.ports[i].port
        <4>1. PICK i \in S : cmds'[p][n].id = i /\ cmds'[p][n].port = db.ports[i].port
          BY <3>2
        <4>2. i \in Rows(db) => i < db.next
          BY DEF IInv, RowsInv, Sound
        <4>3. i \notin Rows(db) => db.ports[i].port = NoPort
          BY <1>2, RowPort
        <4> QED BY <4>1, <4>2, <4>3 DEF Denotes
      <3> QED BY <1>4, <3>1, <3>2
    <2>3. View(p)' = db /\ db' = db
      BY <1>3 DEF View, Writers
    <2>4. /\ Sound(db') /\ Sound(work') /\ Follows(work', db') /\ Follows(db', db)
          /\ db'.version \in {"absent", "empty"} => db' = Tables(db'.version)
      BY <1>2, <1>3, FollowsItself DEF IInv, RowsInv
    <2>5. \A q \in Others(p) : cmds'[q] = cmds[q]
      BY <1>4 DEF Others
    <2> QED BY <1>3, <1>5, <2>1, <2>2, <2>3, <2>4, <2>5, RowsHold DEF IInv
  <1> QED BY <1>5, <1>6, <1>7, <1>8 DEF IInv

\* A query for files takes no name.
LEMMA LookupFilesStep == ASSUME IInv, NEW p \in Procs, LookupFiles(p) PROVE IInv'
  <1>1. /\ pc[p] = "ready" /\ deleted[p] = {} /\ p \notin Writers
        /\ lock[p] = "none"
        /\ UNCHANGED <<db, work, lock, pc, open, cmds, deleted>>
    BY DEF LookupFiles, shared, IInv, LockInv, InStep, Handles, Writers
  <1>2. SetLock(p, "none") /\ Go(p, "ready")
    BY <1>1 DEF SetLock, Go, IInv, Typed
  <1>3. found' \in [Procs -> SUBSET (Ids \X Paths)]
    <2>1. \A f \in db.files : f.id \in Ids /\ f.path \in Paths
      BY DEF IInv, Typed, Database, FileRow
    <2>2. reg_file_search(db, TRUE, "null") \in SUBSET (Ids \X Paths)
      BY <2>1 DEF reg_file_search, Keys
    <2> QED BY <2>2 DEF LookupFiles, IInv, Typed
  <1>4. InStep(p)' /\ Schema(p)'
    BY <1>1 DEF InStep, Schema, IInv, LockInv
  <1> QED BY <1>1, <1>2, <1>3, <1>4, MoveStep DEF Locks, Labels, Attached

-------------------------------------------------------------------------------
(* Bodies *)

\* BEGIN of a read body.
LEMMA StartReadStep == ASSUME IInv, NEW p \in Procs, StartRead(p) PROVE IInv'
  <1>1. /\ pc[p] = "ready" /\ deleted[p] = {} /\ p \notin Writers
        /\ db.version = "1.1" /\ SetLock(p, "shared") /\ Go(p, "read")
        /\ UNCHANGED <<db, work, open, cmds, found, deleted>>
    BY DEF StartRead, objects, IInv, LockInv, InStep, Schema, Attached, Handles, Writers
  <1>2. InStep(p)' /\ Schema(p)'
    BY <1>1 DEF InStep, Schema, SetLock, Go, IInv, Typed
  <1> QED BY <1>1, <1>2, MoveStep DEF Locks, Labels, Attached, IInv, Typed

\* The end of a read body.
LEMMA EndReadStep == ASSUME IInv, NEW p \in Procs, EndRead(p) PROVE IInv'
  <1>1. /\ pc[p] = "read" /\ deleted[p] = {} /\ p \notin Writers
        /\ db.version = "1.1" /\ SetLock(p, "none") /\ Go(p, "ready")
        /\ UNCHANGED <<db, work, open, cmds, found, deleted>>
    BY DEF EndRead, Drop, objects, IInv, LockInv, InStep, Schema, Attached, Handles, Writers
  <1>2. InStep(p)' /\ Schema(p)'
    BY <1>1 DEF InStep, Schema, SetLock, Go, IInv, Typed
  <1> QED BY <1>1, <1>2, MoveStep DEF Locks, Labels, Attached, IInv, Typed

\* BEGIN IMMEDIATE: the one writer sees the file.
LEMMA StartWriteStep == ASSUME IInv, NEW p \in Procs, StartWrite(p) PROVE IInv'
  <1>1. /\ pc[p] = "ready" /\ deleted[p] = {} /\ p \notin Writers
        /\ db.version = "1.1" /\ CanReserve(p)
        /\ SetLock(p, "reserved") /\ Go(p, "write")
        /\ UNCHANGED <<db, work, open, cmds, found, deleted>>
    BY DEF StartWrite, objects, IInv, LockInv, InStep, Schema, Attached, Handles, Writers
  <1>2. InStep(p)' /\ Schema(p)'
    BY <1>1 DEF InStep, Schema, SetLock, Go, IInv, Typed
  <1>3. work.version = "1.1"
    BY <1>1 DEF IInv, LockInv
  <1> QED BY <1>1, <1>2, <1>3, MoveStep DEF Locks, Labels, Attached, IInv, Typed

\* COMMIT begins.
LEMMA EndBodyStep == ASSUME IInv, NEW p \in Procs, EndBody(p) PROVE IInv'
  <1>1. /\ pc[p] = "wrote" /\ p \in Writers
        /\ db.version = "1.1" /\ SetLock(p, "pending") /\ Go(p, "commit")
        /\ UNCHANGED <<db, work, open, cmds, found, deleted>>
    BY DEF EndBody, objects, IInv, LockInv, InStep, Schema, Attached, Writers
  <1>2. InStep(p)' /\ Schema(p)'
    BY <1>1 DEF InStep, Schema, SetLock, Go, IInv, Typed
  <1>3. work.version = "1.1" /\ CanReserve(p)
    BY <1>1 DEF IInv, LockInv, OneWriter, CanReserve, Others
  <1> QED BY <1>1, <1>2, <1>3, MoveStep DEF Locks, Labels, Attached, IInv, Typed

\* The statements of a body leave the invariant if they keep the tables and
\* p's objects fit.
LEMMA StatementHold ==
  ASSUME IInv, NEW p \in Procs, NEW d, Statement(p, d), Kept(d, work),
         open' \in [Procs -> [Ids -> Names \cup {Closed, NoProc}]],
         cmds' \in [Procs -> [Names -> Cmd \cup {NoCmd}]],
         found' \in [Procs -> SUBSET (Ids \X Paths)],
         deleted' \in [Procs -> SUBSET Ids],
         \A q \in Others(p) :
           open'[q] = open[q] /\ cmds'[q] = cmds[q] /\ deleted'[q] = deleted[q],
         Handles(p)',
         \A n \in Names :
           \/ cmds'[p][n] = cmds[p][n]
           \/ /\ Denotes(cmds'[p][n], d)
              /\ cmds'[p][n].id < db.next => Denotes(cmds'[p][n], db)
  PROVE  IInv'
  <1>1. /\ pc[p] = "write" /\ lock[p] = "reserved" /\ p \in Writers /\ CanReserve(p)
        /\ SetLock(p, "reserved") /\ Go(p, "wrote") /\ work' = d /\ UNCHANGED db
        /\ db \in Database /\ work \in Database /\ d \in Database
        /\ work.version = "1.1" /\ d.version = "1.1" /\ db.version = "1.1"
    BY DEF Statement, IInv, LockInv, InStep, Schema, Attached, Writers, Kept, Typed
  <1>2. Typed'
    BY <1>1 DEF IInv, Typed, SetLock, Go, Attached
  <1>3. /\ pc'[p] = "wrote" /\ lock'[p] = "reserved"
        /\ \A q \in Others(p) : q \in Procs /\ pc'[q] = pc[q]
        /\ \A q \in Procs : q = p \/ q \in Others(p)
    BY <1>1 DEF IInv, Typed, SetLock, Go, Others
  <1>4. LockInv'
    <2>1. InStep(p)' /\ Schema(p)'
      BY <1>1, <1>3 DEF InStep, Schema
    <2>2. \A q \in Others(p) : Schema(q)'
      BY <1>1, <1>3 DEF IInv, LockInv, Schema
    <2> QED BY <1>1, <2>1, <2>2, LockHold DEF IInv, Locks, Labels, Attached
  <1>5. ASSUME NEW q \in Procs
        PROVE  Handles(q)'
    BY <1>3, HandlesHold DEF IInv
  <1>6. RowsInv'
    <2>1. View(p) = work /\ View(p)' = d
      BY <1>1, <1>3 DEF View, Writers
    <2>2. ASSUME NEW n \in Names
          PROVE  /\ Denotes(cmds'[p][n], View(p)')
                 /\ cmds'[p][n].id < db'.next => Denotes(cmds'[p][n], db')
      <3>1. CASE cmds'[p][n] = cmds[p][n]
        <4>1. /\ Denotes(cmds[p][n], work)
              /\ cmds[p][n].id < db.next => Denotes(cmds[p][n], db)
          BY <2>1 DEF IInv, RowsInv
        <4>2. cmds[p][n] \in Cmd \cup {NoCmd}
          BY DEF IInv, Typed
        <4>3. Denotes(cmds[p][n], d)
          BY <1>1, <4>1, <4>2, DenotesOn DEF Kept
        <4> QED BY <1>1, <2>1, <3>1, <4>1, <4>3
      <3>2. CASE cmds'[p][n] # cmds[p][n]
        BY <1>1, <2>1, <3>2
      <3> QED BY <3>1, <3>2
    <2>3. /\ Sound(db') /\ Sound(work') /\ Follows(db', db)
          /\ db'.version \in {"absent", "empty"} => db' = Tables(db'.version)
      BY <1>1, FollowsItself DEF IInv, RowsInv, Kept
    <2>4. Follows(work', db')
      BY <1>1, FollowsOn DEF IInv, RowsInv, Kept
    <2> QED BY <1>1, <1>2, <2>2, <2>3, <2>4, RowsHold DEF IInv
  <1> QED BY <1>2, <1>4, <1>5, <1>6 DEF IInv

\* A new entry has an id that no command has, and a free name.
LEMMA CreateStep == ASSUME IInv, NEW p \in Procs, Create(p) PROVE IInv'
  <1>1. PICK port \in Ports, i \in NewIds(work), dep \in Ports :
          /\ Statement(p, Made(work, i, port, dep))
          /\ open' = [open EXCEPT ![p][i] = unique_name(p, {i}, i)]
          /\ cmds' = [cmds EXCEPT ![p][unique_name(p, {i}, i)] =
                        [id |-> i, deleter |-> FALSE, port |-> port]]
    BY DEF Create, Made
  <1> DEFINE d == Made(work, i, port, dep)
             n == unique_name(p, {i}, i)
  <1>2. /\ Kept(d, work) /\ i \in Ids /\ i = work.next /\ d.next = i + 1
        /\ d.ports = [work.ports EXCEPT ![i] = [port |-> port, state |-> "imaged"]]
    <2>1. work \in Database /\ Sound(work)
      BY DEF IInv, Typed, RowsInv
    <2> QED BY <2>1, CreateKept
  <1>3. n \in Free(p)
    <2>1. Cardinality({i}) = 1
      BY FS_Singleton
    <2>2. Free(p) # {} /\ IsFiniteSet(Free(p))
      BY ProcNames DEF Create
    <2>3. Cardinality({i}) <= Cardinality(Free(p))
      BY <2>1, <2>2, FS_EmptySet, FS_CardinalityType
    <2>4. {i} \in SUBSET Ids
      BY <1>2
    <2> QED BY <2>3, <2>4, NamesAreUnique
  <1> HIDE DEF n
  <1>4. n \in Names /\ cmds[p][n] = NoCmd /\ n # NoProc /\ n # Closed
    BY <1>3, ProcNames
  <1>5. /\ pc[p] = "write" /\ deleted[p] = {} /\ pc'[p] = "wrote"
        /\ UNCHANGED <<found, deleted, db>>
    BY <1>1 DEF Create, Statement, Go, IInv, Typed, Handles
  <1>6. /\ open' \in [Procs -> [Ids -> Names \cup {Closed, NoProc}]]
        /\ \A q \in Others(p) : open'[q] = open[q]
        /\ open'[p][i] = n
        /\ \A j \in Ids : j # i => open'[p][j] = open[p][j]
    BY <1>1, <1>2, <1>4 DEF n, IInv, Typed, Others
  <1>7. /\ cmds' \in [Procs -> [Names -> Cmd \cup {NoCmd}]]
        /\ \A q \in Others(p) : cmds'[q] = cmds[q]
        /\ cmds'[p][n] = [id |-> i, deleter |-> FALSE, port |-> port]
        /\ \A m \in Names : m # n => cmds'[p][m] = cmds[p][m]
    <2>1. [id |-> i, deleter |-> FALSE, port |-> port] \in Cmd
      BY <1>2 DEF Cmd
    <2> QED BY <1>1, <1>4, <2>1 DEF n, IInv, Typed, Others
  <1>8. Handles(p)'
    <2>1. ASSUME NEW j \in Ids
          PROVE  /\ open'[p][j] \in Names => cmds'[p][open'[p][j]].id = j
                 /\ open'[p][j] # NoProc
      <3>1. CASE j = i
        BY <1>4, <1>6, <1>7, <3>1
      <3>2. CASE j # i
        <4>1. /\ open[p][j] \in Names => cmds[p][open[p][j]].id = j
              /\ open[p][j] # NoProc
          BY <1>5 DEF IInv, Handles
        <4>2. j # NoCmd.id
          BY DEF NoCmd, Ids
        <4> QED BY <1>4, <1>6, <1>7, <3>2, <4>1, <4>2
      <3> QED BY <3>1, <3>2
    <2> QED BY <1>5, <2>1 DEF Handles
  <1>9. ASSUME NEW m \in Names
        PROVE  \/ cmds'[p][m] = cmds[p][m]
               \/ /\ Denotes(cmds'[p][m], d)
                  /\ cmds'[p][m].id < db.next => Denotes(cmds'[p][m], db)
    <2>1. CASE m # n
      BY <1>7, <2>1
    <2>2. CASE m = n
      <3>1. work.ports \in [Ids -> Row \cup {NoRow}]
        BY DatabaseFields DEF IInv, Typed
      <3>2. d.ports[i].port = port /\ i < d.next /\ i \in Nat
        <4>1. d.ports[i].port = port
          BY <1>2, <3>1
        <4>2. i \in Nat
          BY <1>2 DEF Ids
        <4> HIDE DEF d
        <4> QED BY <1>2, <4>1, <4>2
      <3>3. Denotes(cmds'[p][m], d)
        BY <1>7, <2>2, <3>2 DEF Denotes
      <3>4. ~(i < db.next)
        BY <1>2, DatabaseFields DEF IInv, RowsInv, Follows, Typed, Ids
      <3> QED BY <1>7, <2>2, <3>3, <3>4
    <2> QED BY <2>1, <2>2
  <1>10. /\ \A q \in Others(p) : deleted'[q] = deleted[q]
         /\ found' \in [Procs -> SUBSET (Ids \X Paths)]
         /\ deleted' \in [Procs -> SUBSET Ids]
    BY <1>5 DEF IInv, Typed
  <1> HIDE DEF d
  <1> QED BY <1>1, <1>2, <1>6, <1>7, <1>8, <1>9, <1>10, StatementHold DEF d

\* Activation and deactivation change flags of file rows.
LEMMA MapFilesStep == ASSUME IInv, NEW p \in Procs, MapFiles(p) PROVE IInv'
  <1>1. PICK n \in Commands(p) :
          LET i == cmds[p][n].id IN
          \/ Statement(p, reg_entry_activate(work, i, reg_entry_imagefiles(work, i)))
          \/ Statement(p, reg_entry_deactivate(work, i, reg_entry_files(work, i)))
    BY DEF MapFiles
  <1>2. \A i, paths : /\ Kept(reg_entry_activate(work, i, paths), work)
                      /\ Kept(reg_entry_deactivate(work, i, paths), work)
    BY SetActiveKept DEF reg_entry_activate, reg_entry_deactivate, IInv, Typed, RowsInv
  <1>3. PICK d : Statement(p, d) /\ Kept(d, work)
    BY <1>1, <1>2
  <1>4. UNCHANGED <<open, cmds, found, deleted>> /\ deleted[p] = {}
    BY <1>3 DEF MapFiles, IInv, Handles, Statement
  <1>5. Handles(p)'
    BY <1>4 DEF IInv, Handles
  <1> QED BY <1>3, <1>4, <1>5, StatementHold DEF IInv, Typed

\* rev-upgrade changes flags of file rows.
LEMMA FlagFilesStep == ASSUME IInv, NEW p \in Procs, FlagFiles(p) PROVE IInv'
  <1>1. Kept(reg_file_propset(work, found[p], "yes"), work)
    BY FlagKept DEF IInv, Typed, RowsInv
  <1>2. /\ Statement(p, reg_file_propset(work, found[p], "yes"))
        /\ UNCHANGED <<open, cmds, deleted>> /\ deleted[p] = {}
    BY DEF FlagFiles, IInv, Handles, Statement
  <1>3. Handles(p)'
    BY <1>2 DEF IInv, Handles
  <1>4. found' \in [Procs -> SUBSET (Ids \X Paths)]
    BY DEF FlagFiles, IInv, Typed
  <1> QED BY <1>1, <1>2, <1>3, <1>4, StatementHold DEF IInv, Typed

\* The deleted entry loses its row, its files and its command.
LEMMA DeleteStep == ASSUME IInv, NEW p \in Procs, Delete(p) PROVE IInv'
  <1>1. PICK n \in Commands(p) :
          LET i == cmds[p][n].id IN
          /\ MayDelete(work, i) /\ open[p][i] = n
          /\ Statement(p, reg_entry_delete(work, i))
          /\ deleted' = [deleted EXCEPT ![p] = {i}]
          /\ cmds' = [cmds EXCEPT ![p][n] = NoCmd]
          /\ open' = IF cmds[p][n].deleter THEN [open EXCEPT ![p][i] = NoProc] ELSE open
          /\ UNCHANGED found
    BY DEF Delete
  <1> DEFINE i == cmds[p][n].id
             d == reg_entry_delete(work, i)
  <1>2. i \in Ids /\ n \in Names /\ open[p][i] = n /\ n # NoProc
    BY <1>1, ProcNames DEF MayDelete, Rows, Commands
  <1>3. Statement(p, d) /\ pc[p] = "write" /\ deleted[p] = {} /\ pc'[p] = "wrote"
    BY <1>1 DEF Statement, IInv, Handles, Typed, Go
  <1>4. Kept(d, work)
    BY <1>2, DeleteKept DEF IInv, Typed, RowsInv
  <1> HIDE DEF d
  <1>5. /\ deleted' \in [Procs -> SUBSET Ids] /\ deleted'[p] = {i}
        /\ \A q \in Others(p) : deleted'[q] = deleted[q]
    BY <1>1, <1>2 DEF IInv, Typed, Others
  <1>6. /\ cmds' \in [Procs -> [Names -> Cmd \cup {NoCmd}]]
        /\ \A q \in Others(p) : cmds'[q] = cmds[q]
        /\ cmds'[p][n] = NoCmd
        /\ \A m \in Names : m # n => cmds'[p][m] = cmds[p][m]
    BY <1>1, <1>2 DEF IInv, Typed, Others
  <1>7. /\ open' \in [Procs -> [Ids -> Names \cup {Closed, NoProc}]]
        /\ \A q \in Others(p) : open'[q] = open[q]
        /\ open'[p][i] \in {n, NoProc}
        /\ \A j \in Ids : j # i => open'[p][j] = open[p][j]
    BY <1>1, <1>2 DEF IInv, Typed, Others
  <1> HIDE DEF i
  <1>8. Handles(p)'
    <2>1. ASSUME NEW j \in Ids
          PROVE  /\ open'[p][j] \in Names /\ j # i => cmds'[p][open'[p][j]].id = j
                 /\ open'[p][j] \in Names /\ j = i => cmds'[p][open'[p][j]] = NoCmd
                 /\ j # i => open'[p][j] # NoProc
      <3>1. CASE j = i
        BY <1>6, <1>7, <3>1, ProcNames
      <3>2. CASE j # i
        <4>1. /\ open[p][j] \in Names => cmds[p][open[p][j]].id = j
              /\ open[p][j] # NoProc
          BY <1>3 DEF IInv, Handles
        <4> QED BY <1>6, <1>7, <3>2, <4>1 DEF i
      <3> QED BY <3>1, <3>2
    <2> QED BY <1>3, <1>5, <2>1 DEF Handles
  <1>9. ASSUME NEW m \in Names
        PROVE  \/ cmds'[p][m] = cmds[p][m]
               \/ /\ Denotes(cmds'[p][m], d)
                  /\ cmds'[p][m].id < db.next => Denotes(cmds'[p][m], db)
    BY <1>6 DEF Denotes, NoCmd
  <1>10. found' \in [Procs -> SUBSET (Ids \X Paths)]
    BY <1>1 DEF IInv, Typed
  <1> QED
    BY <1>3, <1>4, <1>5, <1>6, <1>7, <1>8, <1>9, <1>10, StatementHold

\* COMMIT done: the deleted entries are closed.
LEMMA CommittedBodyStep == ASSUME IInv, NEW p \in Procs, Commit(p) PROVE IInv'
  <1>1. /\ pc[p] = "commit" /\ Committed(p) /\ Go(p, "ready")
        /\ open' = [open EXCEPT ![p] = [i \in Ids |-> IF i \in deleted[p] THEN Closed
                                                      ELSE open[p][i]]]
        /\ deleted' = [deleted EXCEPT ![p] = {}]
        /\ UNCHANGED <<cmds, found>>
    BY DEF Commit
  <1>2. /\ open' \in [Procs -> [Ids -> Names \cup {Closed, NoProc}]]
        /\ \A q \in Others(p) : open'[q] = open[q]
        /\ \A i \in Ids : open'[p][i] = IF i \in deleted[p] THEN Closed ELSE open[p][i]
    BY <1>1 DEF IInv, Typed, Others
  <1>3. /\ deleted' \in [Procs -> SUBSET Ids] /\ deleted'[p] = {}
        /\ \A q \in Others(p) : deleted'[q] = deleted[q]
        /\ lock'[p] = "none" /\ pc'[p] = "ready"
    BY <1>1 DEF IInv, Typed, Others, Go, Committed, SetLock
  <1>4. Handles(p)'
    <2>1. Closed \notin Names /\ Closed # NoProc
      BY ProcNames DEF Closed, NoProc
    <2> QED BY <1>1, <1>2, <1>3, <2>1 DEF IInv, Handles
  <1>5. InStep(p)'
    BY <1>3 DEF InStep
  <1> QED BY <1>1, <1>2, <1>3, <1>4, <1>5, CommitStep DEF Labels, Attached

\* What a rollback makes of a command: its entry's, and the port of a row
\* that is there.
LEMMA RestoredFits ==
  ASSUME IInv, NEW p \in Procs, NEW n \in Names
  PROVE  /\ Restored(p, n) \in Cmd \cup {NoCmd}
         /\ Denotes(Restored(p, n), db)
         /\ \A i \in deleted[p] : open[p][i] = n => Restored(p, n).id = i
         /\ (\A i \in deleted[p] : open[p][i] # n) => Restored(p, n).id = cmds[p][n].id
  <1>1. /\ cmds[p][n] \in Cmd \cup {NoCmd} /\ db \in Database
        /\ deleted[p] \in SUBSET Ids
        /\ \A i, j \in deleted[p] : i = j
    BY DEF IInv, Typed, Handles
  <1>2. CASE \E i \in deleted[p] : open[p][i] = n
    <2>1. PICK i \in deleted[p] : open[p][i] = n
      BY <1>2
    <2>2. (CHOOSE j \in deleted[p] : open[p][j] = n) = i
      BY <1>1, <2>1
    <2>3. Restored(p, n) = [id |-> i, deleter |-> TRUE, port |-> db.ports[i].port]
      BY <1>2, <2>2 DEF Restored
    <2>4. /\ i \in Ids
          /\ db.ports[i].port \in Ports \cup {NoPort}
          /\ db.ports[i].port # NoPort => i < db.next
      BY <1>1, RowPort DEF IInv, RowsInv, Sound
    <2>5. Restored(p, n) \in Cmd
      BY <2>3, <2>4 DEF Cmd
    <2> QED BY <1>1, <2>1, <2>3, <2>4, <2>5 DEF Denotes
  <1>3. CASE \A i \in deleted[p] : open[p][i] # n
    <2> DEFINE c == cmds[p][n]
    <2>1. Restored(p, n) = Forget(c)
      BY <1>3 DEF Restored
    <2>2. c.id < db.next => Denotes(c, db)
      BY DEF IInv, RowsInv
    <2>3. CASE c = NoCmd
      BY <1>3, <2>1, <2>3 DEF Forget, Denotes, NoCmd
    <2>4. CASE c # NoCmd /\ c.id >= db.next
      <3>1. Forget(c) = [c EXCEPT !.port = NoPort] /\ c \in Cmd
        BY <1>1, <2>4 DEF Forget
      <3>2. /\ Forget(c) \in Cmd /\ Forget(c).port = NoPort /\ Forget(c).id = c.id
        BY <3>1 DEF Cmd
      <3> QED BY <1>3, <2>1, <3>2 DEF Denotes
    <2>5. CASE c # NoCmd /\ ~(c.id >= db.next)
      <3>1. Forget(c) = c /\ c \in Cmd
        BY <1>1, <2>5 DEF Forget
      <3>2. c.id < db.next
        BY <1>1, <2>5, <3>1, DatabaseFields, RegTablesAssumption DEF Cmd, Ids
      <3> QED BY <1>3, <2>1, <2>2, <3>1, <3>2
    <2> QED BY <2>3, <2>4, <2>5
  <1> QED BY <1>2, <1>3

\* After a rollback the commands of deleted entries are back.
LEMMA RollbackStep == ASSUME IInv, NEW p \in Procs, Rollback(p) PROVE IInv'
  <1>1. CASE Gone(p)
    BY <1>1, GoneStep
  <1>2. CASE ~Gone(p)
    <2>1. /\ pc[p] \in {"write", "wrote"}
          /\ \A i \in deleted[p] : open[p][i] # NoProc
          /\ Drop(p) /\ Go(p, "ready")
          /\ cmds' = [cmds EXCEPT ![p] = [n \in Names |-> Restored(p, n)]]
          /\ deleted' = [deleted EXCEPT ![p] = {}]
          /\ found' = [found EXCEPT ![p] = {}]
          /\ UNCHANGED open
      BY <1>2 DEF Rollback
    <2>2. /\ p \in Writers /\ SetLock(p, "none") /\ work' = db /\ UNCHANGED db
          /\ CanReserve(p) /\ db.version = "1.1" /\ db \in Database
      <3>1. lock[p] = "reserved" /\ p \in Writers
        BY <2>1 DEF IInv, LockInv, InStep, Writers
      <3>2. CanReserve(p)
        BY <3>1 DEF IInv, LockInv, OneWriter, CanReserve, Others
      <3>3. db.version = "1.1" /\ db \in Database
        BY <2>1 DEF IInv, LockInv, Schema, Attached, Typed
      <3> QED BY <2>1, <3>1, <3>2, <3>3 DEF Drop
    <2>3. /\ pc'[p] = "ready" /\ lock'[p] = "none" /\ deleted'[p] = {}
          /\ \A n \in Names : cmds'[p][n] = Restored(p, n)
          /\ \A q \in Others(p) : /\ q \in Procs /\ pc'[q] = pc[q] /\ open'[q] = open[q]
                                  /\ cmds'[q] = cmds[q] /\ deleted'[q] = deleted[q]
          /\ \A q \in Procs : q = p \/ q \in Others(p)
      BY <2>1, <2>2 DEF IInv, Typed, Others, Go, SetLock
    <2>4. Typed'
      <3>1. cmds' \in [Procs -> [Names -> Cmd \cup {NoCmd}]]
        BY <2>1, RestoredFits DEF IInv, Typed
      <3> QED BY <2>1, <2>2, <3>1 DEF IInv, Typed, Go, SetLock, Attached
    <2>5. LockInv'
      <3>1. InStep(p)' /\ Schema(p)'
        BY <2>2, <2>3 DEF InStep, Schema
      <3>2. \A q \in Others(p) : Schema(q)'
        BY <2>2, <2>3 DEF IInv, LockInv, Schema
      <3> QED BY <2>1, <2>2, <3>1, <3>2, LockHold DEF IInv, Locks, Labels, Attached
    <2>6. Handles(p)'
      <3>1. ASSUME NEW i \in Ids
            PROVE  /\ open[p][i] \in Names => Restored(p, open[p][i]).id = i
                   /\ open[p][i] # NoProc
        <4>1. CASE i \in deleted[p]
          BY <2>1, <4>1, RestoredFits
        <4>2. CASE i \notin deleted[p]
          <5>1. /\ open[p][i] \in Names => cmds[p][open[p][i]].id = i
                /\ open[p][i] # NoProc
            BY <4>2 DEF IInv, Handles
          <5>2. ASSUME open[p][i] \in Names, NEW j \in deleted[p], open[p][j] = open[p][i]
                PROVE  FALSE
            <6>1. j \in Ids /\ cmds[p][open[p][j]] = NoCmd
              BY <5>2 DEF IInv, Typed, Handles
            <6>2. i # NoCmd.id
              BY DEF Ids, NoCmd
            <6> QED BY <5>1, <5>2, <6>1, <6>2
          <5> QED BY <5>1, <5>2, RestoredFits
        <4> QED BY <4>1, <4>2
      <3> QED BY <2>1, <2>3, <3>1 DEF Handles
    <2>7. \A q \in Procs : Handles(q)'
      BY <2>3, <2>6, HandlesHold DEF IInv
    <2>8. RowsInv'
      <3>1. View(p)' = db /\ db' = db /\ work' = db
        BY <2>2 DEF View
      <3>2. \A n \in Names : Denotes(cmds'[p][n], db)
        BY <2>3, RestoredFits
      <3>3. /\ Sound(db') /\ Sound(work') /\ Follows(db', db) /\ Follows(work', db')
            /\ db'.version \in {"absent", "empty"} => db' = Tables(db'.version)
        BY <2>2, <3>1, FollowsItself DEF IInv, RowsInv
      <3> QED BY <2>2, <2>3, <2>4, <3>1, <3>2, <3>3, RowsHold DEF IInv
    <2> QED BY <2>4, <2>5, <2>7, <2>8 DEF IInv
  <1> QED BY <1>1, <1>2

-------------------------------------------------------------------------------
(* Single statements *)

\* A state is set in the file, and nobody else has a lock.
LEMMA SetStateStep == ASSUME IInv, NEW p \in Procs, SetState(p) PROVE IInv'
  <1>1. PICK n \in Commands(p) :
          LET i == cmds[p][n].id
              s == IF reg_entry_files(db, i) = {} THEN "imaged" ELSE "installed" IN
          /\ reg_entry_propget(db, i) \notin {{}, {s}}
          /\ db' = reg_entry_propset(db, i, s) /\ work' = db'
    BY DEF SetState
  <1> DEFINE i == cmds[p][n].id
             s == IF reg_entry_files(db, i) = {} THEN "imaged" ELSE "installed"
  <1>2. i \in Ids /\ s \in States
    BY <1>1 DEF reg_entry_propget, Rows, States
  <1>3. /\ db \in Database /\ Kept(db', db) /\ work' = db'
        /\ db'.next = db.next
        /\ \A j \in Ids : db'.ports[j].port = db.ports[j].port
    BY <1>1, <1>2, StateKept DEF IInv, Typed, RowsInv
  <1>4. /\ pc[p] = "ready" /\ lock[p] = "none" /\ db.version = "1.1" /\ db'.version = "1.1"
        /\ CanReserve(p) /\ Writers = {}
        /\ UNCHANGED <<lock, pc, open, cmds, found, deleted>>
    BY <1>3 DEF SetState, objects, IInv, LockInv, InStep, Schema, Attached, CanCommit,
                CanReserve, Writers, Others, Kept
  <1>5. Typed'
    BY <1>3, <1>4 DEF IInv, Typed, Kept
  <1>6. LockInv'
    BY <1>3, <1>4 DEF IInv, LockInv, OneWriter, Writers, InStep, Schema
  <1>7. \A q \in Procs : Handles(q)'
    BY <1>4 DEF IInv, Handles
  <1>8. RowsInv'
    <2>1. SetLock(p, "none")
      BY <1>4 DEF SetLock, IInv, Typed
    <2>2. ASSUME NEW m \in Names
          PROVE  Denotes(cmds'[p][m], db')
      <3>1. Denotes(cmds[p][m], db)
        BY <1>4 DEF IInv, RowsInv, View
      <3>2. cmds[p][m] \in Cmd \cup {NoCmd}
        BY DEF IInv, Typed
      <3> QED BY <1>3, <1>4, <3>1, <3>2, DenotesOn DEF Kept
    <2>3. View(p)' = db'
      BY <1>4 DEF View, Writers
    <2>4. /\ Sound(db') /\ Sound(work') /\ Follows(db', db) /\ Follows(work', db')
          /\ db'.version \in {"absent", "empty"} => db' = Tables(db'.version)
      BY <1>3, <1>4, FollowsItself DEF Kept
    <2> QED BY <1>4, <1>5, <2>1, <2>2, <2>3, <2>4, RowsHold DEF IInv
  <1> QED BY <1>5, <1>6, <1>7, <1>8 DEF IInv

\* A process ends or dies.
LEMMA EndStep == ASSUME IInv, NEW p \in Procs, End(p) PROVE IInv'
  BY GoneStep DEF End

-------------------------------------------------------------------------------
(* The invariant holds *)

\* The invariant holds at first,
LEMMA InitInv == Init => IInv
  <1> SUFFICES ASSUME Init PROVE IInv
    OBVIOUS
  <1>1. /\ db \in Database /\ Sound(db)
        /\ db.version \in {"absent", "empty"} => db = Tables(db.version)
        /\ db.version \in {"absent", "1.0"}
    BY TablesKept, OldKept DEF Init
  <1>2. Typed
    BY <1>1 DEF Init, Typed
  <1>3. LockInv
    BY <1>1 DEF Init, LockInv, OneWriter, Writers, InStep, Schema, Attached
  <1>4. ASSUME NEW p \in Procs
        PROVE  Handles(p)
    <2>1. Closed \notin Names /\ Closed # NoProc
      BY ProcNames DEF Closed, NoProc
    <2> QED BY <2>1 DEF Init, Handles
  <1>5. RowsInv
    <2>1. \A p \in Procs, n \in Names : \A d : Denotes(cmds[p][n], d)
      BY DEF Init, Denotes, NoCmd
    <2> QED BY <1>1, <2>1, FollowsItself DEF Init, RowsInv
  <1> QED BY <1>2, <1>3, <1>4, <1>5 DEF IInv

\* and every step keeps it,
LEMMA NextInv == IInv /\ [Next]_vars => IInv'
  <1> SUFFICES ASSUME IInv, [Next]_vars PROVE IInv'
    OBVIOUS
  <1>1. ASSUME NEW p \in Procs, Opens(p)
        PROVE  IInv'
    BY <1>1, AttachStep, CreateTablesStep, ReadVersionStep, UpgradeStep, SchemaCommittedStep,
       RereadStep DEF Opens
  <1>2. ASSUME NEW p \in Procs, Body(p)
        PROVE  IInv'
    BY <1>2, CreateStep, MapFilesStep, FlagFilesStep, DeleteStep, EndBodyStep DEF Body
  <1>3. ASSUME NEW p \in Procs, Lookup(p) \/ LookupFiles(p) \/ StartRead(p) \/ EndRead(p)
        PROVE  IInv'
    BY <1>3, LookupStep, LookupFilesStep, StartReadStep, EndReadStep
  <1>4. ASSUME NEW p \in Procs,
               StartWrite(p) \/ Commit(p) \/ Rollback(p) \/ SetState(p) \/ End(p)
        PROVE  IInv'
    BY <1>4, StartWriteStep, CommittedBodyStep, RollbackStep, SetStateStep, EndStep
  <1>5. CASE UNCHANGED vars
    <2>1. UNCHANGED <<db, work, lock, pc, open, cmds, found, deleted>>
      BY <1>5 DEF vars, shared, objects
    <2>2. Typed' /\ LockInv'
      BY <2>1 DEF IInv, Typed, LockInv, OneWriter, Writers, InStep, Schema
    <2>3. \A p \in Procs : Handles(p)'
      BY <2>1 DEF IInv, Handles
    <2>4. RowsInv'
      BY <2>1 DEF IInv, RowsInv, View, Writers
    <2> QED BY <2>2, <2>3, <2>4 DEF IInv
  <1> QED BY <1>1, <1>2, <1>3, <1>4, <1>5 DEF Next

\* so it always holds.
LEMMA AlwaysInv == Spec => []IInv
  <1> QED BY InitInv, NextInv, PTL DEF Spec

\* The type invariant, with the rules of SQLite's locks and schemas.
THEOREM TypesAreRight == Spec => []TypeOK
  <1>1. IInv => TypeOK
    <2> SUFFICES ASSUME IInv PROVE Cardinality(Writers) <= 1
      BY DEF IInv, Typed, LockInv, Schema, TypeOK
    <2>1. CASE Writers = {}
      BY <2>1, FS_EmptySet
    <2>2. CASE Writers # {}
      <3>1. PICK p \in Writers : Writers = {p}
        BY <2>2 DEF IInv, LockInv, OneWriter
      <3>2. Cardinality({p}) = 1
        BY FS_Singleton
      <3> QED BY <3>1, <3>2
    <2> QED BY <2>1, <2>2
  <1> QED BY <1>1, AlwaysInv, PTL

\* An open entry that is not about to be deleted has its command, and the
\* command denotes that entry, after any commits, rollbacks and deletions.
THEOREM HandlesAlwaysWork == Spec => []HandlesWork
  <1>1. IInv => HandlesWork
    BY DEF IInv, Handles, HandlesWork
  <1> QED BY <1>1, AlwaysInv, PTL

\* A command never denotes the entry of another port, and no file or
\* dependency row is left without its entry.
THEOREM RowsAlwaysBelong == Spec => []RowsBelong
  <1>1. IInv => RowsBelong
    <2> SUFFICES ASSUME IInv PROVE RowsBelong
      OBVIOUS
    <2>1. \A p \in Procs, n \in Names :
            cmds[p][n].port # NoPort =>
              View(p).ports[cmds[p][n].id].port \in {cmds[p][n].port, NoPort}
      BY DEF IInv, RowsInv, Denotes
    <2>2. \A d \in {db, work} :
            {f.id : f \in d.files} \cup {x.id : x \in d.deps} \subseteq Rows(d)
      BY DEF IInv, RowsInv, Sound
    <2> QED BY <2>1, <2>2 DEF RowsBelong
  <1> QED BY <1>1, AlwaysInv, PTL

\* Processes wait for each other for ever only if two of them are in the
\* upgrade of an old schema.
THEOREM OnlyUpgradesGetStuck == Spec => []StuckNeedsUpgrade
  <1>1. IInv => StuckNeedsUpgrade
    <2> SUFFICES ASSUME IInv, NEW S \in SUBSET Procs, S # {},
                        \A p \in S : WaitsFor(p) \cap S # {}
                 PROVE  Cardinality({p \in S : pc[p] \in {"upgrade", "upgradeCommit"}}) > 1
      BY DEF StuckNeedsUpgrade
    <2> DEFINE U == {p \in S : pc[p] \in {"upgrade", "upgradeCommit"}}
    <2>1. ASSUME NEW p \in S, NEW q \in S, lock[p] = "shared", q \in Writers, p # q,
                 pc[p] = "upgrade"
          PROVE  p \in U /\ q \in U
      <3>1. db.version = "1.0"
        BY <2>1 DEF IInv, LockInv, Schema
      <3>2. lock[q] = "pending"
        BY <2>1 DEF WaitsFor, Writers
      <3>3. pc[q] \in {"createCommit", "upgradeCommit", "commit"}
        BY <2>1, <3>2 DEF IInv, LockInv, InStep, Typed, Begun, Attached
      <3>4. pc[q] = "upgradeCommit"
        BY <3>1, <3>3 DEF IInv, LockInv, Schema, Attached
      <3> QED BY <2>1, <3>4
    <2>2. ASSUME NEW p \in S, lock[p] = "shared", WaitsFor(p) # {}
          PROVE  pc[p] = "upgrade"
      BY <2>2 DEF WaitsFor, IInv, LockInv, InStep
    <2>3. PICK p \in S : TRUE
      OBVIOUS
    <2>4. PICK q \in S : q \in WaitsFor(p)
      OBVIOUS
    <2>5. q # p
      BY <2>4 DEF WaitsFor, Others
    <2>6. p \in U /\ q \in U
      <3>1. CASE lock[p] = "shared"
        <4>1. q \in Writers
          BY <2>4, <3>1 DEF WaitsFor
        <4> QED BY <2>1, <2>2, <2>5, <3>1, <4>1
      <3>2. CASE lock[p] = "pending"
        <4>1. p \in Writers /\ lock[q] # "none"
          BY <2>4, <3>2 DEF WaitsFor, Writers
        <4>2. q \notin Writers
          BY <2>5, <4>1 DEF IInv, LockInv, OneWriter
        <4>3. lock[q] = "shared"
          BY <4>1, <4>2 DEF IInv, Typed, Writers
        <4> QED BY <2>1, <2>2, <2>5, <4>1, <4>3
      <3> QED BY <2>4, <3>1, <3>2 DEF WaitsFor
    <2>7. IsFiniteSet(U)
      <3>1. IsFiniteSet(Procs)
        BY RegistryAssumption
      <3>2. U \in SUBSET Procs
        OBVIOUS
      <3> QED BY <3>1, <3>2, FS_Subset
    <2>8. Cardinality({p}) = 1 /\ Cardinality({p, q}) = 2
      <3>1. IsFiniteSet({p}) /\ Cardinality({p}) = 1
        BY FS_Singleton
      <3>2. Cardinality({p} \cup {q}) = 1 + 1
        BY <2>5, <3>1, FS_AddElement
      <3>3. {p} \cup {q} = {p, q} /\ 1 + 1 = 2
        OBVIOUS
      <3> QED BY <3>1, <3>2, <3>3
    <2>9. {p, q} \in SUBSET U
      BY <2>6
    <2> HIDE DEF U
    <2>10. 2 <= Cardinality(U) /\ Cardinality(U) \in Nat
      BY <2>7, <2>8, <2>9, FS_Subset, FS_CardinalityType
    <2> QED BY <2>10 DEF U
  <1> QED BY <1>1, AlwaysInv, PTL
===============================================================================
