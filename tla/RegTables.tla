------------------------------ MODULE RegTables ------------------------------
(***************************************************************************)
(* The registry's SQLite file, as a value, and the statements that         *)
(* cregistry/entry.c, file.c and sql.c run on it.  A database d has        *)
(*   d.version  the schema: no file, a file without tables, 1.0, 1.1       *)
(*   d.ports    id |-> [port, state] or NoRow (UNIQUE over the columns     *)
(*              that make up a port)                                       *)
(*   d.next     the next id that AUTOINCREMENT gives                       *)
(*   d.files    rows of the file map; binary is NULL until rev-upgrade     *)
(*   d.deps     rows [id, name] of dependencies                            *)
(* RegEntry has the same tables with the actual paths that image mode      *)
(* cares about; here a row's actual path is its path.  A query returns a   *)
(* set: of ids, or of keys of file rows.                                   *)
(***************************************************************************)
EXTENDS Naturals, FiniteSets

CONSTANTS
  Ports,   \* name, epoch, version, revision and variants of a port
  Paths,   \* paths that ports install
  MaxId    \* bound: ids given out

NoRow == [port |-> "none", state |-> "none"]

ASSUME RegTablesAssumption == MaxId \in Nat \ {0} /\ "none" \notin Ports

Ids == 1..MaxId
States == {"imaged", "installed"}
Row == [port: Ports, state: States \cup {"null"}]
FileRow == [id: Ids, path: Paths, active: BOOLEAN, binary: {"null", "yes"}]
DepRow == [id: Ids, name: Ports]

Database ==
  [version: {"absent", "empty", "1.0", "1.1"}, ports: [Ids -> Row \cup {NoRow}],
   next: 1..MaxId + 1, files: SUBSET FileRow, deps: SUBSET DepRow]

Tables(v) == [version |-> v, ports |-> [i \in Ids |-> NoRow], next |-> 1,
              files |-> {}, deps |-> {}]

\* ATTACH creates the file; create_tables and update_db are one transaction each.
create_tables(d) == Tables("1.1")
update_db(d) == [d EXCEPT !.version = "1.1"]

Rows(d) == {i \in Ids : d.ports[i] # NoRow}

-----------------------------------------------------------------------------
(* registry.ports *)

\* Mutant: an id is the lowest one free (no AUTOINCREMENT).
LowestFree(d) == {i \in Ids : i \notin Rows(d) /\ \A j \in 1..i - 1 : j \in Rows(d)}

NewIds(d) == {d.next} \cap Ids

MayCreate(d, port) == \A i \in Rows(d) : d.ports[i].port # port

reg_entry_create(d, i, port) ==
  [d EXCEPT !.ports[i] = [port |-> port, state |-> "null"], !.next = i + 1]

MayDelete(d, i) == i \in Rows(d)   \* otherwise "an invalid entry was passed"

reg_entry_delete(d, i) ==
  [d EXCEPT !.ports[i] = NoRow,
            !.files = {f \in @ : f.id # i}, !.deps = {x \in @ : x.id # i}]

\* Exact, glob and regexp conditions all select some set of ports.
reg_entry_search(d, matching) == {i \in Rows(d) : d.ports[i].port \in matching}
reg_entry_open(d, port) == reg_entry_search(d, {port})
reg_entry_imaged(d, matching) ==
  {i \in reg_entry_search(d, matching) : d.ports[i].state \in States}
reg_entry_installed(d, matching) ==
  {i \in reg_entry_search(d, matching) : d.ports[i].state = "installed"}

\* No row, or a NULL column, is an error.
reg_entry_propget(d, i) ==
  IF i \in Rows(d) /\ d.ports[i].state # "null" THEN {d.ports[i].state} ELSE {}

\* An UPDATE that changes no row succeeds.
reg_entry_propset(d, i, state) ==
  IF i \in Rows(d) THEN [d EXCEPT !.ports[i].state = state] ELSE d

-----------------------------------------------------------------------------
(* registry.files *)

\* No foreign key is enforced: an entry without a row maps files too.
reg_entry_map(d, i, paths) ==
  [d EXCEPT !.files = @ \cup
     {[id |-> i, path |-> a, active |-> FALSE, binary |-> "null"] : a \in paths}]

reg_entry_imagefiles(d, i) == {f.path : f \in {g \in d.files : g.id = i}}
reg_entry_files(d, i) == {f.path : f \in {g \in d.files : g.id = i /\ g.active}}
reg_entry_owner(d, a) == {f.id : f \in {g \in d.files : g.path = a /\ g.active}}

SetActive(d, i, paths, on) ==
  [d EXCEPT !.files = {IF f.id = i /\ f.path \in paths THEN [f EXCEPT !.active = on] ELSE f :
                       f \in @}]

MayActivate(d, i, paths) ==
  /\ paths \subseteq reg_entry_imagefiles(d, i)
  /\ \A a \in paths : reg_entry_owner(d, a) = {}
reg_entry_activate(d, i, paths) == SetActive(d, i, paths, TRUE)

MayDeactivate(d, i, paths) == paths \subseteq reg_entry_imagefiles(d, i)
reg_entry_deactivate(d, i, paths) == SetActive(d, i, paths, FALSE)

\* The key of a row is its id and path; strategy NULL looks for binary IS NULL.
Keys(rows) == {<<f.id, f.path>> : f \in rows}
reg_file_search(d, active, binary) ==
  Keys({f \in d.files : f.active = active /\ f.binary = binary})

reg_file_propset(d, keys, binary) ==
  [d EXCEPT !.files = {IF <<f.id, f.path>> \in keys THEN [f EXCEPT !.binary = binary] ELSE f :
                       f \in @}]

-----------------------------------------------------------------------------
(* registry.dependencies: ports are joined by their names *)

reg_entry_depends(d, i, name) == [d EXCEPT !.deps = @ \cup {[id |-> i, name |-> name]}]

reg_entry_dependents(d, i) ==
  {x.id : x \in {y \in d.deps : i \in Rows(d) /\ y.id \in Rows(d)
                                /\ y.name = d.ports[i].port}}

reg_entry_dependencies(d, i) ==
  {j \in Rows(d) : [id |-> i, name |-> d.ports[j].port] \in d.deps}
=============================================================================
