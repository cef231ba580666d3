----------------------------- MODULE MCLibraries -----------------------------
(***************************************************************************)
(* The parts of the C libraries, which share nothing, checked side by      *)
(* side: a behaviour stays in the part that its initial state chooses.     *)
(*   "registry"  two processes, one of which keeps two commands, and two   *)
(*               ports;                                                    *)
(*   "ram"       one map in memory, with all that the tree can meet;       *)
(*   "files"     three processes and one database file;                    *)
(*   "versions"  one comparison;                                           *)
(*   "machista"  three binaries and one handle at a time;                  *)
(*   "install"   two installations of one target.                          *)
(***************************************************************************)
EXTENDS Registry, FilemapStore, XInstall, Sequences, TLC

VARIABLES
  compared, result,                   \* Vercmp
  content, handle, results, answer,   \* Machista
  part

(* Registry *)
MCMaxName == [p \in Procs |-> IF p = "port1" THEN 1 ELSE 0]

Symmetry == Permutations(Ports)

(* FilemapStore.  The names a, ab, b and one with a byte above 127. *)
A == <<97>>
AB == <<97, 98>>
AX == <<97, 195>>
B == <<98>>

MCPaths == [t |-> {<<A>>, <<AB>>, <<AX>>, <<B>>, <<B, A>>, <<B, AB>>, <<B, <<>>>>},
            p |-> {<<A>>, <<B>>, <<B, A>>},
            q |-> {<<A>>, <<B, A>>},
            r |-> {}]

Ascii(path) == \A i \in DOMAIN path : \A j \in DOMAIN path[i] : path[i][j] < 128

T == INSTANCE FilemapTree
MCNoValue == T!NoValue
MCCreate == T!Create
MCSet(root, path, value) == T!Set(root, path, value)
MCGet(root, path) == T!Get(root, path)
MCDelete(root, path) == T!Delete(root, path)
MCList(root, value) == T!List(root, value)
MCSave(root) == T!Save(root)
MCLoad(words) == T!Load(words)

(* Vercmp.  All versions of up to three of the bytes . 0 1 a b, and some    *)
(* that need numbers of different lengths.                                  *)
V == INSTANCE Vercmp

Versions == UNION {[1..n -> {46, 48, 49, 97, 98}] : n \in 1..3}
              \cup {<<49, 46, 49, 48>>, <<49, 46, 57>>, <<49, 46, 48, 57>>}

(* Machista.  A thin file and a universal one, of up to two parts, cut      *)
(* anywhere; while it is parsed, somebody replaces it, and writes and       *)
(* removes another.  The names of two binaries have the same hash.          *)
M == INSTANCE Machista WITH
       BinaryPath <- {"a", "b", "c"},
       doHash <- [path \in {"a", "b", "c"} |-> IF path = "c" THEN 2 ELSE 1],
       INITIAL_CAPACITY <- 1

LoadCmd(type, name) == [type |-> type, name |-> <<name, "0">>, version |-> <<name, "1">>]
LoadCmds == {LoadCmd("LC_RPATH", "r"), LoadCmd("LC_ID_DYLIB", "i"), LoadCmd("LC_LOAD_DYLIB", "l"),
         LoadCmd("LC_REEXPORT_DYLIB", "m"), [LoadCmd("LC_UUID", "u") EXCEPT !.name = <<>>]}

Thin(kinds, most, pads) ==
  [kind: kinds, arch: {"ppc"}, cmds: UNION {[1..n -> LoadCmds] : n \in 0..most}, pad: pads]

Slices == Thin({"MH_MAGIC_64"}, 0, {2}) \cup Thin({"MH_CIGAM"}, 0, {0, 2})
            \cup {[kind |-> "MH_CIGAM", arch |-> "i386", cmds |-> <<LoadCmd("LC_LOAD_DYLIB", "l")>>,
                   pad |-> 2]}

CutAt(file, n) == file @@ [cut |-> n]
Binaries ==
  LET whole == Thin({"MH_CIGAM", "MH_MAGIC_64"}, 2, {2})
                 \cup [kind: {"FAT_MAGIC"}, slices: UNION {[1..n -> Slices] : n \in 0..2}]
  IN UNION {{CutAt(file, n) : n \in 0..Len(M!AllWords(file))} : file \in whole}

Small == CutAt([kind |-> "MH_MAGIC", arch |-> "arm", cmds |-> <<>>, pad |-> 2], 9)
Script == CutAt([kind |-> "script"], 1)

Contents == {[a |-> binary, b |-> Script, c |-> Small] : binary \in Binaries}
Writes == [a |-> {Small}, b |-> {Script, M!NoBinary}, c |-> {}]

ASSUME LibrariesAssumption == M!MachistaAssumption

-----------------------------------------------------------------------------
versionVars == <<compared, result>>
machistaVars == <<content, handle, results, answer>>

NoBinaries == content = <<>> /\ handle = <<>> /\ results = <<>> /\ answer = <<>>

LibrariesInit ==
  /\ part \in {"registry", "ram", "files", "versions", "machista", "install"}
  /\ FilemapInit
  /\ IF part = "machista" THEN M!Init(Contents) ELSE NoBinaries
  /\ InstallInit /\ (part # "install" => fs["to"] = NoInode)
  /\ Init /\ (part # "registry" => db = Tables("absent"))
  /\ V!Init

FilemapsNext ==
  /\ \/ part = "ram" /\ \E p \in Ram : FilemapProcNext(p)
     \/ part = "files" /\ \E p \in Proc \ Ram : FilemapProcNext(p)
  /\ UNCHANGED <<part, vars, versionVars, machistaVars, installVars>>

RegistryNext ==
  /\ part = "registry" /\ Next
  /\ UNCHANGED <<part, filemapVars, versionVars, machistaVars, installVars>>

VersionsNext ==
  /\ part = "versions" /\ compared = <<<<>>, <<>>>>
  /\ V!Next(Versions)
  /\ UNCHANGED <<part, vars, filemapVars, machistaVars, installVars>>

MachistaNext ==
  /\ part = "machista" /\ M!Next(Writes)
  /\ UNCHANGED <<part, vars, filemapVars, versionVars, installVars>>

InstallsNext ==
  /\ part = "install" /\ InstallNext
  /\ UNCHANGED <<part, vars, filemapVars, versionVars, machistaVars>>

LibrariesNext ==
  RegistryNext \/ FilemapsNext \/ VersionsNext \/ MachistaNext \/ InstallsNext

LibrariesSpec ==
  /\ LibrariesInit
  /\ [][LibrariesNext]_<<part, vars, filemapVars, versionVars, machistaVars, installVars>>

\* The part that moves: the others are as they were initially.
Moving ==
  CASE part = "registry" -> vars
    [] part \in {"ram", "files"} -> <<part, filemapVars>>
    [] part = "versions" -> <<part, versionVars>>
    [] part = "machista" -> <<part, machistaVars>>
    [] part = "install" -> <<part, installVars>>

\* The type invariants.
TypesOK ==
  CASE part \in {"ram", "files"} -> FilemapTypeOK
    [] part = "install" -> InstallTypeOK
    [] OTHER -> TypeOK

\* Vercmp: plain versions are ordered by their components.
VersionsOrdered == V!VersionsOrdered

\* Machista: what a handle answered stands.
AnswersStand == part = "machista" => M!AnswersStand
=============================================================================
