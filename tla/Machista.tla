------------------------------ MODULE Machista ------------------------------
(***************************************************************************)
(* machista1.0, which reads the architectures and libraries of binaries    *)
(* for rev-upgrade: the parser of Mach-O files (libmachista.c), and the    *)
(* hash table (hashmap.c) in which a handle keeps what it has parsed.      *)
(*                                                                         *)
(* A file is the tuple of its words of 4 bytes, each the number or the     *)
(* name that it stands for in the file's byte order; a string in it is a   *)
(* tuple of words.  There is memory enough.                                *)
(***************************************************************************)
EXTENDS Integers, Sequences, SequencesExt

CONSTANTS
  BinaryPath,         \* the names of files
  doHash,             \* path |-> its hash
  INITIAL_CAPACITY

\* Of the constants.
MachistaAssumption ==
  /\ doHash \in [BinaryPath -> Nat]
  /\ INITIAL_CAPACITY \in Nat \ {0}

NoHandle == <<>>
NoBinary == [kind |-> "none", cut |-> 0]
NoResult == 0

VARIABLES
  content,   \* path |-> the file, or NoBinary
  handle,    \* the table of the macho_handle, or NoHandle
  results,   \* the results allocated so far: of (history: the path and the
             \* file), macho, and whether it is not freed
  answer     \* what macho_parse_file returned last, and (history) for what

vars == <<content, handle, results, answer>>

-----------------------------------------------------------------------------
(* Files.  A thin file has kind (a magic number), arch and cmds, *)
(* a sequence of commands with type, name and version; a universal one has *)
(* slices, thin files; other files have neither.  Of a file only cut words *)
(* are there, pad of them behind each thin file's commands.                *)

Loads == {"LC_LOAD_DYLIB", "LC_LOAD_WEAK_DYLIB", "LC_REEXPORT_DYLIB"}

\* struct rpath_command and struct dylib_command.
StructSize(type) ==
  CASE type = "LC_RPATH" -> 3 [] type \in Loads \cup {"LC_ID_DYLIB"} -> 6 [] OTHER -> 0

Times(n) == [i \in 1..n |-> i]

CommandWords(c) ==
  LET body == CASE StructSize(c.type) = 3 -> <<"offset">> \o c.name
                [] StructSize(c.type) = 6 -> <<"offset", "timestamp">> \o c.version \o c.name
                [] OTHER -> c.name
  IN <<c.type, Len(body) + 2>> \o body

CommandsWords(cmds) == FlattenSeq([i \in DOMAIN cmds |-> CommandWords(cmds[i])])

ThinWords(t) ==
  <<t.kind, t.arch, "subtype", "filetype", Len(t.cmds), Len(CommandsWords(t.cmds)), "flags">>
    \o (IF t.kind \in {"MH_MAGIC_64", "MH_CIGAM_64"} THEN <<"reserved">> ELSE <<>>)
    \o CommandsWords(t.cmds) \o [i \in 1..t.pad |-> "padding"]

FatWords(slices) ==
  LET Size(i) == Len(ThinWords(slices[i]))
      Offset(i) == 2 + 5 * Len(slices) + FoldLeft(LAMBDA n, j : n + Size(j), 0, Times(i - 1))
  IN <<"FAT_MAGIC", Len(slices)>>
       \o FlattenSeq([i \in DOMAIN slices |->
                        <<slices[i].arch, "subtype", Offset(i), Size(i), "align">>])
       \o FlattenSeq([i \in DOMAIN slices |-> ThinWords(slices[i])])

AllWords(file) ==
  CASE file.kind = "FAT_MAGIC" -> FatWords(file.slices)
    [] file.kind = "script" -> <<"#!">>
    [] OTHER -> ThinWords(file)

Words(file) == SubSeq(AllWords(file), 1, file.cut)

-----------------------------------------------------------------------------
(* The parser *)

HeaderSize == 7
HeaderSize64 == 8
FatHeaderSize == 2
FatArchSize == 5
LoadCommandSize == 2

Word(f, address) == f[address + 1]

macho_read(input, address, length) == address - input.data + length <= input.length
macho_offset(input, address, offset, length) == macho_read(input, address + offset, length)

Parsed(ret, mt) == [ret |-> ret, mt |-> mt]
NewArch(arch) ==
  [arch |-> arch, rpath |-> <<>>, install_name |-> <<>>, version |-> <<>>, loadcmds |-> <<>>]

\* Lists of architectures and of commands grow at their heads.
Handled(f, cmd, mat) ==
  LET type == Word(f, cmd)
      name == SubSeq(f, cmd + StructSize(type) + 1, cmd + Word(f, cmd + 1))
      version == <<Word(f, cmd + 4), Word(f, cmd + 5)>>
  IN CASE type = "LC_RPATH" -> [mat EXCEPT !.rpath = name]
       [] type = "LC_ID_DYLIB" -> [mat EXCEPT !.install_name = name, !.version = version]
       [] type \in Loads ->
            [mat EXCEPT !.loadcmds =
               <<[type |-> type, install_name |-> name, version |-> version]>> \o @]
       [] OTHER -> mat

\* A round of the loop.  The place for one more command must follow each.
Command(f, input, s) ==
  LET cmdsize == Word(f, s.cmd + 1)
  IN IF s.ret # "SUCCESS" THEN s
     ELSE IF ~macho_read(input, s.cmd, cmdsize) \/ cmdsize < StructSize(Word(f, s.cmd))
     THEN [s EXCEPT !.ret = "ERANGE"]
     ELSE [ret |-> IF macho_offset(input, s.cmd, cmdsize, LoadCommandSize)
                   THEN "SUCCESS" ELSE "ERANGE",
           cmd |-> s.cmd + cmdsize, mat |-> Handled(f, s.cmd, s.mat)]

ParseThin(f, input, size, mt) ==
  IF ~macho_read(input, input.data, size) THEN Parsed("ERANGE", mt)
  ELSE IF ~macho_offset(input, input.data, size, LoadCommandSize) THEN Parsed("ERANGE", mt)
  ELSE LET start == [ret |-> "SUCCESS", cmd |-> input.data + size,
                     mat |-> NewArch(Word(f, input.data + 1))]
           ncmds == Word(f, input.data + 4)
           end == FoldLeft(LAMBDA s, i : Command(f, input, s), start, Times(ncmds))
       IN Parsed(end.ret, <<end.mat>> \o mt)

\* The header of a universal file is used without being checked: a file that
\* ends in it makes the process crash.
RECURSIVE parse_macho(_, _, _)
parse_macho(f, input, mt) ==
  LET Arch(i) == input.data + FatHeaderSize + FatArchSize * (i - 1)
      Slice(i) == [data |-> input.data + Word(f, Arch(i) + 2), length |-> Word(f, Arch(i) + 3)]
      Round(s, i) ==
        IF s.ret # "SUCCESS" THEN s
        ELSE IF ~macho_read(input, Arch(i), FatArchSize) THEN Parsed("ERANGE", s.mt)
        ELSE IF ~macho_read(input, Slice(i).data, Slice(i).length) THEN Parsed("ERANGE", s.mt)
        ELSE parse_macho(f, Slice(i), s.mt)
  IN IF ~macho_read(input, input.data, 1) THEN Parsed("ERANGE", mt)
     ELSE CASE Word(f, input.data) \in {"MH_MAGIC", "MH_CIGAM"} ->
                 ParseThin(f, input, HeaderSize, mt)
            [] Word(f, input.data) \in {"MH_MAGIC_64", "MH_CIGAM_64"} ->
                 ParseThin(f, input, HeaderSize64, mt)
            [] Word(f, input.data) = "FAT_MAGIC" ->
                 IF ~macho_read(input, input.data, FatHeaderSize) THEN Parsed("crash", mt)
                 ELSE IF ~macho_offset(input, input.data, FatHeaderSize, FatArchSize)
                 THEN Parsed("ERANGE", mt)
                 ELSE FoldLeft(Round, Parsed("SUCCESS", mt), Times(Word(f, input.data + 1)))
            [] OTHER -> Parsed("EMAGIC", mt)

-----------------------------------------------------------------------------
(* The table *)

setTable(table, capacity, size) ==
  [table |-> table, capacity |-> capacity, size |-> size, threshold |-> (capacity * 3) \div 4]

hashMapCreate == setTable([i \in 0..(INITIAL_CAPACITY - 1) |-> <<>>], INITIAL_CAPACITY, 0)

indexFor(hash, length) == hash % length

\* Mutant: keys with the same hash are taken for the same key.
HashHit(e, key) == e.hash = doHash[key]

isHit(e, key) == e.hash = doHash[key] /\ e.key = key

Hits(map, key) ==
  SelectSeq(map.table[indexFor(doHash[key], map.capacity)], LAMBDA e : isHit(e, key))

hashMapGet(map, key) ==
  IF Hits(map, key) = <<>> THEN NoResult ELSE Head(Hits(map, key)).value

\* The entries move, bucket by bucket, to the heads of the new ones.
Doubled(map) ==
  LET entries == FlattenSeq([i \in 1..map.capacity |-> map.table[i - 1]])
      In(j) == SelectSeq(entries, LAMBDA e : indexFor(e.hash, 2 * map.capacity) = j)
  IN setTable([j \in 0..(2 * map.capacity - 1) |-> Reverse(In(j))], 2 * map.capacity, map.size)

\* For a key that is not there.
Inserted(map, key, value) ==
  LET e == [key |-> key, value |-> value, hash |-> doHash[key]]
      longer == [map EXCEPT !.table[indexFor(e.hash, map.capacity)] = <<e>> \o @, !.size = @ + 1]
  IN IF map.size < map.threshold THEN longer ELSE Doubled(longer)

Updated(map, key, value) ==
  [map EXCEPT !.table[indexFor(doHash[key], map.capacity)] =
     [i \in DOMAIN @ |-> IF isHit(@[i], key) THEN [@[i] EXCEPT !.value = value] ELSE @[i]]]

\* The result takes the place of an older one of the key, which is freed.
hashMapPut(key, result) ==
  LET old == hashMapGet(handle, key)
      value == Len(results) + 1
  IN /\ handle' = IF old = NoResult THEN Inserted(handle, key, value)
                  ELSE Updated(handle, key, value)
     /\ results' = Append([i \in DOMAIN results |->
                             [results[i] EXCEPT !.live = @ /\ i # old]], result)

-----------------------------------------------------------------------------
(* The handle *)

NoAnswer == [path |-> "none", of |-> NoBinary, ret |-> "none", res |-> NoResult]

macho_create_handle ==
  /\ handle = NoHandle
  /\ handle' = hashMapCreate
  /\ UNCHANGED <<content, results, answer>>

Freed == results' = <<>> /\ answer' = NoAnswer

\* Every result is freed.
hashMapDestroy == handle' = NoHandle /\ Freed

macho_destroy_handle ==
  /\ handle # NoHandle
  /\ hashMapDestroy
  /\ UNCHANGED content

Answers(path, ret, res) ==
  /\ answer' = [path |-> path, of |-> content[path], ret |-> ret, res |-> res]
  /\ UNCHANGED content

\* Only what was parsed without an error is kept.  An empty file cannot be
\* mapped.
macho_parse_file(path) ==
  LET cached == hashMapGet(handle, path)
      f == Words(content[path])
      parse == parse_macho(f, [data |-> 0, length |-> Len(f)], <<>>)
      result == [path |-> path, of |-> content[path], macho |-> parse.mt, live |-> TRUE]
      Fails(ret) == Answers(path, ret, NoResult) /\ UNCHANGED <<handle, results>>
  IN /\ handle # NoHandle
     /\ \/ cached # NoResult /\ Answers(path, "SUCCESS", cached) /\ UNCHANGED <<handle, results>>
        \/ /\ cached = NoResult
           /\ CASE content[path] = NoBinary -> Fails("EFILE")
                [] content[path] # NoBinary /\ f = <<>> -> Fails("EMMAP")
                [] OTHER -> \/ parse.ret = "crash" /\ hashMapDestroy /\ UNCHANGED content
                            \/ parse.ret \in {"ERANGE", "EMAGIC"} /\ Fails(parse.ret)
                            \/ /\ parse.ret = "SUCCESS"
                               /\ hashMapPut(path, result)
                               /\ Answers(path, "SUCCESS", Len(results'))

\* Somebody else writes a file, or removes it.
Replaced(path, file) ==
  /\ content[path] # file
  /\ content' = [content EXCEPT ![path] = file]
  /\ UNCHANGED <<handle, results, answer>>

Init(contents) ==
  /\ content \in contents
  /\ handle = NoHandle /\ results = <<>> /\ answer = NoAnswer

Next(files) ==
  \/ macho_create_handle \/ macho_destroy_handle
  \/ \E path \in BinaryPath : macho_parse_file(path)
  \/ \E path \in BinaryPath : \E file \in files[path] : Replaced(path, file)

-----------------------------------------------------------------------------
\* Every part must be there, and room for one more command behind each.
Complete(file) ==
  IF file.kind = "FAT_MAGIC"
  THEN /\ file.slices # <<>> \/ file.cut >= 7
       /\ \A i \in DOMAIN file.slices : file.slices[i].pad >= 2
       /\ file.cut >= Len(AllWords(file))
  ELSE file.cut >= Len(AllWords(file)) - file.pad + 2 /\ file.pad >= 2

Said(t) ==
  LET Of(types) == SelectSeq(t.cmds, LAMBDA c : c.type \in types)
      id == Of({"LC_ID_DYLIB"})
      rpath == Of({"LC_RPATH"})
  IN [arch |-> t.arch,
      rpath |-> IF rpath = <<>> THEN <<>> ELSE Last(rpath).name,
      install_name |-> IF id = <<>> THEN <<>> ELSE Last(id).name,
      version |-> IF id = <<>> THEN <<>> ELSE Last(id).version,
      loadcmds |-> LET loads == Reverse(Of(Loads))
                   IN [i \in DOMAIN loads |->
                         [type |-> loads[i].type, install_name |-> loads[i].name,
                          version |-> loads[i].version]]]

Architectures(file) ==
  IF file.kind = "FAT_MAGIC"
  THEN Reverse([i \in DOMAIN file.slices |-> Said(file.slices[i])])
  ELSE <<Said(file)>>

\* An answer is what the file said when it was first read through without an
\* error, for as long as the handle lives: a file that is cut anywhere before
\* the end of its commands is refused and never half-read, a complete one is
\* understood to the last command, and the result that was given once is
\* given again and is still there, whatever was parsed in between (parse_macho,
\* macho_parse_file and the table, as rev-upgrade uses them for a binary and
\* the libraries it names).
AnswersStand ==
  LET result == results[answer.res]
  IN /\ answer.ret = "SUCCESS" =>
          /\ result.live /\ result.path = answer.path
          /\ result.of.kind # "script" /\ Complete(result.of)
          /\ result.macho = Architectures(result.of)
          /\ \A i \in DOMAIN results : results[i].path = answer.path => i = answer.res
     /\ answer.ret = "ERANGE" => ~Complete(answer.of)
     /\ answer.ret = "EMAGIC" => answer.of.kind = "script"
=============================================================================
