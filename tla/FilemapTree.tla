----------------------------- MODULE FilemapTree -----------------------------
(***************************************************************************)
(* The tree of pextlib1.0/filemap.c: what Set, Get, List and Delete do to  *)
(* the sorted arrays of subnodes, and the form in which Save writes a tree *)
(* and Load reads it.  Only runs use this module: it is recursive.         *)
(*                                                                         *)
(* The name of a file or directory is the tuple of its bytes in lower case *)
(* (names are compared without regard to case).  A path is a sequence of   *)
(* names; a slash at its end is an empty last name.                        *)
(***************************************************************************)
EXTENDS Integers, Sequences, SequencesExt, FiniteSetsExt

NoValue == "none"

Node(key, subs) == [kind |-> "node", key |-> key, subs |-> subs]
Leaf(key, value) == [kind |-> "leaf", key |-> key, value |-> value]
Create == Node(<<>>, <<>>)

-----------------------------------------------------------------------------
(* The search in an array of subnodes *)

ByteAt(name, i) == IF i \in DOMAIN name THEN name[i] ELSE 0

\* A char is signed.
AsChar(byte) == IF byte > 127 THEN byte - 256 ELSE byte

\* Mutant: a key that goes on after the bytes compared is taken for equal.
ComparePrefix(key, part) ==
  LET differ == {i \in DOMAIN part : ByteAt(key, i) # part[i]}
  IN IF differ = {} THEN 0
     ELSE ByteAt(key, Min(differ)) - part[Min(differ)]

\* strncasecmp compares bytes; the byte after them is compared as a char.
Compare(key, part) ==
  LET differ == {i \in DOMAIN part : ByteAt(key, i) # part[i]}
  IN IF differ = {} THEN AsChar(ByteAt(key, Len(part) + 1))
     ELSE ByteAt(key, Min(differ)) - part[Min(differ)]

\* The index at which the search stops: part is there or goes there.
Place(subs, part) ==
  LET found == SelectInSeq(subs, LAMBDA sub : Compare(sub.key, part) >= 0)
  IN IF found = 0 THEN Len(subs) + 1 ELSE found

Holds(subs, part) ==
  LET at == Place(subs, part)
  IN at \in DOMAIN subs /\ Compare(subs[at].key, part) = 0

-----------------------------------------------------------------------------
(* Access *)

Outcome(tree, err) == [tree |-> tree, err |-> err]

RECURSIVE Set(_, _, _)
Set(root, path, value) ==
  LET part == Head(path)
      last == Len(path) = 1
      at == Place(root.subs, part)
      subs == IF Holds(root.subs, part) THEN root.subs
              ELSE InsertAt(root.subs, at, IF last THEN Leaf(part, NoValue) ELSE Node(part, <<>>))
      With(sub) == [root EXCEPT !.subs = [subs EXCEPT ![at] = sub]]
      below == Set(subs[at], Tail(path), value)
  IN CASE part = <<>> -> Outcome(root, "EISDIR")
       [] part # <<>> /\ last /\ subs[at].kind = "leaf" ->
            Outcome(With([subs[at] EXCEPT !.value = value]), "ok")
       [] part # <<>> /\ last /\ subs[at].kind = "node" -> Outcome(root, "EISDIR")
       [] part # <<>> /\ ~last /\ subs[at].kind = "leaf" -> Outcome(root, "ENOTDIR")
       [] part # <<>> /\ ~last /\ subs[at].kind = "node" ->
            Outcome(With(below.tree), below.err)

RECURSIVE Get(_, _)
Get(root, path) ==
  LET part == Head(path)
      sub == root.subs[Place(root.subs, part)]
  IN CASE part = <<>> \/ ~Holds(root.subs, part) -> NoValue
       [] OTHER -> CASE Len(path) = 1 /\ sub.kind = "leaf" -> sub.value
                     [] Len(path) > 1 /\ sub.kind = "node" -> Get(sub, Tail(path))
                     [] OTHER -> NoValue

\* The paths whose value is value, in the order of the tree.
RECURSIVE ListSubtree(_, _, _)
ListSubtree(root, value, path) ==
  IF root.kind = "leaf"
  THEN IF root.value = value THEN <<Append(path, root.key)>> ELSE <<>>
  ELSE LET here == IF root.key = <<>> THEN path ELSE Append(path, root.key)
       IN FlattenSeq([i \in DOMAIN root.subs |-> ListSubtree(root.subs[i], value, here)])

List(root, value) == ListSubtree(root, value, <<>>)

\* A directory that has become empty is pruned, also when nothing was found
\* below it.  A path that goes on below a leaf makes Delete read the leaf as
\* a node: "undefined".  A path that names a directory deletes all below it.
RECURSIVE Delete(_, _)
Delete(root, path) ==
  LET part == Head(path)
      at == Place(root.subs, part)
      sub == root.subs[at]
      Without == [root EXCEPT !.subs = RemoveAt(root.subs, at)]
      below == Delete(sub, Tail(path))
  IN CASE part = <<>> -> Outcome(root, "EISDIR")
       [] part # <<>> /\ ~Holds(root.subs, part) -> Outcome(root, "kKeyNotFound_Err")
       [] OTHER ->
            CASE Len(path) = 1 -> Outcome(Without, "ok")
              [] Len(path) > 1 /\ sub.kind = "leaf" -> Outcome(root, "undefined")
              [] Len(path) > 1 /\ sub.kind = "node" ->
                   Outcome(IF below.tree.subs = <<>> THEN Without
                           ELSE [root EXCEPT !.subs[at] = below.tree],
                           below.err)

-----------------------------------------------------------------------------
(* The file: kind and key of each node, then its value or its subnodes *)

RECURSIVE SaveNode(_)
SaveNode(node) ==
  IF node.kind = "leaf" THEN <<"leaf", node.key, node.value>>
  ELSE <<"node", node.key, Len(node.subs)>>
         \o FlattenSeq([i \in DOMAIN node.subs |-> SaveNode(node.subs[i])])

RECURSIVE LoadNode(_), LoadSubnodes(_, _)
LoadNode(bytes) ==
  IF bytes[1] = "leaf"
  THEN [node |-> Leaf(bytes[2], bytes[3]), left |-> SubSeq(bytes, 4, Len(bytes))]
  ELSE LET subs == LoadSubnodes(bytes[3], SubSeq(bytes, 4, Len(bytes)))
       IN [node |-> Node(bytes[2], subs.nodes), left |-> subs.left]
LoadSubnodes(count, bytes) ==
  IF count = 0 THEN [nodes |-> <<>>, left |-> bytes]
  ELSE LET first == LoadNode(bytes)
           rest == LoadSubnodes(count - 1, first.left)
       IN [nodes |-> <<first.node>> \o rest.nodes, left |-> rest.left]

Save(tree) == SaveNode(tree)

\* A file that is empty, because it was just created, is an empty tree.
Load(bytes) == IF bytes = <<>> THEN Create ELSE LoadNode(bytes).node
=============================================================================
