------------------------------ MODULE PathTree ------------------------------
(***************************************************************************)
(* The tree of a filemap (pextlib1.0/filemap.c) and the functions on it.   *)
(* A directory node holds its subnodes in the order of their names, a leaf *)
(* holds a value.                                                          *)
(***************************************************************************)
EXTENDS PathNames, SequencesExt

Leaf(key, value) == [kind |-> "leaf", key |-> key, value |-> value, subs |-> <<>>]
Dir(key, subs) == [kind |-> "node", key |-> key, value |-> NoValue, subs |-> subs]
CreateRoot == Dir(<<>>, <<>>)

(* The scan stops at the first subnode that is not before the part, which  *)
(* is the place of the part, found or not.                                 *)
Place(subs, part) ==
    Min({i \in DOMAIN subs : Compare(subs[i].key, part) >= 0}
        \cup {Len(subs) + 1})
Found(subs, part) ==
    LET i == Place(subs, part)
    IN  i <= Len(subs) /\ Compare(subs[i].key, part) = 0

IsEmpty(path) == path = <<>> \/ Head(path) = <<>>
IsLast(path) == Len(path) = 1

(* Set creates the missing nodes on its way down, before it knows whether  *)
(* it succeeds.                                                            *)
RECURSIVE Set(_, _, _)
Set(root, path, value) ==
    LET part == Head(path)
        i == Place(root.subs, part)
        new == IF IsLast(path) THEN Leaf(part, value) ELSE Dir(part, <<>>)
        subs == IF Found(root.subs, part) THEN root.subs
                ELSE InsertAt(root.subs, i, new)
        sub == subs[i]
        below == Set(sub, Tail(path), value)
        Result(s, err) ==
            [root |-> [root EXCEPT !.subs = [subs EXCEPT ![i] = s]],
             err |-> err]
    IN  CASE IsEmpty(path) -> [root |-> root, err |-> "EISDIR"]
          [] ~IsEmpty(path) /\ ~IsLast(path) /\ sub.kind # "node" ->
                Result(sub, "ENOTDIR")
          [] ~IsEmpty(path) /\ ~IsLast(path) /\ sub.kind = "node" ->
                Result(below.root, below.err)
          [] ~IsEmpty(path) /\ IsLast(path) /\ sub.kind # "leaf" ->
                Result(sub, "EISDIR")
          [] OTHER -> Result([sub EXCEPT !.value = value], "")

RECURSIVE Get(_, _)
Get(root, path) ==
    IF IsEmpty(path) \/ ~Found(root.subs, Head(path)) THEN NoValue
    ELSE LET sub == root.subs[Place(root.subs, Head(path))]
         IN  CASE ~IsLast(path) /\ sub.kind = "node" -> Get(sub, Tail(path))
               [] IsLast(path) /\ sub.kind = "leaf" -> sub.value
               [] OTHER -> NoValue

(* The paths with a value, in the order of the tree.                       *)
RECURSIVE ListSubtree(_, _, _)
ListSubtree(node, value, path) ==
    IF node.kind = "leaf"
    THEN IF node.value = value THEN <<Append(path, node.key)>> ELSE <<>>
    ELSE FlattenSeq([i \in DOMAIN node.subs |->
            ListSubtree(node.subs[i], value,
                        IF node.key = <<>> THEN path
                        ELSE Append(path, node.key))])
List(root, value) == ListSubtree(root, value, <<>>)

(* Delete prunes a node that is empty afterwards, whether something was    *)
(* found below it or not, and removes a directory with all it holds when   *)
(* the path names it.  A leaf followed by a slash is taken for a node: its *)
(* value is used as pointers, and the process ends.                        *)
RECURSIVE Delete(_, _)
Delete(root, path) ==
    LET part == Head(path)
        i == Place(root.subs, part)
        sub == root.subs[i]
        below == Delete(sub, Tail(path))
        Without == [root EXCEPT !.subs = RemoveAt(root.subs, i)]
        With(s) == [root EXCEPT !.subs[i] = s]
    IN  CASE IsEmpty(path) -> [root |-> root, err |-> "EISDIR"]
          [] ~IsEmpty(path) /\ ~Found(root.subs, part) ->
                [root |-> root, err |-> "KeyNotFound"]
          [] ~IsEmpty(path) /\ Found(root.subs, part) /\ IsLast(path) ->
                [root |-> Without, err |-> ""]
          [] OTHER ->
                IF sub.kind = "leaf" THEN [root |-> root, err |-> "crash"]
                ELSE [root |-> IF below.root.subs = <<>> THEN Without
                               ELSE With(below.root),
                      err |-> below.err]

(* The file: a header, then the nodes in preorder.  A node is one item     *)
(* here, three calls of write there.                                       *)
Header == [kind |-> "header", key |-> <<>>, value |-> NoValue, count |-> 0]

RECURSIVE SaveNode(_)
SaveNode(node) ==
    <<[kind |-> node.kind, key |-> node.key, value |-> node.value,
       count |-> Len(node.subs)]>>
    \o FlattenSeq([i \in DOMAIN node.subs |-> SaveNode(node.subs[i])])
Image(root) == <<Header>> \o SaveNode(root)

(* LoadNode reads one node and count nodes below it; after reads what is   *)
(* left of them, one after the other.                                      *)
RECURSIVE LoadNode(_), LoadNodes(_, _)
LoadNode(items) ==
    IF items = <<>> THEN [node |-> CreateRoot, rest |-> <<>>, err |-> "EOF"]
    ELSE IF Head(items).kind \notin {"leaf", "node"}
    THEN [node |-> CreateRoot, rest |-> <<>>, err |-> "UnknownNodeKind"]
    ELSE LET item == Head(items)
             below == LoadNodes(item.count, Tail(items))
         IN  IF item.kind = "leaf"
             THEN [node |-> Leaf(item.key, item.value), rest |-> Tail(items),
                   err |-> ""]
             ELSE [node |-> Dir(item.key, below.nodes), rest |-> below.rest,
                   err |-> below.err]
LoadNodes(count, items) ==
    IF count = 0 THEN [nodes |-> <<>>, rest |-> items, err |-> ""]
    ELSE LET first == LoadNode(items)
             others == LoadNodes(count - 1, first.rest)
         IN  IF first.err # "" THEN
                [nodes |-> <<>>, rest |-> <<>>, err |-> first.err]
             ELSE [others EXCEPT !.nodes = <<first.node>> \o @]

(* An empty file is an empty map; what follows the tree is not looked at.  *)
Load(items) ==
    IF items = <<>> THEN [root |-> CreateRoot, err |-> ""]
    ELSE IF Head(items) # Header
    THEN [root |-> CreateRoot, err |-> "SignatureMismatch"]
    ELSE LET read == LoadNode(Tail(items))
         IN  [root |-> read.node, err |-> read.err]
=============================================================================
