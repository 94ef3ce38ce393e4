---------------------------- MODULE MCFilemapDb ----------------------------
(***************************************************************************)
(* Two processes that may write and one that may only read, and names that *)
(* differ in case, are prefixes of each other, or name a file here and a   *)
(* directory there.                                                        *)
(***************************************************************************)
EXTENDS FilemapDb

CONSTANTS p1, p2, p3, v1, v2

MCProcs == {p1, p2, p3}
MCOwners == {p1, p2}
MCValues == {v1, v2}
Symmetry == Permutations(MCOwners) \cup Permutations(MCValues)

a == <<97>>
A == <<65>>
ab == <<97, 98>>
b == <<98>>

\* The tree.
Tree == INSTANCE PathTree
MCSet(root, path, value) == Tree!Set(root, path, value)
MCDelete(root, path) == Tree!Delete(root, path)
MCGet(root, path) == Tree!Get(root, path)
MCList(root, value) == Tree!List(root, value)
MCImage(root) == Tree!Image(root)
MCLoad(items) == Tree!Load(items)
MCEmptyTree == Tree!CreateRoot
MCNull == [Tree!CreateRoot EXCEPT !.kind = "null"]
Header == Tree!Header

MCPaths == {<<a>>, <<ab>>, <<A, b>>, <<b, <<>>>>}
MCFiles ==
    {<<>>, <<[Header EXCEPT !.kind = "other"]>>,
     <<Header, [Header EXCEPT !.kind = "other"]>>}

\* All trees that sets and unsets make of an empty one.
Edited(root) ==
    {MCSet(root, path, value).root : path \in MCPaths, value \in MCValues}
    \cup {MCDelete(root, path).root : path \in MCPaths}
RECURSIVE Closure(_)
Closure(trees) ==
    LET more == trees \cup UNION {Edited(root) : root \in trees}
    IN  IF more = trees THEN trees ELSE Closure(more)
MCTrees == Closure({MCEmptyTree})
=============================================================================
