---------------------------- MODULE MCPortImage ----------------------------
(* Instances of PortImage for TLC: two versions of a port and a port in      *)
(* conflict with it.                                                         *)
EXTENDS PortImage, TLC

CONSTANTS a1, a2, b, p, q, r

\* b's one file conflicts with a file of a1; a2 has the other.
SmallImage == (a1 :> {p, q}) @@ (a2 :> {p}) @@ (b :> {q})
SmallPorts == (a1 :> "a") @@ (a2 :> "a") @@ (b :> "b")

\* b is obsolete: replaced by port a.
BReplaced == {<<b, "a">>}

\* b's file q, in conflict with one of a1, is a startup item that goes to r,
\* where a2 has a file.
ItemImage == (a1 :> {p, q}) @@ (a2 :> {r}) @@ (b :> {q})
ItemRenames == [e \in Entries |-> IF e = b THEN [NoRename EXCEPT ![q] = r] ELSE NoRename]

NoRenames == [e \in Entries |-> NoRename]
=============================================================================
