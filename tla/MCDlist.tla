------------------------------ MODULE MCDlist ------------------------------
(* Instances of Dlist for TLC. *)
EXTENDS Dlist

\* Every item provides one token of its own (as phases, variants and ports do); all hard
\* dependencies on others, and at most one soft dependency per item.
AtMostOne == {{}} \cup {{t} : t \in Tokens}
OnOthers(S) == {u \in [Items -> S] : \A x \in Items : x \notin u[x]}
OwnTokens ==
    {[provides |-> [x \in Items |-> {x}], requires |-> r, uses |-> u] :
        r \in OnOthers(SUBSET Tokens), u \in OnOthers(AtMostOne)}

\* Two tokens that several items may provide, as the Provides key allows; an item may
\* require or use what it provides itself.
SharedTokens ==
    {[provides |-> p, requires |-> r, uses |-> u] :
        p \in [Items -> {{1}, {2}, {1, 2}}],
        r \in [Items -> {{}, {1}}], u \in [Items -> {{}, {1}, {2}}]}

BothKinds == OwnTokens \cup SharedTokens
=============================================================================
