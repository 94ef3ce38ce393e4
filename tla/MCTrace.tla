------------------------------ MODULE MCTrace ------------------------------
(***************************************************************************)
(* Trace mode on a small instance: two targets, the first of a port without *)
(* dependencies, the second of one with one, and programs that execute a   *)
(* script of the dependency through a link and overwrite descriptors, and a *)
(* second thread in the second process.                                    *)
(***************************************************************************)
EXTENDS Trace, TLC

CONSTANTS p1, p2, dep, other

lib == <<"lib">>
work == <<"work">>
theDep == <<"lib", "dep">>
theOther == <<"lib", "other">>
link == <<"work", "link">>

MCDirs == {lib, work}
MCFiles == {theDep, theOther}
MCLinks == link :> [absolute |-> FALSE, to |-> <<"..", "lib", ".", "dep">>]
MCFileMap == <<[path |-> <<"work">>, command |-> "allow"],
               [path |-> <<"lib">>, command |-> "ask"],
               [path |-> <<"work">>, command |-> "deny"]>>
MCOwner == theDep :> dep @@ theOther :> other
MCDeps == [s \in 1..Sessions |-> IF s = 1 THEN {} ELSE {dep}]
MCFences == [s \in 1..Sessions |-> IF s = 1 THEN BOOLEAN ELSE {TRUE}]

Script == [op |-> ExecveCall, paths |-> <<link>>]
Over == [op |-> Dup2Call, paths |-> <<>>]

MCThreads == {<<p1, 1>>, <<p2, 1>>, <<p2, 2>>}
MCCalls == {Script, Over}
=============================================================================
