--------------------------- MODULE MCRegistryApi ---------------------------
(***************************************************************************)
(* The registry on a small instance: two processes, two names of ports, a  *)
(* registry that does not exist yet, a current one and one that is a few   *)
(* versions old, each with one port.                                       *)
(***************************************************************************)
EXTENDS RegistryApi, TLC

CONSTANTS p1, p2, a, b, f, g, First, Second, OlderVersions

OnePort == 1 :> [name |-> a, state |-> "installed"]
OneFile == {[id |-> 1, key |-> f, value |-> "active"]}
MCInitial ==
    {NoFile} \cup {Older(v, OnePort, OneFile) : v \in OlderVersions \cup {Current}}
MCOpens == p1 :> 1 @@ p2 :> 1
MCCalls == p1 :> First @@ p2 :> Second
=============================================================================
