---------------------------- MODULE ActivePorts ----------------------------
(***************************************************************************)
(* What the registry promises about active ports, whatever happens to the  *)
(* process that changes it: a port becomes active with all its files or    *)
(* not at all, and inactive likewise; other ports lose a file only to one  *)
(* that takes its place, and never a file outside the new port's image.    *)
(***************************************************************************)
EXTENDS FileMap

CONSTANT PortOf     \* entry -> name of its port

VARIABLE reg        \* the registry as committed

Init == reg = Fresh

\* Another port's row stays, or it was in the way of the new image: then it
\* becomes inactive or moves to a backup path.
KeepsOrYields(e, o, q) ==
    \/ reg'.row[o][q] = reg.row[o][q]
    \/ \E p \in Image[e] :
        /\ reg.row[o][q] = At(p)
        /\ reg'.row[o][q] = Off \/ \E s \in 1..MaxStamp : reg'.row[o][q] = Backup(p, s)

\* All files of e's image become active, at their own paths or where the port
\* wants them, and no file is claimed twice.
ActivatePort(e) ==
    /\ \A o \in Entries : PortOf[o] = PortOf[e] => reg.state[o] = "imaged"
    /\ reg'.state = [reg.state EXCEPT ![e] = "installed"]
    /\ \A q \in Paths : IF q \in Image[e] THEN \E p \in Paths : reg'.row[e][q] = At(p)
                                          ELSE reg'.row[e][q] = Off
    /\ \A o \in Entries \ {e}, q \in Paths : KeepsOrYields(e, o, q)
    /\ OneOwner(reg')

DeactivatePort(e) ==
    /\ reg.state[e] = "installed"
    /\ reg'.state = [reg.state EXCEPT ![e] = "imaged"]
    /\ \A o \in Entries, q \in Paths :
        reg'.row[o][q] = IF o = e THEN Off ELSE reg.row[o][q]

Next == \E e \in Entries : ActivatePort(e) \/ DeactivatePort(e)

Spec == Init /\ [][Next]_reg
=============================================================================
