---------------------------- MODULE MCSystemCmd ----------------------------
(***************************************************************************)
(* Two calls.  The shell and sandbox-exec are protected, and a script      *)
(* names the shell.  The shell is a universal file with one slice with     *)
(* pointer authentication.                                                 *)
(***************************************************************************)
EXTENDS SystemCmd

MCProcs == 1 .. 2
MCPrograms == {"sh", "sandbox-exec", "script"}
MCShebang ==
    [g \in MCPrograms |-> IF g = "script" THEN <<"sh", "-e">> ELSE << >>]
MCRestricted == {"sh", "sandbox-exec"}
MCSetId == {}
Slice(e, h) == [entry |-> e, header |-> h]
MCBinary ==
    [g \in MCRestricted |->
        IF g = "sandbox-exec" THEN <<Slice("thin", "ptrauth")>>
        ELSE <<Slice("ptrauth", "ptrauth"), Slice("plain", "plain")>>]
Telling == [callback |-> TRUE, dup |-> TRUE, notty |-> TRUE,
            sandbox |-> FALSE]
Boxed == [callback |-> FALSE, dup |-> FALSE, notty |-> FALSE,
          sandbox |-> TRUE]
MCOptions == {Telling, Boxed}
=============================================================================
