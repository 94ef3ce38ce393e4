--------------------------- MODULE MCFetchThread ---------------------------
(***************************************************************************)
(* Instances of FetchThread for TLC: three fetches, two of them of the     *)
(* same file, a check and two hosts, on two threads.                       *)
(***************************************************************************)
EXTENDS FetchThread

CONSTANTS f1, f2, f3, c1, h1, h2, d1, d2

MCFetches == {f1, f2, f3}
MCChecks == {c1}
MCSigned == {f2, c1}
MCFiles == {d1, d2}
MCFile == [x \in MCFetches |-> IF x = f3 THEN d2 ELSE d1]
MCHosts == {h1, h2}
\* One transfer is enough for what needs no signature.
MCAttempts == [x \in MCFetches \cup MCChecks |-> IF x \in MCSigned THEN 2 ELSE 1]
MCWorkloads == {{f1, f2}, {f1, f3, h1}, {f1, c1}, {c1, h1, h2}}
\* The main mirror is one of the port's sites.
MCMirrored == {[ping |-> {h1}, wait |-> h1], [ping |-> {h1, h2}, wait |-> h2]}
============================================================================
