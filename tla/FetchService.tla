--------------------------- MODULE FetchService ---------------------------
(***************************************************************************)
(* What the background fetch service of MacPorts promises the code that    *)
(* uses it (curlwrap_async and its companions, macports.tcl 2435-2463): a  *)
(* request is worked on at most once and answered at most once, no more    *)
(* requests are worked on than there are threads and no more files are     *)
(* transferred than fetch_threads allows, and what nobody waits for any    *)
(* more is over: a request that is being worked on cannot be abandoned, so *)
(* when cancel returns no thread writes the file any longer.               *)
(***************************************************************************)
EXTENDS Naturals, FiniteSets

CONSTANTS Fetches,     \* requests that transfer a file
          Checks,      \* requests that ask whether an archive exists
          MaxThreads,  \* threads of the service
          MaxFetches   \* files transferred at the same time

VARIABLE phase  \* phase[r]: how far request r has come

Requests == Fetches \cup Checks
Running == {r \in Requests : phase[r] = "running"}

Move(r, from, to) == phase[r] = from /\ phase' = [phase EXCEPT ![r] = to]

Ask(r) == Move(r, "new", "waiting")
Start(r) == /\ Move(r, "waiting", "running")
            /\ Cardinality(Running) < MaxThreads
            /\ r \in Fetches => Cardinality(Running \cap Fetches) < MaxFetches
Answer(r) == Move(r, "running", "answered")
\* The result is fetched or the request is cancelled.
Forget(r) == Move(r, "waiting", "gone") \/ Move(r, "answered", "gone")

Init == phase = [r \in Requests |-> "new"]
Next == \E r \in Requests : Ask(r) \/ Start(r) \/ Answer(r) \/ Forget(r)
Spec == Init /\ [][Next]_phase
============================================================================
