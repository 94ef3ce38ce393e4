---------------------------- MODULE FetchThread ----------------------------
(***************************************************************************)
(* Background transfers: src/src/macports1.0/mport_fetch_thread.tcl, with  *)
(* the part of src/src/pextlib1.0/curl.c that sees a cancellation and the  *)
(* procedures of macports.tcl that ping hosts through it.                  *)
(*                                                                         *)
(* Three kinds of threads only talk through their event queues. The main   *)
(* thread runs one procedure at a time (queue, get_result, is_complete,    *)
(* show_progress, cancel, start_pings) and handles events only where that  *)
(* procedure waits. The management thread keeps the queues of requests and *)
(* the threads, and goes through its queues whenever it wakes up. A worker *)
(* runs one job at a time and handles events inside a transfer.            *)
(*                                                                         *)
(* The main thread's program is left open: any procedure on any request,   *)
(* in any order the callers can come up with.                              *)
(***************************************************************************)
EXTENDS Naturals, Sequences, FiniteSets, SequencesExt

CONSTANTS
    Fetches,      \* requests fetch_file and fetch_archive
    Checks,       \* requests archive_exists
    Signed,       \* the requests that need a signature besides the file
    Files,        \* the paths fetches save to
    File,         \* File[f]: the path fetch f saves to
    Hosts,        \* hosts that can be pinged
    Sites,        \* the [ping, wait] of the ports: hosts of their sites, main mirror
    MaxThreads,   \* max_threads, 8 at least in the code
    MaxFetches,   \* max_fetches
    Attempts,     \* Attempts[r], bound: transfers tried for request r
    Workloads,    \* bound: the sets of jobs that one behaviour may ask for
    None

Requests == Fetches \cup Checks
Jobs == Requests \cup Hosts
Workers == 1..MaxThreads

ASSUME JobAssumption ==
    /\ IsFiniteSet(Jobs)
    /\ Fetches \cap Checks = {} /\ Requests \cap Hosts = {}
    /\ Checks \subseteq Signed /\ Signed \subseteq Requests
    /\ File \in [Fetches -> Files]
    /\ \A s \in Sites : s.ping \subseteq Hosts /\ s.wait \in Hosts
\* A thread is left when fetches and one ping are in progress (init_globals).
ASSUME ThreadAssumption ==
    /\ MaxFetches \in Nat \ {0} /\ Attempts \in [Requests -> Nat \ {0}]
    /\ MaxThreads \in Nat /\ MaxThreads >= 2 * MaxFetches
ASSUME NoneAssumption == None \notin Jobs \cup Workers /\ None \notin {"success", "failure"}

VARIABLES
    \* main thread
    client,      \* the procedure that runs, its request and what it has still to do
    issued,      \* requests made so far (next_id)
    active,      \* active_requests
    files,       \* active_files
    answer,      \* the result variables
    tid,         \* the _tid variables
    pinging,     \* pending_pings
    pinged,      \* hosts with a fresh entry in ping_cache
    toClient,    \* its events
    \* management thread
    mgr,         \* where the main loop is
    queue,       \* the three request queues
    available,   \* available_threads, the last is taken first
    threads,     \* thread_count
    fetching,    \* fetch_count
    toMgr,       \* its events
    \* worker threads
    inbox,       \* their events
    job,         \* what they run
    cancelled    \* ::pextlib::curl::cancelled

clientVars == <<client, issued, active, files, answer, tid, pinging, pinged>>
mgrVars == <<mgr, queue, available, threads, fetching>>
workerVars == <<job, cancelled>>
events == <<toClient, toMgr, inbox>>
vars == <<clientVars, mgrVars, workerVars, events>>

Kinds == {"fetch", "exists", "ping"}
\* queue_for_op
Kind(j) == IF j \in Fetches THEN "fetch" ELSE IF j \in Checks THEN "exists" ELSE "ping"

Idle == [op |-> "idle", id |-> None, todo |-> {}]
Op(o, r) == [op |-> o, id |-> r, todo |-> {}]
NoJob == [st |-> "idle", id |-> None, tries |-> 0, got |-> FALSE]

Init ==
    /\ client = Idle /\ issued = {} /\ active = {} /\ files = {}
    /\ answer = [r \in Requests |-> None] /\ tid = [r \in Requests |-> None]
    /\ pinging = {} /\ pinged = {}
    /\ mgr = "wait" /\ queue = [k \in Kinds |-> <<>>] /\ available = <<>>
    /\ threads = 0 /\ fetching = 0
    /\ job = [w \in Workers |-> NoJob] /\ cancelled = [w \in Workers |-> FALSE]
    /\ toClient = <<>> /\ toMgr = <<>> /\ inbox = [w \in Workers |-> <<>>]

-----------------------------------------------------------------------------
(* The main thread *)

\* The bound on what is asked for.
InWorkload(S) == \E W \in Workloads : issued \cup pinging \cup pinged \cup S \subseteq W

\* mport_fetch_thread::queue, called for a file nobody fetches (portfetch_run.tcl 420-423,
\* portarchivefetch_run.tcl 218-222).
Queue(r) ==
    /\ client = Idle /\ r \notin issued /\ InWorkload({r})
    /\ r \in Fetches => File[r] \notin files
    /\ issued' = issued \cup {r} /\ active' = active \cup {r}
    /\ files' = IF r \in Fetches THEN files \cup {File[r]} ELSE files
    /\ toMgr' = Append(toMgr, [type |-> "queue", id |-> r])
    /\ UNCHANGED <<client, answer, tid, pinging, pinged,
                   mgrVars, workerVars, toClient, inbox>>

\* start_pings of a port: async_ping_start for its sites, wait_for_pingtime for its mirror.
StartPings(s) ==
    /\ client = Idle /\ InWorkload(s.ping)
    /\ client' = [op |-> "pings", id |-> s.wait, todo |-> s.ping \ (pinging \cup pinged)]
    /\ UNCHANGED <<issued, active, files, answer, tid, pinging, pinged,
                   mgrVars, workerVars, events>>

\* queue_procresult for one of the hosts.
QueuePing(h) ==
    /\ client.op = "pings" /\ h \in client.todo
    /\ client' = [client EXCEPT !.todo = @ \ {h}]
    /\ pinging' = pinging \cup {h}
    /\ toMgr' = Append(toMgr, [type |-> "queue", id |-> h])
    /\ UNCHANGED <<issued, active, files, answer, tid, pinged,
                   mgrVars, workerVars, toClient, inbox>>

WaitForPing ==
    /\ client.op = "pings" /\ client.todo = {}
    /\ client' = IF client.id \in pinged THEN Idle ELSE Op("pingtime", client.id)
    /\ UNCHANGED <<issued, active, files, answer, tid, pinging, pinged,
                   mgrVars, workerVars, events>>

\* What get_result and cancel begin with: the request is nobody's any more.
Drop(r) ==
    /\ active' = active \ {r}
    /\ files' = IF r \in Fetches THEN files \ {File[r]} ELSE files

\* Mutant: the _tid variable is not unset.
UnsetMutTid(r) ==
    /\ answer' = [answer EXCEPT ![r] = None]
    /\ UNCHANGED tid

\* Nor are there variables left for it.
Unset(r) ==
    /\ answer' = [answer EXCEPT ![r] = None]
    /\ tid' = [tid EXCEPT ![r] = None]

GetResult(r) ==
    /\ client = Idle /\ r \in active
    /\ Drop(r)
    /\ client' = Op("result", r)
    /\ UNCHANGED <<issued, answer, tid, pinging, pinged,
                   mgrVars, workerVars, events>>

\* What it sends to the worker changes what is displayed, and is left out.
ShowProgress(r) ==
    /\ client = Idle /\ r \in active /\ tid[r] = None
    /\ client' = Op("show", r)
    /\ UNCHANGED <<issued, active, files, answer, tid, pinging, pinged,
                   mgrVars, workerVars, events>>

CancelComplete(r) ==
    /\ client = Idle /\ r \in active /\ answer[r] # None
    /\ Drop(r) /\ Unset(r)
    /\ UNCHANGED <<client, issued, pinging, pinged, mgrVars, workerVars, events>>

CancelPending(r) ==
    /\ client = Idle /\ r \in active /\ answer[r] = None
    /\ Drop(r)
    /\ client' = Op("unqueue", r)
    /\ toMgr' = Append(toMgr, [type |-> "unqueue", id |-> r])
    /\ UNCHANGED <<issued, answer, tid, pinging, pinged,
                   mgrVars, workerVars, toClient, inbox>>

\* cancel once the request is known to be with a worker.
SendCancel ==
    /\ client.op = "tid" /\ tid[client.id] # None
    /\ client' = Op("cancel", client.id)
    /\ inbox' = [inbox EXCEPT ![tid[client.id]] = Append(@, [type |-> "cancel", id |-> client.id])]
    /\ UNCHANGED <<issued, active, files, answer, tid, pinging, pinged,
                   mgrVars, workerVars, toClient, toMgr>>

\* Mutant: cancel does not wait for the result.
FinishMutNoWait ==
    /\ client.op = "answer" \/ (client.op = "result" /\ answer[client.id] # None)
    /\ Unset(client.id)
    /\ client' = Idle
    /\ UNCHANGED <<issued, active, files, pinging, pinged, mgrVars, workerVars, events>>

\* get_result and cancel end when the result is there.
Finish ==
    /\ client.op \in {"result", "answer"} /\ answer[client.id] # None
    /\ Unset(client.id)
    /\ client' = Idle
    /\ UNCHANGED <<issued, active, files, pinging, pinged,
                   mgrVars, workerVars, events>>

\* What the procedure that runs waits for is not there yet. is_complete handles events
\* for a while as well, for a request that is not complete.
Waiting ==
    \/ client.op \in {"result", "answer"} /\ answer[client.id] = None
    \/ client.op \in {"show", "tid"} /\ tid[client.id] = None
    \/ client.op = "pingtime"
    \/ client = Idle /\ \E r \in active : answer[r] = None

\* vwait and update: one event of the main thread. show_progress and wait_for_pingtime
\* return as soon as what they wait for is there.
ClientEvent ==
    LET m == Head(toClient) IN
    /\ Waiting /\ toClient # <<>>
    /\ toClient' = Tail(toClient)
    /\ \/ /\ m.type = "tid"
          /\ tid' = [tid EXCEPT ![m.id] = m.from]
          /\ client' = IF client = Op("show", m.id) THEN Idle ELSE client
          /\ UNCHANGED <<answer, pinging, pinged>>
       \/ /\ m.type = "answer"
          /\ answer' = [answer EXCEPT ![m.id] = m.value]
          /\ UNCHANGED <<client, tid, pinging, pinged>>
       \/ /\ m.type = "pingtime"  \* set_pingtime
          /\ pinging' = pinging \ {m.id} /\ pinged' = pinged \cup {m.id}
          /\ client' = IF client = Op("pingtime", m.id) THEN Idle ELSE client
          /\ UNCHANGED <<answer, tid>>
    /\ UNCHANGED <<issued, active, files, mgrVars, workerVars, toMgr, inbox>>

-----------------------------------------------------------------------------
(* The management thread *)

\* get_available_thread
HasThread == available # <<>> \/ threads < MaxThreads
Thread == IF available # <<>> THEN Last(available) ELSE threads + 1
TakeThread == IF available # <<>>
              THEN available' = Front(available) /\ UNCHANGED threads
              ELSE threads' = threads + 1 /\ UNCHANGED available

\* Mutant: the head is looked at and stays in the queue.
DispatchMutPeek(k) ==
    /\ queue[k] # <<>> /\ HasThread
    /\ TakeThread
    /\ inbox' = [inbox EXCEPT ![Thread] = Append(@, [type |-> "job", id |-> Head(queue[k])])]
    /\ UNCHANGED <<queue, clientVars, workerVars, toClient, toMgr>>

\* The head of a queue goes to a thread.
Dispatch(k) ==
    /\ queue[k] # <<>> /\ HasThread
    /\ TakeThread
    /\ queue' = [queue EXCEPT ![k] = Tail(@)]
    /\ inbox' = [inbox EXCEPT ![Thread] = Append(@, [type |-> "job", id |-> Head(queue[k])])]
    /\ UNCHANGED <<clientVars, workerVars, toClient, toMgr>>

\* What the loops of main ask, in the order of their priority. A loop that finds all threads
\* busy ends the pass.
MayFetch == queue["fetch"] # <<>> /\ fetching < MaxFetches
MayCheck == ~MayFetch /\ queue["exists"] # <<>>
MayPing == /\ ~MayFetch /\ ~MayCheck /\ queue["ping"] # <<>>
           /\ (MaxThreads - threads) + Len(available) >= 2

DispatchFetch ==
    /\ mgr = "pass" /\ MayFetch
    /\ Dispatch("fetch")
    /\ fetching' = fetching + 1
    /\ UNCHANGED mgr

DispatchCheck ==
    /\ mgr = "pass" /\ MayCheck
    /\ Dispatch("exists")
    /\ UNCHANGED <<mgr, fetching>>

DispatchPing ==
    /\ mgr = "pass" /\ MayPing
    /\ Dispatch("ping")
    /\ UNCHANGED <<mgr, fetching>>

Sleep ==
    /\ mgr = "pass"
    /\ ~HasThread \/ ~(MayFetch \/ MayCheck \/ MayPing)
    /\ mgr' = "wait"
    /\ UNCHANGED <<clientVars, queue, available, threads, fetching, workerVars, events>>

\* vwait main_wakeup: one event of the management thread.
MgrEvent ==
    LET m == Head(toMgr) IN
    /\ mgr = "wait" /\ toMgr # <<>>
    /\ toMgr' = Tail(toMgr)
    /\ \/ /\ m.type = "queue"
          /\ queue' = [queue EXCEPT ![Kind(m.id)] = Append(@, m.id)]
          /\ mgr' = "pass"
          /\ UNCHANGED <<client, available, fetching>>
       \/ /\ m.type = "unqueue"
          /\ LET q == queue[Kind(m.id)] IN
             \/ \E i \in DOMAIN q :
                   /\ q[i] = m.id
                   /\ queue' = [queue EXCEPT ![Kind(m.id)] = RemoveAt(q, i)]
                   /\ client' = Idle
             \/ ~Contains(q, m.id) /\ client' = Op("tid", m.id) /\ UNCHANGED queue
          /\ UNCHANGED <<mgr, available, fetching>>
       \/ /\ m.type = "done"  \* thread_done
          /\ available' = Append(available, m.id)
          /\ fetching' = IF m.fetch THEN fetching - 1 ELSE fetching
          /\ UNCHANGED <<mgr, client, queue>>
       \/ /\ m.type = "wake"
          /\ mgr' = "pass"
          /\ UNCHANGED <<client, queue, available, fetching>>
    /\ UNCHANGED <<issued, active, files, answer, tid, pinging, pinged,
                   threads, workerVars, toClient, inbox>>

-----------------------------------------------------------------------------
(* The workers *)

\* A cancellation, wherever the worker handles events: idle or inside a transfer.
WorkerCancelled(w) ==
    /\ job[w].st \in {"idle", "curl"}
    /\ inbox[w] # <<>> /\ Head(inbox[w]).type = "cancel"
    /\ inbox' = [inbox EXCEPT ![w] = Tail(@)]
    /\ cancelled' = [cancelled EXCEPT ![w] = TRUE]
    /\ client' = Op("answer", client.id)
    /\ UNCHANGED <<issued, active, files, answer, tid, pinging, pinged,
                   mgrVars, job, toClient, toMgr>>

\* do_curl up to the first transfer, or do_ping.
StartJob(w) ==
    LET r == Head(inbox[w]).id IN
    /\ job[w].st = "idle"
    /\ inbox[w] # <<>> /\ Head(inbox[w]).type = "job"
    /\ inbox' = [inbox EXCEPT ![w] = Tail(@)]
    /\ IF r \in Requests
       THEN /\ job' = [job EXCEPT ![w] = [st |-> "curl", id |-> r, tries |-> 1, got |-> FALSE]]
            /\ cancelled' = [cancelled EXCEPT ![w] = FALSE]
            /\ toClient' = Append(toClient, [type |-> "tid", id |-> r, from |-> w])
       ELSE /\ job' = [job EXCEPT ![w] = [st |-> "ping", id |-> r, tries |-> 1, got |-> FALSE]]
            /\ UNCHANGED <<cancelled, toClient>>
    /\ UNCHANGED <<clientVars, mgrVars, toMgr>>

\* The next transfer of a request. Linking the variable in curl.c clears it.
NextTransfer(w, got) ==
    /\ job[w].tries < Attempts[job[w].id]
    /\ job' = [job EXCEPT ![w].tries = @ + 1, ![w].got = got]
    /\ cancelled' = [cancelled EXCEPT ![w] = FALSE]
    /\ UNCHANGED <<toClient, toMgr>>

\* The finally clause of do_curl.
Deliver(w, value) ==
    /\ toClient' = Append(toClient, [type |-> "answer", id |-> job[w].id, value |-> value])
    /\ toMgr' = Append(toMgr, [type |-> "done", id |-> w, fetch |-> job[w].id \in Fetches])
    /\ job' = [job EXCEPT ![w].st = "return"]
    /\ UNCHANGED cancelled

\* A transfer ends well. A signature may have to follow, and a cancellation that came
\* in during the transfer is forgotten then.
TransferOk(w) ==
    /\ job[w].st = "curl"
    /\ IF job[w].id \in Signed /\ ~job[w].got
       THEN NextTransfer(w, TRUE)
       ELSE Deliver(w, "success")
    /\ UNCHANGED <<clientVars, mgrVars, inbox>>

\* It fails: another site is tried, if there is one and nothing was cancelled. A file
\* fetched before is kept, the answer to a check is not.
TransferFails(w) ==
    /\ job[w].st = "curl"
    /\ \/ ~cancelled[w] /\ NextTransfer(w, job[w].got /\ job[w].id \in Fetches)
       \/ Deliver(w, "failure")
    /\ UNCHANGED <<clientVars, mgrVars, inbox>>

\* do_ping: the result goes to set_pingtime, a failed ping counts as a slow one.
PingDone(w) ==
    /\ job[w].st = "ping"
    /\ toClient' = Append(toClient, [type |-> "pingtime", id |-> job[w].id])
    /\ toMgr' = Append(toMgr, [type |-> "done", id |-> w, fetch |-> FALSE])
    /\ job' = [job EXCEPT ![w].st = "return"]
    /\ UNCHANGED <<clientVars, mgrVars, cancelled, inbox>>

\* Mutant: nobody waits for the script.
ReturnMutNoWake(w) ==
    /\ job[w].st = "return"
    /\ job' = [job EXCEPT ![w] = NoJob]
    /\ UNCHANGED <<clientVars, mgrVars, cancelled, events>>

\* The script sent with thread::send -async ends: main_wakeup is set.
Return(w) ==
    /\ job[w].st = "return"
    /\ toMgr' = Append(toMgr, [type |-> "wake"])
    /\ job' = [job EXCEPT ![w] = NoJob]
    /\ UNCHANGED <<clientVars, mgrVars, cancelled, toClient, inbox>>

-----------------------------------------------------------------------------
Call == \/ \E r \in Requests : Queue(r) \/ GetResult(r) \/ ShowProgress(r)
                               \/ CancelComplete(r) \/ CancelPending(r)
        \/ \E s \in Sites : StartPings(s)
Client == (\E h \in Hosts : QueuePing(h)) \/ WaitForPing \/ SendCancel \/ Finish \/ ClientEvent
Manager == DispatchFetch \/ DispatchCheck \/ DispatchPing \/ Sleep \/ MgrEvent
Worker(w) == WorkerCancelled(w) \/ StartJob(w) \/ TransferOk(w) \/ TransferFails(w)
             \/ PingDone(w) \/ Return(w)

Next == Call \/ Client \/ Manager \/ \E w \in Workers : Worker(w)

\* The threads run: a transfer ends because curl gives up on slow ones (curl.c 688-702).
\* Nobody has to call anything.
Fairness == WF_vars(Client) /\ WF_vars(Manager) /\ \A w \in Workers : WF_vars(Worker(w))
Spec == Init /\ [][Next]_vars /\ Fairness

-----------------------------------------------------------------------------
(* Properties *)

\* A job that was sent to worker w and has not begun.
Assigned(w, j) == \E i \in DOMAIN inbox[w] : inbox[w][i] = [type |-> "job", id |-> j]
\* Worker w has job j to do.
Has(w, j) == Assigned(w, j) \/ (job[w].id = j /\ job[w].st \in {"curl", "ping"})

\* A request is under way from the call to the moment its result is sent.
Queued(r) == \/ \E i \in DOMAIN toMgr : toMgr[i] = [type |-> "queue", id |-> r]
             \/ Contains(queue[Kind(r)], r)
Working(r) == \E w \in Workers : Has(w, r)

\* The service the callers rely on. A request is gone when it was made and no variable and
\* no call of the main thread knows it any more.
Sent(r) == \E i \in DOMAIN toClient : toClient[i].type = "answer" /\ toClient[i].id = r
Phase(r) == CASE r \notin issued -> "new"
              [] r \in issued \ active /\ client.id # r -> "gone"
              [] Sent(r) \/ answer[r] # None -> "answered"
              [] Queued(r) -> "waiting"
              [] Working(r) -> "running"
              [] OTHER -> "lost"

\* Nothing remains of a request that is gone: no place in a queue, no thread at work on it,
\* no result on its way, no variables. Whatever remained would stay for ever, or reach a
\* file that the next request for the same path saves.
NothingLeft ==
    \A r \in issued : Phase(r) = "gone" =>
        ~Queued(r) /\ ~Working(r) /\ ~Sent(r) /\ answer[r] = None /\ tid[r] = None

\* A file is never saved by two requests: active_files forgets a path when the result is
\* asked for or the request is cancelled, before the worker is done with it.
OneWriter ==
    \A r, s \in Fetches :
        r # s /\ (Queued(r) \/ Working(r)) /\ (Queued(s) \/ Working(s)) => File[r] # File[s]

\* Every request is answered or withdrawn, even if its caller never asks.
RequestsServed == <>[](\A r \in Requests : ~Queued(r) /\ ~Working(r))

Service == INSTANCE FetchService WITH phase <- [r \in Requests |-> Phase(r)]
\* Every step of the threads is a step of the service, or none.
ServiceSpec == Service!Spec
============================================================================
