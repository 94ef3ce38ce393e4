------------------------------- MODULE Trace -------------------------------
(***************************************************************************)
(* Trace mode as a whole: the trace server (src/src/pextlib1.0/tracelib.c),*)
(* an event loop in a thread of its own; the thread that runs a target and *)
(* starts and stops the server around it (src/src/port1.0/porttrace.tcl,   *)
(* and target_run of portutil.tcl); and the traced processes (TraceClient).*)
(*                                                                         *)
(* A session is one target. Its build is a process, which may leave others *)
(* behind; when it has ended the main thread stops the event loop, reads   *)
(* the violations and cleans up. The processes still connected are killed. *)
(***************************************************************************)
EXTENDS TraceClient

CONSTANTS
    Sessions,     \* bound: targets that are traced one after the other
    Ports,        \* ports that own files
    Owner,        \* Owner[path]: the port that owns a file, or None
    Deps,         \* Deps[s]: the ports the port of session s depends on
    Fences        \* Fences[s]: whether the target of session s has a fence

ASSUME BoundAssumption ==
    /\ Sessions \in Nat
    /\ Deps \in [1..Sessions -> SUBSET Ports]
    /\ Fences \in [1..Sessions -> SUBSET BOOLEAN]
ASSUME OwnerAssumption ==
    None \notin Ports /\ \A p \in DOMAIN Owner : Owner[p] \in Ports \cup {None}

VARIABLES
    \* main thread
    main,        \* where the target is
    session,     \* the session in progress, or the last one
    builder,     \* the process that the target waits for
    \* shared by the threads: tracelib's globals
    fence,       \* enable_fence
    depends,     \* depends
    kq,          \* whether the event loop's queue and self pipe are open
    poked,       \* whether the self pipe has been written to
    \* trace thread
    runner,      \* where the thread is
    batch,       \* events of the last kevent still to be handled: connections
    incoming,    \* whether the listening socket had an event
    stopping,    \* break_eventloop
    opensocks,   \* opensockcount
    peers,       \* peer_list: the process behind a connection
    cache,       \* path_cache
    found        \* the violations of the session

mainVars == <<main, session, builder>>
sharedVars == <<fence, depends, kq, poked>>
loopVars == <<runner, batch, incoming, stopping>>
peerVars == <<opensocks, peers>>
serverVars == <<loopVars, peerVars, cache, found>>
vars == <<clientVars, conns, listening, mainVars, sharedVars, serverVars>>

NoOne == [c \in Conns |-> None]

Init ==
    /\ ClientInit
    /\ conns = [c \in Conns |-> NoConn] /\ listening = 0
    /\ main = "idle" /\ session = 0 /\ builder = None
    /\ fence = FALSE /\ depends = {} /\ kq = FALSE /\ poked = FALSE
    /\ runner = "none" /\ batch = {}
    /\ incoming = FALSE /\ stopping = FALSE
    /\ opensocks = 0 /\ peers = NoOne
    /\ cache = << >> /\ found = {}

-----------------------------------------------------------------------------
(***************************************************************************)
(* The trace thread.                                                       *)
(***************************************************************************)
Accepted == {c \in Conns : conns[c].stage = "accepted"}

\* tracelib run up to the event loop. A socket that has been closed before is
\* noticed here, and there is no loop.
Run ==
    /\ runner = "posted"
    /\ cache' = << >>
    /\ kq' = (listening # 0) /\ poked' = FALSE
    /\ runner' = IF listening = 0 THEN "stopped" ELSE "polling"
    /\ stopping' = FALSE /\ opensocks' = 0
    /\ UNCHANGED <<clientVars, conns, listening, mainVars, fence, depends, batch,
                   incoming, peers, found>>

\* kevent: what is ready, with its end of file flag as it is now.
Ready == {c \in Accepted : conns[c].req # <<>> \/ Eof(conns[c])}
Backlog == {c \in Conns : conns[c].stage = "backlog"}

Poll ==
    /\ runner = "polling" /\ ~stopping
    /\ Ready # {} \/ Backlog # {} \/ poked
    /\ batch' = {[conn |-> c, eof |-> Eof(conns[c])] : c \in Ready}
    /\ incoming' = (Backlog # {}) /\ stopping' = poked
    /\ runner' = "serving"
    /\ UNCHANGED <<clientVars, conns, listening, mainVars, sharedVars,
                   peerVars, cache, found>>

\* The events are handled one by one, and one that blocks keeps the others
\* waiting. Their order is the queue's; here that of the connections.
First(e) == e \in batch /\ \A other \in batch : e.conn <= other.conn

ShutDown(c) == Settle([conns[c] EXCEPT !.stage = "closed", !.req = <<>>])

\* The connection is closed and its peer forgotten.
Drop(c) ==
    /\ conns' = [conns EXCEPT ![c] = ShutDown(c)]
    /\ opensocks' = opensocks - 1
    /\ peers' = [peers EXCEPT ![c] = None]

\* process_line waits for a whole message; what it makes of anything else, and
\* of a message that ends early, is to close the connection.
Whole(req) ==
    /\ Len(req) >= 2
    /\ req[1][1] = "len" /\ req[2] = <<"body", req[1][2]>>
Broken(conn) ==
    /\ ~Whole(conn.req)
    /\ Len(conn.req) > 2 \/ Eof(conn)

Hangup ==
    /\ runner = "serving"
    /\ \E e \in batch :
          /\ First(e)
          /\ e.eof \/ Broken(conns[e.conn])
          /\ Drop(e.conn)
          /\ batch' = batch \ {e}
    /\ UNCHANGED <<clientVars, listening, mainVars, sharedVars, runner,
                   incoming, stopping, cache, found>>

\* dep_check: the cache, then the registry. The answer is kept.
Lookup(path) ==
    IF path \in DOMAIN cache THEN cache[path]
    ELSE LET owner == IF path \in DOMAIN Owner THEN Owner[path] ELSE None
         IN  IF owner = None THEN "?" ELSE IF owner \in depends THEN "+" ELSE "!"

RememberMutAllow(path, val) ==
    [p \in DOMAIN cache \cup {path} |-> IF p = path THEN "+" ELSE cache[p]]

Remember(path, val) ==
    [p \in DOMAIN cache \cup {path} |-> IF p = path THEN val ELSE cache[p]]

Reply(c, msg, val) ==
    conns' = [conns EXCEPT ![c].req = SubSeq(@, 3, Len(@)),
                           ![c].rep = Append(@, [msg |-> msg, val |-> val])]

Handle(c, msg) ==
    \/ /\ msg.op = "filemap"
       /\ Reply(c, msg, IF fence THEN "fence" ELSE "all")
       /\ UNCHANGED <<cache, found>>
    \/ /\ msg.op = "dep_check"
       /\ Reply(c, msg, Lookup(msg.path))
       /\ cache' = Remember(msg.path, Lookup(msg.path))
       /\ UNCHANGED found
    \/ /\ msg.op \in {"sandbox_violation", "sandbox_unknown"}
       /\ conns' = [conns EXCEPT ![c].req = SubSeq(@, 3, Len(@))]
       /\ found' = found \cup {<<msg.op, msg.path>>}
       /\ UNCHANGED cache

ProcessLine ==
    /\ runner = "serving"
    /\ \E e \in batch :
          /\ First(e) /\ ~e.eof
          /\ Whole(conns[e.conn].req)
          /\ Handle(e.conn, conns[e.conn].req[1][2])
          /\ batch' = batch \ {e}
    /\ UNCHANGED <<clientVars, listening, mainVars, sharedVars, runner,
                   incoming, stopping, peerVars>>

\* After the events: all waiting connections are accepted, and those whose
\* process is gone are closed at once, without ever being counted.
Accept ==
    LET new == IF incoming THEN {c \in Backlog : Alive(conns[c].peer)} ELSE {}
        dead == IF incoming THEN Backlog \ new ELSE {}
    IN  /\ runner = "serving" /\ batch = {}
        /\ conns' = [c \in Conns |->
                IF c \in new THEN [conns[c] EXCEPT !.stage = "accepted"]
                ELSE IF c \in dead THEN ShutDown(c) ELSE conns[c]]
        /\ opensocks' = opensocks + Cardinality(new)
        /\ peers' = [c \in Conns |-> IF c \in new THEN conns[c].peer ELSE peers[c]]
        /\ incoming' = FALSE
        /\ runner' = "polling"
        /\ UNCHANGED <<clientVars, listening, mainVars, sharedVars, batch,
                       stopping, cache, found>>

\* The end of the loop, under the lock: the processes that are still connected
\* are killed, their connections closed, the pipe and the queue as well.
Finish ==
    LET left == IF opensocks > 0 THEN {c \in Conns : peers[c] # None} ELSE {}
        victims == {p \in Procs : \E c \in left : peers[c] = p}
    IN  /\ runner = "polling" /\ stopping
        /\ procs' = [p \in Procs |-> IF p \in victims THEN Dead ELSE procs[p]]
        /\ thr' = Gone(victims, thr)
        /\ conns' = Killed(victims, [c \in Conns |-> IF c \in left THEN ShutDown(c) ELSE conns[c]])
        /\ peers' = [c \in Conns |-> IF c \in left THEN None ELSE peers[c]]
        /\ kq' = FALSE /\ poked' = FALSE
        /\ runner' = "stopped"
        /\ UNCHANGED <<calls, listening, mainVars, fence, depends, batch,
                       incoming, stopping, opensocks, cache, found>>

\* The broadcast, and what tracelib run frees last.
Broadcast ==
    /\ runner = "stopped"
    /\ runner' = "over" /\ cache' = << >>
    /\ main' = IF main = "waiting" THEN "checking" ELSE main
    /\ UNCHANGED <<clientVars, conns, listening, session, builder, sharedVars, batch,
                   incoming, stopping, peerVars, found>>

Server == Run \/ Poll \/ Hangup \/ ProcessLine \/ Accept \/ Finish \/ Broadcast

-----------------------------------------------------------------------------
(***************************************************************************)
(* The main thread.                                                        *)
(***************************************************************************)
OpenSocket == listening' = session + 1
EnableFence == fence' \in Fences[session]
SetDeps == depends' = Deps[session]

\* trace_start: a socket with a name of its own, and a thread that will run.
TraceStart ==
    /\ main = "idle" /\ session < Sessions
    /\ session' = session + 1 /\ OpenSocket
    /\ runner' = "posted" /\ found' = {}
    /\ main' = "started"
    /\ UNCHANGED <<clientVars, conns, builder, sharedVars, batch, incoming,
                   stopping, peerVars, cache>>

\* The sandbox, the fence (some targets have none) and the dependencies are
\* set, and the target runs its command; a target may also fail before that.
Launch ==
    /\ main = "started"
    /\ EnableFence /\ SetDeps
    /\ \/ \E p \in Procs :
             /\ procs[p].state = "unborn"
             /\ procs' = [procs EXCEPT ![p] =
                    [Unborn EXCEPT !.state = "alive", !.fifo = session]]
             /\ thr' = [thr EXCEPT ![<<p, 1>>] = NewThread]
             /\ builder' = p
       \/ /\ builder' = None
          /\ UNCHANGED <<procs, thr>>
    /\ main' = "build"
    /\ UNCHANGED <<calls, conns, listening, session, kq, poked, serverVars>>

Built ==
    /\ main = "build"
    /\ builder # None => ~Alive(builder)
    /\ main' = "closing"
    /\ UNCHANGED <<clientVars, conns, listening, session, builder, sharedVars, serverVars>>

\* Closing the listening socket resets the connections nobody has accepted.
Unlisten ==
    /\ listening' = 0
    /\ conns' = [c \in Conns |-> IF c \in Backlog THEN ShutDown(c) ELSE conns[c]]

CloseSocketMutNoPoke ==
    /\ main \in {"closing", "stopping"}
    /\ IF kq
       THEN /\ main' = "waiting"
            /\ UNCHANGED <<conns, listening, poked>>
       ELSE /\ Unlisten
            /\ main' = IF main = "closing" THEN "checking" ELSE "cleaning"
            /\ UNCHANGED poked
    /\ UNCHANGED <<clientVars, session, builder, fence, depends, kq, serverVars>>

\* tracelib closesocket: wake the loop up and wait, or close the socket.
CloseSocket ==
    /\ main \in {"closing", "stopping"}
    /\ IF kq
       THEN /\ poked' = TRUE /\ main' = "waiting"
            /\ UNCHANGED <<conns, listening>>
       ELSE /\ Unlisten
            /\ main' = IF main = "closing" THEN "checking" ELSE "cleaning"
            /\ UNCHANGED poked
    /\ UNCHANGED <<clientVars, session, builder, fence, depends, kq, serverVars>>

\* trace_check_violations asks the trace thread, which is free after its run.
CheckViolations ==
    /\ main = "checking" /\ runner = "over"
    /\ main' = "stopping"
    /\ UNCHANGED <<clientVars, conns, listening, session, builder, sharedVars, serverVars>>

\* tracelib clean, the file and the thread are deleted.
Clean ==
    /\ main = "cleaning"
    /\ Unlisten
    /\ fence' = FALSE /\ depends' = {}
    /\ runner' = "none" /\ main' = "idle" /\ builder' = None
    /\ UNCHANGED <<clientVars, session, kq, poked, batch, incoming, stopping,
                   peerVars, cache, found>>

Main == TraceStart \/ Launch \/ Built \/ CloseSocket \/ CheckViolations \/ Clean

-----------------------------------------------------------------------------
OfClients ==
    /\ \/ \E t \in Threads : Client(t)
       \/ \E p \in Procs : StartThread(p)
    /\ UNCHANGED <<mainVars, sharedVars, serverVars>>

Next == OfClients \/ Server \/ Main

\* The calls that processes are in go on, and the command a target waits for ends.
ClientsProgress ==
    /\ \E t \in Threads :
          \/ Progress(t)
          \/ t[1] = builder /\ Exit(t)
    /\ UNCHANGED <<mainVars, sharedVars, serverVars>>

\* The same as ENABLED ClientsProgress, but cheap.
ClientsCan ==
    \E t \in Threads :
        /\ thr[t].live
        /\ IF ~InCall(t) THEN t[1] = builder
           ELSE Top(t).at = "wait" =>
                    conns[thr[t].sock].rep # <<>> \/ ServerGone(thr[t].sock)

\* The threads of MacPorts run, and so do the processes: weak fairness. As
\* calls are bounded, nothing more is needed for each of them to end.
Fairness ==
    /\ WF_vars(Server) /\ WF_vars(Main)
    /\ []<>~ClientsCan \/ []<><<ClientsProgress>>_vars

Spec == Init /\ [][Next]_vars /\ Fairness

\* A thread that speaks to the server does so over a connection that it made
\* itself or that its process kept, that its process holds open, and that no
\* thread of another process is speaking over (__darwintrace_setup after fork).
Speaking(t) == InCall(t) /\ Top(t).at # "setup"

\* An answer in flight is the answer to the question its thread is waiting
\* with, and it says what the dependencies of that session say, whatever the
\* cache was filled with before (dep_check, TracelibRunCmd).
RightAnswer(msg, s) ==
    IF msg.path \in DOMAIN Owner /\ Owner[msg.path] # None
    THEN IF Owner[msg.path] \in Deps[s] THEN "+" ELSE "!" ELSE "?"

AnswersRight ==
    \A t \in Threads : InCall(t) /\ thr[t].sock # None =>
        LET conn == conns[thr[t].sock] IN
        conn.rep # <<>> =>
            /\ Speaking(t) =>
                 /\ Top(t).at = "wait" /\ Len(conn.rep) = 1
                 /\ conn.rep[1].msg = Top(t).msg
            /\ conn.rep[1].msg.op = "dep_check" =>
                 conn.rep[1].val = RightAnswer(conn.rep[1].msg, conn.session)

\* A path is let through only if each link on its way and what it ends at may
\* be seen in this session, and is only hidden if one of them may not
\* (__darwintrace_is_in_sandbox).
Seen(s, map, op, path) ==
    \/ map = "all"
    \/ "allowdir" \in op.flags /\ path \in Dirs
    \/ Command(FileMap, path) = "allow"
    \/ /\ Command(FileMap, path) = "ask"
       /\ \/ path \in Dirs \/ ~Exists(path)
          \/ RightAnswer([path |-> path], s) # "!"

Hops(path, n) ==
    {way \in [1..n -> DOMAIN Links] :
        /\ way[1] = path
        /\ \A i \in 1..n-1 : way[i + 1] = TokenizeSymlink(way[i])}
Reaches(path, links) ==
    {path} \cup {TokenizeSymlink(way[Len(way)]) : way \in UNION {Hops(path, n) : n \in 1..links}}

VerdictsRight ==
    \A t \in Threads : At(t, "act") /\ ~GoesOn(Top(t).do.op) =>
        LET do == Top(t).do
            links == IF "follow" \in do.op.flags THEN MaxLinks ELSE 0
            way == UNION {Reaches(Tokenize(<<>>, do.paths[i]), links) : i \in DOMAIN do.paths}
        IN  Top(t).ok <=> \A path \in way :
                Seen(procs[t[1]].fifo, procs[t[1]].map, do.op, path)

\* Every traced call ends, or its process does, and a target that has been
\* stopped is cleaned up, whatever its processes left behind (closesocket, the
\* event loop), unless a message was cut short by the end of a process that had
\* let a child inherit the connection of another thread.
Cut == \E c \in Accepted :
    ~Alive(conns[c].peer) /\ ~Eof(conns[c]) /\ conns[c].req # <<>> /\ ~Whole(conns[c].req)

NothingHangs ==
    /\ []<>(Cut \/ \A t \in Threads : ~InCall(t))
    /\ main = "closing" ~> (Cut \/ main = "idle")

=============================================================================
