---------------------------- MODULE TraceClient ----------------------------
(***************************************************************************)
(* The traced side of trace mode, src/src/darwintracelib1.0: the library   *)
(* that is loaded into every process of a build and asks the trace server  *)
(* before a process sees a file.                                           *)
(*                                                                         *)
(* A traced call (open, stat, rename, execve, dup2 ...) first makes sure   *)
(* that its thread has a connection that belongs to this process, then     *)
(* checks its paths one by one, asking and reporting over the connection,  *)
(* and then lets the system call happen or hides the file. A message is    *)
(* written in two parts, its length and its body.                          *)
(*                                                                         *)
(* Programs are left open: any thread makes any of the calls in Calls,     *)
(* forks, starts threads and exits in any order. What a program cannot do  *)
(* here is to close the descriptor of another thread's connection.         *)
(***************************************************************************)
EXTENDS Sandbox, FiniteSets

CONSTANTS
    Procs,        \* bound: processes, a process is never reused
    Threads,      \* bound: threads <<process, number>>, the first is number 1
    MaxConns,     \* bound: connections that exist at a time
    MaxCalls,     \* bound: traced calls in a behaviour
    Depth,        \* traced calls a thread can be in: 2 if a signal handler makes one
    EarlyThreads, \* whether a child starts threads before its first traced call
    Calls,        \* bound: the calls programs make, [op, paths]
    FileMap,      \* the sandbox of a fenced target
    None

Conns == 1..MaxConns

ASSUME ClientAssumption ==
    /\ Threads \subseteq Procs \X Nat /\ None \notin Procs \cup Conns
    /\ MaxConns \in Nat /\ MaxCalls \in Nat /\ Depth \in Nat \ {0}
    /\ MaxLinks \in Nat /\ EarlyThreads \in BOOLEAN
    /\ \A path \in DOMAIN Links : TokenizeSymlink(path) # None

VARIABLES
    procs,       \* what a process is and what it keeps for all of its threads
    thr,         \* what a thread keeps: its connection and the calls it is in
    conns,       \* the connections
    listening,   \* the session whose socket can be connected to, or 0
    calls        \* traced calls made so far

clientVars == <<procs, thr, calls>>

(***************************************************************************)
(* Connections, Unix stream sockets. fds says which processes hold the     *)
(* client's end, and whether it is closed when they execute a program.     *)
(***************************************************************************)
NoConn == [stage |-> "none", fds |-> [p \in Procs |-> "no"], peer |-> None,
           session |-> 0, req |-> <<>>, rep |-> <<>>]
Eof(conn) == \A p \in Procs : conn.fds[p] = "no"
ServerGone(c) == conns[c].stage = "closed"

\* Nothing is left of a connection both ends of which are closed.
Settle(conn) == IF Eof(conn) /\ conn.stage = "closed" THEN NoConn ELSE conn

ReleaseFds(cs, p, kinds) ==
    [c \in Conns |-> IF cs[c].fds[p] \in kinds
                     THEN Settle([cs[c] EXCEPT !.fds[p] = "no"]) ELSE cs[c]]

CloseFd(cs, p, c) == [cs EXCEPT ![c] = Settle([@ EXCEPT !.fds[p] = "no"])]

(***************************************************************************)
(* Processes and threads.                                                  *)
(***************************************************************************)
Unborn == [state |-> "unborn", dtpid |-> None, map |-> "none", fifo |-> 0]
Dead == [Unborn EXCEPT !.state = "dead"]
NoThread == [live |-> FALSE, sock |-> None, stack |-> <<>>]
NewThread == [NoThread EXCEPT !.live = TRUE]

Alive(p) == procs[p].state = "alive"
LiveThreads(p) == {t \in Threads : t[1] = p /\ thr[t].live}

ClientInit ==
    /\ procs = [p \in Procs |-> Unborn]
    /\ thr = [t \in Threads |-> NoThread]
    /\ calls = 0

\* A set of processes ends: their descriptors are closed.
Gone(ps, ths) == [t \in Threads |-> IF t[1] \in ps THEN NoThread ELSE ths[t]]
Killed(ps, cs) ==
    [c \in Conns |-> Settle([cs[c] EXCEPT
        !.fds = [p \in Procs |-> IF p \in ps THEN "no" ELSE @[p]]])]

Abort(p) ==
    /\ procs' = [procs EXCEPT ![p] = Dead]
    /\ thr' = Gone({p}, thr)
    /\ conns' = Killed({p}, conns)
    /\ UNCHANGED calls

(***************************************************************************)
(* Messages.                                                               *)
(***************************************************************************)
Message(op, t, path) == [op |-> op, from |-> t, path |-> path]
Answered(msg) == msg.op \in {"filemap", "dep_check"}

(***************************************************************************)
(* The calls. next is the number of the raw path to check, path the same   *)
(* normalised and as far as its links have been followed.                  *)
(***************************************************************************)
Top(t) == Head(thr[t].stack)
InCall(t) == thr[t].live /\ thr[t].stack # <<>>
At(t, stage) == InCall(t) /\ Top(t).at = stage
SetTop(t, call) == [thr EXCEPT ![t].stack[1] = call]

NewCall(do) ==
    [do |-> do, at |-> "setup", next |-> 1, path |-> None, links |-> 0,
     msg |-> None, ok |-> TRUE]

\* The wrappers, by what they ask of the check: whether a denial is reported,
\* whether any directory passes, and whether the links of the path are followed.
Reading == {"report", "allowdir", "follow"}
Changing == {"report", "follow"}
NotFollowing == {"report", "allowdir"}

OpenCall == [name |-> "open", flags |-> Reading]
AccessCall == [name |-> "access", flags |-> Reading]
StatCall == [name |-> "stat", flags |-> Reading]
Stat64Call == [name |-> "stat64", flags |-> Reading]
LstatCall == [name |-> "lstat", flags |-> NotFollowing]
Lstat64Call == [name |-> "lstat64", flags |-> NotFollowing]
ReadlinkCall == [name |-> "readlink", flags |-> NotFollowing]
UnlinkCall == [name |-> "unlink", flags |-> NotFollowing]
MkdirCall == [name |-> "mkdir", flags |-> Changing]
RmdirCall == [name |-> "rmdir", flags |-> Changing]
RenameCall == [name |-> "rename", flags |-> Changing]
CloseCall == [name |-> "close", flags |-> {}]
Dup2Call == [name |-> "dup2", flags |-> {}]

\* A script's interpreter, the second path of the call, is checked like the script.
ExecveCall == [name |-> "execve", flags |-> Reading]

\* A directory is read whatever its entries are, the paths of the call; the other
\* calls stop at the first path they must not touch.
GetdirentriesCall == [name |-> "getdirentries", flags |-> {"allowdir"}]
Getdirentries64Call == [GetdirentriesCall EXCEPT !.name = "getdirentries64"]
GoesOn(op) == op \in {GetdirentriesCall, Getdirentries64Call}

Wrappers ==
    {OpenCall, AccessCall, StatCall, Stat64Call, LstatCall, Lstat64Call,
     ReadlinkCall, UnlinkCall, MkdirCall, RmdirCall, RenameCall, CloseCall,
     Dup2Call, ExecveCall, GetdirentriesCall, Getdirentries64Call}
ASSUME CallsAssumption ==
    \A do \in Calls :
        /\ do.op \in Wrappers
        /\ Len(do.paths) \in Nat /\ DOMAIN do.paths = 1..Len(do.paths)
        /\ \A i \in 1..Len(do.paths) : Tokenize(<<>>, do.paths[i]) # None

Speak(call, msg) == [call EXCEPT !.at = "len", !.msg = msg]
GetFilemap(call, t) == Speak(call, Message("filemap", t, None))

\* The number of the path after the current one, unless the call is over.
After(call, ok) ==
    IF ok \/ GoesOn(call.do.op) THEN call.next + 1 ELSE Len(call.do.paths) + 1

\* The last path is not followed.
DecideMutNoFollow(call, ok) ==
    [call EXCEPT !.at = "check", !.msg = None, !.links = 0, !.path = None, !.ok = ok,
                 !.next = After(call, ok)]

\* The verdict on the current path, or on a link to be followed from it.
Decide(call, ok) ==
    IF ok /\ "follow" \in call.do.op.flags /\ call.links < MaxLinks /\ IsLink(call.path)
    THEN [call EXCEPT !.at = "check", !.msg = None, !.links = @ + 1,
                      !.path = TokenizeSymlink(call.path)]
    ELSE [call EXCEPT !.at = "check", !.msg = None, !.links = 0, !.path = None,
                      !.ok = ok, !.next = After(call, ok)]

\* __darwintrace_sandbox_check of one path, up to the question it may ask.
\* Without a fence, and as long as there is no file map, everything passes.
Check(call, t, map) ==
    LET flags == call.do.op.flags
        isDir == call.path \in Dirs
        command == IF map = "fence" THEN Command(FileMap, call.path) ELSE "allow"
    IN  IF command = "allow" \/ ("allowdir" \in flags /\ isDir) THEN Decide(call, TRUE)
        ELSE IF command = "ask"
        THEN IF isDir \/ ~Exists(call.path) THEN Decide(call, TRUE)
             ELSE Speak(call, Message("dep_check", t, call.path))
        ELSE IF "report" \in flags
        THEN Speak(call, Message("sandbox_violation", t, call.path))
        ELSE Decide(call, FALSE)

\* What the answer of a dep_check means.
Answer(call, t, val) ==
    LET report == "report" \in call.do.op.flags
    IN  CASE val = "+" -> Decide(call, TRUE)
          [] val = "?" -> IF report THEN Speak(call, Message("sandbox_unknown", t, call.path))
                          ELSE Decide(call, TRUE)
          [] val = "!" -> IF report THEN Speak(call, Message("sandbox_violation", t, call.path))
                          ELSE Decide(call, FALSE)

-----------------------------------------------------------------------------
\* A program makes a call; a signal handler may do so inside of another one.
Begin(t) ==
    /\ thr[t].live /\ calls < MaxCalls
    /\ Len(thr[t].stack) < Depth
    /\ InCall(t) => Top(t).at \in {"len", "body", "wait"}
    /\ \E do \in Calls :
          /\ do.op = ExecveCall => LiveThreads(t[1]) = {t}     \* bound: only then
          /\ thr' = [thr EXCEPT ![t].stack = <<NewCall(do)>> \o @]
    /\ calls' = calls + 1
    /\ UNCHANGED <<procs, conns, listening>>

\* The connection a thread inherited from the parent of its process is not its own.
Stale(p) == procs[p].dtpid \notin {None, p}

\* __darwintrace_setup: reconnect after a fork, connect when there is no
\* connection, and ask for the file map unless the process has it.
Setup(t) ==
    LET p == t[1]
        old == thr[t].sock
        mustClose == Stale(p) /\ old # None
        cs == IF mustClose THEN CloseFd(conns, p, old) ELSE conns
    IN  /\ At(t, "setup")
        /\ IF old # None /\ ~mustClose
           THEN /\ thr' = SetTop(t, [Top(t) EXCEPT !.at = "check"])
                /\ UNCHANGED <<procs, conns>>
           ELSE IF listening # procs[p].fifo THEN Abort(p)
           ELSE \E c \in {d \in Conns : cs[d].stage = "none"} :
                /\ \A d \in Conns : cs[d].stage = "none" => c <= d
                /\ conns' = [cs EXCEPT ![c] = [NoConn EXCEPT
                        !.stage = "backlog", !.fds[p] = "cloexec",
                        !.peer = p, !.session = listening]]
                /\ procs' = [procs EXCEPT ![p].dtpid = p]
                /\ thr' = [thr EXCEPT ![t].sock = c, ![t].stack[1] =
                        IF procs[p].map = "none"
                        THEN GetFilemap(@, t)
                        ELSE [@ EXCEPT !.at = "check"]]
        /\ UNCHANGED <<calls, listening>>

\* __darwintrace_is_in_sandbox: the current path, or the next one, normalised;
\* or the end of the checks.
Look(t) ==
    LET call == Top(t)
        path == IF call.path # None THEN call.path
                ELSE Tokenize(<<>>, call.do.paths[call.next])
    IN  /\ At(t, "check")
        /\ thr' = SetTop(t, IF call.next > Len(call.do.paths) THEN [call EXCEPT !.at = "act"]
                            ELSE Check([call EXCEPT !.path = path], t, procs[t[1]].map))
        /\ UNCHANGED <<procs, conns, listening, calls>>

\* fsend of the length, and of the body; a message that wants no answer is done.
SendLen(t) ==
    LET c == thr[t].sock IN
    /\ At(t, "len")
    /\ IF ServerGone(c) THEN Abort(t[1])
       ELSE /\ conns' = [conns EXCEPT ![c].req = Append(@, <<"len", Top(t).msg>>)]
            /\ thr' = SetTop(t, [Top(t) EXCEPT !.at = "body"])
            /\ UNCHANGED <<procs, calls>>
    /\ UNCHANGED listening

SendBody(t) ==
    LET c == thr[t].sock
        call == Top(t)
    IN  /\ At(t, "body")
        /\ IF ServerGone(c) THEN Abort(t[1])
           ELSE /\ conns' = [conns EXCEPT ![c].req = Append(@, <<"body", call.msg>>)]
                /\ thr' = SetTop(t, IF Answered(call.msg) THEN [call EXCEPT !.at = "wait"]
                        ELSE Decide(call, call.msg.op = "sandbox_unknown"))
                /\ UNCHANGED <<procs, calls>>
        /\ UNCHANGED listening

\* frecv: the answer, or the end of the file. A process whose other thread
\* has set the file map meanwhile keeps that one.
Receive(t) ==
    LET c == thr[t].sock
        p == t[1]
        call == Top(t)
        rep == Head(conns[c].rep)
        filemap == call.msg.op = "filemap"
    IN  /\ At(t, "wait")
        /\ \/ /\ conns[c].rep # <<>>
              /\ filemap = (rep.val \in {"all", "fence"})
              /\ conns' = [conns EXCEPT ![c].rep = Tail(@)]
              /\ procs' = IF filemap /\ procs[p].map = "none"
                          THEN [procs EXCEPT ![p].map = rep.val] ELSE procs
              /\ thr' = SetTop(t, IF filemap THEN [call EXCEPT !.at = "check", !.msg = None]
                                  ELSE Answer(call, t, rep.val))
              /\ UNCHANGED calls
           \/ /\ IF conns[c].rep = <<>> THEN ServerGone(c)
                 ELSE filemap # (rep.val \in {"all", "fence"})
              /\ Abort(p)
        /\ UNCHANGED listening

-----------------------------------------------------------------------------
\* What the calls do in the end; denied ones and plain ones change nothing here.
Pop(t) == [thr EXCEPT ![t].stack = Tail(@)]
Plain(call) == ~call.ok \/ call.do.op \notin {ExecveCall, Dup2Call}

Return(t) ==
    /\ At(t, "act") /\ Plain(Top(t))
    /\ thr' = Pop(t)
    /\ UNCHANGED <<procs, conns, listening, calls>>

\* dup2 onto the connection's descriptor moves the connection out of the
\* way, to a descriptor that a new program will keep.
Dup2(t) ==
    /\ At(t, "act") /\ Top(t).ok /\ Top(t).do.op = Dup2Call
    /\ conns' = [conns EXCEPT ![thr[t].sock].fds[t[1]] = "kept"]
    /\ thr' = Pop(t)
    /\ UNCHANGED <<procs, listening, calls>>

\* What a program starts with: the environment names the server's socket whatever
\* the caller made of it, the library's variables are new.
NewProgram(p) == [Unborn EXCEPT !.state = "alive", !.fifo = procs[p].fifo]

\* execve gives the connection up first. If it fails the old program goes on.
Execve(t) ==
    LET p == t[1]
        cs == CloseFd(conns, p, thr[t].sock)
    IN  /\ At(t, "act") /\ Top(t).ok /\ Top(t).do.op = ExecveCall
        /\ \/ /\ conns' = cs
              /\ procs' = [procs EXCEPT ![p].dtpid = None]
              /\ thr' = [Pop(t) EXCEPT ![t].sock = None]
           \/ /\ conns' = ReleaseFds(cs, p, {"cloexec"})
              /\ procs' = [procs EXCEPT ![p] = NewProgram(p)]
              /\ thr' = [Gone({p}, thr) EXCEPT ![<<p, 1>>] = NewThread]
        /\ UNCHANGED <<listening, calls>>

-----------------------------------------------------------------------------
\* What programs do that is not traced. A child has one thread, a copy of
\* the one that forked, and all of the descriptors.
Fork(t) ==
    LET p == t[1] IN
    /\ thr[t].live /\ ~InCall(t)
    /\ \E q \in Procs :
          /\ procs[q].state = "unborn"
          /\ procs' = [procs EXCEPT ![q] = procs[p]]
          /\ thr' = [thr EXCEPT ![<<q, 1>>] = thr[t]]
          /\ conns' = [c \in Conns |-> [conns[c] EXCEPT !.fds[q] = conns[c].fds[p]]]
    /\ UNCHANGED <<listening, calls>>

StartThread(p) ==
    /\ \E t \in LiveThreads(p) : ~InCall(t)
    /\ EarlyThreads \/ ~Stale(p)
    /\ \E t \in Threads :
          t[1] = p /\ ~thr[t].live /\ thr' = [thr EXCEPT ![t] = NewThread]
    /\ UNCHANGED <<procs, conns, listening, calls>>

\* The destructor of the thread's key closes its connection.
ExitThread(t) ==
    /\ thr[t].live /\ ~InCall(t) /\ Cardinality(LiveThreads(t[1])) > 1
    /\ conns' = IF thr[t].sock = None THEN conns ELSE CloseFd(conns, t[1], thr[t].sock)
    /\ thr' = [thr EXCEPT ![t] = NoThread]
    /\ UNCHANGED <<procs, listening, calls>>

\* A process exits whatever its other threads are doing.
Exit(t) ==
    /\ thr[t].live /\ ~InCall(t)
    /\ Abort(t[1])
    /\ UNCHANGED listening

\* The steps of a call, and everything a thread may do.
Progress(t) ==
    \/ Setup(t) \/ Look(t) \/ SendLen(t) \/ SendBody(t) \/ Receive(t)
    \/ Return(t) \/ Dup2(t) \/ Execve(t)

Client(t) ==
    \/ Begin(t) \/ Progress(t) \/ Fork(t) \/ ExitThread(t) \/ Exit(t)

=============================================================================
