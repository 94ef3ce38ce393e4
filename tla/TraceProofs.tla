---------------------------- MODULE TraceProofs ----------------------------
(***************************************************************************)
(* Why answers and verdicts of trace mode are right, for any number of     *)
(* processes, threads, connections, sessions and calls.                    *)
(*                                                                         *)
(* The invariant says in which steps a thread gets its own connection,     *)
(* what may be written in it meanwhile, and that cache, answers and what   *)
(* each call has decided so far are those of its session.                  *)
(***************************************************************************)
EXTENDS Trace, TLAPS, FiniteSetTheorems, SequenceTheorems

\* A thread is in one traced call at a time, and a forked process makes a traced call
\* before it starts threads. Otherwise calls of a thread and its signal handler share a
\* connection, or those of a child and its parent (__darwintrace_pid is one per process).
OneCallAtATime == Depth = 1 /\ ~EarlyThreads

-----------------------------------------------------------------------------
(* What the variables hold.                                                *)

Starts(do) == {Tokenize(<<>>, do.paths[i]) : i \in 1..Len(do.paths)}
Path == (UNION {Starts(do) : do \in Calls}) \cup {TokenizeSymlink(path) : path \in DOMAIN Links}
Msg ==
    [op : {"filemap", "dep_check", "sandbox_violation", "sandbox_unknown"},
     from : Threads, path : Path \cup {None}]
Stages == {"setup", "check", "len", "body", "wait", "act"}
Call ==
    [do : Calls, at : Stages, next : Nat, path : Path \cup {None}, links : Nat,
     msg : Msg \cup {None}, ok : BOOLEAN]
Maps == {"all", "fence"}
Proc ==
    [state : {"unborn", "alive", "dead"}, dtpid : Procs \cup {None},
     map : Maps \cup {"none"}, fifo : Nat]
Thread == [live : BOOLEAN, sock : Conns \cup {None}, stack : Seq(Call)]
Conn ==
    [stage : {"none", "backlog", "accepted", "closed"},
     fds : [Procs -> {"no", "cloexec", "kept"}], peer : Procs \cup {None}, session : Nat,
     req : Seq({"len", "body"} \X Msg), rep : Seq([msg : Msg, val : Maps \cup {"+", "?", "!"}])]

ClientTypes ==
    /\ procs \in [Procs -> Proc]
    /\ thr \in [Threads -> Thread]
    /\ conns \in [Conns -> Conn]
ServerTypes ==
    /\ listening \in Nat /\ session \in Nat
    /\ peers \in [Conns -> Procs \cup {None}]
    /\ batch \subseteq [conn : Conns, eof : BOOLEAN]
    /\ kq \in BOOLEAN

-----------------------------------------------------------------------------
(* Connections.                                                            *)

\* Messages are written one after the other, each in two parts.
Wire(req) ==
    \A i \in 1..Len(req) :
        /\ i = 1 => req[i][1] = "len"
        /\ i < Len(req) => IF req[i][1] = "len" THEN req[i + 1] = <<"body", req[i][2]>>
                           ELSE req[i + 1][1] = "len"

\* Whether a message is still to be written to its end.
Half(req) == req # <<>> /\ req[Len(req)][1] = "len"

\* Where a message that wants an answer is among them.
Asked(req) == {i \in 1..Len(req) : Answered(req[i][2])}

RightReply(r, s) ==
    \/ r.msg.op = "filemap" /\ r.val \in Maps
    \/ r.msg.op = "dep_check" /\ r.val = RightAnswer(r.msg, s)

\* Only the last message wants an answer, and until it has been received
\* nothing follows it.
Orderly(conn) ==
    /\ conn.stage # "none" => conn.peer \in Procs
    /\ conn.stage \in {"none", "closed"} => conn.req = <<>>
    /\ Wire(conn.req)
    /\ \A i \in Asked(conn.req) : i + 1 >= Len(conn.req)
    /\ conn.rep # <<>> => Len(conn.rep) = 1 /\ Asked(conn.req) = {}
                             /\ RightReply(conn.rep[1], conn.session)

-----------------------------------------------------------------------------
(* Processes and threads.                                                  *)

\* Only a process that has been born is remembered.
Parents == \A p \in Procs : procs[p].dtpid # None => procs[procs[p].dtpid].state # "unborn"

\* A thread is in one call at most, and in none if there is no thread.
Threaded(t) ==
    /\ thr[t].live \/ thr[t] = NoThread
    /\ thr[t].live => Alive(t[1])
    /\ Len(thr[t].stack) <= 1

\* The connection a thread knows of is held open by its process, and was made
\* by it unless the process has inherited it and not used it.
Own(t) == thr[t].sock # None /\ procs[t[1]].dtpid = t[1]
Holds(t) ==
    thr[t].sock # None =>
        LET conn == conns[thr[t].sock] IN
        /\ conn.fds[t[1]] # "no" /\ conn.stage # "none"
        /\ procs[t[1]].dtpid # None
        /\ Own(t) => conn.peer = t[1] /\ conn.session = procs[t[1]].fifo

\* No two threads of a process have the same connection; one that has
\* inherited has one thread, and so has one that is about to execute a program.
Alone(t) == \A u \in Threads : u[1] = t[1] /\ thr[u].live => u = t
Separate(t) ==
    /\ Own(t) => \A u \in Threads : u # t /\ u[1] = t[1] => thr[u].sock # thr[t].sock
    /\ thr[t].live /\ Stale(t[1]) => Alone(t)
    /\ InCall(t) /\ Top(t).do.op = ExecveCall => Alone(t)

\* Who is past the setup of a call has a connection of its own.
Asking(stack) == stack # <<>> /\ Head(stack).at \in {"len", "body", "wait"}
AsksMap(stack) == Asking(stack) /\ Head(stack).msg.op = "filemap"
Speaks(t) == Speaking(t) => Own(t)

\* A thread knows the file map once it has its answer.
KnowsMap(t) ==
    thr[t].sock # None /\ ~AsksMap(thr[t].stack) => procs[t[1]].map # "none"

\* What is on the thread's own connection is what the thread has sent, and is
\* waiting for.
Quiet(conn) == conn.rep = <<>> /\ Asked(conn.req) = {} /\ ~Half(conn.req)
Sent(conn, msg) ==
    /\ conn.rep = <<>>
    /\ conn.stage # "closed" => /\ Len(conn.req) > 0
                                /\ conn.req[Len(conn.req)] = <<"len", msg>>
                                /\ Asked(conn.req) \subseteq {Len(conn.req)}
Awaits(conn, msg) ==
    /\ Answered(msg) /\ ~Half(conn.req)
    /\ \A i \in Asked(conn.req) : conn.req[i][2] = msg
    /\ conn.rep # <<>> => conn.rep[1].msg = msg
Lined(stack, conn) ==
    IF ~Asking(stack) \/ Head(stack).at = "len" THEN Quiet(conn)
    ELSE IF Head(stack).at = "body" THEN Sent(conn, Head(stack).msg)
    ELSE Awaits(conn, Head(stack).msg)
InLine(t) == Own(t) => Lined(thr[t].stack, conns[thr[t].sock])

-----------------------------------------------------------------------------
(* The checks of a call.                                                   *)

LinksOf(op) == IF "follow" \in op.flags THEN MaxLinks ELSE 0
Way(do, i) == Reaches(Tokenize(<<>>, do.paths[i]), LinksOf(do.op))

\* What is still to be seen of the current path.
Ahead(call) == Reaches(call.path, LinksOf(call.do.op) - call.links)

\* What has been let through may be seen, and what has been hidden may not.
Judged(call, s, map) ==
    LET last == Len(call.do.paths)
        Visible(path) == Seen(s, map, call.do.op, path)
    IN  ~GoesOn(call.do.op) =>
            /\ call.ok => \A i \in 1..call.next - 1 : \A path \in Way(call.do, i) : Visible(path)
            /\ ~call.ok => /\ call.next = last + 1 /\ call.path = None
                           /\ \E i \in 1..last : \E path \in Way(call.do, i) : ~Visible(path)
            /\ call.path # None =>
                  /\ Ahead(call) \subseteq Way(call.do, call.next)
                  /\ \A path \in Way(call.do, call.next) \ Ahead(call) : Visible(path)

\* What a thread asks and reports is about the current path.
Question(call, s, map) ==
    /\ call.msg \in Msg
    /\ call.msg.op = "filemap" \/ (call.path # None /\ map # "none")
    /\ call.msg.op = "dep_check" =>
          /\ call.msg.path = call.path /\ call.path \notin Dirs /\ Exists(call.path)
          /\ map = "fence" /\ Command(FileMap, call.path) = "ask"
    /\ call.msg.op = "sandbox_violation" => ~Seen(s, map, call.do.op, call.path)
    /\ call.msg.op = "sandbox_unknown" => Seen(s, map, call.do.op, call.path)

Fresh(call) == call.next = 1 /\ call.path = None /\ call.links = 0 /\ call.ok
InOrder(call, s, map) ==
    LET last == Len(call.do.paths)
    IN  /\ call.next \in 1..last + 1
        /\ call.links <= LinksOf(call.do.op)
        /\ call.path = None => call.links = 0
        /\ call.path # None => call.next <= last
        /\ call.at = "setup" \/ AsksMap(<<call>>) => Fresh(call)
        /\ call.at = "act" => call.next = last + 1
        /\ Asking(<<call>>) => Question(call, s, map)
        /\ Judged(call, s, map)

CallOK(t) ==
    thr[t].stack # <<>> => InOrder(Head(thr[t].stack), procs[t[1]].fifo, procs[t[1]].map)

-----------------------------------------------------------------------------
(* The server and the main thread.                                         *)

\* Where the two threads are at the same time.
Begun == main \notin {"idle", "started"}
Places ==
    /\ main \in {"idle", "started", "build", "closing", "waiting", "checking", "stopping",
                 "cleaning"}
    /\ runner \in {"none", "posted", "polling", "serving", "stopped", "over"}
    /\ main = "idle" => runner = "none"
    /\ main \in {"stopping", "cleaning"} => runner = "over"
    /\ kq <=> runner \in {"polling", "serving"}
    /\ session <= Sessions /\ (main # "idle" => session # 0)
    /\ listening \in {0, session} /\ (main \in {"idle", "cleaning"} => listening = 0)

\* Clients connect in the session they were started in, which has begun.
Settled ==
    /\ \A p \in Procs :
          /\ procs[p].fifo <= session
          /\ main = "started" => procs[p].fifo # session
          /\ Alive(p) => procs[p].fifo # 0
    /\ Begun => depends = Deps[session]
    /\ \A c \in Conns : conns[c].stage \in {"backlog", "accepted"} =>
          conns[c].session = session /\ Begun
    /\ Backlog # {} => listening # 0
    /\ Accepted # {} => runner \in {"polling", "serving"}

\* The server's books: who is connected, and how many there are.
Books ==
    /\ \A c \in Conns : peers[c] = IF c \in Accepted THEN conns[c].peer ELSE None
    /\ runner \in {"polling", "serving"} => opensocks = Cardinality(Accepted)
    /\ runner # "serving" => batch = {}
    /\ \A e \in batch : e.conn \in Accepted
    /\ \A e, f \in batch : e.conn = f.conn => e = f

\* The cache has answers of this session.
CacheOK ==
    /\ \A path \in DOMAIN cache : cache[path] = RightAnswer([path |-> path], session)
    /\ ~Begun \/ runner \in {"none", "posted", "over"} => DOMAIN cache = {}

ServerInv == ServerTypes /\ Places /\ Settled /\ Books /\ CacheOK

ThreadOK(t) ==
    Threaded(t) /\ Holds(t) /\ Separate(t) /\ Speaks(t) /\ KnowsMap(t) /\ InLine(t) /\ CallOK(t)

ClientInv ==
    /\ ClientTypes /\ Parents
    /\ \A c \in Conns : Orderly(conns[c])
    /\ \A t \in Threads : ThreadOK(t)

TraceInv == ClientInv /\ ServerInv

-----------------------------------------------------------------------------
(* Sequences.                                                              *)

\* A sequence of one element, the calls a thread is in and the reply in flight.
LEMMA OneElement ==
    ASSUME NEW S, NEW q \in Seq(S), Len(q) <= 1, q # <<>>
    PROVE  /\ Len(q) = 1 /\ q = <<q[1]>> /\ q[1] \in S
           /\ Head(q) = q[1] /\ Tail(q) = <<>>
           /\ \A x : [q EXCEPT ![1] = x] = <<x>>
<1>1. Len(q) = 1 /\ q[1] \in S
  <2>1. Len(q) \in Nat \ {0}
    BY EmptySeq
  <2>2. Len(q) = 1
    BY <2>1
  <2> QED BY <2>2, ElementOfSeq
<1>2. q = <<q[1]>>
  BY <1>1
<1>3. Head(q) = q[1]
  BY <1>1
<1>4. Tail(q) = <<>>
  <2>1. Tail(q) \in Seq(S) /\ Len(Tail(q)) = Len(q) - 1
    BY HeadTailProperties
  <2>2. Len(Tail(q)) = 0
    BY <1>1, <2>1
  <2> QED BY <2>1, <2>2, EmptySeq
<1>5. ASSUME NEW x PROVE [q EXCEPT ![1] = x] = <<x>>
  BY <1>2
<1> QED BY <1>1, <1>2, <1>3, <1>4, <1>5

\* The pieces of messages on a connection.
Piece == {"len", "body"} \X Msg

\* What appending a piece makes of a sequence.
LEMMA Appended ==
    ASSUME NEW S, NEW q \in Seq(S), NEW x \in S
    PROVE  /\ Append(q, x) \in Seq(S) /\ Len(Append(q, x)) = Len(q) + 1
           /\ Append(q, x)[Len(q) + 1] = x
           /\ \A i \in 1..Len(q) : Append(q, x)[i] = q[i]
OBVIOUS

\* The length of a message may be sent when nothing is awaited.
LEMMA LenSent ==
    ASSUME NEW q \in Seq(Piece), NEW msg \in Msg, Wire(q), ~Half(q), Asked(q) = {}
    PROVE  LET r == Append(q, <<"len", msg>>) IN
           /\ r \in Seq(Piece) /\ Wire(r) /\ Len(r) > 0
           /\ r[Len(r)] = <<"len", msg>> /\ Asked(r) \subseteq {Len(r)}
<1> DEFINE x == <<"len", msg>>
           r == Append(q, x)
<1>0. x \in Piece /\ x[1] = "len" /\ x[2] = msg
  BY DEF Piece
<1> HIDE DEF x
<1>1. /\ r \in Seq(Piece) /\ Len(r) = Len(q) + 1 /\ r[Len(q) + 1] = x
      /\ \A i \in 1..Len(q) : r[i] = q[i]
  BY <1>0, Appended
<1>2. Len(q) \in Nat /\ (Len(q) > 0 => q[Len(q)] \in Piece /\ q # <<>>)
  BY ElementOfSeq, EmptySeq
<1> HIDE DEF r
<1>3. Len(q) > 0 => q[Len(q)][1] # "len"
  BY <1>2 DEF Half
<1>4. Wire(r)
  <2> SUFFICES ASSUME NEW i \in 1..Len(r)
               PROVE  /\ i = 1 => r[i][1] = "len"
                      /\ i < Len(r) => IF r[i][1] = "len" THEN r[i + 1] = <<"body", r[i][2]>>
                                       ELSE r[i + 1][1] = "len"
    BY DEF Wire
  <2>1. CASE i = Len(q) + 1
    BY <2>1, <1>0, <1>1, <1>2
  <2>2. CASE i = Len(q)
    BY <2>2, <1>0, <1>1, <1>2, <1>3 DEF Wire
  <2>3. CASE i < Len(q)
    BY <2>3, <1>1, <1>2 DEF Wire
  <2> QED BY <2>1, <2>2, <2>3, <1>1, <1>2
<1>5. Asked(r) \subseteq {Len(r)}
  <2> SUFFICES ASSUME NEW i \in 1..Len(q), Answered(r[i][2]) PROVE FALSE
    BY <1>1, <1>2 DEF Asked
  <2> QED BY <1>1 DEF Asked
<1>6. Len(r) > 0 /\ r[Len(r)] = x
  BY <1>1, <1>2
<1> QED BY <1>1, <1>4, <1>5, <1>6 DEF r, x

\* The body follows its length, and ends the message.
LEMMA BodySent ==
    ASSUME NEW q \in Seq(Piece), NEW msg \in Msg, Wire(q), Len(q) > 0,
           q[Len(q)] = <<"len", msg>>, Asked(q) \subseteq {Len(q)}
    PROVE  LET r == Append(q, <<"body", msg>>) IN
           /\ r \in Seq(Piece) /\ Wire(r) /\ ~Half(r)
           /\ \A i \in Asked(r) : i + 1 >= Len(r) /\ r[i][2] = msg
           /\ ~Answered(msg) => Asked(r) = {}
<1> DEFINE x == <<"body", msg>>
           r == Append(q, x)
<1>0. x \in Piece /\ x[1] = "body" /\ x[2] = msg
  BY DEF Piece
<1>1. /\ r \in Seq(Piece) /\ Len(r) = Len(q) + 1 /\ r[Len(q) + 1] = x
      /\ \A i \in 1..Len(q) : r[i] = q[i]
  BY <1>0, Appended
<1>2. Len(q) \in Nat
  BY EmptySeq
<1> HIDE DEF r
<1>3. Wire(r)
  <2> SUFFICES ASSUME NEW i \in 1..Len(r)
               PROVE  /\ i = 1 => r[i][1] = "len"
                      /\ i < Len(r) => IF r[i][1] = "len" THEN r[i + 1] = <<"body", r[i][2]>>
                                       ELSE r[i + 1][1] = "len"
    BY DEF Wire
  <2>1. CASE i = Len(q) + 1
    BY <2>1, <1>1, <1>2
  <2>2. CASE i = Len(q)
    BY <2>2, <1>0, <1>1, <1>2 DEF Wire
  <2>3. CASE i < Len(q)
    BY <2>3, <1>1, <1>2 DEF Wire
  <2> QED BY <2>1, <2>2, <2>3, <1>1, <1>2
<1>4. ASSUME NEW i \in Asked(r) PROVE i + 1 >= Len(r) /\ r[i][2] = msg
  <2>1. i \in 1..Len(r) /\ Answered(r[i][2])
    BY DEF Asked
  <2>2. i # Len(q) + 1 => i \in Asked(q)
    BY <2>1, <1>1, <1>2 DEF Asked
  <2>3. i = Len(q) + 1 \/ i = Len(q)
    BY <2>2
  <2> QED BY <2>3, <1>0, <1>1, <1>2
<1>5. ~Answered(msg) => Asked(r) = {}
  BY <1>4 DEF Asked
<1>6. ~Half(r)
  BY <1>0, <1>1, <1>2 DEF Half
<1> QED BY <1>1, <1>3, <1>4, <1>5, <1>6 DEF r, x

\* What is left when the server has read a whole message.
LEMMA OneRead ==
    ASSUME NEW q \in Seq(Piece), Wire(q), Whole(q), \A i \in Asked(q) : i + 1 >= Len(q)
    PROVE  LET r == SubSeq(q, 3, Len(q)) IN
           /\ r \in Seq(Piece) /\ Wire(r)
           /\ \A i \in Asked(r) : i + 1 >= Len(r) /\ i + 2 \in Asked(q) /\ r[i] = q[i + 2]
           /\ ~Half(q) => ~Half(r)
           /\ q[Len(q)][1] = "len" => Len(r) > 0 /\ r[Len(r)] = q[Len(q)] /\ Len(r) = Len(q) - 2
           /\ Answered(q[1][2]) => 1 \in Asked(q) /\ r = <<>>
           /\ q[1][2] \in Msg
<1> DEFINE r == SubSeq(q, 3, Len(q))
           n == Len(q) - 2
<1>0. /\ Len(q) \in Nat /\ n \in Nat /\ q[1] \in Piece /\ q[2] \in Piece
      /\ q[1][1] = "len" /\ q[2] = <<"body", q[1][2]>>
  BY EmptySeq, ElementOfSeq DEF Whole
<1>1. /\ r \in Seq(Piece) /\ Len(r) = n /\ \A i \in 1..n : r[i] = q[i + 2]
  <2>1. /\ SubSeq(q, 3, Len(q)) \in Seq(Piece)
        /\ Len(SubSeq(q, 3, Len(q))) = IF 3 <= Len(q) THEN Len(q) - 3 + 1 ELSE 0
        /\ \A i \in 1 .. Len(q) - 3 + 1 : SubSeq(q, 3, Len(q))[i] = q[3 + i - 1]
    <3>1. \A i \in 3..Len(q) : q[i] \in Piece
      BY ElementOfSeq
    <3> QED BY <1>0, <3>1, SubSeqProperties
  <2> QED BY <2>1, <1>0
<1> HIDE DEF r
<1>2. Wire(r)
  <2> SUFFICES ASSUME NEW i \in 1..Len(r)
               PROVE  /\ i = 1 => r[i][1] = "len"
                      /\ i < Len(r) => IF r[i][1] = "len" THEN r[i + 1] = <<"body", r[i][2]>>
                                       ELSE r[i + 1][1] = "len"
    BY DEF Wire
  <2>1. i + 2 \in 1..Len(q) /\ r[i] = q[i + 2] /\ (i < Len(r) => r[i + 1] = q[(i + 2) + 1])
    <3>1. i \in 1..n /\ Len(q) = n + 2 /\ (i < Len(r) => i + 1 \in 1..n)
      BY <1>0, <1>1
    <3>2. i + 2 \in 1..Len(q) /\ (i + 1) + 2 = (i + 2) + 1
      BY <3>1, <1>0
    <3> QED BY <3>1, <3>2, <1>1
  <2>2. i = 1 => q[3][1] = "len"
    <3>1. 2 < Len(q) /\ q[2][1] # "len" => q[3][1] = "len"
      BY <1>0 DEF Wire
    <3> QED BY <3>1, <1>0, <1>1
  <2>3. i < Len(r) => IF q[i + 2][1] = "len" THEN q[(i + 2) + 1] = <<"body", q[i + 2][2]>>
                      ELSE q[(i + 2) + 1][1] = "len"
    BY <1>0, <1>1, <2>1 DEF Wire
  <2> QED BY <2>1, <2>2, <2>3
<1>3. ASSUME NEW i \in Asked(r)
      PROVE  i + 1 >= Len(r) /\ i + 2 \in Asked(q) /\ r[i] = q[i + 2]
  <2>1. i \in 1..n /\ Answered(r[i][2]) /\ r[i] = q[i + 2]
    BY <1>1 DEF Asked
  <2>2. i + 2 \in Asked(q)
    BY <2>1, <1>0 DEF Asked
  <2> QED BY <2>1, <2>2, <1>0, <1>1
<1>4. n = 0 => r = <<>>
  BY <1>1, EmptySeq
<1>5. n > 0 => Len(r) = Len(q) - 2 /\ r[Len(r)] = q[Len(q)] /\ q # <<>>
  BY <1>0, <1>1, EmptySeq
<1>6. ~Half(q) => ~Half(r)
  BY <1>4, <1>5, <1>0 DEF Half
<1>7. q[Len(q)][1] = "len" => Len(r) > 0 /\ r[Len(r)] = q[Len(q)] /\ Len(r) = Len(q) - 2
  BY <1>0, <1>1, <1>5
<1>8. Answered(q[1][2]) => 1 \in Asked(q) /\ r = <<>>
  <2>1. Answered(q[1][2]) => 1 \in Asked(q)
    BY <1>0 DEF Asked
  <2> QED BY <2>1, <1>0, <1>4
<1>9. q[1][2] \in Msg
  BY <1>0 DEF Piece
<1> QED BY <1>1, <1>2, <1>3, <1>6, <1>7, <1>8, <1>9 DEF r

-----------------------------------------------------------------------------
(* The links of a path, and the verdict on it.                             *)

\* What is reached by one of the ways.
LEMMA ReachesBy ==
    ASSUME NEW path, NEW n, NEW x
    PROVE  x \in Reaches(path, n) <=>
              \/ x = path
              \/ \E k \in 1..n : \E way \in Hops(path, k) : x = TokenizeSymlink(way[Len(way)])
<1> DEFINE W == UNION {Hops(path, k) : k \in 1..n}
<1>1. \A way : way \in W <=> \E k \in 1..n : way \in Hops(path, k)
  OBVIOUS
<1>2. x \in {TokenizeSymlink(way[Len(way)]) : way \in W} <=>
          \E way \in W : x = TokenizeSymlink(way[Len(way)])
  OBVIOUS
<1>3. Reaches(path, n) = {path} \cup {TokenizeSymlink(way[Len(way)]) : way \in W}
  BY DEF Reaches
<1> HIDE DEF W
<1> QED BY <1>1, <1>2, <1>3

\* What a path reaches: itself, and what the path its link names reaches.
LEMMA ReachesStep ==
    ASSUME NEW path, NEW n \in Nat
    PROVE  Reaches(path, n) =
              {path} \cup IF n > 0 /\ IsLink(path)
                         THEN Reaches(TokenizeSymlink(path), n - 1) ELSE {}
<1> DEFINE to == TokenizeSymlink(path)
           L == DOMAIN Links
<1>1. ASSUME NEW k \in 1..n, NEW way \in Hops(path, k)
      PROVE  /\ n > 0 /\ IsLink(path) /\ Len(way) = k
             /\ TokenizeSymlink(way[Len(way)]) \in Reaches(to, n - 1)
  <2>1. /\ way \in [1..k -> L] /\ way[1] = path
        /\ \A i \in 1..k-1 : way[i + 1] = TokenizeSymlink(way[i])
    BY DEF Hops
  <2>2. Len(way) = k
    BY <2>1
  <2>3. n > 0 /\ IsLink(path)
    BY <2>1 DEF IsLink
  <2>4. CASE k = 1
    <3>1. way[Len(way)] = path
      BY <2>1, <2>2, <2>4
    <3> HIDE DEF to
    <3> QED BY <2>2, <2>3, <3>1, ReachesBy DEF to
  <2>5. CASE k > 1
    <3> DEFINE rest == [i \in 1..k-1 |-> way[i + 1]]
    <3>1. rest \in [1..k-1 -> L]
      BY <2>1, <2>5
    <3>2. rest[1] = to
      BY <2>1, <2>5
    <3>3. ASSUME NEW i \in 1..(k-1)-1 PROVE rest[i + 1] = TokenizeSymlink(rest[i])
      <4>1. i \in 1..k-1 /\ i + 1 \in 1..k-1
        BY <2>5
      <4>2. rest[i] = way[i + 1] /\ rest[i + 1] = way[(i + 1) + 1]
        BY <4>1
      <4> HIDE DEF rest
      <4> QED BY <4>1, <4>2, <2>1
    <3>4. rest[k - 1] = way[k]
      BY <2>5
    <3>5. rest \in Hops(to, k - 1) /\ Len(rest) = k - 1 /\ k - 1 \in 1..n-1
      <4>1. Len(rest) = k - 1 /\ k - 1 \in 1..n-1
        BY <3>1, <2>5
      <4> HIDE DEF rest, to
      <4> QED BY <3>1, <3>2, <3>3, <4>1 DEF Hops
    <3> HIDE DEF rest, to
    <3> QED BY <2>2, <2>3, <3>4, <3>5, ReachesBy
  <2> QED BY <2>2, <2>3, <2>4, <2>5
<1>2. ASSUME n > 0, IsLink(path), NEW k \in 1..n-1, NEW way \in Hops(to, k)
      PROVE  TokenizeSymlink(way[Len(way)]) \in Reaches(path, n)
  <2>1. /\ way \in [1..k -> L] /\ way[1] = to
        /\ \A i \in 1..k-1 : way[i + 1] = TokenizeSymlink(way[i])
    BY DEF Hops
  <2>2. Len(way) = k
    BY <2>1
  <2> DEFINE all == [i \in 1..k+1 |-> IF i = 1 THEN path ELSE way[i - 1]]
  <2>3. all \in [1..k+1 -> L]
    BY <1>2, <2>1 DEF IsLink
  <2>4. all[1] = path /\ all[k + 1] = way[k]
    OBVIOUS
  <2>5. ASSUME NEW i \in 1..(k+1)-1 PROVE all[i + 1] = TokenizeSymlink(all[i])
    <3>1. i + 1 \in 1..k+1 /\ all[i + 1] = way[i]
      OBVIOUS
    <3>2. CASE i = 1
      BY <2>1, <2>4, <3>1, <3>2
    <3>3. CASE i # 1
      <4>1. all[i] = way[i - 1] /\ i - 1 \in 1..k-1 /\ (i - 1) + 1 = i
        BY <3>3
      <4> HIDE DEF all
      <4> QED BY <4>1, <3>1, <2>1
    <3> QED BY <3>2, <3>3
  <2>6. all \in Hops(path, k + 1) /\ Len(all) = k + 1 /\ k + 1 \in 1..n
    <3>1. Len(all) = k + 1 /\ k + 1 \in 1..n
      BY <2>3, <1>2
    <3> HIDE DEF all
    <3> QED BY <2>3, <2>4, <2>5, <3>1 DEF Hops
  <2> HIDE DEF all
  <2> QED BY <2>2, <2>4, <2>6, ReachesBy
<1>3. ASSUME n > 0, IsLink(path) PROVE to \in Reaches(path, n)
  <2> DEFINE one == [i \in 1..1 |-> path]
  <2>1. one \in [1..1 -> L] /\ one[1] = path /\ Len(one) = 1 /\ 1 \in 1..n
    BY <1>3 DEF IsLink
  <2> HIDE DEF one
  <2>2. one \in Hops(path, 1)
    BY <2>1 DEF Hops
  <2> QED BY <2>1, <2>2, ReachesBy
<1>4. Reaches(path, n) \subseteq
          {path} \cup IF n > 0 /\ IsLink(path) THEN Reaches(to, n - 1) ELSE {}
  <2> SUFFICES ASSUME NEW x \in Reaches(path, n), x # path
               PROVE  n > 0 /\ IsLink(path) /\ x \in Reaches(to, n - 1)
    OBVIOUS
  <2> HIDE DEF to
  <2>1. PICK k \in 1..n : \E way \in Hops(path, k) : x = TokenizeSymlink(way[Len(way)])
    BY ReachesBy
  <2> QED BY <1>1, <2>1
<1>5. ASSUME n > 0, IsLink(path) PROVE Reaches(to, n - 1) \subseteq Reaches(path, n)
  <2> SUFFICES ASSUME NEW x \in Reaches(to, n - 1), x # to PROVE x \in Reaches(path, n)
    BY <1>3, <1>5
  <2> HIDE DEF to
  <2>1. PICK k \in 1..n-1 : \E way \in Hops(to, k) : x = TokenizeSymlink(way[Len(way)])
    BY ReachesBy
  <2> QED BY <1>2, <1>5, <2>1
<1>6. path \in Reaches(path, n)
  BY ReachesBy
<1> HIDE DEF to
<1>7. Reaches(path, n) = {path} \cup IF n > 0 /\ IsLink(path) THEN Reaches(to, n - 1) ELSE {}
  BY <1>4, <1>5, <1>6
<1> QED BY <1>7 DEF to

\* Raw paths become paths, and so do links.
LEMMA PathsArePaths ==
    /\ \A do \in Calls : \A i \in 1..Len(do.paths) : Tokenize(<<>>, do.paths[i]) \in Path
    /\ \A path \in DOMAIN Links : TokenizeSymlink(path) \in Path
    /\ None \notin Path
<1>1. \A x : x \in Path <=> \/ \E do \in Calls : x \in Starts(do)
                            \/ \E path \in DOMAIN Links : x = TokenizeSymlink(path)
  <2> DEFINE A == UNION {Starts(do) : do \in Calls}
             B == {TokenizeSymlink(path) : path \in DOMAIN Links}
  <2>1. \A x : x \in A <=> \E do \in Calls : x \in Starts(do)
    OBVIOUS
  <2>2. \A x : x \in B <=> \E path \in DOMAIN Links : x = TokenizeSymlink(path)
    OBVIOUS
  <2>3. Path = A \cup B
    BY DEF Path
  <2> HIDE DEF A, B
  <2>4. ASSUME NEW x
        PROVE  x \in Path <=> \/ \E do \in Calls : x \in Starts(do)
                             \/ \E path \in DOMAIN Links : x = TokenizeSymlink(path)
    <3>1. x \in Path <=> x \in A \/ x \in B
      BY <2>3
    <3>2. (x \in A <=> \E do \in Calls : x \in Starts(do))
          /\ (x \in B <=> \E path \in DOMAIN Links : x = TokenizeSymlink(path))
      BY <2>1, <2>2
    <3> QED BY ONLY <3>1, <3>2
  <2> QED BY <2>4
<1>2. \A do, x : x \in Starts(do) <=> \E i \in 1..Len(do.paths) : x = Tokenize(<<>>, do.paths[i])
  BY DEF Starts
<1>3. \A do \in Calls : \A i \in 1..Len(do.paths) :
          /\ Tokenize(<<>>, do.paths[i]) \in Path
          /\ Tokenize(<<>>, do.paths[i]) # None
  BY <1>1, <1>2, CallsAssumption
<1>4. \A path \in DOMAIN Links : TokenizeSymlink(path) \in Path /\ TokenizeSymlink(path) # None
  <2> SUFFICES ASSUME NEW path \in DOMAIN Links
               PROVE  TokenizeSymlink(path) \in Path /\ TokenizeSymlink(path) # None
    OBVIOUS
  <2>1. \E p \in DOMAIN Links : TokenizeSymlink(path) = TokenizeSymlink(p)
    OBVIOUS
  <2> QED BY <1>1, <2>1, ClientAssumption
<1>5. None \notin Path
  BY <1>1, <1>2, <1>3, <1>4
<1> QED BY <1>3, <1>4, <1>5

\* The number of links that are followed is a number.
LEMMA LinksCounted == \A do \in Calls : LinksOf(do.op) \in Nat /\ Len(do.paths) \in Nat
BY ClientAssumption, CallsAssumption DEF LinksOf

\* A verdict that is right for the current path keeps the call's verdict right.
LEMMA Decided ==
    ASSUME NEW call \in Call, NEW s, NEW map, NEW ok \in BOOLEAN,
           call.path # None, call.next \in 1..Len(call.do.paths),
           call.links <= LinksOf(call.do.op), Judged(call, s, map),
           ~GoesOn(call.do.op) => (ok <=> Seen(s, map, call.do.op, call.path))
    PROVE  LET d == Decide(call, ok) IN
           d \in Call /\ d.at = "check" /\ d.do = call.do /\ InOrder(d, s, map)
<1> DEFINE op == call.do.op
           last == Len(call.do.paths)
           Visible(path) == Seen(s, map, op, path)
           W == Way(call.do, call.next)
           A == Ahead(call)
           goesOn == ok /\ "follow" \in op.flags /\ call.links < MaxLinks /\ IsLink(call.path)
<1>0. /\ call.do \in Calls /\ call.path \in Path /\ call.links \in Nat /\ call.next \in Nat
      /\ last \in Nat /\ LinksOf(op) \in Nat /\ call.ok \in BOOLEAN
  BY LinksCounted DEF Call
<1>1. A = {call.path} \cup IF LinksOf(op) - call.links > 0 /\ IsLink(call.path)
                           THEN Reaches(TokenizeSymlink(call.path), (LinksOf(op) - call.links) - 1)
                           ELSE {}
  <2>1. LinksOf(op) - call.links \in Nat
    BY <1>0
  <2> QED BY <2>1, ReachesStep DEF Ahead
<1>2. ~GoesOn(op) =>
          /\ call.ok
          /\ \A i \in 1..call.next - 1 : \A path \in Way(call.do, i) : Visible(path)
          /\ A \subseteq W
          /\ \A path \in W \ A : Visible(path)
  BY DEF Judged
<1>3. CASE goesOn
  <2> DEFINE d == [call EXCEPT !.at = "check", !.msg = None, !.links = @ + 1,
                               !.path = TokenizeSymlink(call.path)]
  <2>1. Decide(call, ok) = d
    BY <1>3 DEF Decide
  <2>2. /\ d \in Call /\ d.at = "check" /\ d.do = call.do /\ d.next = call.next /\ d.ok = call.ok
        /\ d.links = call.links + 1 /\ d.path = TokenizeSymlink(call.path) /\ d.path # None
    <3>1. TokenizeSymlink(call.path) \in Path /\ TokenizeSymlink(call.path) # None
      BY <1>3, PathsArePaths DEF IsLink
    <3>2. call.links + 1 \in Nat
      BY <1>0
    <3> DEFINE links == call.links + 1
               path == TokenizeSymlink(call.path)
    <3>3. d = [call EXCEPT !.at = "check", !.msg = None, !.links = links, !.path = path]
      OBVIOUS
    <3>4. links \in Nat /\ path \in Path
      BY <3>1, <3>2
    <3> HIDE DEF links, path, d
    <3>5. /\ d \in Call /\ d.at = "check" /\ d.do = call.do /\ d.next = call.next
          /\ d.ok = call.ok /\ d.links = links /\ d.path = path
      BY <3>3, <3>4 DEF Call, Stages
    <3> QED BY <3>1, <3>5 DEF links, path
  <2> HIDE DEF d
  <2>3. d.links <= LinksOf(op) /\ LinksOf(op) - call.links > 0
        /\ (LinksOf(op) - call.links) - 1 = LinksOf(op) - d.links
    BY <1>0, <1>3, <2>2, ClientAssumption DEF LinksOf
  <2>4. A = {call.path} \cup Ahead(d)
    BY <1>1, <1>3, <2>2, <2>3 DEF Ahead
  <2>5. Judged(d, s, map)
    <3> SUFFICES ASSUME ~GoesOn(op)
                 PROVE  /\ d.ok
                        /\ \A i \in 1..d.next - 1 : \A path \in Way(d.do, i) : Visible(path)
                        /\ Ahead(d) \subseteq Way(d.do, d.next)
                        /\ \A path \in Way(d.do, d.next) \ Ahead(d) : Visible(path)
      BY <2>2 DEF Judged
    <3>1. Visible(call.path)
      BY <1>3
    <3> HIDE DEF A, W, Visible, op
    <3>2. Way(d.do, d.next) = W
      BY <2>2 DEF W
    <3>3. \A path \in W \ Ahead(d) : Visible(path)
      BY <2>4, <3>1, <1>2
    <3>4. \A i \in 1..d.next - 1 : \A path \in Way(d.do, i) : Visible(path)
      BY <1>2, <2>2
    <3>5. d.ok /\ Ahead(d) \subseteq W
      BY <2>4, <1>2, <2>2
    <3> QED BY <3>2, <3>3, <3>4, <3>5
  <2>6. ~AsksMap(<<d>>) /\ ~Asking(<<d>>)
    BY <2>2 DEF AsksMap, Asking
  <2> QED BY <1>0, <2>1, <2>2, <2>3, <2>5, <2>6 DEF InOrder
<1>4. CASE ~goesOn
  <2> DEFINE d == [call EXCEPT !.at = "check", !.msg = None, !.links = 0, !.path = None,
                               !.ok = ok, !.next = After(call, ok)]
  <2>1. Decide(call, ok) = d
    BY <1>4 DEF Decide
  <2>2. /\ After(call, ok) \in 1..last + 1
        /\ After(call, ok) = IF ok \/ GoesOn(op) THEN call.next + 1 ELSE last + 1
    BY <1>0 DEF After
  <2>3. /\ d \in Call /\ d.at = "check" /\ d.do = call.do /\ d.next = After(call, ok) /\ d.ok = ok
        /\ d.links = 0 /\ d.path = None
    <3> DEFINE next == After(call, ok)
    <3>1. d = [call EXCEPT !.at = "check", !.msg = None, !.links = 0, !.path = None,
                           !.ok = ok, !.next = next]
      OBVIOUS
    <3>2. next \in Nat
      BY <1>0, <2>2
    <3> HIDE DEF next, d
    <3>3. /\ d \in Call /\ d.at = "check" /\ d.do = call.do /\ d.next = next
          /\ d.ok = ok /\ d.links = 0 /\ d.path = None
      BY <3>1, <3>2 DEF Call, Stages
    <3> QED BY <3>3 DEF next
  <2> HIDE DEF d
  <2>4. Judged(d, s, map)
    <3> SUFFICES ASSUME ~GoesOn(op)
                 PROVE  /\ ok => \A i \in 1..d.next - 1 : \A path \in Way(d.do, i) : Visible(path)
                        /\ ~ok => /\ d.next = last + 1
                                  /\ \E i \in 1..last : \E path \in Way(d.do, i) : ~Visible(path)
      BY <2>3 DEF Judged
    <3>1. ok <=> Visible(call.path)
      OBVIOUS
    <3>2. ok => A = {call.path}
      BY <1>0, <1>1, <1>4, ClientAssumption DEF LinksOf
    <3> HIDE DEF A, W, Visible, op
    <3>3. call.path \in W
      BY <1>1, <1>2
    <3>4. ASSUME ok, NEW i \in 1..d.next - 1, NEW path \in Way(call.do, i) PROVE Visible(path)
      <4>1. i \in 1..call.next - 1 \/ i = call.next
        BY <3>4, <1>0, <2>2, <2>3
      <4>2. CASE i = call.next
        BY <4>2, <1>2, <3>1, <3>2, <3>4 DEF W
      <4> QED BY <4>1, <4>2, <1>2
    <3> QED BY <3>1, <3>3, <3>4, <2>2, <2>3 DEF W
  <2>5. ~AsksMap(<<d>>) /\ ~Asking(<<d>>)
    BY <2>3 DEF AsksMap, Asking
  <2> QED BY <1>0, <2>1, <2>2, <2>3, <2>4, <2>5 DEF InOrder
<1> QED BY <1>3, <1>4

\* A call that is checking a path, rightly so far.
Checking(call, s, map) ==
    /\ call \in Call /\ call.path # None /\ call.next \in 1..Len(call.do.paths)
    /\ call.links <= LinksOf(call.do.op) /\ Judged(call, s, map)

\* A message makes a call speak and leaves its verdict alone.
LEMMA Spoken ==
    ASSUME NEW call \in Call, NEW msg \in Msg
    PROVE  LET d == Speak(call, msg) IN
           /\ d \in Call /\ d.at = "len" /\ d.msg = msg /\ d.do = call.do /\ d.next = call.next
           /\ d.ok = call.ok /\ d.links = call.links /\ d.path = call.path
           /\ \A s, map : Judged(d, s, map) = Judged(call, s, map)
<1> DEFINE d == Speak(call, msg)
<1>1. /\ d \in Call /\ d.at = "len" /\ d.msg = msg /\ d.do = call.do /\ d.next = call.next
      /\ d.ok = call.ok /\ d.links = call.links /\ d.path = call.path
  BY DEF Speak, Call, Stages
<1> HIDE DEF d
<1>2. Ahead(d) = Ahead(call)
  BY <1>1 DEF Ahead
<1>3. \A s, map : Judged(d, s, map) = Judged(call, s, map)
  BY <1>1, <1>2 DEF Judged
<1> QED BY <1>1, <1>3 DEF d

\* A question about the path that is checked.
LEMMA Questioned ==
    ASSUME NEW call, NEW s, NEW map, Checking(call, s, map), map \in Maps,
           NEW t \in Threads, NEW op \in {"dep_check", "sandbox_violation", "sandbox_unknown"},
           op = "dep_check" => /\ call.path \notin Dirs /\ Exists(call.path)
                               /\ map = "fence" /\ Command(FileMap, call.path) = "ask",
           op = "sandbox_violation" => ~Seen(s, map, call.do.op, call.path),
           op = "sandbox_unknown" => Seen(s, map, call.do.op, call.path)
    PROVE  LET d == Speak(call, Message(op, t, call.path)) IN
           d \in Call /\ d.at = "len" /\ d.do = call.do /\ InOrder(d, s, map) /\ ~AsksMap(<<d>>)
<1> DEFINE msg == Message(op, t, call.path)
           d == Speak(call, msg)
<1>0. call \in Call /\ call.path \in Path /\ call.do \in Calls /\ Len(call.do.paths) \in Nat
      /\ call.next \in 1..Len(call.do.paths)
  BY LinksCounted DEF Checking, Call
<1>1. msg \in Msg /\ msg.op = op /\ msg.path = call.path
  BY <1>0 DEF Message, Msg
<1> HIDE DEF msg
<1>2. /\ d \in Call /\ d.at = "len" /\ d.msg = msg /\ d.do = call.do /\ d.next = call.next
      /\ d.ok = call.ok /\ d.links = call.links /\ d.path = call.path
      /\ Judged(d, s, map) = Judged(call, s, map)
  BY <1>0, <1>1, Spoken
<1> HIDE DEF d
<1>3. Question(d, s, map)
  BY <1>1, <1>2 DEF Question, Checking, Maps
<1>4. ~AsksMap(<<d>>)
  <2>1. op # "filemap"
    OBVIOUS
  <2> QED BY <1>1, <1>2, <2>1 DEF AsksMap
<1>5. InOrder(d, s, map)
  BY <1>0, <1>2, <1>3, <1>4 DEF InOrder, Checking
<1> QED BY <1>2, <1>4, <1>5 DEF d, msg

\* The check of a path decides what the sandbox says, or asks what it does not say.
LEMMA Checked ==
    ASSUME NEW call, NEW s, NEW map, Checking(call, s, map), map \in Maps, NEW t \in Threads
    PROVE  LET d == Check(call, t, map) IN
           /\ d \in Call /\ d.at \in {"check", "len"} /\ d.do = call.do
           /\ InOrder(d, s, map) /\ ~AsksMap(<<d>>)
<1> DEFINE op == call.do.op
           flags == op.flags
           isDir == call.path \in Dirs
           command == IF map = "fence" THEN Command(FileMap, call.path) ELSE "allow"
           d == Check(call, t, map)
           sees == Seen(s, map, op, call.path)
           Done == /\ d \in Call /\ d.at \in {"check", "len"} /\ d.do = call.do
                   /\ InOrder(d, s, map) /\ ~AsksMap(<<d>>)
<1>0. map = "all" \/ map = "fence"
  BY DEF Maps
<1>a. ASSUME NEW ok \in BOOLEAN, ok <=> sees, d = Decide(call, ok) PROVE Done
  <2>1. d \in Call /\ d.at = "check" /\ d.do = call.do /\ InOrder(d, s, map)
    <3> HIDE DEF d
    <3> QED BY <1>a, Decided DEF Checking
  <2> QED BY <2>1 DEF AsksMap, Asking
<1>1. CASE command = "allow" \/ ("allowdir" \in flags /\ isDir)
  <2>1. d = Decide(call, TRUE)
    BY <1>1 DEF Check
  <2>2. sees
    BY <1>0, <1>1 DEF Seen
  <2> QED BY <1>a, <2>1, <2>2
<1>2. CASE ~(command = "allow" \/ ("allowdir" \in flags /\ isDir)) /\ command = "ask"
  <2>0. map = "fence" /\ Command(FileMap, call.path) = "ask"
    BY <1>0, <1>2
  <2>1. CASE isDir \/ ~Exists(call.path)
    <3>1. d = Decide(call, TRUE)
      BY <1>2, <2>1 DEF Check
    <3>2. sees
      BY <2>0, <2>1 DEF Seen
    <3> QED BY <1>a, <3>1, <3>2
  <2>2. CASE ~(isDir \/ ~Exists(call.path))
    <3>1. d = Speak(call, Message("dep_check", t, call.path))
      BY <1>2, <2>2 DEF Check
    <3>2. /\ d \in Call /\ d.at = "len" /\ d.do = call.do /\ InOrder(d, s, map) /\ ~AsksMap(<<d>>)
      <4> HIDE DEF d
      <4> QED BY <2>0, <2>2, <3>1, Questioned
    <3> QED BY <3>2
  <2> QED BY <2>1, <2>2
<1>3. CASE ~(command = "allow" \/ ("allowdir" \in flags /\ isDir)) /\ command # "ask"
  <2>0. ~sees
    BY <1>0, <1>3 DEF Seen
  <2>1. CASE "report" \in flags
    <3>1. d = Speak(call, Message("sandbox_violation", t, call.path))
      BY <1>3, <2>1 DEF Check
    <3>2. /\ d \in Call /\ d.at = "len" /\ d.do = call.do /\ InOrder(d, s, map) /\ ~AsksMap(<<d>>)
      <4> HIDE DEF d
      <4> QED BY <2>0, <3>1, Questioned
    <3> QED BY <3>2
  <2>2. CASE "report" \notin flags
    <3>1. d = Decide(call, FALSE)
      BY <1>3, <2>2 DEF Check
    <3> QED BY <1>a, <3>1, <2>0
  <2> QED BY <2>1, <2>2
<1> QED BY <1>1, <1>2, <1>3

\* A call that has asked is checking a path.
LEMMA AskerChecks ==
    ASSUME NEW call \in Call, NEW s, NEW map, InOrder(call, s, map),
           call.at \in {"len", "body", "wait"}, call.msg.op # "filemap"
    PROVE  Checking(call, s, map) /\ Question(call, s, map)
<1>1. Asking(<<call>>)
  BY DEF Asking
<1>2. call.do \in Calls /\ Len(call.do.paths) \in Nat /\ call.next \in Nat
  BY LinksCounted DEF Call
<1> QED BY <1>1, <1>2 DEF InOrder, Checking, Question

\* The answer to a dep_check is taken for what it means.
LEMMA AnswerTaken ==
    ASSUME NEW call \in Call, NEW s, NEW map \in Maps, InOrder(call, s, map), NEW t \in Threads,
           call.at = "wait", call.msg.op = "dep_check", NEW val, val = RightAnswer(call.msg, s)
    PROVE  LET d == Answer(call, t, val) IN
           /\ d \in Call /\ d.at \in {"check", "len"} /\ d.do = call.do
           /\ InOrder(d, s, map) /\ ~AsksMap(<<d>>)
<1> DEFINE op == call.do.op
           d == Answer(call, t, val)
           sees == Seen(s, map, op, call.path)
           Done == /\ d \in Call /\ d.at \in {"check", "len"} /\ d.do = call.do
                   /\ InOrder(d, s, map) /\ ~AsksMap(<<d>>)
<1>0. Checking(call, s, map) /\ Question(call, s, map)
  BY AskerChecks
<1>1. RightAnswer([path |-> call.path], s) = val
  BY <1>0 DEF Question, RightAnswer
<1>2. val \in {"+", "!", "?"}
  BY DEF RightAnswer
<1>3. ~("allowdir" \in op.flags /\ call.path \in Dirs) /\ map = "fence"
      /\ Command(FileMap, call.path) = "ask" /\ call.path \notin Dirs /\ Exists(call.path)
  BY <1>0 DEF Question
<1>4. sees <=> val # "!"
  BY <1>1, <1>3 DEF Seen
<1>a. ASSUME NEW ok \in BOOLEAN, ok <=> sees, d = Decide(call, ok) PROVE Done
  <2>1. d \in Call /\ d.at = "check" /\ d.do = call.do /\ InOrder(d, s, map)
    <3> HIDE DEF d
    <3> QED BY <1>0, <1>a, Decided DEF Checking
  <2> QED BY <2>1 DEF AsksMap, Asking
<1>b. ASSUME NEW what \in {"sandbox_violation", "sandbox_unknown"},
             what = "sandbox_violation" <=> ~sees, d = Speak(call, Message(what, t, call.path))
      PROVE  Done
  <2>1. /\ d \in Call /\ d.at = "len" /\ d.do = call.do /\ InOrder(d, s, map) /\ ~AsksMap(<<d>>)
    <3> HIDE DEF d
    <3> QED BY <1>0, <1>b, Questioned, ZenonT(30)
  <2> QED BY <2>1
<1>5. CASE val = "+"
  <2>1. d = Decide(call, TRUE)
    BY <1>5 DEF Answer
  <2> QED BY <1>4, <1>5, <1>a, <2>1
<1>6. CASE val = "?"
  <2>1. d = Decide(call, TRUE) \/ d = Speak(call, Message("sandbox_unknown", t, call.path))
    BY <1>6 DEF Answer
  <2>2. sees
    BY <1>4, <1>6
  <2> HIDE DEF sees, d, Done
  <2>3. d = Decide(call, TRUE) => Done
    BY <1>a, <2>2
  <2>4. d = Speak(call, Message("sandbox_unknown", t, call.path)) => Done
    BY <1>b, <2>2
  <2> QED BY <2>1, <2>3, <2>4 DEF Done, d
<1>7. CASE val = "!"
  <2>1. d = Decide(call, FALSE) \/ d = Speak(call, Message("sandbox_violation", t, call.path))
    BY <1>7 DEF Answer
  <2>2. ~sees
    BY <1>4, <1>7
  <2> HIDE DEF sees, d, Done
  <2>3. d = Decide(call, FALSE) => Done
    BY <1>a, <2>2
  <2>4. d = Speak(call, Message("sandbox_violation", t, call.path)) => Done
    BY <1>b, <2>2
  <2> QED BY <2>1, <2>3, <2>4 DEF Done, d
<1> QED BY <1>2, <1>5, <1>6, <1>7

-----------------------------------------------------------------------------
(* What a step leaves alone.                                               *)

\* A connection seen by a process that keeps its descriptor.
ConnKept(old, new, p) ==
    /\ new.fds[p] # "no" /\ new.stage # "none"
    /\ new.peer = old.peer /\ new.session = old.session

\* What is in flight on it stays, or the server closes it.
LineKept(old, new) ==
    /\ new.rep = old.rep
    /\ \/ new.req = old.req /\ (old.stage # "closed" \/ new.stage = "closed")
       \/ new.stage = "closed" /\ new.req = <<>>

Holding(old, new, p) ==
    old.fds[p] # "no" /\ old.stage # "none" => ConnKept(old, new, p) /\ LineKept(old, new)

\* A thread is a thread of its process.
LEMMA ThreadsAre == \A u \in Threads : u[1] \in Procs /\ u = <<u[1], u[2]>>
BY ClientAssumption

\* What a thread has sent and awaits is there while the line is kept.
LEMMA LinedKept ==
    ASSUME NEW stack, NEW old \in Conn, NEW new \in Conn, LineKept(old, new), Lined(stack, old)
    PROVE  Lined(stack, new)
<1>1. new.rep = old.rep
  BY DEF LineKept
<1>2. CASE new.req = old.req /\ (old.stage # "closed" \/ new.stage = "closed")
  BY <1>1, <1>2 DEF Lined, Quiet, Sent, Awaits
<1>3. CASE new.stage = "closed" /\ new.req = <<>>
  <2>1. Asked(new.req) = {} /\ ~Half(new.req)
    BY <1>3 DEF Asked, Half
  <2> QED BY <1>1, <1>3, <2>1 DEF Lined, Quiet, Sent, Awaits
<1> QED BY <1>2, <1>3 DEF LineKept

\* The call of a thread whose process has no file map has not begun its checks.
LEMMA NoMapFresh ==
    ASSUME NEW u \in Threads, ClientTypes, ThreadOK(u), thr[u].stack # <<>>,
           procs[u[1]].map = "none"
    PROVE  \A s, map : InOrder(Head(thr[u].stack), s, map)
<1> DEFINE call == Head(thr[u].stack)
<1>1. thr[u] \in Thread /\ thr[u].stack \in Seq(Call) /\ Len(thr[u].stack) <= 1
  BY DEF ClientTypes, ThreadOK, Threaded, Thread
<1>2. /\ thr[u].stack = <<thr[u].stack[1]>> /\ Head(thr[u].stack) = thr[u].stack[1]
      /\ thr[u].stack[1] \in Call
  BY <1>1, OneElement
<1>2a. thr[u].stack = <<call>> /\ call \in Call
  BY <1>2
<1>3. InOrder(call, procs[u[1]].fifo, procs[u[1]].map)
  BY DEF ThreadOK, CallOK
<1>4. call.at = "setup" \/ AsksMap(<<call>>)
  <2>1. thr[u].live
    BY DEF ThreadOK, Threaded, NoThread
  <2>2. call.at # "setup" => thr[u].sock # None
    BY <2>1 DEF ThreadOK, Speaks, Speaking, InCall, Top, Own
  <2> HIDE DEF call
  <2> QED BY <1>2a, <2>2 DEF ThreadOK, KnowsMap
<1>5. Fresh(call)
  BY <1>3, <1>4 DEF InOrder
<1> HIDE DEF call
<1>6. ASSUME NEW s, NEW map PROVE InOrder(call, s, map)
  <2>1. Judged(call, s, map)
    BY <1>5 DEF Fresh, Judged
  <2>2. Asking(<<call>>) => Question(call, s, map)
    <3>1. Asking(<<call>>) => call.msg \in Msg
      BY <1>3 DEF InOrder, Question
    <3>2. Asking(<<call>>) => call.msg.op = "filemap"
      <4>1. Head(<<call>>) = call
        OBVIOUS
      <4> QED BY <1>4, <4>1 DEF Asking, AsksMap
    <3> QED BY <3>1, <3>2 DEF Question
  <2> QED BY <1>3, <2>1, <2>2 DEF InOrder
<1> QED BY <1>6 DEF call

\* The connection of a thread is kept, and what is in flight on it if it is its own.
Held(u) ==
    LET c == thr[u].sock
    IN  conns[c].fds[u[1]] # "no" /\ conns[c].stage # "none" =>
            /\ ConnKept(conns[c], conns'[c], u[1])
            /\ Own(u) => LineKept(conns[c], conns'[c])

\* A thread that does nothing stays right while its process lives on and its
\* connection is kept; its process may get its file map, and connect another thread.
LEMMA ThreadHeld ==
    ASSUME ClientTypes, ClientTypes', NEW u \in Threads, ThreadOK(u), thr'[u] = thr[u],
           thr[u].live => /\ procs'[u[1]].state = procs[u[1]].state
                          /\ procs'[u[1]].fifo = procs[u[1]].fifo
                          /\ procs'[u[1]].map = procs[u[1]].map \/ procs[u[1]].map = "none",
           thr[u].sock # None => /\ procs'[u[1]].dtpid = procs[u[1]].dtpid
                                 /\ Held(u)
    PROVE  /\ Threaded(u)' /\ Holds(u)' /\ Speaks(u)'
           /\ (procs'[u[1]].map = "none" => procs[u[1]].map = "none") => KnowsMap(u)'
           /\ InLine(u)' /\ CallOK(u)'
<1> DEFINE p == u[1]
           c == thr[u].sock
<1>0. Threaded(u) /\ Holds(u) /\ Speaks(u) /\ KnowsMap(u) /\ InLine(u) /\ CallOK(u) /\ p \in Procs
  BY ThreadsAre DEF ThreadOK
<1>1. Threaded(u)'
  BY <1>0 DEF Threaded, Alive
<1>2. Own(u)' <=> Own(u)
  BY DEF Own
<1>3. c # None => /\ c \in Conns /\ conns[c] \in Conn /\ conns'[c] \in Conn
                  /\ conns[c].fds[p] # "no" /\ conns[c].stage # "none"
                  /\ ConnKept(conns[c], conns'[c], p)
                  /\ Own(u) => LineKept(conns[c], conns'[c])
  BY <1>0 DEF ClientTypes, Thread, Holds, Held
<1>3a. c # None => thr[u].live
  BY <1>0 DEF Threaded, NoThread
<1>4. Holds(u)'
  BY <1>0, <1>2, <1>3, <1>3a DEF Holds, ConnKept
<1>5. Speaks(u)'
  BY <1>0, <1>2 DEF Speaks, Speaking, InCall, Top
<1>6. (procs'[p].map = "none" => procs[p].map = "none") => KnowsMap(u)'
  BY <1>0 DEF KnowsMap
<1>7. InLine(u)'
  <2> SUFFICES ASSUME Own(u) PROVE Lined(thr[u].stack, conns'[c])
    BY <1>2 DEF InLine
  <2>1. c # None
    BY DEF Own
  <2>2. Lined(thr[u].stack, conns[c])
    BY <1>0 DEF InLine
  <2> QED BY <1>3, <2>1, <2>2, LinedKept
<1>8. CallOK(u)'
  <2> SUFFICES ASSUME thr[u].stack # <<>>
               PROVE  InOrder(Head(thr[u].stack), procs'[p].fifo, procs'[p].map)
    BY DEF CallOK
  <2>1. thr[u].live
    BY <1>0 DEF Threaded, NoThread
  <2>2. CASE procs'[p].map = procs[p].map
    BY <1>0, <2>1, <2>2 DEF CallOK
  <2>3. CASE procs[p].map = "none"
    BY <2>3, NoMapFresh
  <2> QED BY <2>1, <2>2, <2>3
<1> QED BY <1>1, <1>4, <1>5, <1>6, <1>7, <1>8

\* The same when nothing happens to its connection but that the server closes it.
LEMMA ThreadKept ==
    ASSUME ClientTypes, ClientTypes', NEW u \in Threads, ThreadOK(u), thr'[u] = thr[u],
           thr[u].live => /\ procs'[u[1]].state = procs[u[1]].state
                          /\ procs'[u[1]].fifo = procs[u[1]].fifo
                          /\ procs'[u[1]].map = procs[u[1]].map \/ procs[u[1]].map = "none",
           thr[u].sock # None => /\ procs'[u[1]].dtpid = procs[u[1]].dtpid
                                 /\ Holding(conns[thr[u].sock], conns'[thr[u].sock], u[1])
    PROVE  /\ Threaded(u)' /\ Holds(u)' /\ Speaks(u)'
           /\ (procs'[u[1]].map = "none" => procs[u[1]].map = "none") => KnowsMap(u)'
           /\ InLine(u)' /\ CallOK(u)'
<1>1. thr[u].sock # None => Held(u)
  BY DEF Held, Holding
<1> QED BY <1>1, ThreadHeld

\* Where there is no thread there is nothing to be right about.
LEMMA NoThreadOK ==
    ASSUME NEW u \in Threads, thr'[u] = NoThread
    PROVE  ThreadOK(u)'
<1>1. ~thr'[u].live /\ thr'[u].sock = None /\ thr'[u].stack = <<>>
  BY DEF NoThread
<1>2. Len(thr'[u].stack) <= 1
  BY <1>1
<1> QED BY <1>1, <1>2 DEF ThreadOK, Threaded, Holds, Separate, Speaks, Speaking, InCall, KnowsMap,
             InLine, CallOK, Own

\* Threads stay apart while their process starts none and connects none.
LEMMA SeparateKept ==
    ASSUME ClientTypes, NEW u \in Threads, ThreadOK(u),
           \A v \in Threads : v[1] = u[1] =>
               /\ thr'[v].live => thr[v].live
               /\ thr'[v].sock = thr[v].sock \/ thr'[v].sock = None,
           procs'[u[1]].dtpid \in {procs[u[1]].dtpid, None},
           thr'[u].stack # <<>> => /\ thr[u].stack # <<>>
                                   /\ Head(thr'[u].stack).do = Head(thr[u].stack).do
    PROVE  Separate(u)'
<1>0. u[1] # None
  BY ThreadsAre, ClientAssumption
<1>1. Own(u)' => Own(u) /\ thr'[u].sock = thr[u].sock
  BY <1>0 DEF Own
<1>2. Own(u)' => \A v \in Threads : v # u /\ v[1] = u[1] => thr'[v].sock # thr'[u].sock
  BY <1>1 DEF Own, ThreadOK, Separate
<1>3. Alone(u) => Alone(u)'
  BY DEF Alone
<1>4. Stale(u[1])' => Stale(u[1])
  BY DEF Stale
<1>5. InCall(u)' /\ Top(u)'.do.op = ExecveCall => InCall(u) /\ Top(u).do.op = ExecveCall
  BY DEF InCall, Top
<1> QED BY <1>2, <1>3, <1>4, <1>5 DEF ThreadOK, Separate

-----------------------------------------------------------------------------
(* Connections that change.                                                *)

FdsOnly(old, new) ==
    /\ new.stage = old.stage /\ new.peer = old.peer /\ new.session = old.session
    /\ new.req = old.req /\ new.rep = old.rep

\* No connection is a connection in order.
LEMMA NoConnOK == NoConn \in Conn /\ Orderly(NoConn)
<1>1. NoConn \in Conn
  BY EmptySeq DEF NoConn, Conn
<1>2. Wire(<<>>) /\ Asked(<<>>) = {}
  BY DEF Wire, Asked
<1> QED BY <1>1, <1>2 DEF Orderly, NoConn

\* Order is about the ends of a connection, not about who holds it.
LEMMA FdsOrderly ==
    ASSUME NEW old, NEW new, FdsOnly(old, new), Orderly(old)
    PROVE  Orderly(new)
BY DEF FdsOnly, Orderly

\* Descriptors of a connection are closed: the others keep theirs, and what
\* nobody holds may vanish.
LEMMA Released ==
    ASSUME NEW old \in Conn, Orderly(old), NEW x \in Conn, FdsOnly(old, x)
    PROVE  LET new == Settle(x) IN
           /\ new \in Conn /\ Orderly(new)
           /\ FdsOnly(old, new) \/ (old.stage = "closed" /\ new = NoConn)
           /\ \A p \in Procs : x.fds[p] # "no" => new = x
<1>1. Orderly(x)
  BY FdsOrderly
<1>2. CASE Eof(x) /\ x.stage = "closed"
  <2>1. Settle(x) = NoConn
    BY <1>2 DEF Settle
  <2> QED BY <1>2, <2>1, NoConnOK DEF FdsOnly, Eof
<1>3. CASE ~(Eof(x) /\ x.stage = "closed")
  <2>1. Settle(x) = x
    BY <1>3 DEF Settle
  <2> QED BY <1>1, <2>1
<1> QED BY <1>2, <1>3

\* The server's end is closed.
LEMMA ShutOK ==
    ASSUME NEW old \in Conn, Orderly(old)
    PROVE  LET new == Settle([old EXCEPT !.stage = "closed", !.req = <<>>]) IN
           /\ new \in Conn /\ new.stage \in {"closed", "none"}
           /\ old.stage # "none" => Orderly(new)
           /\ \A p \in Procs : Holding(old, new, p) /\ (old.fds[p] # "no" => new.fds = old.fds)
<1> DEFINE x == [old EXCEPT !.stage = "closed", !.req = <<>>]
           new == Settle(x)
<1>1. /\ x \in Conn /\ x.stage = "closed" /\ x.req = <<>> /\ x.rep = old.rep /\ x.fds = old.fds
      /\ x.peer = old.peer /\ x.session = old.session
  BY EmptySeq DEF Conn
<1> HIDE DEF x
<1>2. Wire(<<>>) /\ Asked(<<>>) = {}
  BY DEF Wire, Asked
<1>3. old.stage # "none" => Orderly(x)
  BY <1>1, <1>2 DEF Orderly
<1>4. CASE Eof(x)
  <2>1. new = NoConn
    BY <1>1, <1>4 DEF Settle
  <2>2. \A p \in Procs : old.fds[p] = "no"
    BY <1>1, <1>4 DEF Eof
  <2> QED BY <2>1, <2>2, NoConnOK DEF NoConn, Holding, x
<1>5. CASE ~Eof(x)
  <2>1. new = x
    BY <1>5 DEF Settle
  <2>2. \A p \in Procs : Holding(old, x, p)
    BY <1>1 DEF Holding, ConnKept, LineKept
  <2> QED BY <1>1, <1>3, <2>1, <2>2 DEF x
<1> QED BY <1>4, <1>5

\* The server has read a message that wants no answer.
LEMMA NotedOK ==
    ASSUME NEW old \in Conn, Orderly(old), Whole(old.req), ~Answered(old.req[1][2]),
           NEW new \in Conn, new.req = SubSeq(old.req, 3, Len(old.req)),
           new.stage = old.stage, new.peer = old.peer, new.session = old.session,
           new.rep = old.rep, old.stage = "accepted"
    PROVE  Orderly(new) /\ \A stack : Lined(stack, old) => Lined(stack, new)
<1> DEFINE q == old.req
           r == new.req
<1>1. q \in Seq(Piece) /\ Wire(q) /\ \A i \in Asked(q) : i + 1 >= Len(q)
  BY DEF Conn, Piece, Orderly
<1>1a. r = SubSeq(q, 3, Len(q)) /\ Whole(q)
  OBVIOUS
<1> HIDE DEF r, q
<1>2. /\ Wire(r)
      /\ \A i \in Asked(r) : i + 1 >= Len(r) /\ i + 2 \in Asked(q) /\ r[i] = q[i + 2]
      /\ ~Half(q) => ~Half(r)
      /\ q[Len(q)][1] = "len" => Len(r) > 0 /\ r[Len(r)] = q[Len(q)] /\ Len(r) = Len(q) - 2
  BY ONLY <1>1, <1>1a, OneRead
<1>3. Orderly(new)
  BY <1>2 DEF Orderly, r, q
<1>4. ASSUME NEW msg, Sent(old, msg) PROVE Sent(new, msg)
  <2>1. q[Len(q)] = <<"len", msg>> /\ Asked(q) \subseteq {Len(q)}
    BY <1>4 DEF Sent, q
  <2>2. Len(r) > 0 /\ r[Len(r)] = <<"len", msg>> /\ Len(r) = Len(q) - 2
    BY <1>2, <2>1
  <2>3. Asked(r) \subseteq {Len(r)}
    <3> SUFFICES ASSUME NEW i \in Asked(r) PROVE i = Len(r)
      OBVIOUS
    <3>1. i + 2 = Len(q) /\ i \in Nat
      BY <1>2, <2>1, SMTT(30) DEF Asked
    <3>2. Len(q) \in Nat
      BY <1>1, EmptySeq
    <3> QED BY <3>1, <3>2, <2>2
  <2> QED BY <1>4, <2>2, <2>3 DEF Sent, r
<1>5. Quiet(old) => Quiet(new)
  BY <1>2 DEF Quiet, r, q
<1>6. ASSUME NEW msg, Awaits(old, msg) PROVE Awaits(new, msg)
  BY <1>2, <1>6 DEF Awaits, r, q
<1> QED BY <1>3, <1>4, <1>5, <1>6 DEF Lined

\* The server has read a message that wants an answer, and answers.
LEMMA RepliedOK ==
    ASSUME NEW old \in Conn, Orderly(old), Whole(old.req), Answered(old.req[1][2]),
           NEW new \in Conn, new.req = SubSeq(old.req, 3, Len(old.req)),
           new.stage = old.stage, new.peer = old.peer, new.session = old.session,
           NEW val, RightReply([msg |-> old.req[1][2], val |-> val], old.session),
           new.rep = Append(old.rep, [msg |-> old.req[1][2], val |-> val]),
           old.stage = "accepted"
    PROVE  Orderly(new) /\ \A stack : Lined(stack, old) => Lined(stack, new)
<1> DEFINE q == old.req
           rep == [msg |-> old.req[1][2], val |-> val]
<1>1. q \in Seq(Piece) /\ Wire(q) /\ \A i \in Asked(q) : i + 1 >= Len(q)
  BY DEF Conn, Piece, Orderly
<1>2. new.req = <<>> /\ 1 \in Asked(q)
  BY <1>1, OneRead
<1>3. old.rep = <<>>
  BY <1>2 DEF Orderly
<1>4. rep.msg = q[1][2]
  OBVIOUS
<1> HIDE DEF rep, q
<1>5. new.rep = <<rep>> /\ Len(new.rep) = 1 /\ new.rep[1] = rep
  BY <1>3 DEF rep
<1>6. Wire(<<>>) /\ Asked(<<>>) = {} /\ ~Half(<<>>)
  BY DEF Wire, Asked, Half
<1>7. Orderly(new)
  <2>1. RightReply(rep, new.session)
    BY DEF rep
  <2> QED BY <2>1, <1>2, <1>5, <1>6 DEF Orderly
<1>8. Len(q) >= 2 /\ Len(q) \in Nat
  BY <1>1, EmptySeq DEF Whole, q
<1>9. ~Quiet(old)
  BY <1>2 DEF Quiet, q
<1>10. \A msg : ~Sent(old, msg)
  BY <1>2, <1>8 DEF Sent, q
<1>11. ASSUME NEW msg, Awaits(old, msg) PROVE Awaits(new, msg)
  BY <1>11, <1>2, <1>4, <1>5, <1>6 DEF Awaits, q
<1> QED BY <1>7, <1>9, <1>10, <1>11 DEF Lined

-----------------------------------------------------------------------------
(* Steps of the server and the main thread, seen by the clients.           *)

\* The clients stay right while the server does right by their connections.
LEMMA ServerKeeps ==
    ASSUME ClientInv, UNCHANGED <<procs, thr>>, conns' \in [Conns -> Conn],
           \A c \in Conns : Orderly(conns'[c]),
           \A u \in Threads : thr[u].sock # None =>
               LET c == thr[u].sock IN
               /\ conns[c].fds[u[1]] # "no" /\ conns[c].stage # "none" =>
                     ConnKept(conns[c], conns'[c], u[1])
               /\ Lined(thr[u].stack, conns[c]) => Lined(thr[u].stack, conns'[c])
    PROVE  ClientInv'
<1>1. ClientTypes' /\ Parents'
  BY DEF ClientInv, ClientTypes, Parents
<1>2. ASSUME NEW u \in Threads PROVE ThreadOK(u)'
  <2>0. ThreadOK(u)
    BY DEF ClientInv
  <2>1. Own(u)' <=> Own(u)
    BY DEF Own
  <2>2. Threaded(u)' /\ Separate(u)' /\ Speaks(u)' /\ KnowsMap(u)' /\ CallOK(u)'
    <3>1. Threaded(u)'
      BY <2>0 DEF ThreadOK, Threaded, Alive
    <3>2. Separate(u)'
      BY <2>0, <2>1 DEF ThreadOK, Separate, Alone, Stale, InCall, Top
    <3>3. Speaks(u)'
      BY <2>0, <2>1 DEF ThreadOK, Speaks, Speaking, InCall, Top
    <3>4. KnowsMap(u)' /\ CallOK(u)'
      BY <2>0 DEF ThreadOK, KnowsMap, CallOK
    <3> QED BY <3>1, <3>2, <3>3, <3>4
  <2>3. Holds(u)'
    BY <2>0, <2>1 DEF ThreadOK, Holds, ConnKept
  <2>4. InLine(u)'
    BY <2>0, <2>1 DEF ThreadOK, InLine, Own
  <2> QED BY <2>2, <2>3, <2>4 DEF ThreadOK
<1> QED BY <1>1, <1>2 DEF ClientInv

\* Closing and accepting connections does right by them.
LEMMA ServerHolds ==
    ASSUME ClientInv, UNCHANGED <<procs, thr>>, conns' \in [Conns -> Conn],
           \A c \in Conns : Orderly(conns'[c]),
           \A c \in Conns : \A p \in Procs : Holding(conns[c], conns'[c], p)
    PROVE  ClientInv'
<1>1. ASSUME NEW u \in Threads, thr[u].sock # None
      PROVE  LET c == thr[u].sock IN
             /\ conns[c].fds[u[1]] # "no" /\ conns[c].stage # "none" =>
                   ConnKept(conns[c], conns'[c], u[1])
             /\ Lined(thr[u].stack, conns[c]) => Lined(thr[u].stack, conns'[c])
  <2> DEFINE c == thr[u].sock
  <2>1. c \in Conns /\ conns[c] \in Conn /\ conns'[c] \in Conn /\ u[1] \in Procs
    BY <1>1, ThreadsAre DEF ClientInv, ClientTypes, Thread
  <2>2. conns[c].fds[u[1]] # "no" /\ conns[c].stage # "none"
    BY <1>1 DEF ClientInv, ThreadOK, Holds
  <2>3. ConnKept(conns[c], conns'[c], u[1]) /\ LineKept(conns[c], conns'[c])
    BY <2>1, <2>2 DEF Holding
  <2> QED BY <2>1, <2>3, LinedKept
<1> QED BY <1>1, ServerKeeps

\* Nothing changes for the clients.
LEMMA ClientSame ==
    ASSUME ClientInv, UNCHANGED <<procs, thr, conns>>
    PROVE  ClientInv'
<1>1. conns' \in [Conns -> Conn] /\ \A c \in Conns : Orderly(conns'[c])
  BY DEF ClientInv, ClientTypes
<1>2. \A c \in Conns : \A p \in Procs : Holding(conns[c], conns'[c], p)
  BY DEF Holding, ConnKept, LineKept
<1> QED BY <1>1, <1>2, ServerHolds

-----------------------------------------------------------------------------
(* Processes that end.                                                     *)

\* The others do not notice the end of some processes.
LEMMA Deaths ==
    ASSUME ClientInv, NEW ps, ps \subseteq Procs, NEW cs \in [Conns -> Conn],
           \A c \in Conns : Orderly(cs[c]),
           \A c \in Conns : \A p \in Procs : Holding(conns[c], cs[c], p),
           procs' = [p \in Procs |-> IF p \in ps THEN Dead ELSE procs[p]],
           thr' = Gone(ps, thr), conns' = Killed(ps, cs)
    PROVE  ClientInv'
<1> DEFINE x(c) == [cs[c] EXCEPT !.fds = [p \in Procs |-> IF p \in ps THEN "no" ELSE @[p]]]
<1>1. ASSUME NEW c \in Conns
      PROVE  /\ x(c) \in Conn /\ FdsOnly(cs[c], x(c)) /\ conns'[c] = Settle(x(c))
             /\ \A p \in Procs : p \notin ps => x(c).fds[p] = cs[c].fds[p]
  <2> DEFINE fds == [p \in Procs |-> IF p \in ps THEN "no" ELSE cs[c].fds[p]]
  <2>1. x(c) = [cs[c] EXCEPT !.fds = fds]
    OBVIOUS
  <2>2. fds \in [Procs -> {"no", "cloexec", "kept"}] /\ cs[c] \in Conn
    BY ZenonT(30) DEF Conn
  <2>3. conns'[c] = Settle(x(c))
    BY DEF Killed
  <2>4. \A p \in Procs : p \notin ps => fds[p] = cs[c].fds[p]
    OBVIOUS
  <2> HIDE DEF x, fds
  <2>5. x(c) \in Conn /\ x(c).fds = fds /\ FdsOnly(cs[c], x(c))
    BY <2>1, <2>2 DEF Conn, FdsOnly
  <2> QED BY <2>3, <2>4, <2>5
<1> HIDE DEF x
<1>2. ASSUME NEW c \in Conns
      PROVE  /\ conns'[c] \in Conn /\ Orderly(conns'[c])
             /\ \A p \in Procs : p \notin ps /\ cs[c].fds[p] # "no" => conns'[c] = x(c)
  BY <1>1, Released
<1>3. ASSUME NEW c \in Conns, NEW p \in Procs, p \notin ps
      PROVE  Holding(conns[c], conns'[c], p)
  <2>1. SUFFICES ASSUME conns[c].fds[p] # "no", conns[c].stage # "none"
                 PROVE  ConnKept(conns[c], conns'[c], p) /\ LineKept(conns[c], conns'[c])
    BY DEF Holding
  <2>2. ConnKept(conns[c], cs[c], p) /\ LineKept(conns[c], cs[c])
    BY <2>1 DEF Holding
  <2>3. conns'[c] = x(c) /\ x(c).fds[p] = cs[c].fds[p]
    BY <1>1, <1>2, <1>3, <2>2 DEF ConnKept
  <2> QED BY <1>1, <2>2, <2>3 DEF FdsOnly, ConnKept, LineKept
<1>4. ClientTypes'
  <2>1. procs' \in [Procs -> Proc]
    BY DEF ClientInv, ClientTypes, Proc, Dead, Unborn
  <2>2. thr' \in [Threads -> Thread]
    BY EmptySeq DEF ClientInv, ClientTypes, Thread, Gone, NoThread
  <2>3. conns' \in [Conns -> Conn]
    <3>1. conns' = [c \in Conns |-> conns'[c]]
      BY DEF Killed
    <3> QED BY <1>2, <3>1
  <2> QED BY <2>1, <2>2, <2>3 DEF ClientTypes
<1>5. Parents'
  <2> SUFFICES ASSUME NEW p \in Procs, procs'[p].dtpid # None
               PROVE  procs'[procs'[p].dtpid].state # "unborn"
    BY DEF Parents
  <2>1. p \notin ps /\ procs'[p] = procs[p]
    BY DEF Dead, Unborn
  <2>2. procs[p].dtpid \in Procs
    BY <2>1 DEF ClientInv, ClientTypes, Proc
  <2>3. procs[procs[p].dtpid].state # "unborn"
    BY <2>1 DEF ClientInv, Parents
  <2> QED BY <2>1, <2>2, <2>3 DEF Dead, Unborn
<1>6. ASSUME NEW u \in Threads PROVE ThreadOK(u)'
  <2>0. ThreadOK(u) /\ u[1] \in Procs
    BY ThreadsAre DEF ClientInv
  <2>1. CASE u[1] \in ps
    <3>1. thr'[u] = NoThread
      BY <2>1 DEF Gone
    <3> QED BY <3>1, NoThreadOK
  <2>2. CASE u[1] \notin ps
    <3>1. thr'[u] = thr[u] /\ procs'[u[1]] = procs[u[1]]
      BY <2>0, <2>2 DEF Gone
    <3>2. thr[u].sock # None =>
              Holding(conns[thr[u].sock], conns'[thr[u].sock], u[1])
      BY <1>3, <2>0, <2>2 DEF ClientInv, ClientTypes, Thread
    <3>3. /\ Threaded(u)' /\ Holds(u)' /\ Speaks(u)' /\ KnowsMap(u)' /\ InLine(u)' /\ CallOK(u)'
      BY <1>4, <2>0, <3>1, <3>2, ThreadKept DEF ClientInv
    <3>4. \A v \in Threads : v[1] = u[1] => thr'[v] = thr[v]
      BY <2>2 DEF Gone
    <3>5. Separate(u)'
      BY <2>0, <3>1, <3>4, SeparateKept DEF ClientInv
    <3> QED BY <3>3, <3>5 DEF ThreadOK
  <2> QED BY <2>1, <2>2
<1> QED BY <1>2, <1>4, <1>5, <1>6 DEF ClientInv

\* A process ends.
LEMMA AbortOK ==
    ASSUME ClientInv, NEW p \in Procs, Abort(p)
    PROVE  ClientInv'
<1>1. procs' = [q \in Procs |-> IF q \in {p} THEN Dead ELSE procs[q]]
  BY DEF Abort, ClientInv, ClientTypes
<1>2. thr' = Gone({p}, thr) /\ conns' = Killed({p}, conns)
  BY DEF Abort
<1>3. conns \in [Conns -> Conn] /\ (\A c \in Conns : Orderly(conns[c]))
      /\ \A c \in Conns : \A q \in Procs : Holding(conns[c], conns[c], q)
  BY DEF ClientInv, ClientTypes, Holding, ConnKept, LineKept
<1> QED BY <1>1, <1>2, <1>3, Deaths

-----------------------------------------------------------------------------
(* The steps of the server and of the main thread.                         *)

\* An event is of a connection.
LEMMA Events ==
    ASSUME ServerInv, NEW e \in batch
    PROVE  e.conn \in Conns /\ conns[e.conn].stage = "accepted"
BY DEF ServerInv, ServerTypes, Books, Accepted

\* The server closes connections, and accepts some that wait.
LEMMA HangupClients ==
    ASSUME TraceInv, Hangup
    PROVE  ClientInv'
<1>1. PICK e \in batch : conns' = [conns EXCEPT ![e.conn] = ShutDown(e.conn)]
  BY DEF Hangup, Drop
<1>2. e.conn \in Conns /\ conns[e.conn].stage = "accepted" /\ conns \in [Conns -> Conn]
  BY <1>1, Events DEF TraceInv, ClientInv, ClientTypes
<1>3. UNCHANGED <<procs, thr>>
  BY DEF Hangup, clientVars
<1>4. ASSUME NEW c \in Conns
      PROVE  conns'[c] \in Conn /\ Orderly(conns'[c])
             /\ \A p \in Procs : Holding(conns[c], conns'[c], p)
  <2>1. conns[c] \in Conn /\ Orderly(conns[c])
    BY <1>2 DEF TraceInv, ClientInv
  <2>2. CASE c = e.conn
    <3>1. conns'[c] = Settle([conns[c] EXCEPT !.stage = "closed", !.req = <<>>])
      BY <1>1, <1>2, <2>2 DEF ShutDown
    <3> QED BY <3>1, <2>1, <2>2, <1>2, ShutOK
  <2>3. CASE c # e.conn
    BY <1>1, <1>2, <2>1, <2>3 DEF Holding, ConnKept, LineKept
  <2> QED BY <2>2, <2>3
<1>5. conns' \in [Conns -> Conn]
  BY <1>1, <1>2, <1>4
<1> QED BY <1>3, <1>4, <1>5, ServerHolds DEF TraceInv

\* The same when the waiting ones are accepted.
LEMMA AcceptClients ==
    ASSUME TraceInv, Accept
    PROVE  ClientInv'
<1> DEFINE new == IF incoming THEN {c \in Backlog : Alive(conns[c].peer)} ELSE {}
           dead == IF incoming THEN Backlog \ new ELSE {}
<1>1. conns' = [c \in Conns |-> IF c \in new THEN [conns[c] EXCEPT !.stage = "accepted"]
                                ELSE IF c \in dead THEN ShutDown(c) ELSE conns[c]]
  BY DEF Accept
<1>2. conns \in [Conns -> Conn] /\ UNCHANGED <<procs, thr>>
  BY DEF Accept, clientVars, TraceInv, ClientInv, ClientTypes
<1>3. \A c \in Conns : c \in new \cup dead => conns[c].stage = "backlog"
  BY DEF Backlog
<1> HIDE DEF new, dead
<1>4. ASSUME NEW c \in Conns
      PROVE  conns'[c] \in Conn /\ Orderly(conns'[c])
             /\ \A p \in Procs : Holding(conns[c], conns'[c], p)
  <2>1. conns[c] \in Conn /\ Orderly(conns[c])
    BY <1>2 DEF TraceInv, ClientInv
  <2>2. CASE c \in new
    <3> DEFINE x == [conns[c] EXCEPT !.stage = "accepted"]
    <3>1. conns'[c] = x
      BY <1>1, <2>2
    <3>2. /\ x \in Conn /\ x.stage = "accepted" /\ x.req = conns[c].req /\ x.rep = conns[c].rep
          /\ x.fds = conns[c].fds /\ x.peer = conns[c].peer /\ x.session = conns[c].session
      BY <2>1 DEF Conn
    <3> HIDE DEF x
    <3>3. conns[c].stage = "backlog"
      BY <1>3, <2>2
    <3> QED BY <2>1, <3>1, <3>2, <3>3 DEF Orderly, Holding, ConnKept, LineKept
  <2>3. CASE c \in dead /\ c \notin new
    <3>1. conns'[c] = Settle([conns[c] EXCEPT !.stage = "closed", !.req = <<>>])
      BY <1>1, <2>3 DEF ShutDown
    <3>2. conns[c].stage = "backlog"
      BY <1>3, <2>3
    <3> QED BY <3>1, <3>2, <2>1, ShutOK
  <2>4. CASE c \notin dead /\ c \notin new
    <3>1. conns'[c] = conns[c]
      BY <1>1, <2>4
    <3> QED BY <2>1, <3>1 DEF Holding, ConnKept, LineKept
  <2> QED BY <2>2, <2>3, <2>4
<1>5. conns' \in [Conns -> Conn]
  <2>1. conns' = [c \in Conns |-> conns'[c]]
    BY <1>1
  <2> QED BY <1>4, <2>1
<1> QED BY <1>2, <1>4, <1>5, ServerHolds DEF TraceInv

\* Connections nobody has accepted are reset.
LEMMA UnlistenClients ==
    ASSUME TraceInv, Unlisten, UNCHANGED <<procs, thr>>
    PROVE  ClientInv'
<1>1. conns' = [c \in Conns |-> IF c \in Backlog THEN ShutDown(c) ELSE conns[c]]
  BY DEF Unlisten
<1>2. conns \in [Conns -> Conn]
  BY DEF TraceInv, ClientInv, ClientTypes
<1>4. ASSUME NEW c \in Conns
      PROVE  conns'[c] \in Conn /\ Orderly(conns'[c])
             /\ \A p \in Procs : Holding(conns[c], conns'[c], p)
  <2>1. conns[c] \in Conn /\ Orderly(conns[c])
    BY <1>2 DEF TraceInv, ClientInv
  <2>3. CASE c \in Backlog
    <3>1. conns'[c] = Settle([conns[c] EXCEPT !.stage = "closed", !.req = <<>>])
      BY <1>1, <2>3 DEF ShutDown
    <3>2. conns[c].stage = "backlog"
      BY <2>3 DEF Backlog
    <3> QED BY <3>1, <3>2, <2>1, ShutOK
  <2>4. CASE c \notin Backlog
    <3>1. conns'[c] = conns[c]
      BY <1>1, <2>4
    <3> QED BY <2>1, <3>1 DEF Holding, ConnKept, LineKept
  <2> QED BY <2>3, <2>4
<1>5. conns' \in [Conns -> Conn]
  <2>1. conns' = [c \in Conns |-> conns'[c]]
    BY <1>1
  <2> QED BY <1>4, <2>1
<1> QED BY <1>4, <1>5, ServerHolds DEF TraceInv

\* The end of the loop.
LEMMA FinishClients ==
    ASSUME TraceInv, Finish
    PROVE  ClientInv'
<1> DEFINE left == IF opensocks > 0 THEN {c \in Conns : peers[c] # None} ELSE {}
           victims == {p \in Procs : \E c \in left : peers[c] = p}
           cs == [c \in Conns |-> IF c \in left THEN ShutDown(c) ELSE conns[c]]
<1>1. /\ procs' = [p \in Procs |-> IF p \in victims THEN Dead ELSE procs[p]]
      /\ thr' = Gone(victims, thr) /\ conns' = Killed(victims, cs) /\ victims \subseteq Procs
  BY DEF Finish
<1>2. conns \in [Conns -> Conn]
  BY DEF TraceInv, ClientInv, ClientTypes
<1>3. \A c \in Conns : c \in left => conns[c].stage = "accepted"
  BY DEF TraceInv, ServerInv, Books, Accepted
<1> HIDE DEF left, victims
<1>4. ASSUME NEW c \in Conns
      PROVE  cs[c] \in Conn /\ Orderly(cs[c])
             /\ \A p \in Procs : Holding(conns[c], cs[c], p)
  <2>1. conns[c] \in Conn /\ Orderly(conns[c])
    BY <1>2 DEF TraceInv, ClientInv
  <2>3. CASE c \in left
    <3>1. cs[c] = Settle([conns[c] EXCEPT !.stage = "closed", !.req = <<>>])
      BY <2>3 DEF ShutDown
    <3>2. conns[c].stage = "accepted"
      BY <1>3, <2>3
    <3> HIDE DEF cs
    <3> QED BY <3>1, <3>2, <2>1, ShutOK
  <2>4. CASE c \notin left
    <3>1. cs[c] = conns[c]
      BY <2>4
    <3> QED BY <2>1, <3>1 DEF Holding, ConnKept, LineKept
  <2> QED BY <2>3, <2>4
<1>5. cs \in [Conns -> Conn]
  BY <1>4
<1> HIDE DEF cs
<1> QED BY <1>1, <1>4, <1>5, Deaths DEF TraceInv

\* What the server looks up is the right answer in its session.
LEMMA LookupRight ==
    ASSUME ServerInv, Begun, NEW path
    PROVE  Lookup(path) = RightAnswer([path |-> path], session)
<1>1. depends = Deps[session]
  BY DEF ServerInv, Settled
<1>2. path \in DOMAIN cache => cache[path] = RightAnswer([path |-> path], session)
  BY DEF ServerInv, CacheOK
<1>3. CASE path \in DOMAIN cache
  BY <1>2, <1>3 DEF Lookup
<1>4. CASE path \notin DOMAIN cache
  BY <1>1, <1>4 DEF Lookup, RightAnswer
<1> QED BY <1>3, <1>4

\* The message at the head of an accepted connection is handled: it is one of those
\* that the server knows, and what is on the connection afterwards is in order.
LEMMA Handled ==
    ASSUME TraceInv, NEW c \in Conns, conns[c].stage = "accepted", Whole(conns[c].req),
           Handle(c, conns[c].req[1][2])
    PROVE  /\ conns' \in [Conns -> Conn]
           /\ \A d \in Conns \ {c} : conns'[d] = conns[d]
           /\ Orderly(conns'[c])
           /\ \A stack : Lined(stack, conns[c]) => Lined(stack, conns'[c])
           /\ conns'[c].stage = conns[c].stage /\ conns'[c].fds = conns[c].fds
           /\ conns'[c].peer = conns[c].peer /\ conns'[c].session = conns[c].session
<1> DEFINE old == conns[c]
           msg == old.req[1][2]
           rest == SubSeq(old.req, 3, Len(old.req))
<1>0. conns \in [Conns -> Conn] /\ old \in Conn /\ Orderly(old) /\ old.req \in Seq(Piece)
  BY DEF TraceInv, ClientInv, ClientTypes, Conn, Piece
<1>1. msg \in Msg /\ rest \in Seq(Piece)
  BY <1>0, OneRead DEF Orderly
<1>2. ServerInv /\ Begun /\ old.session = session
  BY DEF TraceInv, ServerInv, Settled
<1> HIDE DEF old, msg, rest
<1>3. ASSUME NEW val \in Maps \cup {"+", "?", "!"}, Reply(c, msg, val), Answered(msg),
             RightReply([msg |-> msg, val |-> val], old.session)
      PROVE  /\ conns' \in [Conns -> Conn]
             /\ \A d \in Conns \ {c} : conns'[d] = conns[d]
             /\ Orderly(conns'[c])
             /\ \A stack : Lined(stack, conns[c]) => Lined(stack, conns'[c])
             /\ conns'[c].stage = conns[c].stage /\ conns'[c].fds = conns[c].fds
             /\ conns'[c].peer = conns[c].peer /\ conns'[c].session = conns[c].session
  <2> DEFINE r == [msg |-> msg, val |-> val]
             reps == Append(old.rep, r)
             new == [old EXCEPT !.req = rest, !.rep = reps]
  <2>1. conns' = [conns EXCEPT ![c] = new]
    BY <1>0, <1>3 DEF Reply, old, rest
  <2>2. r \in [msg : Msg, val : Maps \cup {"+", "?", "!"}]
    BY <1>1
  <2> HIDE DEF r
  <2>3. reps \in Seq([msg : Msg, val : Maps \cup {"+", "?", "!"}])
    BY <1>0, <2>2, Appended DEF Conn
  <2> HIDE DEF reps
  <2>4. /\ new \in Conn /\ new.req = rest /\ new.rep = reps /\ new.stage = old.stage
        /\ new.peer = old.peer /\ new.session = old.session /\ new.fds = old.fds
    BY <1>0, <1>1, <2>3 DEF Conn, Piece
  <2> HIDE DEF new
  <2>5. Orderly(new) /\ \A stack : Lined(stack, old) => Lined(stack, new)
    <3>1. /\ Whole(old.req) /\ Answered(old.req[1][2]) /\ old.stage = "accepted"
          /\ new.req = SubSeq(old.req, 3, Len(old.req))
          /\ RightReply([msg |-> old.req[1][2], val |-> val], old.session)
          /\ new.rep = Append(old.rep, [msg |-> old.req[1][2], val |-> val])
      BY <1>3, <2>4 DEF old, msg, rest, reps, r
    <3> QED BY <1>0, <2>4, <3>1, RepliedOK
  <2>6. conns'[c] = new /\ \A d \in Conns \ {c} : conns'[d] = conns[d]
    BY <1>0, <2>1
  <2>7. conns' \in [Conns -> Conn]
    BY <1>0, <2>1, <2>4
  <2> QED BY <2>4, <2>5, <2>6, <2>7 DEF old
<1>4. CASE msg.op = "filemap" /\ Reply(c, msg, IF fence THEN "fence" ELSE "all")
  <2> DEFINE val == IF fence THEN "fence" ELSE "all"
  <2>1. val \in Maps
    BY DEF Maps
  <2>2. Reply(c, msg, val)
    BY <1>4
  <2> HIDE DEF val
  <2>3. RightReply([msg |-> msg, val |-> val], old.session) /\ Answered(msg)
    BY <1>4, <2>1 DEF RightReply, Answered
  <2> QED BY <1>3, <2>1, <2>2, <2>3
<1>5. CASE msg.op = "dep_check" /\ Reply(c, msg, Lookup(msg.path))
  <2> DEFINE val == Lookup(msg.path)
  <2>1. val = RightAnswer(msg, old.session)
    BY <1>2, LookupRight DEF RightAnswer
  <2>2. val \in {"+", "?", "!"} /\ Reply(c, msg, val)
    BY <1>5, <2>1 DEF RightAnswer
  <2> HIDE DEF val
  <2>3. RightReply([msg |-> msg, val |-> val], old.session) /\ Answered(msg)
    BY <1>5, <2>1 DEF RightReply, Answered
  <2> QED BY <1>3, <2>2, <2>3
<1>6. CASE /\ msg.op \in {"sandbox_violation", "sandbox_unknown"}
           /\ conns' = [conns EXCEPT ![c].req = SubSeq(@, 3, Len(@))]
  <2> DEFINE new == [old EXCEPT !.req = rest]
  <2>1. conns' = [conns EXCEPT ![c] = new]
    BY <1>0, <1>6 DEF old, rest
  <2>2. /\ new \in Conn /\ new.req = rest /\ new.rep = old.rep /\ new.stage = old.stage
        /\ new.peer = old.peer /\ new.session = old.session /\ new.fds = old.fds
    BY <1>0, <1>1 DEF Conn, Piece
  <2> HIDE DEF new
  <2>3. Orderly(new) /\ \A stack : Lined(stack, old) => Lined(stack, new)
    <3>1. /\ Whole(old.req) /\ ~Answered(old.req[1][2]) /\ old.stage = "accepted"
          /\ new.req = SubSeq(old.req, 3, Len(old.req))
      BY <1>6, <2>2 DEF old, msg, rest, Answered
    <3> QED BY <1>0, <2>2, <3>1, NotedOK
  <2>4. conns'[c] = new /\ \A d \in Conns \ {c} : conns'[d] = conns[d]
    BY <1>0, <2>1
  <2>5. conns' \in [Conns -> Conn]
    BY <1>0, <2>1, <2>2
  <2> QED BY <2>2, <2>3, <2>4, <2>5 DEF old
<1> QED BY <1>4, <1>5, <1>6 DEF Handle, msg, old

\* Clients whose message has been handled.
LEMMA ProcessLineClients ==
    ASSUME TraceInv, ProcessLine
    PROVE  ClientInv'
<1>1. PICK e \in batch : Whole(conns[e.conn].req) /\ Handle(e.conn, conns[e.conn].req[1][2])
  BY DEF ProcessLine
<1> DEFINE c == e.conn
<1>2. c \in Conns /\ conns[c].stage = "accepted"
  BY <1>1, Events DEF TraceInv
<1> HIDE DEF c
<1>3. UNCHANGED <<procs, thr>>
  BY DEF ProcessLine, clientVars
<1>4. /\ conns' \in [Conns -> Conn]
      /\ \A d \in Conns \ {c} : conns'[d] = conns[d]
      /\ Orderly(conns'[c])
      /\ \A stack : Lined(stack, conns[c]) => Lined(stack, conns'[c])
      /\ conns'[c].stage = conns[c].stage /\ conns'[c].fds = conns[c].fds
      /\ conns'[c].peer = conns[c].peer /\ conns'[c].session = conns[c].session
  BY <1>1, <1>2, Handled DEF c
<1>5. \A d \in Conns : Orderly(conns'[d])
  BY <1>4 DEF TraceInv, ClientInv
<1>6. \A d \in Conns : \A p \in Procs :
          conns[d].fds[p] # "no" /\ conns[d].stage # "none" => ConnKept(conns[d], conns'[d], p)
  BY <1>4 DEF ConnKept
<1>7. \A u \in Threads : thr[u].sock # None => thr[u].sock \in Conns /\ u[1] \in Procs
  BY ThreadsAre DEF TraceInv, ClientInv, ClientTypes, Thread
<1>8. \A d \in Conns : \A stack : Lined(stack, conns[d]) => Lined(stack, conns'[d])
  BY <1>4
<1> QED BY <1>3, <1>4, <1>5, <1>6, <1>7, <1>8, ServerKeeps DEF TraceInv

\* How many connections are accepted is a number that can be counted with.
LEMMA AcceptedFinite == IsFiniteSet(Accepted) /\ Cardinality(Accepted) \in Nat
<1>1. IsFiniteSet(Conns)
  BY ClientAssumption, FS_Interval DEF Conns
<1> QED BY <1>1, FS_Subset, FS_CardinalityType DEF Accepted

\* The server's side of a connection after it has been shut down.
LEMMA ShutStage ==
    ASSUME ClientInv, NEW c \in Conns
    PROVE  ShutDown(c).stage \in {"closed", "none"}
<1>1. conns[c] \in Conn /\ Orderly(conns[c])
  BY DEF ClientInv, ClientTypes
<1>2. ShutDown(c) = Settle([conns[c] EXCEPT !.stage = "closed", !.req = <<>>])
  BY DEF ShutDown
<1> QED BY <1>1, <1>2, ShutOK

\* The event loop begins.
LEMMA RunServer ==
    ASSUME TraceInv, Run
    PROVE  ServerInv'
<1>1. /\ runner = "posted" /\ DOMAIN cache' = {} /\ kq' = (listening # 0)
      /\ runner' = (IF listening = 0 THEN "stopped" ELSE "polling") /\ opensocks' = 0
  BY DEF Run
<1>2. UNCHANGED <<procs, conns, listening, main, session, depends, batch, peers>>
  BY DEF Run, clientVars, mainVars
<1>3. Accepted = {}
  BY <1>1 DEF TraceInv, ServerInv, Settled
<1>4. ServerTypes'
  BY <1>1, <1>2 DEF TraceInv, ServerInv, ServerTypes
<1>5. Places'
  BY <1>1, <1>2 DEF TraceInv, ServerInv, Places
<1>6. Settled'
  BY <1>1, <1>2, <1>3 DEF TraceInv, ServerInv, Settled, Begun, Alive, Backlog, Accepted
<1>7. Books'
  <2>1. Cardinality({}) = 0
    BY FS_EmptySet
  <2>2. Accepted' = {}
    BY <1>2, <1>3 DEF Accepted
  <2> QED BY <1>1, <1>2, <1>3, <2>1, <2>2 DEF TraceInv, ServerInv, Books
<1>8. CacheOK'
  BY <1>1 DEF CacheOK
<1> QED BY <1>4, <1>5, <1>6, <1>7, <1>8 DEF ServerInv

\* Events are fetched.
LEMMA PollServer ==
    ASSUME TraceInv, Poll
    PROVE  ServerInv'
<1>1. /\ runner = "polling" /\ runner' = "serving"
      /\ batch' = {[conn |-> c, eof |-> Eof(conns[c])] : c \in Ready}
  BY DEF Poll
<1>2. UNCHANGED <<procs, conns, listening, main, session, depends, kq, peers, opensocks, cache>>
  BY DEF Poll, clientVars, mainVars, sharedVars, peerVars
<1>3. \A e \in batch' : e.conn \in Accepted /\ e = [conn |-> e.conn, eof |-> Eof(conns[e.conn])]
  <2> SUFFICES ASSUME NEW e \in batch'
               PROVE  e.conn \in Accepted /\ e = [conn |-> e.conn, eof |-> Eof(conns[e.conn])]
    OBVIOUS
  <2>1. PICK c \in Ready : e = [conn |-> c, eof |-> Eof(conns[c])]
    BY <1>1
  <2>2. e.conn = c /\ c \in Accepted
    BY <2>1 DEF Ready
  <2> QED BY <2>1, <2>2
<1>4. ServerTypes'
  <2>1. \A c : Eof(conns[c]) \in BOOLEAN
    BY DEF Eof
  <2>2. \A e \in batch' : e \in [conn : Conns, eof : BOOLEAN]
    BY <1>3, <2>1 DEF Accepted
  <2> QED BY <1>2, <2>2 DEF TraceInv, ServerInv, ServerTypes
<1>5. Places'
  BY <1>1, <1>2 DEF TraceInv, ServerInv, Places
<1>6. Settled'
  BY <1>1, <1>2 DEF TraceInv, ServerInv, Settled, Begun, Alive, Backlog, Accepted
<1>7. Books'
  <2>1. Accepted' = Accepted
    BY <1>2 DEF Accepted
  <2>2. /\ \A c \in Conns : peers[c] = IF c \in Accepted THEN conns[c].peer ELSE None
        /\ opensocks = Cardinality(Accepted)
    BY <1>1 DEF TraceInv, ServerInv, Books
  <2>3. \A e, f \in batch' : e.conn = f.conn => e = f
    BY <1>3
  <2> QED BY <1>1, <1>2, <1>3, <2>1, <2>2, <2>3 DEF Books
<1>8. CacheOK'
  BY <1>1, <1>2 DEF TraceInv, ServerInv, CacheOK, Begun
<1> QED BY <1>4, <1>5, <1>6, <1>7, <1>8 DEF ServerInv

\* A connection is dropped, and struck from the books.
LEMMA HangupServer ==
    ASSUME TraceInv, Hangup
    PROVE  ServerInv'
<1>1. PICK e \in batch : Drop(e.conn) /\ batch' = batch \ {e}
  BY DEF Hangup
<1> DEFINE c == e.conn
<1>2. c \in Conns /\ conns[c].stage = "accepted" /\ conns \in [Conns -> Conn]
  BY <1>1, Events DEF TraceInv, ClientInv, ClientTypes
<1>3. runner = "serving"
      /\ UNCHANGED <<procs, listening, main, session, depends, kq, runner, cache>>
  BY DEF Hangup, clientVars, mainVars, sharedVars
<1>4. /\ opensocks' = opensocks - 1 /\ peers' = [peers EXCEPT ![c] = None]
      /\ conns' = [conns EXCEPT ![c] = ShutDown(c)]
  BY <1>1 DEF Drop
<1>5. \A f \in batch' : f \in batch /\ f.conn # c
  BY <1>1 DEF TraceInv, ServerInv, Books
<1> HIDE DEF c
<1>6. conns'[c].stage \in {"closed", "none"} /\ \A d \in Conns \ {c} : conns'[d] = conns[d]
  BY <1>2, <1>4, ShutStage DEF TraceInv
<1>7. Accepted' = Accepted \ {c} /\ Backlog' = Backlog /\ c \in Accepted
  BY <1>2, <1>6 DEF Accepted, Backlog
<1>8. ServerTypes'
  BY <1>2, <1>3, <1>4, <1>5 DEF TraceInv, ServerInv, ServerTypes
<1>9. Places'
  BY <1>3 DEF TraceInv, ServerInv, Places
<1>10. Settled'
  <2>1. \A d \in Conns : conns'[d].stage \in {"backlog", "accepted"} =>
            conns[d].stage \in {"backlog", "accepted"} /\ conns'[d] = conns[d]
    BY <1>6
  <2> QED BY <1>3, <1>7, <2>1 DEF TraceInv, ServerInv, Settled, Begun, Alive
<1>11. Books'
  <2>1. Cardinality(Accepted') = Cardinality(Accepted) - 1
    BY <1>7, AcceptedFinite, FS_RemoveElement
  <2>2. opensocks' = Cardinality(Accepted')
    BY <1>3, <1>4, <2>1 DEF TraceInv, ServerInv, Books
  <2>3. \A d \in Conns : peers'[d] = IF d \in Accepted' THEN conns'[d].peer ELSE None
    BY <1>4, <1>6, <1>7 DEF TraceInv, ServerInv, Books, ServerTypes
  <2>4. \A f \in batch' : f.conn \in Accepted'
    BY <1>5, <1>7 DEF TraceInv, ServerInv, Books
  <2>5. \A f, g \in batch' : f.conn = g.conn => f = g
    BY <1>5 DEF TraceInv, ServerInv, Books
  <2> QED BY <1>3, <2>2, <2>3, <2>4, <2>5 DEF Books
<1>12. CacheOK'
  BY <1>3 DEF TraceInv, ServerInv, CacheOK, Begun
<1> QED BY <1>8, <1>9, <1>10, <1>11, <1>12 DEF ServerInv

\* A message is handled, and its answer kept.
LEMMA ProcessLineServer ==
    ASSUME TraceInv, ProcessLine
    PROVE  ServerInv'
<1>1. PICK e \in batch : /\ Whole(conns[e.conn].req) /\ batch' = batch \ {e}
                         /\ Handle(e.conn, conns[e.conn].req[1][2])
  BY DEF ProcessLine
<1> DEFINE c == e.conn
<1>2. c \in Conns /\ conns[c].stage = "accepted"
  BY <1>1, Events DEF TraceInv
<1>3. /\ runner = "serving"
      /\ UNCHANGED <<procs, listening, main, session, depends, kq, runner, opensocks, peers>>
  BY DEF ProcessLine, clientVars, mainVars, sharedVars, peerVars
<1>4. \A d \in Conns : /\ conns'[d].stage = conns[d].stage /\ conns'[d].peer = conns[d].peer
                       /\ conns'[d].session = conns[d].session
  BY <1>1, <1>2, Handled
<1>5. Accepted' = Accepted /\ Backlog' = Backlog
  BY <1>4 DEF Accepted, Backlog
<1>6. \A f \in batch' : f \in batch
  BY <1>1
<1>7. Begun
  BY <1>2 DEF TraceInv, ServerInv, Settled
<1>8. ServerTypes'
  BY <1>3, <1>6 DEF TraceInv, ServerInv, ServerTypes
<1>9. Places'
  BY <1>3 DEF TraceInv, ServerInv, Places
<1>10. Settled'
  BY <1>3, <1>4, <1>5 DEF TraceInv, ServerInv, Settled, Begun, Alive
<1>11. Books'
  BY <1>3, <1>4, <1>5, <1>6 DEF TraceInv, ServerInv, Books
<1>12. CacheOK'
  <2> DEFINE path == conns[c].req[1][2].path
  <2>1. cache' = cache \/ cache' = Remember(path, Lookup(path))
    BY <1>1 DEF Handle
  <2>2. Lookup(path) = RightAnswer([path |-> path], session)
    BY <1>7, LookupRight DEF TraceInv
  <2> HIDE DEF path
  <2>3. \A p \in DOMAIN cache' : cache'[p] = RightAnswer([path |-> p], session)
    BY <2>1, <2>2 DEF Remember, TraceInv, ServerInv, CacheOK
  <2> QED BY <1>3, <1>7, <2>3 DEF CacheOK, Begun
<1> QED BY <1>8, <1>9, <1>10, <1>11, <1>12 DEF ServerInv

\* The waiting connections are accepted and written into the books.
LEMMA AcceptServer ==
    ASSUME TraceInv, Accept
    PROVE  ServerInv'
<1> DEFINE new == IF incoming THEN {c \in Backlog : Alive(conns[c].peer)} ELSE {}
           dead == IF incoming THEN Backlog \ new ELSE {}
<1>1. /\ conns' = [c \in Conns |-> IF c \in new THEN [conns[c] EXCEPT !.stage = "accepted"]
                                   ELSE IF c \in dead THEN ShutDown(c) ELSE conns[c]]
      /\ opensocks' = opensocks + Cardinality(new)
      /\ peers' = [c \in Conns |-> IF c \in new THEN conns[c].peer ELSE peers[c]]
      /\ runner = "serving" /\ batch = {} /\ runner' = "polling"
  BY DEF Accept
<1>2. UNCHANGED <<procs, listening, main, session, depends, kq, batch, cache>>
  BY DEF Accept, clientVars, mainVars, sharedVars
<1>3. \A c \in Conns : c \in new \cup dead => conns[c].stage = "backlog"
  BY DEF Backlog
<1>3a. new \subseteq Conns
  BY DEF Backlog
<1> HIDE DEF new, dead
<1>4. ASSUME NEW c \in Conns
      PROVE  /\ c \in new => /\ conns'[c].stage = "accepted" /\ conns'[c].peer = conns[c].peer
                             /\ conns'[c].session = conns[c].session
             /\ c \notin new => \/ conns'[c] = conns[c] /\ c \notin dead
                                \/ c \in dead /\ conns'[c].stage \in {"closed", "none"}
  <2>1. conns[c] \in Conn
    BY DEF TraceInv, ClientInv, ClientTypes
  <2> QED BY <1>1, <2>1, ShutStage DEF TraceInv, Conn
<1>5. Accepted' = Accepted \cup new /\ Accepted \cap new = {}
  BY <1>3, <1>3a, <1>4 DEF Accepted
<1>6. ServerTypes'
  <2>1. \A c \in new : conns[c].peer \in Procs \cup {None}
    BY <1>3a DEF TraceInv, ClientInv, ClientTypes, Conn
  <2> QED BY <1>1, <1>2, <2>1 DEF TraceInv, ServerInv, ServerTypes
<1>7. Places'
  BY <1>1, <1>2 DEF TraceInv, ServerInv, Places
<1>8. Settled'
  <2>1. \A c \in Conns : conns'[c].stage \in {"backlog", "accepted"} =>
            /\ conns[c].stage \in {"backlog", "accepted"} /\ conns'[c].session = conns[c].session
            /\ conns'[c].stage = "backlog" => conns[c].stage = "backlog"
    BY <1>3, <1>4
  <2>2. Backlog' \subseteq Backlog
    BY <2>1 DEF Backlog
  <2> QED BY <1>1, <1>2, <2>1, <2>2 DEF TraceInv, ServerInv, Settled, Begun, Alive
<1>9. Books'
  <2>1. Cardinality(Accepted') = Cardinality(Accepted) + Cardinality(new)
    <3>1. IsFiniteSet(new)
      <4>1. IsFiniteSet(Conns)
        BY ClientAssumption, FS_Interval DEF Conns
      <4> QED BY <4>1, <1>3a, FS_Subset
    <3>2. Cardinality(Accepted \cap new) = 0
      BY <1>5, FS_EmptySet
    <3>3. Cardinality(Accepted \cup new) =
              Cardinality(Accepted) + Cardinality(new) - Cardinality(Accepted \cap new)
      BY <3>1, AcceptedFinite, FS_Union
    <3>4. Cardinality(Accepted) \in Nat /\ Cardinality(new) \in Nat
      BY <3>1, AcceptedFinite, FS_CardinalityType
    <3> QED BY <1>5, <3>2, <3>3, <3>4
  <2>2. opensocks' = Cardinality(Accepted')
    BY <1>1, <2>1 DEF TraceInv, ServerInv, Books
  <2>3. \A c \in Conns : peers'[c] = IF c \in Accepted' THEN conns'[c].peer ELSE None
    <3> SUFFICES ASSUME NEW c \in Conns
                 PROVE  peers'[c] = IF c \in Accepted' THEN conns'[c].peer ELSE None
      OBVIOUS
    <3>1. peers[c] = IF c \in Accepted THEN conns[c].peer ELSE None
      BY DEF TraceInv, ServerInv, Books
    <3>2. c \in Accepted => c \notin dead
      BY <1>3 DEF Accepted
    <3> QED BY <1>1, <1>4, <1>5, <3>1, <3>2
  <2> QED BY <1>1, <1>2, <2>2, <2>3 DEF Books
<1>10. CacheOK'
  BY <1>1, <1>2 DEF TraceInv, ServerInv, CacheOK, Begun
<1> QED BY <1>6, <1>7, <1>8, <1>9, <1>10 DEF ServerInv

\* When the loop ends no connection is left.
LEMMA FinishServer ==
    ASSUME TraceInv, Finish
    PROVE  ServerInv'
<1> DEFINE left == IF opensocks > 0 THEN {c \in Conns : peers[c] # None} ELSE {}
           victims == {p \in Procs : \E c \in left : peers[c] = p}
           cs == [c \in Conns |-> IF c \in left THEN ShutDown(c) ELSE conns[c]]
<1>1. /\ procs' = [p \in Procs |-> IF p \in victims THEN Dead ELSE procs[p]]
      /\ conns' = Killed(victims, cs)
      /\ peers' = [c \in Conns |-> IF c \in left THEN None ELSE peers[c]]
      /\ runner = "polling" /\ kq' = FALSE /\ runner' = "stopped"
  BY DEF Finish
<1>2. UNCHANGED <<listening, main, session, depends, batch, cache>>
  BY DEF Finish, mainVars
<1>3. left = Accepted
  <2>1. {c \in Conns : peers[c] # None} = Accepted
    <3>1. \A c \in Conns : c \in Accepted => conns[c].peer \in Procs
      BY DEF TraceInv, ClientInv, Orderly, Accepted
    <3>2. \A c \in Conns : c \in Accepted => conns[c].peer # None
      BY <3>1, ClientAssumption
    <3> QED BY <3>2 DEF TraceInv, ServerInv, Books, Accepted
  <2>2. opensocks = Cardinality(Accepted)
    BY <1>1 DEF TraceInv, ServerInv, Books
  <2>3. Accepted # {} => Cardinality(Accepted) # 0
    BY AcceptedFinite, FS_EmptySet
  <2> QED BY <2>1, <2>2, <2>3, AcceptedFinite
<1>4. victims \subseteq Procs
  OBVIOUS
<1> HIDE DEF left, victims
<1>5. ASSUME NEW c \in Conns
      PROVE  /\ conns'[c].stage \in {"backlog", "accepted"} =>
                    /\ conns'[c].session = conns[c].session /\ conns'[c].stage = conns[c].stage
                    /\ c \notin left
             /\ conns'[c].stage # "accepted"
  <2>1. cs[c].stage # "accepted"
        /\ (cs[c].stage = "backlog" => cs[c] = conns[c] /\ c \notin left)
    BY <1>3, ShutStage DEF TraceInv, Accepted
  <2> DEFINE fds == [p \in Procs |-> IF p \in victims THEN "no" ELSE cs[c].fds[p]]
             x == [cs[c] EXCEPT !.fds = fds]
  <2>2. conns'[c] = Settle(x)
    BY <1>1 DEF Killed
  <2>3. cs[c] \in Conn
    <3>1. conns[c] \in Conn /\ Orderly(conns[c])
      BY DEF TraceInv, ClientInv, ClientTypes
    <3>2. Settle([conns[c] EXCEPT !.stage = "closed", !.req = <<>>]) \in Conn
      BY <3>1, ShutOK
    <3> QED BY <3>1, <3>2 DEF ShutDown
  <2>4. x.stage = cs[c].stage /\ x.session = cs[c].session
    BY <2>3 DEF Conn
  <2>5. conns'[c] = x \/ conns'[c] = NoConn
    BY <2>2 DEF Settle
  <2> HIDE DEF x, cs
  <2> QED BY <2>1, <2>4, <2>5 DEF NoConn
<1>6. Accepted' = {}
  BY <1>5 DEF Accepted
<1>7. ServerTypes'
  BY <1>1, <1>2 DEF TraceInv, ServerInv, ServerTypes
<1>8. Places'
  BY <1>1, <1>2 DEF TraceInv, ServerInv, Places
<1>9. Settled'
  <2>1. \A p \in Procs : /\ procs'[p] = procs[p] \/ (procs'[p].fifo = 0 /\ ~Alive(p)')
    BY <1>1 DEF Dead, Unborn, Alive
  <2>2. Backlog' \subseteq Backlog
    BY <1>5 DEF Backlog
  <2>3. \A p \in Procs : /\ procs'[p].fifo <= session
                         /\ main = "started" => procs'[p].fifo # session
                         /\ Alive(p)' => procs'[p].fifo # 0
    <3>1. main = "started" => session # 0
      BY DEF TraceInv, ServerInv, Places
    <3>2. 0 <= session
      BY DEF TraceInv, ServerInv, ServerTypes
    <3> QED BY <2>1, <3>1, <3>2 DEF TraceInv, ServerInv, Settled, Alive
  <2>4. \A c \in Conns : conns'[c].stage \in {"backlog", "accepted"} =>
            conns'[c].session = session /\ Begun
    BY <1>5 DEF TraceInv, ServerInv, Settled
  <2> QED BY <1>2, <1>6, <2>2, <2>3, <2>4 DEF TraceInv, ServerInv, Settled, Begun
<1>10. Books'
  <2>1. \A c \in Conns : peers'[c] = None
    BY <1>1, <1>3 DEF TraceInv, ServerInv, Books
  <2>2. batch' = {}
    BY <1>1, <1>2 DEF TraceInv, ServerInv, Books
  <2> QED BY <1>1, <1>6, <2>1, <2>2 DEF Books
<1>11. CacheOK'
  BY <1>1, <1>2 DEF TraceInv, ServerInv, CacheOK, Begun
<1> QED BY <1>7, <1>8, <1>9, <1>10, <1>11 DEF ServerInv

\* The thread of the server is done.
LEMMA BroadcastServer ==
    ASSUME TraceInv, Broadcast
    PROVE  ServerInv'
<1>1. /\ runner = "stopped" /\ runner' = "over" /\ DOMAIN cache' = {}
      /\ main' = IF main = "waiting" THEN "checking" ELSE main
  BY DEF Broadcast
<1>2. UNCHANGED <<procs, conns, listening, session, depends, kq, batch, peers, opensocks>>
  BY DEF Broadcast, clientVars, sharedVars, peerVars
<1>3. Begun' <=> Begun
  BY <1>1 DEF Begun
<1>4. ServerTypes'
  BY <1>2 DEF TraceInv, ServerInv, ServerTypes
<1>5. Places'
  BY <1>1, <1>2 DEF TraceInv, ServerInv, Places
<1>6. Settled'
  BY <1>1, <1>2, <1>3 DEF TraceInv, ServerInv, Settled, Alive, Backlog, Accepted
<1>7. Books'
  BY <1>1, <1>2 DEF TraceInv, ServerInv, Books, Accepted
<1>8. CacheOK'
  BY <1>1 DEF CacheOK
<1> QED BY <1>4, <1>5, <1>6, <1>7, <1>8 DEF ServerInv

\* The main thread starts a session.
LEMMA TraceStartServer ==
    ASSUME TraceInv, TraceStart
    PROVE  ServerInv'
<1>1. /\ main = "idle" /\ session < Sessions /\ session' = session + 1 /\ listening' = session + 1
      /\ runner' = "posted" /\ main' = "started"
  BY DEF TraceStart, OpenSocket
<1>2. UNCHANGED <<procs, conns, depends, kq, batch, peers, opensocks, cache>>
  BY DEF TraceStart, clientVars, sharedVars, peerVars
<1>3. session \in Nat /\ Sessions \in Nat
  BY BoundAssumption DEF TraceInv, ServerInv, ServerTypes
<1>4. runner = "none" /\ ~Begun
  BY <1>1 DEF TraceInv, ServerInv, Places, Begun
<1>5. \A c \in Conns : conns[c].stage \notin {"backlog", "accepted"}
  BY <1>4 DEF TraceInv, ServerInv, Settled
<1>6. Accepted = {} /\ Accepted' = {} /\ Backlog' = {}
  BY <1>2, <1>5 DEF Accepted, Backlog
<1>7. ServerTypes'
  BY <1>1, <1>2, <1>3 DEF TraceInv, ServerInv, ServerTypes
<1>8. Places'
  BY <1>1, <1>2, <1>3, <1>4 DEF TraceInv, ServerInv, Places
<1>9. Settled'
  <2>1. \A p \in Procs : procs[p].fifo \in Nat
    BY DEF TraceInv, ClientInv, ClientTypes, Proc
  <2>2. \A p \in Procs : /\ procs[p].fifo <= session + 1 /\ procs[p].fifo # session + 1
                         /\ Alive(p) => procs[p].fifo # 0
    BY <1>3, <2>1 DEF TraceInv, ServerInv, Settled
  <2>3. ~Begun'
    BY <1>1 DEF Begun
  <2>4. \A p \in Procs : /\ procs'[p].fifo <= session'
                         /\ main' = "started" => procs'[p].fifo # session'
                         /\ (Alive(p)' => procs'[p].fifo # 0)
    BY <1>1, <1>2, <2>2 DEF Alive
  <2>5. \A c \in Conns : conns'[c].stage \notin {"backlog", "accepted"}
    BY <1>2, <1>5
  <2> QED BY <1>6, <2>3, <2>4, <2>5 DEF Settled
<1>10. Books'
  BY <1>1, <1>2, <1>4, <1>5, <1>6 DEF TraceInv, ServerInv, Books
<1>11. CacheOK'
  BY <1>1, <1>2, <1>4 DEF TraceInv, ServerInv, CacheOK
<1> QED BY <1>7, <1>8, <1>9, <1>10, <1>11 DEF ServerInv

\* The process of a target is set on its way.
LEMMA LaunchOK ==
    ASSUME TraceInv, Launch
    PROVE  TraceInv'
<1>1. /\ main = "started" /\ main' = "build" /\ depends' = Deps[session]
      /\ UNCHANGED <<conns, listening, session, kq, runner, batch, opensocks, peers, cache>>
  BY DEF Launch, SetDeps, serverVars, loopVars, peerVars
<1>2. \A c \in Conns : conns[c].stage \notin {"backlog", "accepted"}
  BY <1>1 DEF TraceInv, ServerInv, Settled, Begun
<1>3. session # 0 /\ session \in Nat
  BY <1>1 DEF TraceInv, ServerInv, Places, ServerTypes
<1>4. \/ UNCHANGED <<procs, thr>>
      \/ \E p \in Procs :
            /\ procs[p].state = "unborn"
            /\ procs' = [procs EXCEPT ![p] = [Unborn EXCEPT !.state = "alive", !.fifo = session]]
            /\ thr' = [thr EXCEPT ![<<p, 1>>] = NewThread]
  BY DEF Launch
<1>5. CASE UNCHANGED <<procs, thr>>
  <2>1. ClientInv'
    BY <1>1, <1>5, ClientSame DEF TraceInv
  <2>2. Accepted' = Accepted /\ Backlog' = Backlog /\ Accepted = {} /\ Backlog = {}
    BY <1>1, <1>2 DEF Accepted, Backlog
  <2>3. ServerInv'
    <3>1. ServerTypes'
      BY <1>1 DEF TraceInv, ServerInv, ServerTypes
    <3>2. Places'
      BY <1>1 DEF TraceInv, ServerInv, Places
    <3>3. Settled'
      BY <1>1, <1>2, <1>5, <2>2 DEF TraceInv, ServerInv, Settled, Begun, Alive
    <3>4. Books'
      BY <1>1, <2>2 DEF TraceInv, ServerInv, Books
    <3>5. CacheOK'
      BY <1>1 DEF TraceInv, ServerInv, CacheOK, Begun
    <3> QED BY <3>1, <3>2, <3>3, <3>4, <3>5 DEF ServerInv
  <2> QED BY <2>1, <2>3 DEF TraceInv
<1>6. ASSUME NEW p \in Procs, procs[p].state = "unborn",
             procs' = [procs EXCEPT ![p] = [Unborn EXCEPT !.state = "alive", !.fifo = session]],
             thr' = [thr EXCEPT ![<<p, 1>>] = NewThread]
      PROVE  TraceInv'
  <2>1. procs'[p].state = "alive" /\ procs'[p].dtpid = None /\ procs'[p].map = "none"
        /\ procs'[p].fifo = session /\ \A q \in Procs \ {p} : procs'[q] = procs[q]
    BY <1>6 DEF TraceInv, ClientInv, ClientTypes, Unborn
  <2>2. ClientTypes'
    <3>1. procs' \in [Procs -> Proc]
      BY <1>3, <1>6 DEF TraceInv, ClientInv, ClientTypes, Proc, Unborn
    <3>2. NewThread \in Thread
      BY EmptySeq DEF NewThread, NoThread, Thread
    <3> QED BY <1>1, <1>6, <3>1, <3>2 DEF TraceInv, ClientInv, ClientTypes
  <2>3. Parents'
    <3> SUFFICES ASSUME NEW q \in Procs, procs'[q].dtpid # None
                 PROVE  procs'[procs'[q].dtpid].state # "unborn"
      BY DEF Parents
    <3>1. q # p /\ procs'[q] = procs[q] /\ procs[q].dtpid \in Procs
      BY <2>1 DEF TraceInv, ClientInv, ClientTypes, Proc
    <3>2. procs[procs[q].dtpid].state # "unborn"
      BY <3>1 DEF TraceInv, ClientInv, Parents
    <3> QED BY <3>1, <3>2, <2>1
  <2>4. \A u \in Threads : u[1] = p => thr[u] = NoThread
    BY <1>6 DEF TraceInv, ClientInv, ThreadOK, Threaded, Alive
  <2>5. ASSUME NEW u \in Threads PROVE ThreadOK(u)'
    <3>0. ThreadOK(u) /\ u[1] \in Procs /\ u = <<u[1], u[2]>>
      BY ThreadsAre DEF TraceInv, ClientInv
    <3>1. CASE u = <<p, 1>>
      <4>1. thr'[u] = NewThread /\ u[1] = p
        BY <1>6, <3>1 DEF TraceInv, ClientInv, ClientTypes
      <4>2. thr'[u].live /\ thr'[u].sock = None /\ thr'[u].stack = <<>>
        BY <4>1 DEF NewThread, NoThread
      <4>3. Len(thr'[u].stack) <= 1
        BY <4>2
      <4>4. ~Stale(p)'
        BY <2>1 DEF Stale
      <4> QED BY <2>1, <4>1, <4>2, <4>3, <4>4 DEF ThreadOK, Threaded, Holds, Separate, Speaks,
                 Speaking, InCall, KnowsMap, InLine, CallOK, Own, Alive
    <3>2. CASE u # <<p, 1>> /\ u[1] = p
      <4>1. thr'[u] = NoThread
        BY <1>6, <2>4, <3>2 DEF TraceInv, ClientInv, ClientTypes
      <4> QED BY <4>1, NoThreadOK
    <3>3. CASE u[1] # p
      <4>1. u # <<p, 1>>
        BY <3>3
      <4>2. thr'[u] = thr[u] /\ procs'[u[1]] = procs[u[1]]
        BY <1>6, <2>1, <3>0, <3>3, <4>1 DEF TraceInv, ClientInv, ClientTypes
      <4>3. thr[u].sock # None => Holding(conns[thr[u].sock], conns'[thr[u].sock], u[1])
        BY <1>1 DEF Holding, ConnKept, LineKept
      <4>4. /\ Threaded(u)' /\ Holds(u)' /\ Speaks(u)' /\ KnowsMap(u)' /\ InLine(u)' /\ CallOK(u)'
        BY <2>2, <3>0, <4>2, <4>3, ThreadKept DEF TraceInv, ClientInv
      <4>5. \A v \in Threads : v[1] = u[1] => thr'[v] = thr[v]
        <5> SUFFICES ASSUME NEW v \in Threads, v[1] = u[1] PROVE thr'[v] = thr[v]
          OBVIOUS
        <5>1. v # <<p, 1>>
          BY <3>3
        <5> QED BY <1>6, <5>1 DEF TraceInv, ClientInv, ClientTypes
      <4>6. Separate(u)'
        BY <3>0, <4>2, <4>5, SeparateKept DEF TraceInv, ClientInv
      <4> QED BY <4>4, <4>6 DEF ThreadOK
    <3> QED BY <3>1, <3>2, <3>3
  <2>6. ClientInv'
    BY <1>1, <2>2, <2>3, <2>5 DEF TraceInv, ClientInv
  <2>7. Accepted' = Accepted /\ Backlog' = Backlog /\ Accepted = {} /\ Backlog = {}
    BY <1>1, <1>2 DEF Accepted, Backlog
  <2>8. ServerInv'
    <3>1. ServerTypes'
      BY <1>1 DEF TraceInv, ServerInv, ServerTypes
    <3>2. Places'
      BY <1>1 DEF TraceInv, ServerInv, Places
    <3>3. Settled'
      <4>1. \A q \in Procs : procs'[q].fifo <= session /\ (Alive(q)' => procs'[q].fifo # 0)
        BY <1>3, <2>1 DEF TraceInv, ServerInv, Settled, Alive
      <4> QED BY <1>1, <1>2, <2>7, <4>1 DEF TraceInv, ServerInv, Settled
    <3>4. Books'
      BY <1>1, <2>7 DEF TraceInv, ServerInv, Books
    <3>5. CacheOK'
      BY <1>1 DEF TraceInv, ServerInv, CacheOK, Begun
    <3> QED BY <3>1, <3>2, <3>3, <3>4, <3>5 DEF ServerInv
  <2> QED BY <2>6, <2>8 DEF TraceInv
<1> QED BY <1>4, <1>5, <1>6

\* The target is over, and its violations are asked for.
LEMMA MainMoves ==
    ASSUME TraceInv, Built \/ CheckViolations
    PROVE  TraceInv'
<1>1. UNCHANGED <<procs, thr, conns, listening, session, depends, kq, runner, batch, opensocks,
                  peers, cache>>
  BY DEF Built, CheckViolations, clientVars, sharedVars, serverVars, loopVars, peerVars
<1>2. \/ main = "build" /\ main' = "closing"
      \/ main = "checking" /\ runner = "over" /\ main' = "stopping"
  BY DEF Built, CheckViolations
<1>3. ClientInv'
  BY <1>1, ClientSame DEF TraceInv
<1>4. Accepted' = Accepted /\ Backlog' = Backlog /\ Begun /\ Begun'
  BY <1>1, <1>2 DEF Accepted, Backlog, Begun
<1>5. ServerTypes'
  BY <1>1 DEF TraceInv, ServerInv, ServerTypes
<1>6. Places'
  BY <1>1, <1>2 DEF TraceInv, ServerInv, Places
<1>7. Settled'
  BY <1>1, <1>2, <1>4 DEF TraceInv, ServerInv, Settled, Alive
<1>8. Books'
  BY <1>1, <1>4 DEF TraceInv, ServerInv, Books
<1>9. CacheOK'
  BY <1>1, <1>4 DEF TraceInv, ServerInv, CacheOK
<1> QED BY <1>3, <1>5, <1>6, <1>7, <1>8, <1>9 DEF TraceInv, ServerInv

\* What is left of the connections when the socket is closed.
LEMMA UnlistenLeaves ==
    ASSUME ClientInv, Unlisten
    PROVE  /\ Accepted' = Accepted /\ Backlog' = {} /\ listening' = 0
           /\ \A c \in Conns : conns'[c].stage \in {"backlog", "accepted"} => conns'[c] = conns[c]
           /\ \A c \in Accepted : conns'[c] = conns[c]
<1>1. /\ conns' = [c \in Conns |-> IF c \in Backlog THEN ShutDown(c) ELSE conns[c]]
      /\ listening' = 0
  BY DEF Unlisten
<1>2. \A c \in Conns : /\ c \in Backlog => conns'[c].stage \in {"closed", "none"}
                       /\ c \notin Backlog => conns'[c] = conns[c]
  BY <1>1, ShutStage
<1>3. Backlog' = {} /\ Accepted' = Accepted
  BY <1>2 DEF Backlog, Accepted
<1> QED BY <1>1, <1>2, <1>3 DEF Backlog, Accepted

\* The server is told to stop, or the socket closed.
LEMMA CloseSocketOK ==
    ASSUME TraceInv, CloseSocket
    PROVE  TraceInv'
<1>1. UNCHANGED <<procs, thr, session, depends, kq, runner, batch, opensocks, peers, cache>>
  BY DEF CloseSocket, clientVars, serverVars, loopVars, peerVars
<1>2. main \in {"closing", "stopping"}
  BY DEF CloseSocket
<1>3. ServerInv
  BY DEF TraceInv
<1>4. CASE kq
  <2>1. main' = "waiting" /\ UNCHANGED <<conns, listening>>
    BY <1>4 DEF CloseSocket
  <2>2. ClientInv'
    BY <1>1, <2>1, ClientSame DEF TraceInv
  <2>3. Accepted' = Accepted /\ Backlog' = Backlog /\ Begun /\ Begun'
    BY <1>2, <2>1 DEF Accepted, Backlog, Begun
  <2>4. ServerTypes' /\ Places'
    BY <1>1, <1>2, <1>3, <2>1 DEF ServerInv, ServerTypes, Places
  <2>5. Settled'
    BY <1>1, <1>3, <2>1, <2>3 DEF ServerInv, Settled, Alive
  <2>6. Books'
    BY <1>1, <1>3, <2>1, <2>3 DEF ServerInv, Books
  <2>7. CacheOK'
    BY <1>1, <1>3, <2>3 DEF ServerInv, CacheOK
  <2> QED BY <2>2, <2>4, <2>5, <2>6, <2>7 DEF TraceInv, ServerInv
<1>5. CASE ~kq
  <2>1. main' = (IF main = "closing" THEN "checking" ELSE "cleaning") /\ Unlisten
    BY <1>5 DEF CloseSocket
  <2>2. ClientInv'
    BY <1>1, <2>1, UnlistenClients
  <2>3. /\ Accepted' = Accepted /\ Backlog' = {} /\ listening' = 0 /\ Begun /\ Begun'
        /\ \A c \in Conns : conns'[c].stage \in {"backlog", "accepted"} => conns'[c] = conns[c]
        /\ \A c \in Accepted : conns'[c] = conns[c]
    BY <1>2, <2>1, UnlistenLeaves DEF Begun, TraceInv
  <2>4. ServerTypes' /\ Places'
    BY <1>1, <1>2, <1>3, <2>1, <2>3 DEF ServerInv, ServerTypes, Places
  <2>5. Settled'
    BY <1>1, <1>2, <1>3, <2>1, <2>3 DEF ServerInv, Settled, Alive
  <2>6. Books'
    BY <1>1, <1>3, <2>1, <2>3 DEF ServerInv, Books
  <2>7. CacheOK'
    BY <1>1, <1>3, <2>3 DEF ServerInv, CacheOK
  <2> QED BY <2>2, <2>4, <2>5, <2>6, <2>7 DEF TraceInv, ServerInv
<1> QED BY <1>4, <1>5

\* The session is cleaned up.
LEMMA CleanOK ==
    ASSUME TraceInv, Clean
    PROVE  TraceInv'
<1>1. UNCHANGED <<procs, thr, session, kq, batch, opensocks, peers, cache>>
  BY DEF Clean, clientVars, peerVars
<1>2. main = "cleaning" /\ main' = "idle" /\ runner' = "none" /\ Unlisten
  BY DEF Clean
<1>3. ServerInv /\ runner = "over"
  BY <1>2 DEF TraceInv, ServerInv, Places
<1>4. ClientInv'
  BY <1>1, <1>2, UnlistenClients
<1>5. /\ Accepted' = Accepted /\ Backlog' = {} /\ listening' = 0 /\ Accepted = {}
      /\ ~Begun'
  BY <1>2, <1>3, UnlistenLeaves DEF TraceInv, ServerInv, Settled, Begun
<1>6. ServerTypes' /\ Places'
  BY <1>1, <1>2, <1>3, <1>5 DEF ServerInv, ServerTypes, Places
<1>7. Settled'
  <2>1. \A c \in Conns : conns'[c].stage \notin {"backlog", "accepted"}
    BY <1>5 DEF Accepted, Backlog
  <2> QED BY <1>1, <1>2, <1>3, <1>5, <2>1 DEF ServerInv, Settled, Alive
<1>8. Books'
  BY <1>1, <1>2, <1>3, <1>5 DEF ServerInv, Books
<1>9. CacheOK'
  BY <1>1, <1>3, <1>5 DEF ServerInv, CacheOK
<1> QED BY <1>4, <1>6, <1>7, <1>8, <1>9 DEF TraceInv, ServerInv

\* A step of the server or of the main thread.
LEMMA ServerStep ==
    ASSUME TraceInv, Server \/ Main
    PROVE  TraceInv'
<1>1. CASE Run
  <2>1. UNCHANGED <<procs, thr, conns>>
    BY <1>1 DEF Run, clientVars
  <2> QED BY <1>1, <2>1, RunServer, ClientSame DEF TraceInv
<1>2. CASE Poll
  <2>1. UNCHANGED <<procs, thr, conns>>
    BY <1>2 DEF Poll, clientVars
  <2> QED BY <1>2, <2>1, PollServer, ClientSame DEF TraceInv
<1>3. CASE Hangup
  BY <1>3, HangupServer, HangupClients DEF TraceInv
<1>4. CASE ProcessLine
  BY <1>4, ProcessLineServer, ProcessLineClients DEF TraceInv
<1>5. CASE Accept
  BY <1>5, AcceptServer, AcceptClients DEF TraceInv
<1>6. CASE Finish
  BY <1>6, FinishServer, FinishClients DEF TraceInv
<1>7. CASE Broadcast
  <2>1. UNCHANGED <<procs, thr, conns>>
    BY <1>7 DEF Broadcast, clientVars
  <2> QED BY <1>7, <2>1, BroadcastServer, ClientSame DEF TraceInv
<1>8. CASE TraceStart
  <2>1. UNCHANGED <<procs, thr, conns>>
    BY <1>8 DEF TraceStart, clientVars
  <2> QED BY <1>8, <2>1, TraceStartServer, ClientSame DEF TraceInv
<1>9. CASE Main /\ ~TraceStart
  BY <1>9, LaunchOK, MainMoves, CloseSocketOK, CleanOK DEF Main
<1> QED BY <1>1, <1>2, <1>3, <1>4, <1>5, <1>6, <1>7, <1>8, <1>9 DEF Server

-----------------------------------------------------------------------------
(* The steps of the clients.                                               *)

\* A connection as far as the server is concerned with it.
Unmoved(old, new) ==
    \/ new.stage = old.stage /\ new.peer = old.peer /\ new.session = old.session
    \/ old.stage \notin {"backlog", "accepted"} /\ new.stage \notin {"backlog", "accepted"}

\* What a process keeps of its session: its own, or that of the process it is forked from.
Sessioned(p) ==
    \/ procs'[p].fifo = 0 /\ ~Alive(p)'
    \/ \E q \in Procs : procs'[p].fifo = procs[q].fifo /\ (Alive(p)' => Alive(q))

\* The server stays right while clients use their connections, and make new ones
\* to a socket that is there.
LEMMA ServerUnmoved ==
    ASSUME TraceInv, UNCHANGED <<listening, mainVars, sharedVars, serverVars>>,
           \A p \in Procs : Sessioned(p),
           \A c \in Conns :
               \/ Unmoved(conns[c], conns'[c])
               \/ /\ conns[c].stage \notin {"backlog", "accepted"} /\ conns'[c].stage = "backlog"
                  /\ conns'[c].session = session /\ Begun /\ listening # 0
    PROVE  ServerInv'
<1>1. UNCHANGED <<listening, main, session, depends, kq, runner, batch, opensocks, peers, cache>>
  BY DEF mainVars, sharedVars, serverVars, loopVars, peerVars
<1>2. ServerInv
  BY DEF TraceInv
<1>3. Accepted' = Accepted /\ \A c \in Accepted : conns'[c].peer = conns[c].peer
  BY DEF Accepted, Unmoved
<1>4. \A c \in Conns : conns'[c].stage \in {"backlog", "accepted"} =>
          conns'[c].session = session /\ Begun
  BY <1>2 DEF ServerInv, Settled, Unmoved
<1>5. Backlog' # {} => listening # 0
  <2> SUFFICES ASSUME NEW c \in Backlog' PROVE listening # 0
    OBVIOUS
  <2>1. conns'[c].stage = "backlog" /\ c \in Conns
    BY DEF Backlog
  <2>2. conns[c].stage = "backlog" => c \in Backlog
    BY <2>1 DEF Backlog
  <2> QED BY <1>2, <2>1, <2>2 DEF ServerInv, Settled, Unmoved
<1>6. \A p \in Procs : /\ procs'[p].fifo <= session
                       /\ main = "started" => procs'[p].fifo # session
                       /\ Alive(p)' => procs'[p].fifo # 0
  <2>1. main = "started" => session # 0
    BY <1>2 DEF ServerInv, Places
  <2>2. 0 <= session
    BY <1>2 DEF ServerInv, ServerTypes
  <2> QED BY <1>2, <2>1, <2>2 DEF ServerInv, Settled, Sessioned
<1>7. ServerTypes' /\ Places'
  BY <1>1, <1>2 DEF ServerInv, ServerTypes, Places
<1>8. Settled'
  BY <1>1, <1>2, <1>3, <1>4, <1>5, <1>6 DEF ServerInv, Settled, Begun
<1>9. Books'
  BY <1>1, <1>2, <1>3 DEF ServerInv, Books
<1>10. CacheOK'
  BY <1>1, <1>2 DEF ServerInv, CacheOK, Begun
<1> QED BY <1>7, <1>8, <1>9, <1>10 DEF ServerInv

\* The end of a process moves nothing on the server.
LEMMA AbortServer ==
    ASSUME TraceInv, NEW p \in Procs, Abort(p),
           UNCHANGED <<listening, mainVars, sharedVars, serverVars>>
    PROVE  ServerInv'
<1>1. \A q \in Procs : Sessioned(q)
  <2>1. procs' = [procs EXCEPT ![p] = Dead] /\ procs \in [Procs -> Proc]
    BY DEF Abort, TraceInv, ClientInv, ClientTypes
  <2> QED BY <2>1 DEF Sessioned, Dead, Unborn, Alive
<1>2. ASSUME NEW c \in Conns PROVE Unmoved(conns[c], conns'[c])
  <2> DEFINE fds == [q \in Procs |-> IF q \in {p} THEN "no" ELSE conns[c].fds[q]]
             x == [conns[c] EXCEPT !.fds = fds]
  <2>1. conns'[c] = Settle(x)
    BY DEF Abort, Killed
  <2>2. conns[c] \in Conn /\ Orderly(conns[c])
    BY DEF TraceInv, ClientInv, ClientTypes
  <2>3. fds \in [Procs -> {"no", "cloexec", "kept"}]
    BY <2>2 DEF Conn
  <2> HIDE DEF fds
  <2>4. x \in Conn /\ FdsOnly(conns[c], x)
    BY <2>2, <2>3 DEF Conn, FdsOnly
  <2> HIDE DEF x
  <2>5. FdsOnly(conns[c], conns'[c]) \/ (conns[c].stage = "closed" /\ conns'[c] = NoConn)
    BY <2>1, <2>2, <2>4, Released
  <2> QED BY <2>5 DEF FdsOnly, Unmoved, NoConn
<1> QED BY <1>1, <1>2, ServerUnmoved

\* A process ends: everything stays right.
LEMMA AbortStep ==
    ASSUME TraceInv, NEW p \in Procs, Abort(p),
           UNCHANGED <<listening, mainVars, sharedVars, serverVars>>
    PROVE  TraceInv'
BY AbortOK, AbortServer DEF TraceInv

\* No two threads have the same connection for their own.
LEMMA OwnDiffer ==
    ASSUME ClientInv, NEW t \in Threads, NEW u \in Threads, t # u, Own(t), Own(u)
    PROVE  thr[t].sock # thr[u].sock
<1>1. ThreadOK(t) /\ ThreadOK(u)
  BY DEF ClientInv
<1>2. CASE t[1] = u[1]
  BY <1>1, <1>2 DEF ThreadOK, Separate
<1>3. CASE t[1] # u[1]
  BY <1>1, <1>3 DEF ThreadOK, Holds, Own
<1> QED BY <1>2, <1>3

\* One thread takes a step and may leave its connection; the others of its process,
\* if any, see its process remember what it remembered.
LEMMA OneThread ==
    ASSUME ClientInv, ClientTypes', Parents', \A c \in Conns : Orderly(conns'[c]),
           NEW t \in Threads, ThreadOK(t)',
           \A u \in Threads \ {t} : thr'[u] = thr[u],
           thr'[t].live => thr[t].live,
           thr'[t].sock = thr[t].sock \/ thr'[t].sock = None,
           \A p \in Procs : /\ procs'[p].state = procs[p].state
                            /\ procs'[p].fifo = procs[p].fifo
                            /\ procs'[p].map = procs[p].map \/ procs[p].map = "none"
                            /\ procs'[p].dtpid \in {procs[p].dtpid, None},
           \A u \in Threads \ {t} : thr[u].sock # None =>
               procs'[u[1]].dtpid = procs[u[1]].dtpid /\ Held(u)
    PROVE  ClientInv'
<1>1. ASSUME NEW u \in Threads \ {t} PROVE ThreadOK(u)'
  <2>0. ThreadOK(u) /\ u[1] \in Procs /\ ClientTypes
    BY ThreadsAre DEF ClientInv
  <2>1. /\ Threaded(u)' /\ Holds(u)' /\ Speaks(u)' /\ KnowsMap(u)' /\ InLine(u)' /\ CallOK(u)'
    BY <2>0, ThreadHeld
  <2>2. \A v \in Threads : /\ thr'[v].live => thr[v].live
                           /\ thr'[v].sock = thr[v].sock \/ thr'[v].sock = None
    OBVIOUS
  <2>3. Separate(u)'
    BY <2>0, <2>2, SeparateKept
  <2> QED BY <2>1, <2>3 DEF ThreadOK
<1> QED BY <1>1 DEF ClientInv

\* The stack of a thread in a call.
LEMMA CallFacts ==
    ASSUME ClientInv, NEW t \in Threads, InCall(t)
    PROVE  /\ thr[t].stack = <<Top(t)>> /\ Top(t) \in Call /\ thr[t].live /\ t[1] \in Procs
           /\ InOrder(Top(t), procs[t[1]].fifo, procs[t[1]].map) /\ ThreadOK(t)
           /\ \A d : SetTop(t, d) = [thr EXCEPT ![t].stack = <<d>>]
           /\ Pop(t) = [thr EXCEPT ![t].stack = <<>>]
           /\ thr[t].sock # None => thr[t].sock \in Conns
           /\ procs[t[1]] \in Proc
<1>1. thr \in [Threads -> Thread] /\ thr[t] \in Thread /\ ThreadOK(t) /\ t[1] \in Procs
      /\ procs[t[1]] \in Proc
  BY ThreadsAre DEF ClientInv, ClientTypes
<1>2. thr[t].stack \in Seq(Call) /\ Len(thr[t].stack) <= 1 /\ thr[t].stack # <<>>
  BY <1>1 DEF Thread, ThreadOK, Threaded, InCall
<1> DEFINE q == thr[t].stack
<1>3. /\ q = <<q[1]>> /\ q[1] \in Call /\ Head(q) = q[1] /\ Tail(q) = <<>>
      /\ \A d : [q EXCEPT ![1] = d] = <<d>>
  <2> HIDE DEF q
  <2> QED BY <1>2, OneElement DEF q
<1>4. \A d : SetTop(t, d) = [thr EXCEPT ![t].stack = [q EXCEPT ![1] = d]]
  BY DEF SetTop
<1>5. Pop(t) = [thr EXCEPT ![t].stack = Tail(q)]
  BY DEF Pop
<1> HIDE DEF q
<1>6. \A d : SetTop(t, d) = [thr EXCEPT ![t].stack = <<d>>]
  BY <1>3, <1>4
<1>7. Pop(t) = [thr EXCEPT ![t].stack = <<>>]
  BY <1>3, <1>5
<1>8. Top(t) = q[1]
  BY <1>3 DEF Top, q
<1>9. q = <<Top(t)>> /\ Top(t) \in Call
  BY <1>3, <1>8
<1>10. InOrder(Top(t), procs[t[1]].fifo, procs[t[1]].map)
  BY <1>1, <1>2 DEF ThreadOK, CallOK, Top
<1> QED BY <1>1, <1>6, <1>7, <1>9, <1>10 DEF q, InCall, Thread

\* A step of a call: only the thread's stack and its connection change, and the
\* file map of its process if it had none.
LEMMA CallStep ==
    ASSUME ClientInv, NEW t \in Threads, NEW stack \in Seq(Call), Len(stack) <= 1, thr[t].live,
           thr' = [thr EXCEPT ![t].stack = stack],
           procs' = procs \/ \E map \in Maps : /\ procs' = [procs EXCEPT ![t[1]].map = map]
                                              /\ procs[t[1]].map = "none",
           conns' \in [Conns -> Conn], \A c \in Conns : Orderly(conns'[c]),
           \A u \in Threads \ {t} : thr[u].sock # None => Held(u),
           thr[t].sock # None =>
               ConnKept(conns[thr[t].sock], conns'[thr[t].sock], t[1]),
           stack # <<>> => \/ thr[t].stack # <<>> /\ Head(stack).do = Head(thr[t].stack).do
                           \/ Head(stack).do.op = ExecveCall => Alone(t),
           stack # <<>> /\ Head(stack).at # "setup" => Own(t),
           thr[t].sock # None /\ ~AsksMap(stack) => procs'[t[1]].map # "none",
           Own(t) => Lined(stack, conns'[thr[t].sock]),
           stack # <<>> => InOrder(Head(stack), procs[t[1]].fifo, procs'[t[1]].map)
    PROVE  ClientInv'
<1>0. ThreadOK(t) /\ t[1] \in Procs /\ ClientTypes
  BY ThreadsAre DEF ClientInv
<1>1. /\ thr' \in [Threads -> Thread] /\ thr'[t].stack = stack
      /\ thr'[t].live = thr[t].live /\ thr'[t].sock = thr[t].sock
      /\ \A u \in Threads \ {t} : thr'[u] = thr[u]
  BY <1>0 DEF ClientTypes, Thread
<1>2. /\ procs' \in [Procs -> Proc]
      /\ \A p \in Procs : /\ procs'[p].state = procs[p].state /\ procs'[p].fifo = procs[p].fifo
                          /\ procs'[p].map = procs[p].map \/ procs[p].map = "none"
                          /\ procs'[p].dtpid = procs[p].dtpid
  <2>0. procs \in [Procs -> Proc] /\ t[1] \in Procs
    BY <1>0 DEF ClientTypes
  <2>1. CASE procs' = procs
    BY <2>0, <2>1
  <2>2. CASE procs' # procs
    <3>1. PICK map \in Maps : /\ procs' = [procs EXCEPT ![t[1]].map = map]
                              /\ procs[t[1]].map = "none"
      BY <2>2
    <3>2. [procs[t[1]] EXCEPT !.map = map] \in Proc
      BY <2>0, <3>1 DEF Proc
    <3>3. procs' \in [Procs -> Proc]
      BY <2>0, <3>1, <3>2
    <3>4. \A p \in Procs : procs'[p] = IF p = t[1] THEN [procs[p] EXCEPT !.map = map] ELSE procs[p]
      BY <2>0, <3>1
    <3>5. \A p \in Procs : procs[p] \in Proc
      BY <2>0
    <3> QED BY <3>1, <3>3, <3>4, <3>5 DEF Proc
  <2> QED BY <2>1, <2>2
<1>3. ClientTypes'
  BY <1>1, <1>2 DEF ClientTypes
<1>4. Parents'
  <2>1. \A p \in Procs : procs[p].dtpid # None => procs[p].dtpid \in Procs
    BY <1>0 DEF ClientTypes, Proc
  <2> QED BY <1>2, <2>1 DEF ClientInv, Parents
<1>5. Own(t)' <=> Own(t)
  BY <1>0, <1>1, <1>2 DEF Own
<1>6. ThreadOK(t)'
  <2>1. Threaded(t)'
    BY <1>0, <1>1, <1>2 DEF Threaded, ThreadOK, Alive
  <2>2. Holds(t)'
    BY <1>0, <1>1, <1>2, <1>5 DEF Holds, ThreadOK, ConnKept
  <2>3. Separate(t)'
    <3>1. \A v \in Threads : thr'[v].live = thr[v].live /\ thr'[v].sock = thr[v].sock
      BY <1>1
    <3>2. Alone(t)' <=> Alone(t)
      BY <3>1 DEF Alone
    <3>3. Stale(t[1])' <=> Stale(t[1])
      BY <1>0, <1>2 DEF Stale
    <3>4. InCall(t)' /\ Top(t)'.do.op = ExecveCall => Alone(t)
      BY <1>0, <1>1 DEF InCall, Top, ThreadOK, Separate
    <3> QED BY <1>0, <1>5, <3>1, <3>2, <3>3, <3>4 DEF ThreadOK, Separate
  <2>4. Speaks(t)'
    BY <1>1, <1>5 DEF Speaks, Speaking, InCall, Top
  <2>5. KnowsMap(t)'
    BY <1>1 DEF KnowsMap
  <2>6. InLine(t)'
    BY <1>1, <1>5 DEF InLine
  <2>7. CallOK(t)'
    BY <1>0, <1>1, <1>2 DEF CallOK
  <2> QED BY <2>1, <2>2, <2>3, <2>4, <2>5, <2>6, <2>7 DEF ThreadOK
<1>7. \A u \in Threads \ {t} : thr[u].sock # None =>
          procs'[u[1]].dtpid = procs[u[1]].dtpid /\ Held(u)
  BY <1>2, ThreadsAre
<1> QED BY <1>1, <1>2, <1>3, <1>4, <1>6, <1>7, OneThread

\* A step of a call in which the thread does no more to connections than to use
\* its own: nothing that is right is disturbed if the call stays right.
LEMMA Stepped ==
    ASSUME TraceInv, NEW t \in Threads, NEW stack \in Seq(Call), Len(stack) <= 1, thr[t].live,
           UNCHANGED <<listening, mainVars, sharedVars, serverVars>>,
           thr' = [thr EXCEPT ![t].stack = stack],
           procs' = procs \/ \E map \in Maps : /\ procs' = [procs EXCEPT ![t[1]].map = map]
                                              /\ procs[t[1]].map = "none",
           NEW x \in Conn,
           \/ conns' = conns
           \/ LET old == conns[thr[t].sock] IN
              /\ Own(t) /\ conns' = [conns EXCEPT ![thr[t].sock] = x] /\ Orderly(x)
              /\ x.stage = old.stage /\ x.peer = old.peer /\ x.session = old.session
              /\ x.fds[t[1]] # "no" /\ \A p \in Procs : p = t[1] \/ x.fds[p] = old.fds[p],
           stack # <<>> => \/ thr[t].stack # <<>> /\ Head(stack).do = Head(thr[t].stack).do
                           \/ Head(stack).do.op = ExecveCall => Alone(t),
           stack # <<>> /\ Head(stack).at # "setup" => Own(t),
           thr[t].sock # None /\ ~AsksMap(stack) => procs'[t[1]].map # "none",
           Own(t) => Lined(stack, conns'[thr[t].sock]),
           stack # <<>> => InOrder(Head(stack), procs[t[1]].fifo, procs'[t[1]].map)
    PROVE  TraceInv'
<1> DEFINE c == thr[t].sock
           Same == conns' = conns
           Used == /\ Own(t) /\ conns' = [conns EXCEPT ![c] = x] /\ Orderly(x)
                   /\ x.stage = conns[c].stage /\ x.peer = conns[c].peer
                   /\ x.session = conns[c].session /\ x.fds[t[1]] # "no"
                   /\ \A p \in Procs : p = t[1] \/ x.fds[p] = conns[c].fds[p]
<1>0. /\ ClientInv /\ ClientTypes /\ conns \in [Conns -> Conn] /\ ThreadOK(t) /\ t[1] \in Procs
      /\ \A d \in Conns : Orderly(conns[d])
  BY ThreadsAre DEF TraceInv, ClientInv, ClientTypes
<1>1. Same \/ Used
  OBVIOUS
<1>2. c # None => c \in Conns /\ conns[c].fds[t[1]] # "no" /\ conns[c].stage # "none"
  BY <1>0 DEF ClientTypes, Thread, ThreadOK, Holds
<1>3. Own(t) => c # None
  BY DEF Own
<1>4. \A d \in Conns : /\ conns'[d] \in Conn /\ Orderly(conns'[d])
                       /\ conns'[d].stage = conns[d].stage /\ conns'[d].peer = conns[d].peer
                       /\ conns'[d].session = conns[d].session
                       /\ d # c => conns'[d] = conns[d]
  <2>1. CASE Same
    BY <1>0, <2>1
  <2>2. CASE Used
    BY <1>0, <1>2, <1>3, <2>2
  <2> QED BY <1>1, <2>1, <2>2
<1>5. conns' \in [Conns -> Conn]
  <2>1. CASE Same
    BY <1>0, <2>1
  <2>2. CASE Used
    BY <1>0, <1>2, <1>3, <2>2
  <2> QED BY <1>1, <2>1, <2>2
<1>6. c # None => ConnKept(conns[c], conns'[c], t[1])
  <2>1. CASE Same
    BY <1>2, <2>1 DEF ConnKept
  <2>2. CASE Used
    BY <1>0, <1>2, <2>2 DEF ConnKept
  <2> QED BY <1>1, <2>1, <2>2
<1>7. ASSUME NEW u \in Threads \ {t}, thr[u].sock # None PROVE Held(u)
  <2>1. thr[u].sock \in Conns /\ u[1] \in Procs
    BY <1>0, <1>7, ThreadsAre DEF ClientTypes, Thread
  <2>2. CASE conns'[thr[u].sock] = conns[thr[u].sock]
    BY <2>2 DEF Held, ConnKept, LineKept
  <2>3. CASE conns'[thr[u].sock] # conns[thr[u].sock]
    <3>1. Used /\ thr[u].sock = c
      BY <1>1, <1>4, <2>1, <2>3
    <3>2. ~Own(u)
      BY <1>0, <3>1, OwnDiffer
    <3>3. u[1] # t[1]
      BY <1>7, <3>1, <3>2 DEF Own
    <3>4. conns'[c].fds[u[1]] = conns[c].fds[u[1]]
      BY <1>0, <1>2, <1>3, <2>1, <3>1, <3>3
    <3> QED BY <1>2, <1>3, <1>4, <3>1, <3>2, <3>4, SMTT(30) DEF Held, ConnKept
  <2> QED BY <2>2, <2>3
<1>8. ClientInv'
  <2>1. \A d \in Conns : Orderly(conns'[d])
    BY <1>4
  <2>2. \A u \in Threads \ {t} : thr[u].sock # None => Held(u)
    BY <1>7
  <2>3. thr[t].sock # None => ConnKept(conns[thr[t].sock], conns'[thr[t].sock], t[1])
    BY <1>6
  <2>4. procs' = procs \/ \E map \in Maps : /\ procs' = [procs EXCEPT ![t[1]].map = map]
                                            /\ procs[t[1]].map = "none"
    OBVIOUS
  <2>5. ClientInv
    BY <1>0
  <2> HIDE DEF c, Same, Used
  <2> QED BY <2>1, <2>2, <2>3, <2>4, <2>5, <1>5, CallStep
<1> HIDE DEF c, Same, Used
<1>9. \A p \in Procs : Sessioned(p)
  <2>0. procs \in [Procs -> Proc]
    BY <1>0 DEF ClientTypes
  <2>1. CASE procs' = procs
    BY <2>1 DEF Sessioned, Alive
  <2>2. CASE \E map \in Maps : procs' = [procs EXCEPT ![t[1]].map = map]
    <3>1. PICK map \in Maps : procs' = [procs EXCEPT ![t[1]].map = map]
      BY <2>2
    <3>2. \A p \in Procs : procs'[p] = IF p = t[1] THEN [procs[p] EXCEPT !.map = map] ELSE procs[p]
      BY <1>0, <2>0, <3>1
    <3>3. \A p \in Procs : procs[p] \in Proc
      BY <2>0
    <3>4. \A p \in Procs : procs'[p].fifo = procs[p].fifo /\ procs'[p].state = procs[p].state
      BY <3>2, <3>3, ZenonT(30) DEF Proc
    <3> QED BY <3>4 DEF Sessioned, Alive
  <2> QED BY <2>1, <2>2
<1>10. \A d \in Conns : Unmoved(conns[d], conns'[d])
  BY <1>4 DEF Unmoved
<1>11. ServerInv'
  BY <1>9, <1>10, ServerUnmoved
<1> QED BY <1>8, <1>11 DEF TraceInv

-----------------------------------------------------------------------------
(* The steps of a call.                                                    *)

Elsewhere == UNCHANGED <<mainVars, sharedVars, serverVars>>

\* What a thread in a call is.
LEMMA Caller ==
    ASSUME TraceInv, NEW t \in Threads, InCall(t)
    PROVE  /\ ClientInv /\ conns \in [Conns -> Conn] /\ \A c \in Conns : Orderly(conns[c])
           /\ thr[t].stack # <<>> /\ Head(thr[t].stack) = Top(t)
           /\ Top(t).at # "setup" => Own(t) /\ thr[t].sock # None /\ thr[t].sock \in Conns
           /\ Own(t) => Lined(<<Top(t)>>, conns[thr[t].sock])
           /\ thr[t].sock # None /\ ~AsksMap(<<Top(t)>>) => procs[t[1]].map \in Maps
<1>0. ClientInv /\ ThreadOK(t) /\ thr[t].stack = <<Top(t)>> /\ procs[t[1]] \in Proc
  BY CallFacts DEF TraceInv
<1>1. Own(t) => thr[t].sock # None
  BY DEF Own
<1>2. thr[t].sock # None => thr[t].sock \in Conns
  BY <1>0, CallFacts
<1>3. Top(t).at # "setup" => Own(t)
  BY <1>0 DEF ThreadOK, Speaks, Speaking
<1>4. Own(t) => Lined(<<Top(t)>>, conns[thr[t].sock])
  BY <1>0 DEF ThreadOK, InLine
<1>5. thr[t].sock # None /\ ~AsksMap(<<Top(t)>>) => procs[t[1]].map \in Maps
  BY <1>0 DEF ThreadOK, KnowsMap, Proc
<1>6. conns \in [Conns -> Conn] /\ \A c \in Conns : Orderly(conns[c])
  BY <1>0 DEF ClientInv, ClientTypes
<1>7. thr[t].stack # <<>> /\ Head(thr[t].stack) = Top(t)
  BY DEF InCall, Top
<1> QED BY <1>0, <1>1, <1>2, <1>3, <1>4, <1>5, <1>6, <1>7

\* A call goes on from one stage to another.
LEMMA GoesOnRight ==
    ASSUME TraceInv, NEW t \in Threads, InCall(t), NEW d \in Call, d.do = Top(t).do,
           Elsewhere, UNCHANGED listening, thr' = SetTop(t, d),
           procs' = procs \/ \E map \in Maps : /\ procs' = [procs EXCEPT ![t[1]].map = map]
                                              /\ procs[t[1]].map = "none",
           NEW x \in Conn,
           \/ conns' = conns
           \/ LET old == conns[thr[t].sock] IN
              /\ Own(t) /\ conns' = [conns EXCEPT ![thr[t].sock] = x] /\ Orderly(x)
              /\ x.stage = old.stage /\ x.peer = old.peer /\ x.session = old.session
              /\ x.fds = old.fds,
           d.at # "setup" => Own(t),
           thr[t].sock # None /\ ~AsksMap(<<d>>) => procs'[t[1]].map # "none",
           Own(t) => Lined(<<d>>, conns'[thr[t].sock]),
           InOrder(d, procs[t[1]].fifo, procs'[t[1]].map)
    PROVE  TraceInv'
<1> DEFINE stack == <<d>>
<1>1. stack \in Seq(Call) /\ Len(stack) <= 1 /\ Head(stack) = d /\ stack # <<>>
  OBVIOUS
<1>2. thr' = [thr EXCEPT ![t].stack = stack] /\ thr[t].live
  BY CallFacts DEF TraceInv
<1>3. thr[t].stack # <<>> /\ Head(thr[t].stack) = Top(t)
  BY Caller
<1>4. UNCHANGED <<listening, mainVars, sharedVars, serverVars>>
  BY DEF Elsewhere
<1>5. Own(t) => conns[thr[t].sock].fds[t[1]] # "no"
  <2>1. ThreadOK(t)
    BY DEF TraceInv, ClientInv
  <2> QED BY <2>1 DEF ThreadOK, Holds, Own
<1>6. /\ thr[t].sock # None /\ ~AsksMap(stack) => procs'[t[1]].map # "none"
      /\ Own(t) => Lined(stack, conns'[thr[t].sock])
  OBVIOUS
<1> HIDE DEF stack
<1> QED BY <1>1, <1>2, <1>3, <1>4, <1>5, <1>6, Stepped

\* The verdict of a call rests on its paths, on how far they have been looked at, and
\* on what has been decided.
LEMMA JudgedSame ==
    ASSUME NEW a, NEW b, a.do = b.do, a.next = b.next, a.path = b.path, a.links = b.links,
           a.ok = b.ok, NEW s, NEW map
    PROVE  Judged(a, s, map) <=> Judged(b, s, map)
<1>1. Ahead(a) = Ahead(b)
  BY DEF Ahead
<1> QED BY <1>1 DEF Judged

\* A call that has only begun has judged nothing.
LEMMA FreshInOrder ==
    ASSUME NEW call \in Call, Fresh(call), call.at \in {"setup", "check"}, NEW s, NEW map
    PROVE  InOrder(call, s, map)
<1>1. LinksOf(call.do.op) \in Nat /\ Len(call.do.paths) \in Nat /\ call.do \in Calls
  BY LinksCounted DEF Call
<1>2. Judged(call, s, map)
  BY DEF Judged, Fresh
<1>3. ~Asking(<<call>>)
  BY DEF Asking
<1> QED BY <1>1, <1>2, <1>3 DEF InOrder, Fresh

\* A thread that has asked or reported goes on to the next part of the message.
LEMMA Restaged ==
    ASSUME NEW call \in Call, call.at \in {"len", "body"}, NEW at \in {"body", "wait"},
           NEW s, NEW map, InOrder(call, s, map)
    PROVE  LET d == [call EXCEPT !.at = at] IN
           /\ d \in Call /\ d.at = at /\ d.do = call.do /\ d.msg = call.msg
           /\ InOrder(d, s, map) /\ AsksMap(<<d>>) = AsksMap(<<call>>)
<1> DEFINE d == [call EXCEPT !.at = at]
<1>1. /\ d \in Call /\ d.at = at /\ d.do = call.do /\ d.msg = call.msg /\ d.next = call.next
      /\ d.path = call.path /\ d.links = call.links /\ d.ok = call.ok
  BY DEF Call, Stages
<1> HIDE DEF d
<1>2. Asking(<<call>>) /\ Asking(<<d>>)
  BY <1>1 DEF Asking
<1>3. AsksMap(<<d>>) = AsksMap(<<call>>)
  BY <1>1, <1>2 DEF AsksMap
<1>4. Judged(d, s, map)
  BY <1>1, JudgedSame DEF InOrder
<1>5. Question(d, s, map)
  BY <1>1, <1>2 DEF InOrder, Question
<1>6. InOrder(d, s, map)
  BY <1>1, <1>2, <1>3, <1>4, <1>5 DEF InOrder, Fresh
<1> QED BY <1>1, <1>3, <1>6 DEF d

\* A program makes a traced call.
LEMMA BeginStep ==
    ASSUME TraceInv, OneCallAtATime, NEW t \in Threads, Begin(t), Elsewhere
    PROVE  TraceInv'
<1>0. /\ ClientInv /\ ThreadOK(t) /\ t[1] \in Procs /\ thr[t] \in Thread
      /\ thr \in [Threads -> Thread] /\ procs[t[1]] \in Proc
  BY ThreadsAre DEF TraceInv, ClientInv, ClientTypes
<1>1. PICK do \in Calls :
          /\ do.op = ExecveCall => LiveThreads(t[1]) = {t}
          /\ thr' = [thr EXCEPT ![t].stack = <<NewCall(do)>> \o @]
  BY DEF Begin
<1>2. thr[t].stack = <<>> /\ thr[t].live /\ UNCHANGED <<procs, conns, listening>>
  <2>1. thr[t].stack \in Seq(Call) /\ Len(thr[t].stack) < 1
    BY <1>0 DEF Begin, OneCallAtATime, Thread
  <2>2. Len(thr[t].stack) = 0
    BY <2>1
  <2>3. thr[t].stack = <<>>
    BY <2>1, <2>2, EmptySeq
  <2> QED BY <2>3 DEF Begin
<1> DEFINE d == NewCall(do)
           stack == <<d>>
<1>3. d \in Call /\ Fresh(d) /\ d.at = "setup" /\ d.do = do
  BY DEF NewCall, Call, Fresh, Stages
<1> HIDE DEF d
<1>4. thr' = [thr EXCEPT ![t].stack = stack]
  <2>1. <<d>> \o <<>> = <<d>>
    OBVIOUS
  <2> QED BY <1>1, <1>2, <2>1 DEF d
<1>5. /\ stack \in Seq(Call) /\ Len(stack) <= 1 /\ Head(stack) = d /\ stack # <<>>
  BY <1>3
<1>6. do.op = ExecveCall => Alone(t)
  <2>1. LiveThreads(t[1]) = {t} => Alone(t)
    BY DEF LiveThreads, Alone
  <2> QED BY <1>1, <2>1
<1>7. InOrder(d, procs[t[1]].fifo, procs'[t[1]].map)
  BY <1>3, FreshInOrder
<1>8. ~Asking(stack) /\ ~AsksMap(stack) /\ ~Asking(thr[t].stack) /\ ~AsksMap(thr[t].stack)
  BY <1>2, <1>3, <1>5 DEF Asking, AsksMap
<1>9. /\ thr[t].sock # None => procs'[t[1]].map # "none"
      /\ Own(t) => Lined(stack, conns'[thr[t].sock])
  BY <1>0, <1>2, <1>8 DEF ThreadOK, KnowsMap, InLine, Lined
<1> HIDE DEF stack
<1>10. UNCHANGED <<listening, mainVars, sharedVars, serverVars>>
  BY <1>2 DEF Elsewhere
<1>11. /\ stack # <<>> => \/ thr[t].stack # <<>> /\ Head(stack).do = Head(thr[t].stack).do
                          \/ Head(stack).do.op = ExecveCall => Alone(t)
       /\ stack # <<>> /\ Head(stack).at # "setup" => Own(t)
       /\ stack # <<>> => InOrder(Head(stack), procs[t[1]].fifo, procs'[t[1]].map)
       /\ thr[t].sock # None /\ ~AsksMap(stack) => procs'[t[1]].map # "none"
       /\ procs' = procs /\ conns' = conns /\ thr[t].live
  BY <1>2, <1>3, <1>5, <1>6, <1>7, <1>9
<1> QED BY ONLY TraceInv, t \in Threads, NoConnOK, <1>4, <1>5, <1>9, <1>10, <1>11, Stepped

\* The next path is the current one, or the checks are over.
LEMMA Looked ==
    ASSUME NEW call \in Call, call.at = "check", NEW s, NEW map, InOrder(call, s, map),
           call.next <= Len(call.do.paths)
    PROVE  LET path == IF call.path # None THEN call.path
                       ELSE Tokenize(<<>>, call.do.paths[call.next])
               d == [call EXCEPT !.path = path]
           IN  Checking(d, s, map) /\ d.do = call.do
<1> DEFINE path == IF call.path # None THEN call.path
                   ELSE Tokenize(<<>>, call.do.paths[call.next])
           d == [call EXCEPT !.path = path]
           op == call.do.op
<1>0. /\ call.do \in Calls /\ Len(call.do.paths) \in Nat /\ call.next \in 1..Len(call.do.paths)
      /\ LinksOf(op) \in Nat /\ call.links \in Nat /\ call.path \in Path \cup {None}
  BY LinksCounted DEF InOrder, Call
<1>1. path \in Path /\ path # None
  BY <1>0, PathsArePaths
<1> HIDE DEF path
<1>2. /\ d \in Call /\ d.do = call.do /\ d.next = call.next /\ d.path = path
      /\ d.links = call.links /\ d.ok = call.ok
  BY <1>1 DEF Call
<1> HIDE DEF d
<1>3. Judged(call, s, map) /\ call.links <= LinksOf(op)
  BY DEF InOrder
<1>4. Judged(d, s, map)
  <2>1. CASE call.path # None
    <3>1. path = call.path
      BY <2>1 DEF path
    <3> QED BY <1>2, <1>3, <3>1, JudgedSame
  <2>2. CASE call.path = None
    <3>1. path = Tokenize(<<>>, call.do.paths[call.next]) /\ call.links = 0
      BY <2>2 DEF path, InOrder
    <3>2. Ahead(d) = Way(d.do, d.next)
      <4>1. LinksOf(op) - 0 = LinksOf(op)
        BY <1>0
      <4> QED BY <1>2, <3>1, <4>1 DEF Ahead, Way
    <3>3. ~GoesOn(op) => call.ok
      BY <1>0, <1>3 DEF Judged
    <3> QED BY <1>2, <1>3, <3>2, <3>3 DEF Judged
  <2> QED BY <2>1, <2>2
<1> QED BY <1>0, <1>1, <1>2, <1>3, <1>4 DEF Checking, d, path

\* The end of the checks.
LEMMA LookedAtAll ==
    ASSUME NEW call \in Call, call.at = "check", NEW s, NEW map, InOrder(call, s, map),
           call.next > Len(call.do.paths)
    PROVE  LET d == [call EXCEPT !.at = "act"] IN
           /\ d \in Call /\ d.at = "act" /\ d.do = call.do /\ InOrder(d, s, map)
<1> DEFINE d == [call EXCEPT !.at = "act"]
<1>0. Len(call.do.paths) \in Nat /\ call.next \in Nat
  BY LinksCounted DEF Call
<1>1. /\ d \in Call /\ d.at = "act" /\ d.do = call.do /\ d.next = call.next
      /\ d.path = call.path /\ d.links = call.links /\ d.ok = call.ok
  BY DEF Call, Stages
<1> HIDE DEF d
<1>2. Judged(d, s, map)
  BY <1>1, JudgedSame DEF InOrder
<1>3. ~Asking(<<d>>) /\ ~AsksMap(<<d>>)
  BY <1>1 DEF Asking, AsksMap
<1>4. InOrder(d, s, map)
  BY <1>0, <1>1, <1>2, <1>3 DEF InOrder
<1> QED BY <1>1, <1>4 DEF d

\* A thread looks at a path.
LEMMA LookStep ==
    ASSUME TraceInv, NEW t \in Threads, Look(t), Elsewhere
    PROVE  TraceInv'
<1> DEFINE call == Top(t)
           s == procs[t[1]].fifo
           map == procs[t[1]].map
           path == IF call.path # None THEN call.path
                   ELSE Tokenize(<<>>, call.do.paths[call.next])
           looked == [call EXCEPT !.path = path]
           d == IF call.next > Len(call.do.paths) THEN [call EXCEPT !.at = "act"]
                ELSE Check(looked, t, map)
<1>1. /\ InCall(t) /\ call.at = "check" /\ thr' = SetTop(t, d)
      /\ UNCHANGED <<procs, conns, listening>>
  BY DEF Look, At
<1>2. call \in Call /\ InOrder(call, s, map) /\ ClientInv
  BY <1>1, CallFacts DEF TraceInv
<1>3. /\ Own(t) /\ thr[t].sock # None /\ Lined(<<call>>, conns[thr[t].sock])
      /\ ~Asking(<<call>>) /\ ~AsksMap(<<call>>)
  BY <1>1, Caller DEF Asking, AsksMap
<1>4. map \in Maps
  BY <1>1, <1>3, Caller
<1>5. /\ d \in Call /\ d.at \in {"check", "len", "act"} /\ d.do = call.do
      /\ InOrder(d, s, map)
  <2> HIDE DEF call, s, map
  <2>1. CASE call.next > Len(call.do.paths)
    BY <1>1, <1>2, <2>1, LookedAtAll
  <2>2. CASE ~(call.next > Len(call.do.paths))
    <3>1. call.next <= Len(call.do.paths)
      BY <1>2, <2>2, LinksCounted DEF Call
    <3>2. Checking(looked, s, map) /\ looked.do = call.do
      BY <1>1, <1>2, <3>1, Looked
    <3> HIDE DEF looked
    <3>3. /\ Check(looked, t, map) \in Call /\ Check(looked, t, map).at \in {"check", "len"}
          /\ Check(looked, t, map).do = looked.do /\ InOrder(Check(looked, t, map), s, map)
      BY <1>4, <3>2, Checked
    <3> QED BY <2>2, <3>2, <3>3
  <2> QED BY <2>1, <2>2
<1> HIDE DEF d
<1>6. Lined(<<d>>, conns'[thr[t].sock])
  BY <1>1, <1>3, <1>5 DEF Lined, Asking
<1>7. procs'[t[1]].map # "none" /\ InOrder(d, procs[t[1]].fifo, procs'[t[1]].map)
  <2>1. procs'[t[1]].map = map
    BY <1>1
  <2> QED BY <1>4, <1>5, <2>1 DEF Maps
<1>8. d.do = Top(t).do
  BY <1>5
<1>9. /\ d.at # "setup" => Own(t)
      /\ thr[t].sock # None /\ ~AsksMap(<<d>>) => procs'[t[1]].map # "none"
      /\ Own(t) => Lined(<<d>>, conns'[thr[t].sock])
      /\ procs' = procs /\ conns' = conns /\ UNCHANGED listening
  BY <1>1, <1>3, <1>6, <1>7
<1> HIDE DEF call, s, map
<1> QED BY ONLY TraceInv, t \in Threads, Elsewhere, NoConnOK, GoesOnRight,
                <1>1, <1>5, <1>7, <1>8, <1>9

\* A thread sends the length of a message, or finds the connection gone and its
\* process ends.
LEMMA SendLenStep ==
    ASSUME TraceInv, NEW t \in Threads, SendLen(t), Elsewhere
    PROVE  TraceInv'
<1> DEFINE c == thr[t].sock
           call == Top(t)
           s == procs[t[1]].fifo
           map == procs[t[1]].map
           old == conns[c]
           x == [old EXCEPT !.req = Append(@, <<"len", call.msg>>)]
           d == [call EXCEPT !.at = "body"]
<1>1. InCall(t) /\ call.at = "len" /\ UNCHANGED listening
  BY DEF SendLen, At
<1>2. /\ call \in Call /\ InOrder(call, s, map) /\ ClientInv /\ t[1] \in Procs
      /\ Own(t) /\ c \in Conns /\ Lined(<<call>>, old) /\ Orderly(old) /\ old \in Conn
      /\ conns \in [Conns -> Conn]
      /\ ~AsksMap(<<call>>) => map \in Maps
  BY <1>1, CallFacts, Caller DEF TraceInv
<1>3. CASE ServerGone(c)
  BY <1>1, <1>2, <1>3, AbortStep DEF SendLen, Elsewhere
<1>4. CASE ~ServerGone(c)
  <2>1. /\ conns' = [conns EXCEPT ![c] = x] /\ thr' = SetTop(t, d) /\ procs' = procs
    BY <1>2, <1>4 DEF SendLen
  <2>2. Asking(<<call>>) /\ call.msg \in Msg
    BY <1>1, <1>2 DEF Asking, InOrder, Question
  <2>3. Quiet(old)
    BY <1>1, <1>2 DEF Lined
  <2>4. old.stage \notin {"none", "closed"}
    <3>1. ThreadOK(t)
      BY <1>2 DEF ClientInv
    <3> QED BY <1>2, <1>4, <3>1 DEF ThreadOK, Holds, Own, ServerGone
  <2> DEFINE r == Append(old.req, <<"len", call.msg>>)
  <2>5. old.req \in Seq(Piece) /\ Wire(old.req)
    BY <1>2 DEF Conn, Piece, Orderly
  <2>6. /\ r \in Seq(Piece) /\ Wire(r) /\ Len(r) > 0
        /\ r[Len(r)] = <<"len", call.msg>> /\ Asked(r) \subseteq {Len(r)}
    BY <2>2, <2>3, <2>5, LenSent DEF Quiet
  <2> HIDE DEF r
  <2>7. /\ x \in Conn /\ x.req = r /\ x.rep = old.rep /\ x.stage = old.stage
        /\ x.peer = old.peer /\ x.session = old.session /\ x.fds = old.fds
    BY <1>2, <2>6 DEF r, Conn, Piece
  <2> HIDE DEF x
  <2>8. Orderly(x)
    <3>1. \A i \in Asked(r) : i + 1 >= Len(r)
      <4>1. Len(r) \in Nat
        BY <2>6
      <4> QED BY <2>6, <4>1
    <3> QED BY <1>2, <2>3, <2>4, <2>6, <2>7, <3>1 DEF Orderly, Quiet
  <2>9. /\ d \in Call /\ d.at = "body" /\ d.do = call.do /\ d.msg = call.msg
        /\ InOrder(d, s, map) /\ AsksMap(<<d>>) = AsksMap(<<call>>)
    <3> HIDE DEF call, s, map
    <3> QED BY <1>1, <1>2, Restaged DEF d
  <2> HIDE DEF d
  <2>10. Lined(<<d>>, x)
    BY <2>3, <2>6, <2>7, <2>9 DEF Lined, Asking, Sent, Quiet
  <2>11. conns'[c] = x
    BY <1>2, <2>1
  <2>12. /\ d.at # "setup" => Own(t)
         /\ thr[t].sock # None /\ ~AsksMap(<<d>>) => procs'[t[1]].map # "none"
         /\ Own(t) => Lined(<<d>>, conns'[thr[t].sock])
         /\ InOrder(d, procs[t[1]].fifo, procs'[t[1]].map)
    BY <1>2, <2>1, <2>9, <2>10, <2>11 DEF Maps
  <2>13. /\ Own(t) /\ conns' = [conns EXCEPT ![thr[t].sock] = x] /\ Orderly(x)
         /\ x.stage = conns[thr[t].sock].stage /\ x.peer = conns[thr[t].sock].peer
         /\ x.session = conns[thr[t].sock].session /\ x.fds = conns[thr[t].sock].fds
    BY <1>2, <2>1, <2>7, <2>8
  <2>14. d.do = Top(t).do
    BY <2>9
  <2> HIDE DEF call, s, map, c, old
  <2> QED BY ONLY TraceInv, t \in Threads, Elsewhere, <1>1, <2>1, <2>7, <2>9, <2>12, <2>13, <2>14,
                  GoesOnRight
<1> QED BY <1>3, <1>4

\* A thread sends the body of a message; a report is all there is to it.
LEMMA SendBodyStep ==
    ASSUME TraceInv, NEW t \in Threads, SendBody(t), Elsewhere
    PROVE  TraceInv'
<1> DEFINE c == thr[t].sock
           call == Top(t)
           s == procs[t[1]].fifo
           map == procs[t[1]].map
           old == conns[c]
           x == [old EXCEPT !.req = Append(@, <<"body", call.msg>>)]
           d == IF Answered(call.msg) THEN [call EXCEPT !.at = "wait"]
                ELSE Decide(call, call.msg.op = "sandbox_unknown")
<1>1. InCall(t) /\ call.at = "body" /\ UNCHANGED listening
  BY DEF SendBody, At
<1>2. /\ call \in Call /\ InOrder(call, s, map) /\ ClientInv /\ t[1] \in Procs
      /\ Own(t) /\ c \in Conns /\ Lined(<<call>>, old) /\ Orderly(old) /\ old \in Conn
      /\ conns \in [Conns -> Conn]
      /\ ~AsksMap(<<call>>) => map \in Maps
  BY <1>1, CallFacts, Caller DEF TraceInv
<1>3. CASE ServerGone(c)
  BY <1>1, <1>2, <1>3, AbortStep DEF SendBody, Elsewhere
<1>4. CASE ~ServerGone(c)
  <2>1. /\ conns' = [conns EXCEPT ![c] = x] /\ thr' = SetTop(t, d) /\ procs' = procs
    BY <1>2, <1>4 DEF SendBody
  <2>2. Asking(<<call>>) /\ call.msg \in Msg /\ Question(call, s, map)
    BY <1>1, <1>2 DEF Asking, InOrder, Question
  <2>3. Sent(old, call.msg)
    BY <1>1, <1>2, <2>2 DEF Lined
  <2>4. old.stage \notin {"none", "closed"}
    <3>1. ThreadOK(t)
      BY <1>2 DEF ClientInv
    <3> QED BY <1>2, <1>4, <3>1 DEF ThreadOK, Holds, Own, ServerGone
  <2> DEFINE r == Append(old.req, <<"body", call.msg>>)
  <2>5. old.req \in Seq(Piece) /\ Wire(old.req)
    BY <1>2 DEF Conn, Piece, Orderly
  <2>6. /\ r \in Seq(Piece) /\ Wire(r) /\ ~Half(r)
        /\ \A i \in Asked(r) : i + 1 >= Len(r) /\ r[i][2] = call.msg
        /\ ~Answered(call.msg) => Asked(r) = {}
    BY <2>2, <2>3, <2>4, <2>5, BodySent DEF Sent
  <2> HIDE DEF r
  <2>7. /\ x \in Conn /\ x.req = r /\ x.rep = old.rep /\ x.stage = old.stage
        /\ x.peer = old.peer /\ x.session = old.session /\ x.fds = old.fds
    BY <1>2, <2>6 DEF r, Conn, Piece
  <2> HIDE DEF x
  <2>8. Orderly(x)
    BY <1>2, <2>3, <2>4, <2>6, <2>7 DEF Orderly, Sent
  <2>9. /\ d \in Call /\ d.do = call.do /\ d.at # "setup"
        /\ InOrder(d, s, map) /\ (AsksMap(<<d>>) <=> AsksMap(<<call>>)) /\ Lined(<<d>>, x)
    <3>1. CASE Answered(call.msg)
      <4> DEFINE e == [call EXCEPT !.at = "wait"]
      <4>1. /\ e \in Call /\ e.at = "wait" /\ e.do = call.do /\ e.msg = call.msg
            /\ InOrder(e, s, map) /\ AsksMap(<<e>>) = AsksMap(<<call>>)
        <5> HIDE DEF call, s, map
        <5> QED BY <1>1, <1>2, Restaged
      <4>2. d = e
        BY <3>1
      <4> HIDE DEF e, d
      <4>3. Lined(<<e>>, x)
        BY <2>3, <2>6, <2>7, <3>1, <4>1 DEF Lined, Asking, Awaits, Sent
      <4> QED BY <4>1, <4>2, <4>3
    <3>2. CASE ~Answered(call.msg)
      <4> DEFINE ok == call.msg.op = "sandbox_unknown"
                 e == Decide(call, ok)
      <4>1. call.msg.op \in {"sandbox_violation", "sandbox_unknown"}
        BY <2>2, <3>2 DEF Msg, Answered
      <4>2. Checking(call, s, map)
        BY <1>1, <1>2, <4>1, AskerChecks
      <4>3. ok <=> Seen(s, map, call.do.op, call.path)
        BY <2>2, <4>1 DEF Question
      <4>4. e \in Call /\ e.at = "check" /\ e.do = call.do /\ InOrder(e, s, map)
        <5>1. ok \in BOOLEAN
          OBVIOUS
        <5> HIDE DEF call, s, map, ok
        <5> QED BY <4>2, <4>3, <5>1, Decided DEF Checking
      <4>5. d = e
        BY <3>2
      <4> HIDE DEF e, d
      <4>6. ~AsksMap(<<e>>) /\ ~Asking(<<e>>) /\ ~AsksMap(<<call>>)
        BY <4>1, <4>4 DEF AsksMap, Asking
      <4>7. Lined(<<e>>, x)
        BY <2>3, <2>6, <2>7, <3>2, <4>6 DEF Lined, Quiet, Sent
      <4> QED BY <4>4, <4>5, <4>6, <4>7
    <3> QED BY <3>1, <3>2
  <2> HIDE DEF d
  <2>11. conns'[c] = x
    BY <1>2, <2>1
  <2>12. /\ d.at # "setup" => Own(t)
         /\ thr[t].sock # None /\ ~AsksMap(<<d>>) => procs'[t[1]].map # "none"
         /\ Own(t) => Lined(<<d>>, conns'[thr[t].sock])
         /\ InOrder(d, procs[t[1]].fifo, procs'[t[1]].map)
    BY <1>2, <2>1, <2>9, <2>11 DEF Maps
  <2>13. /\ Own(t) /\ conns' = [conns EXCEPT ![thr[t].sock] = x] /\ Orderly(x)
         /\ x.stage = conns[thr[t].sock].stage /\ x.peer = conns[thr[t].sock].peer
         /\ x.session = conns[thr[t].sock].session /\ x.fds = conns[thr[t].sock].fds
    BY <1>2, <2>1, <2>7, <2>8
  <2>14. d.do = Top(t).do
    BY <2>9
  <2> HIDE DEF call, s, map, c, old
  <2> QED BY ONLY TraceInv, t \in Threads, Elsewhere, <1>1, <2>1, <2>7, <2>9, <2>12, <2>13, <2>14,
                  GoesOnRight
<1> QED BY <1>3, <1>4

\* A thread takes the answer it has been waiting for: the file map, or what the
\* dependencies say; its process ends when there is none.
LEMMA ReceiveStep ==
    ASSUME TraceInv, NEW t \in Threads, Receive(t), Elsewhere
    PROVE  TraceInv'
<1> DEFINE c == thr[t].sock
           call == Top(t)
           p == t[1]
           s == procs[p].fifo
           map == procs[p].map
           old == conns[c]
           rep == Head(old.rep)
           filemap == call.msg.op = "filemap"
           x == [old EXCEPT !.rep = Tail(@)]
           d == IF filemap THEN [call EXCEPT !.at = "check", !.msg = None]
                ELSE Answer(call, t, rep.val)
<1>1. InCall(t) /\ call.at = "wait" /\ UNCHANGED listening
  BY DEF Receive, At
<1>2. /\ call \in Call /\ InOrder(call, s, map) /\ ClientInv /\ t[1] \in Procs
      /\ Own(t) /\ c \in Conns /\ Lined(<<call>>, old) /\ Orderly(old) /\ old \in Conn
      /\ conns \in [Conns -> Conn] /\ procs \in [Procs -> Proc]
      /\ ~AsksMap(<<call>>) => map \in Maps
  BY <1>1, CallFacts, Caller DEF TraceInv, ClientInv, ClientTypes
<1>3. CASE Abort(p)
  BY <1>1, <1>2, <1>3, AbortStep DEF Elsewhere
<1>4. CASE ~Abort(p)
  <2>1. /\ old.rep # <<>> /\ filemap = (rep.val \in {"all", "fence"})
        /\ conns' = [conns EXCEPT ![c] = x] /\ thr' = SetTop(t, d)
        /\ procs' = IF filemap /\ procs[p].map = "none"
                    THEN [procs EXCEPT ![p].map = rep.val] ELSE procs
    BY <1>2, <1>4 DEF Receive
  <2>2. /\ Asking(<<call>>) /\ call.msg \in Msg /\ Question(call, s, map)
        /\ AsksMap(<<call>>) <=> filemap
    BY <1>1, <1>2 DEF Asking, AsksMap, InOrder, Question
  <2>3. Awaits(old, call.msg)
    BY <1>1, <1>2, <2>2 DEF Lined
  <2>4. /\ old.stage # "none" /\ old.session = s
    <3>1. ThreadOK(t)
      BY <1>2 DEF ClientInv
    <3> QED BY <1>2, <3>1 DEF ThreadOK, Holds, Own
  <2>5. /\ Asked(old.req) = {} /\ Len(old.rep) = 1
        /\ RightReply(old.rep[1], s) /\ old.rep[1].msg = call.msg
    BY <1>2, <2>1, <2>3, <2>4 DEF Orderly, Awaits
  <2>6. rep = old.rep[1] /\ Tail(old.rep) = <<>>
    <3> DEFINE q == old.rep
    <3>0. q \in Seq([msg : Msg, val : Maps \cup {"+", "?", "!"}])
      BY <1>2 DEF Conn
    <3>a. q # <<>>
      BY <2>1
    <3>b. Len(q) = 1
      BY <2>5
    <3> HIDE DEF q
    <3>1. q # <<>> /\ Len(q) <= 1
      BY <3>a, <3>b
    <3>2. Head(q) = q[1] /\ Tail(q) = <<>>
      BY <3>0, <3>1, OneElement
    <3> QED BY <3>2 DEF q
  <2>7. /\ x \in Conn /\ x.req = old.req /\ x.rep = <<>> /\ x.stage = old.stage
        /\ x.peer = old.peer /\ x.session = old.session /\ x.fds = old.fds
    <3>1. x = [old EXCEPT !.rep = <<>>]
      BY <2>6
    <3> HIDE DEF x
    <3> QED BY <1>2, <3>1, EmptySeq DEF Conn
  <2> HIDE DEF x
  <2>8. Orderly(x) /\ Quiet(x)
    BY <1>2, <2>3, <2>5, <2>7 DEF Orderly, Quiet, Awaits
  <2>9. /\ d \in Call /\ d.at \in {"check", "len"} /\ d.do = call.do
        /\ InOrder(d, s, procs'[p].map) /\ ~AsksMap(<<d>>) /\ procs'[p].map \in Maps
    <3>1. CASE filemap
      <4> DEFINE e == [call EXCEPT !.at = "check", !.msg = None]
      <4>1. Fresh(call)
        BY <1>2, <2>2, <3>1 DEF InOrder
      <4>2. e \in Call /\ Fresh(e) /\ e.at = "check" /\ e.do = call.do
        BY <1>2, <4>1 DEF Call, Fresh, Stages
      <4>3. d = e
        BY <3>1
      <4> HIDE DEF e, d
      <4>4. InOrder(e, s, procs'[p].map)
        BY <4>2, FreshInOrder
      <4>5. ~AsksMap(<<e>>)
        BY <4>2 DEF AsksMap, Asking
      <4>6. procs'[p].map \in Maps
        <5>1. rep.val \in Maps
          BY <2>1, <3>1 DEF Maps
        <5>2. map = "none" => procs'[p].map = rep.val
          BY <1>2, <2>1, <3>1
        <5>3. map # "none" => procs'[p].map = map /\ map \in Maps
          BY <1>2, <2>1, <3>1 DEF Proc
        <5> QED BY <5>1, <5>2, <5>3
      <4> QED BY <4>2, <4>3, <4>4, <4>5, <4>6
    <3>2. CASE ~filemap
      <4> DEFINE val == rep.val
                 e == Answer(call, t, val)
      <4>1. call.msg.op = "dep_check"
        BY <2>3, <3>2 DEF Awaits, Answered
      <4>2. val = RightAnswer(call.msg, s)
        BY <2>5, <2>6, <4>1 DEF RightReply
      <4>3. map \in Maps /\ procs' = procs
        BY <1>2, <2>1, <2>2, <3>2
      <4>4. /\ e \in Call /\ e.at \in {"check", "len"} /\ e.do = call.do
            /\ InOrder(e, s, map) /\ ~AsksMap(<<e>>)
        <5> HIDE DEF call, s, map, val
        <5> QED BY <1>1, <1>2, <4>1, <4>2, <4>3, AnswerTaken
      <4>5. d = e
        BY <3>2
      <4> HIDE DEF e, d
      <4> QED BY <4>3, <4>4, <4>5
    <3> QED BY <3>1, <3>2
  <2> HIDE DEF d
  <2>10. Lined(<<d>>, x)
    BY <2>8, <2>9 DEF Lined, Asking
  <2>11. conns'[c] = x
    BY <1>2, <2>1
  <2>12. /\ d.at # "setup" => Own(t)
         /\ thr[t].sock # None /\ ~AsksMap(<<d>>) => procs'[t[1]].map # "none"
         /\ Own(t) => Lined(<<d>>, conns'[thr[t].sock])
         /\ InOrder(d, procs[t[1]].fifo, procs'[t[1]].map)
    BY <1>2, <2>9, <2>10, <2>11 DEF Maps
  <2>13. /\ Own(t) /\ conns' = [conns EXCEPT ![thr[t].sock] = x] /\ Orderly(x)
         /\ x.stage = conns[thr[t].sock].stage /\ x.peer = conns[thr[t].sock].peer
         /\ x.session = conns[thr[t].sock].session /\ x.fds = conns[thr[t].sock].fds
    BY <1>2, <2>1, <2>7, <2>8
  <2>14. d.do = Top(t).do
    BY <2>9
  <2>15. procs' = procs \/ \E m \in Maps : /\ procs' = [procs EXCEPT ![t[1]].map = m]
                                          /\ procs[t[1]].map = "none"
    BY <2>1 DEF Maps
  <2> HIDE DEF call, s, map, c, old, rep
  <2> QED BY ONLY TraceInv, t \in Threads, Elsewhere, <1>1, <2>1, <2>7, <2>9, <2>12, <2>13, <2>14,
                  <2>15, GoesOnRight
<1> QED BY <1>3, <1>4

\* A call that has been decided on returns.
LEMMA Popped ==
    ASSUME TraceInv, NEW t \in Threads, At(t, "act"), thr' = Pop(t), Elsewhere,
           UNCHANGED <<procs, listening>>, NEW x \in Conn,
           \/ conns' = conns
           \/ LET old == conns[thr[t].sock] IN
              /\ Own(t) /\ conns' = [conns EXCEPT ![thr[t].sock] = x] /\ FdsOnly(old, x)
              /\ x.fds[t[1]] # "no" /\ \A p \in Procs : p = t[1] \/ x.fds[p] = old.fds[p]
    PROVE  TraceInv'
<1> DEFINE stack == <<>>
           c == thr[t].sock
<1>1. InCall(t) /\ Top(t).at = "act"
  BY DEF At
<1>2. stack \in Seq(Call) /\ Len(stack) <= 1
  BY EmptySeq
<1>3. thr[t].live /\ thr' = [thr EXCEPT ![t].stack = stack]
  BY <1>1, CallFacts DEF TraceInv
<1>4. ~Asking(stack) /\ ~AsksMap(stack) /\ ~Asking(<<Top(t)>>) /\ ~AsksMap(<<Top(t)>>)
  BY <1>1 DEF Asking, AsksMap
<1>5. /\ procs[t[1]].map \in Maps /\ Own(t) /\ c \in Conns
      /\ Lined(<<Top(t)>>, conns[c]) /\ conns \in [Conns -> Conn] /\ Orderly(conns[c])
  BY <1>1, <1>4, Caller
<1>6. Quiet(conns[c])
  BY <1>4, <1>5 DEF Lined
<1>7. Lined(stack, conns'[c])
  <2>1. CASE conns' = conns
    BY <1>4, <1>6, <2>1 DEF Lined
  <2>2. CASE conns' # conns
    <3>1. conns'[c] = x /\ FdsOnly(conns[c], x)
      BY <1>5, <2>2
    <3> QED BY <1>4, <1>6, <3>1 DEF Lined, FdsOnly, Quiet
  <2> QED BY <2>1, <2>2
<1>8. UNCHANGED <<listening, mainVars, sharedVars, serverVars>>
  BY DEF Elsewhere
<1>9. \/ conns' = conns
      \/ LET old == conns[thr[t].sock] IN
         /\ Own(t) /\ conns' = [conns EXCEPT ![thr[t].sock] = x] /\ Orderly(x)
         /\ x.stage = old.stage /\ x.peer = old.peer /\ x.session = old.session
         /\ x.fds[t[1]] # "no" /\ \A p \in Procs : p = t[1] \/ x.fds[p] = old.fds[p]
  <2>1. CASE conns' = conns
    BY <2>1
  <2>2. CASE conns' # conns
    <3>1. FdsOnly(conns[c], x)
      BY <2>2
    <3>2. Orderly(x)
      BY <1>5, <3>1, FdsOrderly
    <3> QED BY <2>2, <3>1, <3>2 DEF FdsOnly
  <2> QED BY <2>1, <2>2
<1>10. /\ stack # <<>> => \/ thr[t].stack # <<>> /\ Head(stack).do = Head(thr[t].stack).do
                          \/ Head(stack).do.op = ExecveCall => Alone(t)
       /\ stack # <<>> /\ Head(stack).at # "setup" => Own(t)
       /\ thr[t].sock # None /\ ~AsksMap(stack) => procs'[t[1]].map # "none"
       /\ Own(t) => Lined(stack, conns'[thr[t].sock])
       /\ stack # <<>> => InOrder(Head(stack), procs[t[1]].fifo, procs'[t[1]].map)
       /\ procs' = procs
  BY <1>5, <1>7 DEF Maps
<1> HIDE DEF stack, c
<1> QED BY ONLY TraceInv, t \in Threads, x \in Conn, <1>2, <1>3, <1>8, <1>9, <1>10, Stepped

LEMMA ReturnStep ==
    ASSUME TraceInv, NEW t \in Threads, Return(t), Elsewhere
    PROVE  TraceInv'
BY NoConnOK, Popped DEF Return

\* The connection gets another descriptor of the same process.
LEMMA Dup2Step ==
    ASSUME TraceInv, NEW t \in Threads, Dup2(t), Elsewhere
    PROVE  TraceInv'
<1> DEFINE c == thr[t].sock
           fds == [conns[c].fds EXCEPT ![t[1]] = "kept"]
           x == [conns[c] EXCEPT !.fds = fds]
<1>1. InCall(t) /\ Top(t).at = "act" /\ thr' = Pop(t) /\ UNCHANGED <<procs, listening>>
  BY DEF Dup2, At
<1>2. /\ Own(t) /\ c \in Conns /\ conns \in [Conns -> Conn] /\ t[1] \in Procs
  BY <1>1, Caller, ThreadsAre
<1>3. conns' = [conns EXCEPT ![c] = x]
  BY DEF Dup2
<1>4. /\ fds \in [Procs -> {"no", "cloexec", "kept"}] /\ fds[t[1]] = "kept"
      /\ \A p \in Procs : p = t[1] \/ fds[p] = conns[c].fds[p]
  BY <1>2 DEF Conn
<1> HIDE DEF fds
<1>5. x \in Conn /\ FdsOnly(conns[c], x) /\ x.fds = fds
  <2>1. PICK old : old = conns[c]
    OBVIOUS
  <2>2. old \in Conn /\ x = [old EXCEPT !.fds = fds]
    BY <1>2, <2>1
  <2> HIDE DEF x, c
  <2>3. x \in Conn /\ FdsOnly(old, x) /\ x.fds = fds
    BY ONLY <1>4, <2>2 DEF Conn, FdsOnly
  <2> QED BY <2>1, <2>3
<1> HIDE DEF x
<1>6. /\ Own(t) /\ conns' = [conns EXCEPT ![thr[t].sock] = x] /\ FdsOnly(conns[thr[t].sock], x)
      /\ x.fds[t[1]] # "no" /\ \A p \in Procs : p = t[1] \/ x.fds[p] = conns[thr[t].sock].fds[p]
  BY <1>2, <1>3, <1>4, <1>5
<1>7. At(t, "act")
  BY <1>1 DEF At
<1> HIDE DEF c
<1> QED BY ONLY TraceInv, t \in Threads, Elsewhere, <1>1, <1>5, <1>6, <1>7, Popped

-----------------------------------------------------------------------------
(* What happens to descriptors and threads outside of calls.               *)

\* Connections after a process has let some of them go: what is in flight on those
\* that others hold stays, and so does all that concerns the server.
LetGo(old, new, p) ==
    /\ new \in [Conns -> Conn]
    /\ \A c \in Conns :
          /\ Orderly(new[c]) /\ Unmoved(old[c], new[c])
          /\ new[c].stage = old[c].stage \/ (old[c].stage = "closed" /\ new[c].stage = "none")
          /\ \A q \in Procs : q # p => Holding(old[c], new[c], q)

LEMMA Closing ==
    ASSUME NEW cs \in [Conns -> Conn], \A c \in Conns : Orderly(cs[c]), NEW p \in Procs,
           NEW c \in Conns
    PROVE  LET new == Settle([cs[c] EXCEPT !.fds[p] = "no"]) IN
           /\ new \in Conn /\ Orderly(new) /\ Unmoved(cs[c], new)
           /\ new.stage = cs[c].stage \/ (cs[c].stage = "closed" /\ new.stage = "none")
           /\ \A q \in Procs : q # p => Holding(cs[c], new, q)
<1> DEFINE old == cs[c]
           fds == [old.fds EXCEPT ![p] = "no"]
           x == [old EXCEPT !.fds = fds]
           new == Settle(x)
<1>1. old \in Conn /\ Orderly(old)
  OBVIOUS
<1> HIDE DEF old
<1>2. fds \in [Procs -> {"no", "cloexec", "kept"}] /\ \A q \in Procs : q # p => fds[q] = old.fds[q]
  BY <1>1 DEF Conn
<1> HIDE DEF fds
<1>3. x \in Conn /\ FdsOnly(old, x) /\ x.fds = fds
  BY <1>1, <1>2 DEF Conn, FdsOnly
<1> HIDE DEF x
<1>4. /\ new \in Conn /\ Orderly(new)
      /\ FdsOnly(old, new) \/ (old.stage = "closed" /\ new = NoConn)
      /\ \A q \in Procs : x.fds[q] # "no" => new = x
  BY <1>1, <1>3, Released
<1> HIDE DEF new
<1>5. Unmoved(old, new) /\ (new.stage = old.stage \/ (old.stage = "closed" /\ new.stage = "none"))
  BY <1>4 DEF FdsOnly, Unmoved, NoConn
<1>6. ASSUME NEW q \in Procs, q # p PROVE Holding(old, new, q)
  BY <1>2, <1>3, <1>4, <1>6 DEF Holding, ConnKept, LineKept, FdsOnly
<1>7. [cs[c] EXCEPT !.fds[p] = "no"] = x
  BY DEF x, fds, old
<1> QED BY <1>4, <1>5, <1>6, <1>7 DEF new, old

\* A process closes one descriptor, or some of them.
LEMMA Kept ==
    ASSUME NEW old \in Conn, Orderly(old), NEW p
    PROVE  Holding(old, old, p) /\ Unmoved(old, old)
BY DEF Holding, ConnKept, LineKept, Unmoved

LEMMA CloseLetsGo ==
    ASSUME NEW cs \in [Conns -> Conn], \A c \in Conns : Orderly(cs[c]), NEW p \in Procs,
           NEW c \in Conns
    PROVE  LetGo(cs, CloseFd(cs, p, c), p)
<1> DEFINE y == Settle([cs[c] EXCEPT !.fds[p] = "no"])
           new == CloseFd(cs, p, c)
<1>1. /\ y \in Conn /\ Orderly(y) /\ Unmoved(cs[c], y)
      /\ y.stage = cs[c].stage \/ (cs[c].stage = "closed" /\ y.stage = "none")
      /\ \A q \in Procs : q # p => Holding(cs[c], y, q)
  BY Closing
<1>2. new = [cs EXCEPT ![c] = y]
  BY DEF CloseFd
<1> HIDE DEF y, new
<1>3. new \in [Conns -> Conn] /\ new[c] = y /\ \A d \in Conns : d # c => new[d] = cs[d]
  BY <1>1, <1>2
<1>4. ASSUME NEW d \in Conns
      PROVE  /\ Orderly(new[d]) /\ Unmoved(cs[d], new[d])
             /\ new[d].stage = cs[d].stage \/ (cs[d].stage = "closed" /\ new[d].stage = "none")
             /\ \A q \in Procs : q # p => Holding(cs[d], new[d], q)
  <2>1. CASE d = c
    BY <1>1, <1>3, <2>1
  <2>2. CASE d # c
    BY <1>3, <2>2, Kept
  <2> QED BY <2>1, <2>2
<1> QED BY <1>3, <1>4 DEF LetGo, new

LEMMA ReleaseLetsGo ==
    ASSUME NEW cs \in [Conns -> Conn], \A c \in Conns : Orderly(cs[c]), NEW p \in Procs,
           NEW kinds
    PROVE  LetGo(cs, ReleaseFds(cs, p, kinds), p)
<1> DEFINE y(c) == Settle([cs[c] EXCEPT !.fds[p] = "no"])
           new == ReleaseFds(cs, p, kinds)
<1>1. ASSUME NEW c \in Conns
      PROVE  /\ y(c) \in Conn /\ Orderly(y(c)) /\ Unmoved(cs[c], y(c))
             /\ y(c).stage = cs[c].stage \/ (cs[c].stage = "closed" /\ y(c).stage = "none")
             /\ \A q \in Procs : q # p => Holding(cs[c], y(c), q)
  BY Closing
<1>2. new = [c \in Conns |-> IF cs[c].fds[p] \in kinds THEN y(c) ELSE cs[c]]
  BY DEF ReleaseFds
<1> HIDE DEF y, new
<1>3. new \in [Conns -> Conn] /\ \A c \in Conns : new[c] \in {y(c), cs[c]}
  BY <1>1, <1>2
<1>4. ASSUME NEW c \in Conns
      PROVE  /\ Orderly(new[c]) /\ Unmoved(cs[c], new[c])
             /\ new[c].stage = cs[c].stage \/ (cs[c].stage = "closed" /\ new[c].stage = "none")
             /\ \A q \in Procs : q # p => Holding(cs[c], new[c], q)
  <2>1. CASE new[c] = y(c)
    BY <1>1, <2>1
  <2>2. CASE new[c] = cs[c]
    BY <2>2, Kept
  <2> QED BY <1>3, <2>1, <2>2
<1> QED BY <1>3, <1>4 DEF LetGo, new

\* One after the other.
LEMMA LetGoTwice ==
    ASSUME NEW a, NEW b, NEW c, NEW p, LetGo(a, b, p), LetGo(b, c, p)
    PROVE  LetGo(a, c, p)
<1>1. ASSUME NEW d \in Conns, NEW q \in Procs, q # p PROVE Holding(a[d], c[d], q)
  <2>1. Holding(a[d], b[d], q) /\ Holding(b[d], c[d], q)
    BY <1>1 DEF LetGo
  <2> QED BY <2>1 DEF Holding, ConnKept, LineKept
<1>2. \A d \in Conns : Unmoved(a[d], c[d])
  BY DEF LetGo, Unmoved
<1>3. \A d \in Conns :
          c[d].stage = a[d].stage \/ (a[d].stage = "closed" /\ c[d].stage = "none")
  BY DEF LetGo
<1> QED BY <1>1, <1>2, <1>3 DEF LetGo

\* What one process does is nothing to the threads of another one whose
\* connections are kept.
LEMMA OthersKept ==
    ASSUME ClientInv, ClientTypes', NEW p \in Procs,
           \A c \in Conns : \A q \in Procs : q # p => Holding(conns[c], conns'[c], q),
           \A q \in Procs : q # p => procs'[q] = procs[q],
           \A v \in Threads : v[1] # p => thr'[v] = thr[v],
           NEW u \in Threads, u[1] # p
    PROVE  ThreadOK(u)'
<1>1. /\ ThreadOK(u) /\ u[1] \in Procs /\ ClientTypes /\ thr'[u] = thr[u]
      /\ procs'[u[1]] = procs[u[1]]
  BY ThreadsAre DEF ClientInv
<1>2. thr[u].sock # None => thr[u].sock \in Conns
  BY <1>1 DEF ClientTypes, Thread
<1>3. thr[u].sock # None => Holding(conns[thr[u].sock], conns'[thr[u].sock], u[1])
  BY <1>1, <1>2
<1>4. Threaded(u)' /\ Holds(u)' /\ Speaks(u)' /\ KnowsMap(u)' /\ InLine(u)' /\ CallOK(u)'
  BY <1>1, <1>3, ThreadKept
<1>5. \A v \in Threads : v[1] = u[1] => thr'[v] = thr[v]
  OBVIOUS
<1>6. Separate(u)'
  BY <1>1, <1>5, SeparateKept
<1> QED BY <1>4, <1>6 DEF ThreadOK

\* Process identifiers of the parents stay those of processes that have been born.
LEMMA ParentsKept ==
    ASSUME ClientInv,
           \A p \in Procs : procs[p].state # "unborn" => procs'[p].state # "unborn",
           \A p \in Procs : procs'[p].dtpid = None \/ \E q \in Procs :
               \/ procs'[p].dtpid = procs[q].dtpid
               \/ procs'[p].dtpid = q /\ procs'[q].state # "unborn"
    PROVE  Parents'
<1>1. \A p \in Procs : procs[p].dtpid # None => procs[p].dtpid \in Procs
  BY DEF ClientInv, ClientTypes, Proc
<1> QED BY <1>1 DEF ClientInv, Parents

\* A thread that is not there has no connection.
LEMMA NotAlone ==
    ASSUME ClientInv, NEW t \in Threads, Alone(t), NEW u \in Threads, u # t, u[1] = t[1]
    PROVE  thr[u] = NoThread
<1>1. ThreadOK(u)
  BY DEF ClientInv
<1> QED BY <1>1 DEF Alone, ThreadOK, Threaded

\* The step of one process does not concern the server.
LEMMA ServerApart ==
    ASSUME TraceInv, Elsewhere, UNCHANGED listening, NEW p, LetGo(conns, conns', p),
           \A q \in Procs : Sessioned(q)
    PROVE  ServerInv'
<1>1. UNCHANGED <<listening, mainVars, sharedVars, serverVars>>
  BY DEF Elsewhere
<1>2. \A c \in Conns : Unmoved(conns[c], conns'[c])
  BY DEF LetGo
<1> QED BY <1>1, <1>2, ServerUnmoved

\* A thread that gives up its connection, in a process that remembers what it did or
\* forgets that it has connected.
LEMMA GivenUp ==
    ASSUME TraceInv, NEW t \in Threads, LetGo(conns, conns', t[1]), Elsewhere, UNCHANGED listening,
           NEW new \in Thread, new.sock = None, new.stack = <<>>,
           new.live => thr[t].live, new.live \/ new = NoThread,
           thr' = [thr EXCEPT ![t] = new],
           \/ procs' = procs
           \/ procs' = [procs EXCEPT ![t[1]].dtpid = None] /\ Alone(t),
           \A u \in Threads : u # t /\ u[1] = t[1] /\ thr[u].sock # None =>
               conns'[thr[u].sock] = conns[thr[u].sock]
    PROVE  TraceInv'
<1> DEFINE p == t[1]
<1>0. /\ ClientInv /\ p \in Procs /\ ThreadOK(t) /\ procs \in [Procs -> Proc]
      /\ thr \in [Threads -> Thread] /\ conns \in [Conns -> Conn]
  BY ThreadsAre DEF TraceInv, ClientInv, ClientTypes
<1>1. /\ thr' \in [Threads -> Thread] /\ thr'[t] = new
      /\ \A u \in Threads \ {t} : thr'[u] = thr[u]
  BY <1>0
<1>2. /\ procs' \in [Procs -> Proc]
      /\ \A q \in Procs : /\ procs'[q].state = procs[q].state /\ procs'[q].fifo = procs[q].fifo
                          /\ procs'[q].map = procs[q].map
                          /\ procs'[q].dtpid \in {procs[q].dtpid, None}
                          /\ procs'[q].dtpid # procs[q].dtpid => q = p /\ Alone(t)
  <2>1. CASE procs' = procs
    BY <1>0, <2>1
  <2>2. CASE procs' # procs
    <3>1. procs' = [procs EXCEPT ![p].dtpid = None] /\ Alone(t)
      BY <2>2
    <3>2. [procs[p] EXCEPT !.dtpid = None] \in Proc
      BY <1>0 DEF Proc
    <3>3. procs' \in [Procs -> Proc]
      BY <1>0, <3>1, <3>2
    <3>4. \A q \in Procs : procs'[q] = IF q = p THEN [procs[q] EXCEPT !.dtpid = None] ELSE procs[q]
      BY <1>0, <3>1
    <3>5. \A q \in Procs : procs[q] \in Proc
      BY <1>0
    <3> QED BY <3>1, <3>3, <3>4, <3>5 DEF Proc
  <2> QED BY <2>1, <2>2
<1>3. ClientTypes' /\ \A c \in Conns : Orderly(conns'[c])
  BY <1>1, <1>2 DEF ClientTypes, LetGo
<1>4. Parents'
  BY <1>0, <1>2, ParentsKept
<1>5. ThreadOK(t)'
  <2>1. Threaded(t)'
    <3>1. Len(<<>>) <= 1
      OBVIOUS
    <3> QED BY <1>0, <1>1, <1>2, <3>1 DEF Threaded, ThreadOK, Alive
  <2>2. Stale(p)' => Stale(p)
    BY <1>0, <1>2 DEF Stale
  <2>3. Separate(t)'
    <3>1. ~Own(t)' /\ ~InCall(t)'
      BY <1>1 DEF Own, InCall
    <3>2. thr'[t].live /\ Stale(p)' => Alone(t)
      BY <1>0, <1>1, <2>2 DEF ThreadOK, Separate
    <3>3. Alone(t) => Alone(t)'
      BY <1>1 DEF Alone
    <3> QED BY <3>1, <3>2, <3>3 DEF Separate
  <2> QED BY <1>1, <2>1, <2>3 DEF ThreadOK, Holds, Speaks, Speaking, InCall, KnowsMap, InLine,
               CallOK, Own
<1>6. ASSUME NEW u \in Threads \ {t}, thr[u].sock # None
      PROVE  procs'[u[1]].dtpid = procs[u[1]].dtpid /\ Held(u)
  <2>1. u[1] \in Procs /\ thr[u].sock \in Conns
    BY <1>0, <1>6, ThreadsAre DEF Thread
  <2>2. procs'[u[1]].dtpid = procs[u[1]].dtpid
    <3>1. Alone(t) /\ u[1] = p => thr[u] = NoThread
      BY <1>0, NotAlone
    <3> QED BY <1>2, <1>6, <2>1, <3>1 DEF NoThread
  <2>3. CASE u[1] = p
    <3>1. conns'[thr[u].sock] = conns[thr[u].sock]
      BY <1>6, <2>3
    <3> QED BY <2>2, <3>1 DEF Held, ConnKept, LineKept
  <2>4. CASE u[1] # p
    <3>1. Holding(conns[thr[u].sock], conns'[thr[u].sock], u[1])
      BY <2>1, <2>4 DEF LetGo
    <3> QED BY <2>2, <3>1 DEF Held, Holding
  <2> QED BY <2>3, <2>4
<1>7. /\ thr'[t].live => thr[t].live
      /\ thr'[t].sock = thr[t].sock \/ thr'[t].sock = None
  BY <1>1
<1>8. ClientInv'
  BY <1>0, <1>1, <1>2, <1>3, <1>4, <1>5, <1>6, <1>7, OneThread
<1>9. \A q \in Procs : Sessioned(q)
  BY <1>2 DEF Sessioned, Alive
<1>10. ServerInv'
  BY <1>9, ServerApart
<1> QED BY <1>8, <1>10 DEF TraceInv

\* A thread ends: its connection is its own, or the process has no other thread.
LEMMA ExitThreadStep ==
    ASSUME TraceInv, NEW t \in Threads, ExitThread(t), Elsewhere
    PROVE  TraceInv'
<1> DEFINE c == thr[t].sock
<1>0. /\ ClientInv /\ t[1] \in Procs /\ ThreadOK(t) /\ thr \in [Threads -> Thread]
      /\ conns \in [Conns -> Conn] /\ \A d \in Conns : Orderly(conns[d])
  BY ThreadsAre DEF TraceInv, ClientInv, ClientTypes
<1>1. /\ thr' = [thr EXCEPT ![t] = NoThread] /\ thr[t].live /\ UNCHANGED <<procs, listening>>
      /\ conns' = IF c = None THEN conns ELSE CloseFd(conns, t[1], c)
  BY DEF ExitThread
<1>2. c # None => c \in Conns
  BY <1>0 DEF Thread
<1>3. LetGo(conns, conns', t[1])
  <2>1. CASE c = None
    BY <1>0, <1>1, <2>1, Kept DEF LetGo
  <2>2. CASE c # None
    BY <1>0, <1>1, <1>2, <2>2, CloseLetsGo
  <2> QED BY <2>1, <2>2
<1>4. NoThread \in Thread /\ NoThread.sock = None /\ NoThread.stack = <<>> /\ ~NoThread.live
  BY EmptySeq DEF NoThread, Thread
<1>5. ASSUME NEW u \in Threads, u # t, u[1] = t[1], thr[u].sock # None
      PROVE  conns'[thr[u].sock] = conns[thr[u].sock]
  <2>1. thr[u].sock \in Conns
    BY <1>0, <1>5 DEF Thread
  <2>2. CASE c = None
    BY <1>1, <2>2
  <2>3. CASE c # None
    <3>1. thr[u].sock # c
      <4>1. ~Alone(t)
        BY <1>0, <1>5, NotAlone DEF NoThread
      <4>2. procs[t[1]].dtpid # None /\ ~Stale(t[1])
        BY <1>0, <1>1, <2>3, <4>1 DEF ThreadOK, Separate, Holds
      <4>3. Own(t)
        BY <2>3, <4>2 DEF Own, Stale
      <4> QED BY <1>0, <1>5, <4>3 DEF ThreadOK, Separate
    <3> QED BY <1>0, <1>1, <2>1, <2>3, <3>1 DEF CloseFd
  <2> QED BY <2>2, <2>3
<1>6. thr[t].live /\ procs' = procs /\ UNCHANGED listening
  BY <1>1
<1>7. thr' = [thr EXCEPT ![t] = NoThread]
  BY <1>1
<1>8. \A u \in Threads : u # t /\ u[1] = t[1] /\ thr[u].sock # None =>
          conns'[thr[u].sock] = conns[thr[u].sock]
  BY <1>5
<1> HIDE DEF c
<1> DEFINE new == NoThread
<1>9. /\ new \in Thread /\ new.sock = None /\ new.stack = <<>> /\ (new.live => thr[t].live)
      /\ new.live \/ new = NoThread
      /\ thr' = [thr EXCEPT ![t] = new]
      /\ \/ procs' = procs
         \/ procs' = [procs EXCEPT ![t[1]].dtpid = None] /\ Alone(t)
  BY <1>4, <1>6, <1>7
<1> HIDE DEF new
<1> QED BY ONLY TraceInv, t \in Threads, Elsewhere, <1>3, <1>6, <1>8, <1>9, GivenUp

\* A process ends.
LEMMA ExitStep ==
    ASSUME TraceInv, NEW t \in Threads, Exit(t), Elsewhere
    PROVE  TraceInv'
<1>1. Abort(t[1]) /\ t[1] \in Procs
  BY ThreadsAre DEF Exit
<1>2. UNCHANGED <<listening, mainVars, sharedVars, serverVars>>
  BY DEF Exit, Elsewhere
<1> QED BY <1>1, <1>2, AbortStep

\* A program executes another one, and the process starts anew; or that fails, and
\* the thread will connect again.
LEMMA ExecveStep ==
    ASSUME TraceInv, NEW t \in Threads, Execve(t), Elsewhere
    PROVE  TraceInv'
<1> DEFINE p == t[1]
           cs == CloseFd(conns, p, thr[t].sock)
<1>1. InCall(t) /\ Top(t).at = "act" /\ Top(t).do.op = ExecveCall /\ UNCHANGED listening
  BY DEF Execve, At
<1>2. /\ ClientInv /\ p \in Procs /\ Own(t) /\ thr[t].sock \in Conns /\ thr[t].live
      /\ conns \in [Conns -> Conn] /\ procs \in [Procs -> Proc] /\ thr \in [Threads -> Thread]
      /\ \A d \in Conns : Orderly(conns[d])
  BY <1>1, Caller, CallFacts DEF TraceInv, ClientInv, ClientTypes
<1>3. Alone(t)
  <2>1. ThreadOK(t)
    BY <1>2 DEF ClientInv
  <2> QED BY <1>1, <2>1 DEF ThreadOK, Separate
<1>4. LetGo(conns, cs, p)
  BY <1>2, CloseLetsGo
<1>5. \A u \in Threads : u # t /\ u[1] = p => thr[u] = NoThread
  BY <1>2, <1>3, NotAlone
<1>6. CASE /\ conns' = cs /\ procs' = [procs EXCEPT ![p].dtpid = None]
           /\ thr' = [Pop(t) EXCEPT ![t].sock = None]
  <2> DEFINE new == [[thr[t] EXCEPT !.stack = <<>>] EXCEPT !.sock = None]
  <2>1. Pop(t) = [thr EXCEPT ![t].stack = <<>>]
    BY <1>1, <1>2, CallFacts
  <2>2. thr' = [thr EXCEPT ![t] = new]
    BY <1>2, <1>6, <2>1
  <2>3. new \in Thread /\ new.sock = None /\ new.stack = <<>> /\ new.live = thr[t].live
    BY <1>2, EmptySeq DEF Thread
  <2>4. \A u \in Threads : u # t /\ u[1] = t[1] /\ thr[u].sock # None =>
            conns'[thr[u].sock] = conns[thr[u].sock]
    BY <1>5 DEF NoThread
  <2>5. LetGo(conns, conns', t[1]) /\ UNCHANGED listening /\ thr[t].live
        /\ procs' = [procs EXCEPT ![t[1]].dtpid = None] /\ Alone(t)
    BY <1>1, <1>2, <1>3, <1>4, <1>6
  <2> HIDE DEF new
  <2> QED BY ONLY TraceInv, t \in Threads, Elsewhere, <2>2, <2>3, <2>4, <2>5, GivenUp
<1>7. CASE /\ conns' = ReleaseFds(cs, p, {"cloexec"})
           /\ procs' = [procs EXCEPT ![p] = NewProgram(p)]
           /\ thr' = [Gone({p}, thr) EXCEPT ![<<p, 1>>] = NewThread]
  <2>1. LetGo(conns, conns', p)
    <3>1. cs \in [Conns -> Conn] /\ \A d \in Conns : Orderly(cs[d])
      BY <1>4 DEF LetGo
    <3>2. LetGo(cs, conns', p)
      <4> HIDE DEF cs
      <4> QED BY <1>2, <1>7, <3>1, ReleaseLetsGo
    <3> HIDE DEF cs
    <3> QED BY <1>4, <3>2, LetGoTwice
  <2>2. /\ NewProgram(p) \in Proc /\ NewProgram(p).state = "alive" /\ NewProgram(p).dtpid = None
        /\ NewProgram(p).map = "none" /\ NewProgram(p).fifo = procs[p].fifo
    BY <1>2 DEF NewProgram, Unborn, Proc
  <2>3. /\ NewThread \in Thread /\ NewThread.live /\ NewThread.sock = None
        /\ NewThread.stack = <<>> /\ NoThread \in Thread
    BY EmptySeq DEF NewThread, NoThread, Thread
  <2>4. /\ procs' \in [Procs -> Proc] /\ procs'[p] = NewProgram(p)
        /\ \A q \in Procs : q # p => procs'[q] = procs[q]
    BY <1>2, <1>7, <2>2
  <2>5. /\ thr' \in [Threads -> Thread]
        /\ \A u \in Threads : u[1] # p => thr'[u] = thr[u]
        /\ \A u \in Threads : u[1] = p => thr'[u] = IF u = <<p, 1>> THEN NewThread ELSE NoThread
    <3> DEFINE gone == Gone({p}, thr)
    <3>1. /\ gone \in [Threads -> Thread]
          /\ \A u \in Threads : gone[u] = IF u[1] = p THEN NoThread ELSE thr[u]
      BY <1>2, <2>3 DEF Gone
    <3>2. thr' = [gone EXCEPT ![<<p, 1>>] = NewThread]
      BY <1>7
    <3> HIDE DEF gone
    <3>3. \A u \in Threads : thr'[u] = IF u = <<p, 1>> THEN NewThread ELSE gone[u]
      BY <3>1, <3>2
    <3>4. <<p, 1>>[1] = p
      OBVIOUS
    <3> QED BY <2>3, <3>1, <3>2, <3>3, <3>4
  <2>6. ClientTypes' /\ \A c \in Conns : Orderly(conns'[c])
    BY <2>1, <2>4, <2>5 DEF ClientTypes, LetGo
  <2>7. Alive(p)
    <3>1. ThreadOK(t)
      BY <1>2 DEF ClientInv
    <3> QED BY <1>2, <3>1 DEF ThreadOK, Threaded
  <2>8. Parents'
    <3>1. \A q \in Procs : procs[q].state # "unborn" => procs'[q].state # "unborn"
      BY <2>2, <2>4
    <3>2. \A q \in Procs : procs'[q].dtpid = None \/ procs'[q].dtpid = procs[q].dtpid
      BY <2>2, <2>4
    <3> QED BY <1>2, <3>1, <3>2, ParentsKept
  <2>9. ASSUME NEW u \in Threads PROVE ThreadOK(u)'
    <3>1. CASE u[1] # p
      <4>1. \A c \in Conns : \A q \in Procs : q # p => Holding(conns[c], conns'[c], q)
        BY <2>1 DEF LetGo
      <4> QED BY <1>2, <2>4, <2>5, <2>6, <3>1, <4>1, OthersKept
    <3>2. CASE u[1] = p /\ u # <<p, 1>>
      BY <2>5, <3>2, NoThreadOK
    <3>3. CASE u = <<p, 1>>
      <4>1. /\ thr'[u] = NewThread /\ u[1] = p
        BY <2>5, <3>3
      <4>2. Len(thr'[u].stack) <= 1
        <5>1. Len(<<>>) <= 1
          OBVIOUS
        <5> QED BY <2>3, <4>1, <5>1
      <4>3. Alive(p)' /\ ~Stale(p)' /\ ~Own(u)' /\ ~InCall(u)'
        BY <2>2, <2>3, <2>4, <4>1 DEF Alive, Stale, Own, InCall
      <4> QED BY <2>3, <4>1, <4>2, <4>3 DEF ThreadOK, Threaded, Holds, Separate, Speaks, Speaking,
                   KnowsMap, InLine, CallOK
    <3> QED BY <3>1, <3>2, <3>3
  <2>10. ClientInv'
    BY <2>6, <2>8, <2>9 DEF ClientInv
  <2>11. \A q \in Procs : Sessioned(q)
    BY <2>2, <2>4, <2>7 DEF Sessioned, Alive
  <2>12. ServerInv'
    BY <1>1, <2>1, <2>11, ServerApart
  <2> QED BY <2>10, <2>12 DEF TraceInv
<1> QED BY <1>6, <1>7 DEF Execve

\* A program starts a thread; it has used its connection or has none that it inherited,
\* and no thread of it is about to execute another program.
LEMMA StartThreadStep ==
    ASSUME TraceInv, OneCallAtATime, NEW p \in Procs, StartThread(p), Elsewhere
    PROVE  TraceInv'
<1>0. ClientInv /\ ClientTypes
  BY DEF TraceInv, ClientInv
<1>1. PICK w \in Threads : w[1] = p /\ thr[w].live /\ ~InCall(w)
  BY DEF StartThread, LiveThreads
<1>2. PICK t \in Threads : t[1] = p /\ ~thr[t].live /\ thr' = [thr EXCEPT ![t] = NewThread]
  BY DEF StartThread
<1>3. UNCHANGED <<procs, conns, listening>> /\ ~Stale(p)
  BY DEF StartThread, OneCallAtATime
<1>4. /\ NewThread \in Thread /\ NewThread.live /\ NewThread.sock = None /\ NewThread.stack = <<>>
  BY EmptySeq DEF NewThread, NoThread, Thread
<1>5. /\ thr' \in [Threads -> Thread] /\ thr'[t] = NewThread
      /\ \A u \in Threads \ {t} : thr'[u] = thr[u]
  BY <1>0, <1>2, <1>4 DEF ClientTypes
<1>6. ClientTypes' /\ Parents' /\ \A c \in Conns : Orderly(conns'[c])
  BY <1>0, <1>3, <1>5 DEF ClientTypes, ClientInv, Parents
<1>7. ThreadOK(t)'
  <2>1. Alive(p)
    BY <1>0, <1>1 DEF ClientInv, ThreadOK, Threaded
  <2>2. Len(<<>>) <= 1
    OBVIOUS
  <2>3. Threaded(t)'
    BY <1>2, <1>3, <1>4, <1>5, <2>1, <2>2 DEF Threaded, Alive
  <2>4. ~Own(t)' /\ ~InCall(t)' /\ ~Stale(t[1])'
    BY <1>2, <1>3, <1>4, <1>5 DEF Own, InCall, Stale
  <2> QED BY <1>4, <1>5, <2>3, <2>4 DEF ThreadOK, Holds, Separate, Speaks, Speaking, KnowsMap,
               InLine, CallOK
<1>8. ASSUME NEW u \in Threads \ {t} PROVE ThreadOK(u)'
  <2>0. ThreadOK(u) /\ thr'[u] = thr[u] /\ u[1] \in Procs
    BY <1>0, <1>5, ThreadsAre DEF ClientInv
  <2>1. thr[u].sock # None => Holding(conns[thr[u].sock], conns'[thr[u].sock], u[1])
    BY <1>3 DEF Holding, ConnKept, LineKept
  <2>2. Threaded(u)' /\ Holds(u)' /\ Speaks(u)' /\ KnowsMap(u)' /\ InLine(u)' /\ CallOK(u)'
    BY <1>0, <1>3, <1>6, <2>0, <2>1, ThreadKept
  <2>3. Separate(u)'
    <3>1. Own(u)' => Own(u)
      BY <1>3, <2>0 DEF Own
    <3>2. Own(u)' => \A v \in Threads : v # u /\ v[1] = u[1] => thr'[v].sock # thr'[u].sock
      BY <1>4, <1>5, <2>0, <3>1 DEF Own, ThreadOK, Separate
    <3>3. CASE u[1] # p
      <4>1. Alone(u) => Alone(u)'
        BY <1>2, <1>5, <3>3 DEF Alone
      <4> QED BY <1>3, <2>0, <3>2, <4>1 DEF ThreadOK, Separate, Stale, InCall, Top
    <3>4. CASE u[1] = p
      <4>1. ~Stale(u[1])'
        BY <1>3, <3>4 DEF Stale
      <4>2. InCall(u)' => u # w
        BY <1>1, <2>0 DEF InCall
      <4>3. InCall(u)' => Top(u)'.do.op # ExecveCall
        BY <1>1, <2>0, <3>4, <4>2 DEF ThreadOK, Separate, InCall, Top, Alone
      <4> QED BY <3>2, <4>1, <4>3 DEF Separate
    <3> QED BY <3>3, <3>4
  <2> QED BY <2>2, <2>3 DEF ThreadOK
<1>9. ClientInv'
  BY <1>6, <1>7, <1>8 DEF ClientInv
<1>10. \A q \in Procs : Sessioned(q)
  BY <1>3 DEF Sessioned, Alive
<1>11. \A c \in Conns : Unmoved(conns[c], conns'[c])
  BY <1>3 DEF Unmoved
<1>12. UNCHANGED <<listening, mainVars, sharedVars, serverVars>>
  BY <1>3 DEF Elsewhere
<1>13. ServerInv'
  BY <1>10, <1>11, <1>12, ServerUnmoved
<1> QED BY <1>9, <1>13 DEF TraceInv

\* A process forks: the child has a copy of the thread that did, whose connection
\* is not the child's own.
LEMMA ForkStep ==
    ASSUME TraceInv, NEW t \in Threads, Fork(t), Elsewhere
    PROVE  TraceInv'
<1> DEFINE p == t[1]
<1>0. /\ ClientInv /\ ClientTypes /\ p \in Procs /\ ThreadOK(t) /\ Parents
      /\ procs \in [Procs -> Proc] /\ thr \in [Threads -> Thread] /\ conns \in [Conns -> Conn]
      /\ \A c \in Conns : Orderly(conns[c])
  BY ThreadsAre DEF TraceInv, ClientInv, ClientTypes
<1>1. PICK q \in Procs :
          /\ procs[q].state = "unborn"
          /\ procs' = [procs EXCEPT ![q] = procs[p]]
          /\ thr' = [thr EXCEPT ![<<q, 1>>] = thr[t]]
          /\ conns' = [c \in Conns |-> [conns[c] EXCEPT !.fds[q] = conns[c].fds[p]]]
  BY DEF Fork
<1>2. thr[t].live /\ thr[t].stack = <<>> /\ UNCHANGED listening
  BY DEF Fork, InCall
<1>3. Alive(p) /\ q # p
  BY <1>0, <1>1, <1>2 DEF ThreadOK, Threaded, Alive
<1>4. /\ procs' \in [Procs -> Proc] /\ procs'[q] = procs[p]
      /\ \A r \in Procs : r # q => procs'[r] = procs[r]
  BY <1>0, <1>1
<1>5. /\ thr' \in [Threads -> Thread]
      /\ \A u \in Threads : u[1] # q => thr'[u] = thr[u]
      /\ \A u \in Threads : u[1] = q => thr'[u] = IF u = <<q, 1>> THEN thr[t] ELSE thr[u]
  <2>1. \A u \in Threads : thr'[u] = IF u = <<q, 1>> THEN thr[t] ELSE thr[u]
    BY <1>0, <1>1
  <2>2. <<q, 1>>[1] = q
    OBVIOUS
  <2>3. thr' \in [Threads -> Thread]
    BY <1>0, <1>1
  <2> QED BY <2>1, <2>2, <2>3
<1>6. ASSUME NEW c \in Conns
      PROVE  /\ conns'[c] \in Conn /\ FdsOnly(conns[c], conns'[c])
             /\ conns'[c].fds[q] = conns[c].fds[p]
             /\ \A r \in Procs : r # q => conns'[c].fds[r] = conns[c].fds[r]
  <2> DEFINE old == conns[c]
             fds == [old.fds EXCEPT ![q] = old.fds[p]]
             x == [old EXCEPT !.fds = fds]
  <2>1. conns'[c] = x /\ old \in Conn
    BY <1>0, <1>1
  <2> HIDE DEF old
  <2>2. /\ fds \in [Procs -> {"no", "cloexec", "kept"}] /\ fds[q] = old.fds[p]
        /\ \A r \in Procs : r # q => fds[r] = old.fds[r]
    BY <1>0, <2>1 DEF Conn
  <2> HIDE DEF fds
  <2>3. x \in Conn /\ FdsOnly(old, x) /\ x.fds = fds
    BY <2>1, <2>2 DEF Conn, FdsOnly
  <2> HIDE DEF x
  <2> QED BY <2>1, <2>2, <2>3 DEF old
<1>7. conns' \in [Conns -> Conn] /\ \A c \in Conns : Orderly(conns'[c])
  <2>1. conns' = [c \in Conns |-> conns'[c]]
    BY <1>1
  <2>2. \A c \in Conns : conns'[c] \in Conn /\ Orderly(conns'[c])
    BY <1>0, <1>6, FdsOrderly
  <2> QED BY <2>1, <2>2
<1>8. ClientTypes'
  BY <1>4, <1>5, <1>7 DEF ClientTypes
<1>9. Parents'
  <2>1. \A r \in Procs : procs[r].state # "unborn" => procs'[r].state # "unborn"
    BY <1>1, <1>4
  <2>2. \A r \in Procs : \E o \in Procs : procs'[r].dtpid = procs[o].dtpid
    BY <1>0, <1>4
  <2> QED BY <1>0, <2>1, <2>2, ParentsKept
<1>10. ASSUME NEW u \in Threads PROVE ThreadOK(u)'
  <2>1. CASE u[1] # q
    <3>1. \A c \in Conns : \A r \in Procs : r # q => Holding(conns[c], conns'[c], r)
      BY <1>6 DEF Holding, ConnKept, LineKept, FdsOnly
    <3> QED BY <1>0, <1>4, <1>5, <1>8, <2>1, <3>1, OthersKept
  <2>2. \A v \in Threads : v[1] = q => thr[v] = NoThread
    BY <1>0, <1>1 DEF ClientInv, ThreadOK, Threaded, Alive
  <2>3. CASE u[1] = q /\ u # <<q, 1>>
    BY <1>5, <2>2, <2>3, NoThreadOK
  <2>4. CASE u = <<q, 1>>
    <3>1. thr'[u] = thr[t] /\ u[1] = q
      BY <1>5, <2>4
    <3>2. Alive(q)'
      BY <1>3, <1>4 DEF Alive
    <3>3. procs[p].dtpid # q
      BY <1>0, <1>1, ClientAssumption DEF Parents
    <3>4. ~Own(u)' /\ ~InCall(u)'
      BY <1>2, <1>4, <3>1, <3>3 DEF Own, InCall
    <3>5. Alone(u)'
      <4>1. \A v \in Threads : v[1] = q /\ v # u => thr'[v] = NoThread
        BY <1>5, <2>2, <2>4
      <4> QED BY <3>1, <4>1 DEF Alone, NoThread
    <3>6. Threaded(u)'
      BY <1>0, <1>2, <3>1, <3>2 DEF ThreadOK, Threaded
    <3>7. Holds(u)'
      <4>1. thr[t].sock # None => thr[t].sock \in Conns
        BY <1>0 DEF Thread
      <4>2. thr[t].sock # None => /\ conns[thr[t].sock].fds[p] # "no"
                                  /\ conns[thr[t].sock].stage # "none"
                                  /\ procs[p].dtpid # None
        BY <1>0 DEF ThreadOK, Holds
      <4> QED BY <1>4, <1>6, <3>1, <3>4, <4>1, <4>2 DEF Holds, FdsOnly
    <3>8. KnowsMap(u)'
      BY <1>0, <1>4, <3>1 DEF ThreadOK, KnowsMap
    <3> QED BY <1>2, <3>1, <3>4, <3>5, <3>6, <3>7, <3>8
            DEF ThreadOK, Separate, Speaks, Speaking, InLine, CallOK
  <2> QED BY <2>1, <2>3, <2>4
<1>11. ClientInv'
  BY <1>7, <1>8, <1>9, <1>10 DEF ClientInv
<1>12. \A r \in Procs : Sessioned(r)
  BY <1>0, <1>3, <1>4 DEF Sessioned, Alive
<1>13. \A c \in Conns : Unmoved(conns[c], conns'[c])
  BY <1>6 DEF Unmoved, FdsOnly
<1>14. UNCHANGED <<listening, mainVars, sharedVars, serverVars>>
  BY <1>2 DEF Elsewhere
<1>15. ServerInv'
  BY <1>12, <1>13, <1>14, ServerUnmoved
<1> QED BY <1>11, <1>15 DEF TraceInv

\* The call of a thread that connects: it asks for the file map, or goes on to its checks.
LEMMA Prepared ==
    ASSUME NEW call \in Call, call.at = "setup", NEW t \in Threads, NEW s, NEW map,
           InOrder(call, s, map),
           NEW d, d \in {GetFilemap(call, t), [call EXCEPT !.at = "check"]}
    PROVE  /\ d \in Call /\ d.do = call.do /\ d.at \in {"check", "len"} /\ InOrder(d, s, map)
           /\ d.at = "len" => AsksMap(<<d>>)
           /\ d = GetFilemap(call, t) => d.at = "len"
<1>0. Fresh(call) /\ call.do \in Calls
  BY DEF InOrder, Call
<1>1. CASE d = [call EXCEPT !.at = "check"]
  <2>1. d \in Call /\ d.do = call.do /\ d.at = "check" /\ Fresh(d)
    BY <1>0, <1>1 DEF Call, Fresh, Stages
  <2>2. InOrder(d, s, map)
    BY <2>1, FreshInOrder
  <2>3. GetFilemap(call, t).at = "len"
    BY DEF GetFilemap, Speak, Call
  <2> QED BY <2>1, <2>2, <2>3
<1>2. CASE d = GetFilemap(call, t)
  <2> DEFINE msg == Message("filemap", t, None)
  <2>1. msg \in Msg /\ msg.op = "filemap"
    BY DEF Message, Msg
  <2>2. d = Speak(call, msg)
    BY <1>2 DEF GetFilemap
  <2> HIDE DEF msg
  <2>3. /\ d \in Call /\ d.at = "len" /\ d.msg = msg /\ d.do = call.do /\ d.next = call.next
        /\ d.ok = call.ok /\ d.links = call.links /\ d.path = call.path
    BY <2>1, <2>2, Spoken
  <2>4. AsksMap(<<d>>) /\ Fresh(d)
    BY <1>0, <2>1, <2>3 DEF AsksMap, Asking, Fresh
  <2>5. Judged(d, s, map)
    BY <2>3, JudgedSame DEF InOrder
  <2>6. Question(d, s, map)
    BY <2>1, <2>3 DEF Question
  <2>7. InOrder(d, s, map)
    BY <2>3, <2>4, <2>5, <2>6 DEF InOrder
  <2> QED BY <2>3, <2>4, <2>7
<1> QED BY <1>1, <1>2

\* A thread connects. It has no connection of its process, and neither has any other
\* thread unless it is one that it made itself.
LEMMA Connected ==
    ASSUME TraceInv, NEW t \in Threads, At(t, "setup"), Elsewhere, UNCHANGED listening,
           thr[t].sock = None \/ Stale(t[1]), listening = procs[t[1]].fifo,
           NEW cs, LetGo(conns, cs, t[1]), Stale(t[1]) \/ cs = conns,
           NEW c \in Conns, cs[c].stage = "none",
           NEW x, x = [NoConn EXCEPT !.stage = "backlog", !.fds[t[1]] = "cloexec",
                                     !.peer = t[1], !.session = listening],
           conns' = [cs EXCEPT ![c] = x],
           procs' = [procs EXCEPT ![t[1]].dtpid = t[1]],
           NEW d, d = IF procs[t[1]].map = "none" THEN GetFilemap(Top(t), t)
                      ELSE [Top(t) EXCEPT !.at = "check"],
           NEW new, new = [thr[t] EXCEPT !.sock = c, !.stack[1] = d],
           thr' = [thr EXCEPT ![t] = new]
    PROVE  TraceInv'
<1> DEFINE p == t[1]
           call == Top(t)
           s == procs[p].fifo
           map == procs[p].map
           fds == [NoConn.fds EXCEPT ![p] = "cloexec"]
<1>0. /\ ClientInv /\ ClientTypes /\ p \in Procs /\ p # None /\ ThreadOK(t)
      /\ procs \in [Procs -> Proc] /\ thr \in [Threads -> Thread] /\ conns \in [Conns -> Conn]
      /\ \A b \in Conns : Orderly(conns[b]) /\ conns[b] \in Conn
  BY ThreadsAre, ClientAssumption DEF TraceInv, ClientInv, ClientTypes
<1>1. InCall(t) /\ call.at = "setup" /\ thr[t].live /\ thr[t].stack # <<>>
  BY DEF At, InCall
<1>2. call \in Call /\ InOrder(call, s, map) /\ thr[t].stack = <<call>> /\ procs[p] \in Proc
  BY <1>0, <1>1, CallFacts
<1>3. Alive(p)
  BY <1>0, <1>1 DEF ThreadOK, Threaded
<1>4. x \in Conn /\ x.stage = "backlog" /\ x.fds[p] = "cloexec" /\ x.peer = p
      /\ x.session = listening /\ x.req = <<>> /\ x.rep = <<>>
  <2>1. /\ NoConn \in Conn /\ NoConn.req = <<>> /\ NoConn.rep = <<>>
    BY NoConnOK DEF NoConn
  <2>2. fds \in [Procs -> {"no", "cloexec", "kept"}] /\ fds[p] = "cloexec"
    BY <1>0, <2>1 DEF Conn
  <2>3. listening \in Nat
    BY DEF TraceInv, ServerInv, ServerTypes
  <2>4. x = [NoConn EXCEPT !.stage = "backlog", !.fds = fds, !.peer = p,
                           !.session = listening]
    OBVIOUS
  <2> HIDE DEF fds
  <2> QED BY ONLY <1>0, <2>1, <2>2, <2>3, <2>4 DEF Conn
<1>5. conns' = [cs EXCEPT ![c] = x]
  OBVIOUS
<1> HIDE DEF fds
<1>6. Orderly(x) /\ Quiet(x)
  <2>1. Wire(<<>>) /\ Asked(<<>>) = {} /\ ~Half(<<>>)
    BY DEF Wire, Asked, Half
  <2> QED BY <1>0, <1>4, <2>1 DEF Orderly, Quiet
<1>7. /\ conns' \in [Conns -> Conn] /\ conns'[c] = x
      /\ \A b \in Conns : b # c => conns'[b] = cs[b]
      /\ \A b \in Conns : Orderly(conns'[b])
  <2>1. cs \in [Conns -> Conn] /\ \A b \in Conns : Orderly(cs[b])
    BY DEF LetGo
  <2> QED BY <1>4, <1>5, <1>6, <2>1
<1>8. /\ procs' \in [Procs -> Proc] /\ procs'[p].dtpid = p /\ procs'[p].map = map
      /\ procs'[p].fifo = s /\ procs'[p].state = procs[p].state
      /\ \A q \in Procs : q # p => procs'[q] = procs[q]
  <2>1. procs' = [procs EXCEPT ![p] = [procs[p] EXCEPT !.dtpid = p]]
    OBVIOUS
  <2> DEFINE mine == [procs[p] EXCEPT !.dtpid = p]
  <2>2. /\ mine \in Proc /\ mine.dtpid = p /\ mine.map = map /\ mine.fifo = s
        /\ mine.state = procs[p].state
    BY <1>0, <1>2 DEF Proc
  <2> HIDE DEF mine
  <2> QED BY <1>0, <2>1, <2>2 DEF mine
<1>9. /\ d \in Call /\ d.do = call.do /\ d.at \in {"check", "len"} /\ InOrder(d, s, map)
      /\ map = "none" => AsksMap(<<d>>)
  <2>1. d \in {GetFilemap(call, t), [call EXCEPT !.at = "check"]}
    OBVIOUS
  <2>2. map = "none" => d = GetFilemap(call, t)
    OBVIOUS
  <2> HIDE DEF call, s, map
  <2>3. /\ d \in Call /\ d.do = call.do /\ d.at \in {"check", "len"} /\ InOrder(d, s, map)
        /\ d.at = "len" => AsksMap(<<d>>)
        /\ d = GetFilemap(call, t) => d.at = "len"
    BY ONLY t \in Threads, <1>1, <1>2, <2>1, Prepared
  <2> QED BY ONLY <2>2, <2>3
<1>10. /\ new \in Thread /\ new.sock = c /\ new.stack = <<d>> /\ new.live
  <2>1. [<<call>> EXCEPT ![1] = d] = <<d>>
    OBVIOUS
  <2>2. new = [thr[t] EXCEPT !.sock = c, !.stack = <<d>>]
    BY <1>0, <1>2, <2>1
  <2>3. <<d>> \in Seq(Call)
    BY <1>9
  <2> QED BY ONLY t \in Threads, c \in Conns, <1>0, <1>1, <2>2, <2>3 DEF Thread
<1>11. thr' = [thr EXCEPT ![t] = new]
  OBVIOUS
<1>12. thr' \in [Threads -> Thread] /\ thr'[t] = new /\ \A u \in Threads \ {t} : thr'[u] = thr[u]
  BY ONLY t \in Threads, <1>0, <1>10, <1>11
<1>13. ClientTypes'
  BY <1>7, <1>8, <1>12 DEF ClientTypes
<1>14. Parents'
  <2>1. \A q \in Procs : procs[q].state # "unborn" => procs'[q].state # "unborn"
    BY <1>8
  <2>2. procs'[p].state # "unborn"
    BY <1>3, <1>8 DEF Alive
  <2>3. \A q \in Procs : \/ procs'[q].dtpid = procs[q].dtpid
                         \/ procs'[q].dtpid = p /\ procs'[p].state # "unborn"
    BY <1>8, <2>2
  <2> QED BY <1>0, <2>1, <2>3, ParentsKept
<1>15. ASSUME NEW b \in Conns, conns[b].stage # "none",
              \E q \in Procs : q # p /\ conns[b].fds[q] # "no"
       PROVE  b # c
  <2>1. PICK q \in Procs : q # p /\ conns[b].fds[q] # "no"
    BY <1>15
  <2>2. Holding(conns[b], cs[b], q)
    BY <2>1 DEF LetGo
  <2> QED BY <1>15, <2>1, <2>2 DEF Holding, ConnKept
<1>16. ASSUME NEW b \in Conns, NEW q \in Procs, q # p PROVE Holding(conns[b], conns'[b], q)
  <2>1. CASE conns[b].stage # "none" /\ conns[b].fds[q] # "no"
    <3>1. conns'[b] = cs[b]
      BY <1>7, <1>15, <1>16, <2>1
    <3> QED BY <1>16, <3>1 DEF LetGo
  <2>2. CASE ~(conns[b].stage # "none" /\ conns[b].fds[q] # "no")
    BY <2>2 DEF Holding
  <2> QED BY <2>1, <2>2
\* The other threads of the process have no connection, or their own.
<1>17. ASSUME NEW u \in Threads, u # t, u[1] = p, thr[u].sock # None
       PROVE  /\ Own(u) /\ thr[u].sock # c /\ thr[u].sock \in Conns
              /\ conns'[thr[u].sock] = conns[thr[u].sock] /\ procs[p].dtpid = p /\ cs = conns
  <2>0. ThreadOK(u) /\ thr[u].sock \in Conns
    BY <1>0, <1>17 DEF ClientInv, Thread
  <2>1. ~Stale(p)
    <3>1. Stale(p) => Alone(t)
      BY <1>0, <1>1 DEF ThreadOK, Separate
    <3>2. ~Alone(t)
      BY <1>0, <1>17, NotAlone DEF NoThread
    <3> QED BY <3>1, <3>2
  <2>2. procs[p].dtpid = p
    BY <1>17, <2>0, <2>1 DEF ThreadOK, Holds, Stale
  <2>3. cs = conns /\ conns[thr[u].sock].stage # "none"
    BY <1>17, <2>0, <2>1 DEF ThreadOK, Holds
  <2> QED BY <1>7, <1>17, <2>0, <2>2, <2>3 DEF Own
<1>18. \A v \in Threads : thr'[v].live = thr[v].live
  BY <1>1, <1>10, <1>12
<1>19. ASSUME NEW v \in Threads PROVE Alone(v) <=> Alone(v)'
  BY <1>18 DEF Alone
<1>20. ThreadOK(t)'
  <2>1. Threaded(t)'
    <3>1. Len(<<d>>) <= 1
      OBVIOUS
    <3> QED BY <1>3, <1>8, <1>10, <1>12, <3>1 DEF Threaded, Alive
  <2>2. Own(t)'
    <3>1. c # None
      BY ONLY c \in Conns, ClientAssumption
    <3>2. thr'[t].sock = c
      BY ONLY <1>10, <1>12
    <3> QED BY ONLY <1>8, <3>1, <3>2 DEF Own
  <2>3. Holds(t)'
    <3>1. thr'[t].sock = c /\ conns'[c].fds[p] # "no" /\ conns'[c].stage # "none"
      BY ONLY <1>4, <1>7, <1>10, <1>12
    <3>2. procs'[p].dtpid # None
      BY ONLY <1>0, <1>8
    <3>3. conns'[c].peer = p /\ conns'[c].session = procs'[p].fifo
      <4>1. listening = s
        OBVIOUS
      <4> QED BY ONLY <1>4, <1>7, <1>8, <4>1
    <3> QED BY ONLY <3>1, <3>2, <3>3 DEF Holds
  <2>4. Separate(t)'
    <3>1. \A u \in Threads : u # t /\ u[1] = t[1] => thr'[u].sock # thr'[t].sock
      <4>1. c # None
        BY ClientAssumption
      <4> QED BY <1>10, <1>12, <1>17, <4>1
    <3>2. ~Stale(t[1])'
      BY <1>8 DEF Stale
    <3>3. InCall(t)' /\ Top(t)'.do.op = ExecveCall => Alone(t)
      <4>1. Head(<<d>>) = d
        OBVIOUS
      <4>2. Top(t)' = d
        BY <1>10, <1>12, <4>1 DEF Top
      <4> QED BY <1>0, <1>1, <1>9, <4>2 DEF ThreadOK, Separate
    <3> QED BY <1>19, <3>1, <3>2, <3>3 DEF Separate
  <2>5. Speaks(t)'
    BY <2>2 DEF Speaks
  <2>6. KnowsMap(t)'
    BY <1>8, <1>9, <1>10, <1>12 DEF KnowsMap
  <2>7. InLine(t)'
    <3>1. Lined(<<d>>, x)
      <4>1. Head(<<d>>) = d
        OBVIOUS
      <4> QED BY ONLY <1>6, <1>9, <4>1 DEF Lined, Asking
    <3>2. thr'[t].sock = c /\ thr'[t].stack = <<d>>
      BY ONLY <1>10, <1>12
    <3> QED BY ONLY <1>7, <3>1, <3>2 DEF InLine
  <2>8. CallOK(t)'
    <3>1. Head(<<d>>) = d
      OBVIOUS
    <3> QED BY <1>8, <1>9, <1>10, <1>12, <3>1 DEF CallOK
  <2> QED BY <2>1, <2>3, <2>4, <2>5, <2>6, <2>7, <2>8 DEF ThreadOK
<1>21. ASSUME NEW u \in Threads \ {t} PROVE ThreadOK(u)'
  <2>0. ThreadOK(u) /\ thr'[u] = thr[u] /\ u[1] \in Procs /\ u # t
    BY <1>0, <1>12, ThreadsAre DEF ClientInv
  <2>1. procs'[u[1]].state = procs[u[1]].state /\ procs'[u[1]].fifo = procs[u[1]].fifo
        /\ procs'[u[1]].map = procs[u[1]].map
    BY <1>8, <2>0
  <2>2. thr[u].sock # None => /\ procs'[u[1]].dtpid = procs[u[1]].dtpid /\ Held(u)
    <3>1. CASE u[1] = p
      BY <1>8, <1>17, <2>0, <3>1 DEF Held, ConnKept, LineKept
    <3>2. CASE u[1] # p
      <4>1. thr[u].sock # None => thr[u].sock \in Conns
        BY <1>0 DEF Thread
      <4> QED BY <1>8, <1>16, <2>0, <3>2, <4>1 DEF Held, Holding
    <3> QED BY <3>1, <3>2
  <2>3. Threaded(u)' /\ Holds(u)' /\ Speaks(u)' /\ KnowsMap(u)' /\ InLine(u)' /\ CallOK(u)'
    BY <1>0, <1>13, <2>0, <2>1, <2>2, ThreadHeld
  <2>4. Separate(u)'
    <3>1. Own(u)' => Own(u)
      BY <2>0, <2>2 DEF Own
    <3>2. Own(u)' => \A v \in Threads : v # u /\ v[1] = u[1] => thr'[v].sock # thr'[u].sock
      <4>1. ASSUME Own(u)', NEW v \in Threads, v # u, v[1] = u[1]
            PROVE  thr'[v].sock # thr'[u].sock
        <5>1. Own(u) /\ thr[u].sock # thr[v].sock /\ thr[u].sock # None
          BY <2>0, <3>1, <4>1 DEF ThreadOK, Separate, Own
        <5>2. CASE v = t
          BY <1>10, <1>12, <1>17, <2>0, <4>1, <5>1, <5>2
        <5>3. CASE v # t
          BY <1>12, <2>0, <5>1, <5>3
        <5> QED BY <5>2, <5>3
      <4> QED BY <4>1
    <3>3. Stale(u[1])' => Stale(u[1])
      BY <1>8, <2>0 DEF Stale
    <3> QED BY <1>19, <2>0, <3>2, <3>3 DEF ThreadOK, Separate, InCall, Top
  <2> QED BY <2>3, <2>4 DEF ThreadOK
<1>22. ClientInv'
  BY <1>7, <1>13, <1>14, <1>20, <1>21 DEF ClientInv
<1>23. \A q \in Procs : Sessioned(q)
  BY <1>8 DEF Sessioned, Alive
<1>24. listening = session /\ Begun /\ listening # 0
  <2>1. ServerInv /\ listening = procs[p].fifo /\ procs[p].fifo # 0
    BY <1>0, <1>3 DEF TraceInv, ServerInv, Settled
  <2> QED BY <1>0, <2>1 DEF ServerInv, Places, Settled, Begun
<1>25. \A b \in Conns :
           \/ Unmoved(conns[b], conns'[b])
           \/ /\ conns[b].stage \notin {"backlog", "accepted"} /\ conns'[b].stage = "backlog"
              /\ conns'[b].session = session /\ Begun /\ listening # 0
  <2>1. \A b \in Conns : b # c => Unmoved(conns[b], conns'[b])
    BY <1>7 DEF LetGo
  <2>2. conns[c].stage \in {"none", "closed"}
    BY DEF LetGo
  <2> QED BY <1>4, <1>7, <1>24, <2>1, <2>2
<1>26. UNCHANGED <<listening, mainVars, sharedVars, serverVars>>
  BY DEF Elsewhere
<1>27. ServerInv'
  BY <1>23, <1>25, <1>26, ServerUnmoved
<1> QED BY <1>22, <1>27 DEF TraceInv

\* A thread connects, or uses the connection it has; its process ends when there is
\* no server.
LEMMA SetupStep ==
    ASSUME TraceInv, NEW t \in Threads, Setup(t), Elsewhere
    PROVE  TraceInv'
<1> DEFINE p == t[1]
           old == thr[t].sock
           call == Top(t)
           s == procs[p].fifo
           map == procs[p].map
           mustClose == Stale(p) /\ old # None
           cs == IF mustClose THEN CloseFd(conns, p, old) ELSE conns
           d == IF procs[p].map = "none" THEN GetFilemap(call, t)
                ELSE [call EXCEPT !.at = "check"]
<1>0. /\ ClientInv /\ p \in Procs /\ ThreadOK(t) /\ conns \in [Conns -> Conn]
      /\ thr \in [Threads -> Thread] /\ \A c \in Conns : Orderly(conns[c])
  BY ThreadsAre DEF TraceInv, ClientInv, ClientTypes
<1>1. At(t, "setup") /\ InCall(t) /\ call.at = "setup" /\ UNCHANGED listening
  BY DEF Setup, At
<1>2. call \in Call /\ InOrder(call, s, map) /\ thr[t].stack = <<call>>
  BY <1>0, <1>1, CallFacts
<1>3. CASE Abort(p)
  <2>1. UNCHANGED <<listening, mainVars, sharedVars, serverVars>>
    BY <1>1 DEF Elsewhere
  <2> QED BY <1>0, <1>3, <2>1, AbortStep
<1>4. CASE /\ old # None /\ ~mustClose
           /\ thr' = SetTop(t, [call EXCEPT !.at = "check"])
           /\ UNCHANGED <<procs, conns>>
  <2> DEFINE e == [call EXCEPT !.at = "check"]
  <2>1. Own(t)
    BY <1>0, <1>4 DEF ThreadOK, Holds, Own, Stale
  <2>2. Fresh(call) /\ ~Asking(<<call>>) /\ ~AsksMap(<<call>>)
    BY <1>1, <1>2 DEF InOrder, Asking, AsksMap
  <2>3. e \in Call /\ Fresh(e) /\ e.at = "check" /\ e.do = call.do
    BY <1>2, <2>2 DEF Call, Fresh, Stages
  <2>4. thr' = SetTop(t, e)
    BY <1>4
  <2> HIDE DEF e
  <2>5. InOrder(e, s, procs'[p].map)
    BY <2>3, FreshInOrder
  <2>6. ~Asking(<<e>>) /\ ~AsksMap(<<e>>)
    BY <2>3 DEF Asking, AsksMap
  <2>7. map \in Maps /\ Lined(<<call>>, conns[old])
    BY <1>1, <1>4, <2>1, <2>2, Caller
  <2>8. Lined(<<e>>, conns'[old])
    BY <1>4, <2>2, <2>6, <2>7 DEF Lined
  <2>9. /\ e.do = Top(t).do /\ (e.at # "setup" => Own(t))
        /\ thr[t].sock # None /\ ~AsksMap(<<e>>) => procs'[t[1]].map # "none"
        /\ Own(t) => Lined(<<e>>, conns'[thr[t].sock])
        /\ InOrder(e, procs[t[1]].fifo, procs'[t[1]].map)
        /\ procs' = procs /\ conns' = conns
    BY <1>4, <2>1, <2>3, <2>5, <2>7, <2>8 DEF Maps
  <2> HIDE DEF call, s, map, old
  <2> QED BY ONLY TraceInv, t \in Threads, Elsewhere, NoConnOK, <1>1, <2>3, <2>4, <2>9, GoesOnRight
<1>5. CASE /\ old = None \/ mustClose
           /\ listening = procs[p].fifo
           /\ \E c \in {b \in Conns : cs[b].stage = "none"} :
                /\ conns' = [cs EXCEPT ![c] = [NoConn EXCEPT
                        !.stage = "backlog", !.fds[p] = "cloexec",
                        !.peer = p, !.session = listening]]
                /\ procs' = [procs EXCEPT ![p].dtpid = p]
                /\ thr' = [thr EXCEPT ![t].sock = c, ![t].stack[1] =
                        IF procs[p].map = "none"
                        THEN GetFilemap(@, t)
                        ELSE [@ EXCEPT !.at = "check"]]
  <2>1. PICK c \in Conns :
                /\ cs[c].stage = "none"
                /\ conns' = [cs EXCEPT ![c] = [NoConn EXCEPT
                        !.stage = "backlog", !.fds[p] = "cloexec",
                        !.peer = p, !.session = listening]]
                /\ procs' = [procs EXCEPT ![p].dtpid = p]
                /\ thr' = [thr EXCEPT ![t].sock = c, ![t].stack[1] =
                        IF procs[p].map = "none"
                        THEN GetFilemap(@, t)
                        ELSE [@ EXCEPT !.at = "check"]]
    BY <1>5
  <2>2. thr[t].stack[1] = call
    BY <1>2
  <2>3. thr' = [thr EXCEPT ![t].sock = c, ![t].stack[1] = d]
    <3> DEFINE g(top) == IF procs[p].map = "none" THEN GetFilemap(top, t)
                         ELSE [top EXCEPT !.at = "check"]
    <3>1. thr' = [thr EXCEPT ![t].sock = c, ![t].stack[1] = g(thr[t].stack[1])]
      BY <1>0, <2>1
    <3>2. g(thr[t].stack[1]) = d
      BY <2>2
    <3> QED BY <3>1, <3>2
  <2>4. LetGo(conns, cs, p)
    <3>1. CASE mustClose
      <4>1. old \in Conns
        BY <1>0, <3>1 DEF Thread
      <4> QED BY <1>0, <3>1, <4>1, CloseLetsGo
    <3>2. CASE ~mustClose
      BY <1>0, <3>2, Kept DEF LetGo
    <3> QED BY <3>1, <3>2
  <2>5. /\ thr[t].sock = None \/ Stale(t[1])
        /\ listening = procs[t[1]].fifo
        /\ Stale(t[1]) \/ cs = conns
    BY <1>5
  <2>6. d = IF procs[t[1]].map = "none" THEN GetFilemap(Top(t), t)
            ELSE [Top(t) EXCEPT !.at = "check"]
    OBVIOUS
  <2> DEFINE x == [NoConn EXCEPT !.stage = "backlog", !.fds[t[1]] = "cloexec",
                                 !.peer = t[1], !.session = listening]
             new == [thr[t] EXCEPT !.sock = c, !.stack[1] = d]
  <2>7. /\ cs[c].stage = "none" /\ LetGo(conns, cs, t[1])
        /\ conns' = [cs EXCEPT ![c] = x]
        /\ procs' = [procs EXCEPT ![t[1]].dtpid = t[1]]
        /\ At(t, "setup") /\ UNCHANGED listening /\ c \in Conns
    BY <1>1, <2>1, <2>4
  <2>8. thr' = [thr EXCEPT ![t] = new]
    BY <1>0, <2>3
  <2>9. /\ x = [NoConn EXCEPT !.stage = "backlog", !.fds[t[1]] = "cloexec",
                             !.peer = t[1], !.session = listening]
        /\ new = [thr[t] EXCEPT !.sock = c, !.stack[1] = d]
    OBVIOUS
  <2> HIDE DEF x, new, d, cs, call, p, old, s, map, mustClose
  <2> QED BY ONLY TraceInv, t \in Threads, Elsewhere, <2>5, <2>6, <2>7, <2>8, <2>9, Connected
<1> QED
  <2>1. CASE old # None /\ ~mustClose
    BY <1>4, <2>1 DEF Setup
  <2>2. CASE ~(old # None /\ ~mustClose) /\ listening # procs[p].fifo
    BY <1>3, <2>2 DEF Setup
  <2>3. CASE ~(old # None /\ ~mustClose) /\ listening = procs[p].fifo
    BY <1>5, <2>3 DEF Setup
  <2> QED BY <2>1, <2>2, <2>3

-----------------------------------------------------------------------------
(* The specification.                                                      *)

\* Nothing runs yet.
LEMMA InitRight ==
    ASSUME Init
    PROVE  TraceInv
<1>1. /\ procs = [p \in Procs |-> Unborn] /\ thr = [t \in Threads |-> NoThread]
      /\ conns = [c \in Conns |-> NoConn]
  BY DEF Init, ClientInit
<1>2. Unborn \in Proc /\ NoThread \in Thread
  BY EmptySeq DEF Unborn, NoThread, Proc, Thread
<1>3. ClientTypes /\ \A c \in Conns : Orderly(conns[c])
  BY <1>1, <1>2, NoConnOK DEF ClientTypes
<1>4. Parents
  BY <1>1 DEF Parents, Unborn
<1>5. ASSUME NEW t \in Threads PROVE ThreadOK(t)
  <2>1. thr[t].sock = None /\ thr[t].stack = <<>> /\ ~thr[t].live /\ thr[t] = NoThread
    BY <1>1 DEF NoThread
  <2>2. Len(thr[t].stack) <= 1
    <3>1. Len(<<>>) <= 1
      OBVIOUS
    <3> QED BY <2>1, <3>1
  <2>3. ~Own(t) /\ ~InCall(t)
    BY <2>1 DEF Own, InCall
  <2> QED BY <2>1, <2>2, <2>3 DEF ThreadOK, Threaded, Holds, Separate, Speaks, Speaking, KnowsMap,
               InLine, CallOK
<1>6. \A c \in Conns : conns[c].stage = "none"
  BY <1>1 DEF NoConn
<1>7. Accepted = {} /\ Backlog = {}
  BY <1>6 DEF Accepted, Backlog
<1>8. ServerTypes /\ Places
  <2>1. /\ listening = 0 /\ session = 0 /\ peers = NoOne /\ batch = {} /\ kq = FALSE
        /\ main = "idle" /\ runner = "none"
    BY DEF Init
  <2>2. ServerTypes
    BY <2>1 DEF ServerTypes, NoOne
  <2>3. ~kq
    BY <2>1
  <2>4. 0 <= Sessions
    BY BoundAssumption
  <2>5. Places
    BY ONLY <2>1, <2>3, <2>4 DEF Places
  <2> QED BY <2>2, <2>5
<1>9. Settled
  <2>1. \A p \in Procs : procs[p].fifo = 0 /\ ~Alive(p)
    BY <1>1 DEF Unborn, Alive
  <2> QED BY <1>6, <1>7, <2>1 DEF Init, Settled, Begun
<1>10. Books
  BY <1>7 DEF Init, Books, NoOne
<1>11. CacheOK
  <2>1. DOMAIN cache = {}
    BY DEF Init
  <2> QED BY <2>1 DEF CacheOK
<1> QED BY <1>3, <1>4, <1>5, <1>8, <1>9, <1>10, <1>11 DEF TraceInv, ClientInv, ServerInv

\* Whatever a process does.
LEMMA ClientStep ==
    ASSUME TraceInv, OneCallAtATime, OfClients
    PROVE  TraceInv'
<1>1. Elsewhere
  BY DEF OfClients, Elsewhere
<1>2. CASE \E p \in Procs : StartThread(p)
  BY <1>1, <1>2, StartThreadStep
<1>3. CASE \E t \in Threads : Client(t)
  <2>1. PICK t \in Threads : Client(t)
    BY <1>3
  <2>2. CASE Begin(t)
    BY <1>1, <2>2, BeginStep
  <2>3. CASE Progress(t)
    <3>1. CASE Setup(t)
      BY <1>1, <3>1, SetupStep
    <3>2. CASE Look(t)
      BY <1>1, <3>2, LookStep
    <3>3. CASE SendLen(t)
      BY <1>1, <3>3, SendLenStep
    <3>4. CASE SendBody(t)
      BY <1>1, <3>4, SendBodyStep
    <3>5. CASE Receive(t)
      BY <1>1, <3>5, ReceiveStep
    <3>6. CASE Return(t)
      BY <1>1, <3>6, ReturnStep
    <3>7. CASE Dup2(t)
      BY <1>1, <3>7, Dup2Step
    <3>8. CASE Execve(t)
      BY <1>1, <3>8, ExecveStep
    <3> QED BY <2>3, <3>1, <3>2, <3>3, <3>4, <3>5, <3>6, <3>7, <3>8 DEF Progress
  <2>4. CASE Fork(t)
    BY <1>1, <2>4, ForkStep
  <2>5. CASE ExitThread(t)
    BY <1>1, <2>5, ExitThreadStep
  <2>6. CASE Exit(t)
    BY <1>1, <2>6, ExitStep
  <2> QED BY <2>1, <2>2, <2>3, <2>4, <2>5, <2>6 DEF Client
<1> QED BY <1>2, <1>3 DEF OfClients

\* Nothing happens.
LEMMA StutterRight ==
    ASSUME TraceInv, UNCHANGED vars
    PROVE  TraceInv'
<1>1. UNCHANGED <<procs, thr, conns, listening, mainVars, sharedVars, serverVars>>
  BY DEF vars, clientVars
<1>2. ClientInv'
  BY <1>1, ClientSame DEF TraceInv
<1>3. \A p \in Procs : Sessioned(p)
  BY <1>1 DEF Sessioned, Alive
<1>4. \A c \in Conns : Unmoved(conns[c], conns'[c])
  BY <1>1 DEF Unmoved
<1>5. ServerInv'
  BY <1>1, <1>3, <1>4, ServerUnmoved
<1> QED BY <1>2, <1>5 DEF TraceInv

\* The inductive invariant of trace mode: every connection is in order, every thread is
\* where its connection says it is, and the server's books and its cache are those of
\* the session (darwintrace.c, tracelib.c, porttrace.tcl).
THEOREM TraceInvariant ==
    ASSUME OneCallAtATime
    PROVE  Spec => []TraceInv
<1>1. Init => TraceInv
  BY InitRight
<1>2. TraceInv /\ [Next]_vars => TraceInv'
  BY ClientStep, ServerStep, StutterRight DEF Next
<1> QED BY <1>1, <1>2, PTL DEF Spec

\* Where a connection is in order its answer is the one its thread waits for.
LEMMA InvAnswers == TraceInv => AnswersRight
<1> SUFFICES ASSUME TraceInv, NEW t \in Threads, InCall(t), thr[t].sock # None,
                    conns[thr[t].sock].rep # <<>>
             PROVE  LET conn == conns[thr[t].sock] IN
                    /\ Speaking(t) =>
                         /\ Top(t).at = "wait" /\ Len(conn.rep) = 1
                         /\ conn.rep[1].msg = Top(t).msg
                    /\ conn.rep[1].msg.op = "dep_check" =>
                         conn.rep[1].val = RightAnswer(conn.rep[1].msg, conn.session)
  BY DEF AnswersRight
<1> DEFINE conn == conns[thr[t].sock]
<1>1. thr[t].sock \in Conns
  BY CallFacts DEF TraceInv
<1>2. Orderly(conn)
  BY <1>1 DEF TraceInv, ClientInv
<1>3. Len(conn.rep) = 1 /\ RightReply(conn.rep[1], conn.session)
  BY <1>2 DEF Orderly
<1>4. ASSUME Speaking(t) PROVE Top(t).at = "wait" /\ conn.rep[1].msg = Top(t).msg
  <2>1. Top(t).at # "setup"
    BY <1>4 DEF Speaking
  <2>2. Lined(<<Top(t)>>, conn)
    BY <2>1, Caller
  <2>3. <<Top(t)>> # <<>> /\ Head(<<Top(t)>>) = Top(t)
    OBVIOUS
  <2> HIDE DEF conn
  <2>4. conn.rep # <<>>
    BY DEF conn
  <2> QED BY ONLY <2>2, <2>3, <2>4 DEF Lined, Asking, Quiet, Sent, Awaits
<1>5. conn.rep[1].msg.op = "dep_check" =>
          conn.rep[1].val = RightAnswer(conn.rep[1].msg, conn.session)
  BY <1>3 DEF RightReply
<1> QED BY <1>3, <1>4, <1>5

\* An answer on its way is the answer to the question its thread is waiting with, and
\* says what the dependencies of that session say, for any number of processes, threads,
\* connections and sessions (dep_check and TracelibRunCmd of tracelib.c, frecv of
\* darwintrace.c).
THEOREM AnswersAreRight ==
    ASSUME OneCallAtATime
    PROVE  Spec => []AnswersRight
BY TraceInvariant, InvAnswers, PTL

\* Where the checks of a call are in order, so is its verdict at their end.
LEMMA InvVerdicts == TraceInv => VerdictsRight
<1> SUFFICES ASSUME TraceInv, NEW t \in Threads, At(t, "act"), ~GoesOn(Top(t).do.op)
             PROVE  LET do == Top(t).do
                        links == IF "follow" \in do.op.flags THEN MaxLinks ELSE 0
                        way == UNION {Reaches(Tokenize(<<>>, do.paths[i]), links)
                                        : i \in DOMAIN do.paths}
                    IN  Top(t).ok <=> \A path \in way :
                            Seen(procs[t[1]].fifo, procs[t[1]].map, do.op, path)
  BY DEF VerdictsRight
<1> DEFINE call == Top(t)
           do == call.do
           s == procs[t[1]].fifo
           map == procs[t[1]].map
           last == Len(do.paths)
           links == IF "follow" \in do.op.flags THEN MaxLinks ELSE 0
           way == UNION {Reaches(Tokenize(<<>>, do.paths[i]), links) : i \in DOMAIN do.paths}
           Visible(path) == Seen(s, map, do.op, path)
<1>1. call \in Call /\ InOrder(call, s, map) /\ call.at = "act"
  BY CallFacts DEF TraceInv, At
<1>2. do \in Calls /\ last \in Nat /\ DOMAIN do.paths = 1..last /\ call.ok \in BOOLEAN
  BY <1>1, CallsAssumption DEF Call
<1>3. /\ call.next = last + 1
      /\ call.ok => \A i \in 1..call.next - 1 : \A path \in Way(do, i) : Visible(path)
      /\ ~call.ok => \E i \in 1..last : \E path \in Way(do, i) : ~Visible(path)
  BY <1>1 DEF InOrder, Judged
<1>4. call.next - 1 = last
  BY <1>2, <1>3
<1>5. \A i : Way(do, i) = Reaches(Tokenize(<<>>, do.paths[i]), links)
  BY DEF Way, LinksOf
<1>6. \A path : path \in way <=> \E i \in 1..last : path \in Way(do, i)
  <2> HIDE DEF links, last
  <2>1. \A path : path \in way <=>
            \E i \in DOMAIN do.paths : path \in Reaches(Tokenize(<<>>, do.paths[i]), links)
    OBVIOUS
  <2> HIDE DEF way, do
  <2> QED BY ONLY <1>2, <1>5, <2>1
<1> HIDE DEF way, Visible
<1>7. call.ok <=> \A path \in way : Visible(path)
  BY <1>2, <1>3, <1>4, <1>6
<1> QED BY <1>7 DEF way, Visible

\* A call is let through exactly if all that it would reach may be seen in its session,
\* for any sandbox, any links and any calls (__darwintrace_is_in_sandbox and its callers).
THEOREM VerdictsAreRight ==
    ASSUME OneCallAtATime
    PROVE  Spec => []VerdictsRight
BY TraceInvariant, InvVerdicts, PTL
=============================================================================
