------------------------- MODULE FetchThreadProofs -------------------------
(***************************************************************************)
(* What is true of background transfers for any requests, hosts, threads   *)
(* and numbers of transfers: the invariant of the three kinds of threads,  *)
(* that a path has one writer, that nothing is left of a request that is   *)
(* gone, and that the threads implement FetchService.                      *)
(***************************************************************************)
EXTENDS FetchThread, SequenceTheorems, FiniteSetTheorems, TLAPS

-----------------------------------------------------------------------------
(* Sequences: some element is in a set, at most one is, those of one set  *)
(* come before those of another.                                           *)

Meets(s, E) == \E i \in 1..Len(s) : s[i] \in E
Single(s, E) == \A i, j \in 1..Len(s) : s[i] \in E /\ s[j] \in E => i = j
Ahead(s, E, F) == \A i, j \in 1..Len(s) : s[i] \in E /\ s[j] \in F => i < j

\* t is s with e at the end.
Grows(s, e, t) ==
    /\ \A E : Meets(t, E) <=> Meets(s, E) \/ e \in E
    /\ \A E : Single(s, E) /\ ~(Meets(s, E) /\ e \in E) => Single(t, E)
    /\ \A E, F : Ahead(s, E, F) /\ ~(e \in E /\ (e \in F \/ Meets(s, F)))
                    => Ahead(t, E, F)

\* t is s without one e.
Shrinks(s, e, t) ==
    /\ \A E : Meets(s, E) <=> e \in E \/ Meets(t, E)
    /\ \A E : Single(s, E) => Single(t, E) /\ ~(e \in E /\ Meets(t, E))

\* The beginning and the end of a sequence.
LEMMA Parts ==
    ASSUME NEW S, NEW s \in Seq(S), NEW m \in Nat \ {0}, NEW n \in Nat,
           n <= Len(s), m <= n + 1
    PROVE  /\ SubSeq(s, m, n) \in Seq(S)
           /\ Len(SubSeq(s, m, n)) = n + 1 - m
           /\ \A i \in 1..(n + 1 - m) : SubSeq(s, m, n)[i] = s[m + i - 1]
<1>1. /\ Len(s) \in Nat /\ m \in Int /\ n \in Int
      /\ \A i \in m..n : s[i] \in S
  BY LenProperties, ElementOfSeq
<1>2. /\ SubSeq(s, m, n) \in Seq(S)
      /\ Len(SubSeq(s, m, n)) = IF m <= n THEN n - m + 1 ELSE 0
      /\ \A i \in 1..n - m + 1 : SubSeq(s, m, n)[i] = s[m + i - 1]
  BY ONLY <1>1, SubSeqProperties
<1>3. n + 1 - m = n - m + 1 /\ (~(m <= n) => n + 1 - m = 0)
  BY <1>1
<1> QED BY <1>2, <1>3

\* What a step does to a sequence: an event is added at the end, the first one
\* is handled, the last thread is taken, a request is withdrawn.
LEMMA AppendEvent ==
    ASSUME NEW S, NEW s \in Seq(S), NEW e \in S
    PROVE  Append(s, e) \in Seq(S) /\ Grows(s, e, Append(s, e))
<1>1. /\ Append(s, e) \in Seq(S) /\ Len(s) \in Nat
      /\ Len(Append(s, e)) = Len(s) + 1
      /\ \A i \in 1..Len(s) : Append(s, e)[i] = s[i]
      /\ Append(s, e)[Len(s) + 1] = e
  BY AppendProperties, LenProperties
<1> DEFINE t == Append(s, e)
<1> HIDE DEF t
<1>2. /\ \A i \in 1..Len(s) : t[i] = s[i] /\ i \in 1..Len(t)
      /\ t[Len(t)] = e /\ Len(t) \in 1..Len(t)
      /\ \A i \in 1..Len(t) : i \in 1..Len(s) \/ (i = Len(t) /\ \A j \in 1..Len(s) : j < i)
  BY <1>1 DEF t
<1>3. \A E : Meets(t, E) <=> Meets(s, E) \/ e \in E
  BY <1>2 DEF Meets
<1>4. \A E : Single(s, E) /\ ~(Meets(s, E) /\ e \in E) => Single(t, E)
  BY <1>2 DEF Meets, Single
<1>5. \A E, F : Ahead(s, E, F) /\ ~(e \in E /\ (e \in F \/ Meets(s, F))) => Ahead(t, E, F)
  BY <1>2 DEF Meets, Ahead
<1> QED BY <1>1, <1>3, <1>4, <1>5 DEF t, Grows

\* The first event is taken from a queue of events.
LEMMA TailEvent ==
    ASSUME NEW S, NEW s \in Seq(S), s # <<>>
    PROVE  /\ Tail(s) \in Seq(S) /\ Head(s) \in S
           /\ Shrinks(s, Head(s), Tail(s))
           /\ \A E, F : Ahead(s, E, F) =>
                  Ahead(Tail(s), E, F) /\ ~(Head(s) \in F /\ Meets(s, E))
<1>1. /\ Tail(s) \in Seq(S) /\ Head(s) \in S /\ Head(s) = s[1]
      /\ Len(s) \in Nat \ {0} /\ Len(Tail(s)) = Len(s) - 1
      /\ \A i \in 1..Len(Tail(s)) : Tail(s)[i] = s[i + 1]
  BY HeadTailProperties, LenProperties, EmptySeq
<1> DEFINE t == Tail(s)
<1>a. Head(s) = s[1] /\ Len(s) \in Nat \ {0} /\ Len(t) = Len(s) - 1
      /\ \A i \in 1..Len(t) : t[i] = s[i + 1]
  BY <1>1
<1> HIDE DEF t
<1>2. /\ 1 \in 1..Len(s)
      /\ \A i \in 1..Len(t) : t[i] = s[i + 1] /\ i + 1 \in 1..Len(s) /\ i + 1 # 1 /\ i \in Nat
      /\ \A i \in 1..Len(s) : i = 1 \/ (i - 1 \in 1..Len(t) /\ t[i - 1] = s[i] /\ i > 1)
  BY <1>a
<1>3. \A E : Meets(s, E) <=> Head(s) \in E \/ Meets(t, E)
  BY <1>2, <1>a DEF Meets
<1>4. ASSUME NEW E, Single(s, E) PROVE Single(t, E) /\ ~(Head(s) \in E /\ Meets(t, E))
  BY <1>4, <1>2, <1>a DEF Meets, Single
<1>5. ASSUME NEW E, NEW F, Ahead(s, E, F)
      PROVE  Ahead(t, E, F) /\ ~(Head(s) \in F /\ Meets(s, E))
  <2>1. Ahead(t, E, F)
    BY <1>5, <1>2 DEF Ahead
  <2>2. ~(Head(s) \in F /\ Meets(s, E))
    BY <1>5, <1>2, <1>a DEF Ahead, Meets
  <2> QED BY <2>1, <2>2
<1> QED BY <1>1, <1>3, <1>4, <1>5 DEF t, Shrinks

\* The last thread is taken from the available ones.
LEMMA FrontThread ==
    ASSUME NEW S, NEW s \in Seq(S), s # <<>>
    PROVE  Front(s) \in Seq(S) /\ Last(s) \in S /\ Shrinks(s, Last(s), Front(s))
<1>0. Len(s) \in Nat \ {0} /\ \A i \in 1..Len(s) : s[i] \in S
  BY LenProperties, EmptySeq, ElementOfSeq
<1>1. /\ Front(s) \in Seq(S) /\ Last(s) \in S /\ Last(s) = s[Len(s)]
      /\ Len(s) \in Nat \ {0} /\ Len(Front(s)) = Len(s) - 1
      /\ \A i \in 1..Len(Front(s)) : Front(s)[i] = s[i]
  <2>1. Last(s) \in S /\ Last(s) = s[Len(s)]
    BY <1>0 DEF Last
  <2>2. 1 \in Nat \ {0} /\ Len(s) - 1 \in Nat /\ Len(s) - 1 <= Len(s) /\ 1 <= Len(s) - 1 + 1
        /\ Len(s) - 1 + 1 - 1 = Len(s) - 1 /\ \A i \in 1..Len(s)-1 : 1 + i - 1 = i
    BY <1>0
  <2>3. /\ SubSeq(s, 1, Len(s)-1) \in Seq(S)
        /\ Len(SubSeq(s, 1, Len(s)-1)) = Len(s) - 1
        /\ \A i \in 1..Len(s)-1 : SubSeq(s, 1, Len(s)-1)[i] = s[i]
    BY <2>2, Parts
  <2> QED BY <1>0, <2>1, <2>3 DEF Front
<1> DEFINE t == Front(s)
<1>a. Last(s) = s[Len(s)] /\ Len(s) \in Nat \ {0} /\ Len(t) = Len(s) - 1
      /\ \A i \in 1..Len(t) : t[i] = s[i]
  BY <1>1
<1> HIDE DEF t
<1>2. /\ Len(s) \in 1..Len(s)
      /\ \A i \in 1..Len(t) : t[i] = s[i] /\ i \in 1..Len(s) /\ i # Len(s)
      /\ \A i \in 1..Len(s) : i = Len(s) \/ (i \in 1..Len(t) /\ t[i] = s[i])
  BY <1>a
<1>3. \A E : Meets(s, E) <=> Last(s) \in E \/ Meets(t, E)
  BY <1>2, <1>a DEF Meets
<1>4. ASSUME NEW E, Single(s, E) PROVE Single(t, E) /\ ~(Last(s) \in E /\ Meets(t, E))
  BY <1>4, <1>2, <1>a DEF Meets, Single
<1> QED BY <1>1, <1>3, <1>4 DEF t, Shrinks

\* A request is withdrawn from a queue.
LEMMA RemoveRequest ==
    ASSUME NEW S, NEW s \in Seq(S), NEW i \in 1..Len(s)
    PROVE  RemoveAt(s, i) \in Seq(S) /\ Shrinks(s, s[i], RemoveAt(s, i))
<1> DEFINE a == SubSeq(s, 1, i - 1)
           b == SubSeq(s, i + 1, Len(s))
<1>1. /\ Len(s) \in Nat /\ i \in Nat /\ 1 <= i /\ i <= Len(s)
      /\ \A j \in 1..Len(s) : s[j] \in S
  BY LenProperties, ElementOfSeq
<1>2. /\ a \in Seq(S) /\ Len(a) = i - 1 /\ \A j \in 1..i-1 : a[j] = s[j]
  <2>1. 1 \in Nat \ {0} /\ i - 1 \in Nat /\ i - 1 <= Len(s) /\ 1 <= i - 1 + 1
        /\ i - 1 + 1 - 1 = i - 1 /\ \A j \in 1..i-1 : 1 + j - 1 = j
    BY <1>1
  <2> QED BY <2>1, Parts
<1>3. /\ b \in Seq(S) /\ Len(b) = Len(s) - i /\ \A j \in 1..Len(s)-i : b[j] = s[i + j]
  <2>1. i + 1 \in Nat \ {0} /\ Len(s) \in Nat /\ i + 1 <= Len(s) + 1
        /\ Len(s) + 1 - (i + 1) = Len(s) - i
        /\ \A j \in 1..Len(s)-i : i + 1 + j - 1 = i + j
    BY <1>1
  <2> QED BY <2>1, Parts
<1> DEFINE t == a \o b
<1> HIDE DEF a, b
<1>4. /\ t \in Seq(S) /\ Len(t) = Len(s) - 1
      /\ \A j \in 1..Len(s)-1 : t[j] = IF j < i THEN s[j] ELSE s[j + 1]
  <2>1. /\ t \in Seq(S) /\ Len(t) = Len(a) + Len(b)
        /\ \A j \in 1..Len(a) + Len(b) : t[j] = IF j <= Len(a) THEN a[j] ELSE b[j - Len(a)]
    BY ONLY <1>2, <1>3, ConcatProperties
  <2>2. Len(a) + Len(b) = Len(s) - 1
    BY <1>1, <1>2, <1>3
  <2>3. ASSUME NEW j \in 1..Len(s)-1 PROVE t[j] = IF j < i THEN s[j] ELSE s[j + 1]
    <3>1. CASE j < i
      BY <1>1, <1>2, <2>1, <2>2, <3>1
    <3>2. CASE j >= i
      <4>1. t[j] = b[j - (i - 1)]
        BY <1>1, <1>2, <2>1, <2>2, <3>2
      <4>2. j - (i - 1) \in 1..Len(s)-i /\ i + (j - (i - 1)) = j + 1
        BY <1>1, <3>2
      <4> DEFINE l == j - (i - 1)
      <4>3. b[l] = s[i + l] /\ i + l = j + 1 /\ t[j] = b[l]
        <5> HIDE DEF l
        <5> QED BY <4>1, <4>2, <1>3 DEF l
      <4> HIDE DEF l
      <4>4. t[j] = s[j + 1]
        BY ONLY <4>3
      <4>5. ~(j < i)
        BY <3>2, <1>1
      <4> QED BY ONLY <4>4, <4>5
    <3>3. j < i \/ j >= i
      BY <1>1
    <3> QED BY ONLY <3>1, <3>2, <3>3
  <2> QED BY <2>1, <2>2, <2>3
<1>5. RemoveAt(s, i) = t
  BY DEF RemoveAt, a, b
<1> HIDE DEF t
<1> DEFINE at(j) == IF j < i THEN j ELSE j + 1
<1>6. /\ \A j \in 1..Len(t) : at(j) \in 1..Len(s) /\ t[j] = s[at(j)] /\ at(j) # i
      /\ \A j, k \in 1..Len(t) : at(j) = at(k) => j = k
      /\ \A m \in 1..Len(s) : m = i \/ \E j \in 1..Len(t) : at(j) = m
  <2>1. ASSUME NEW j \in 1..Len(t)
        PROVE  at(j) \in 1..Len(s) /\ t[j] = s[at(j)] /\ at(j) # i
    BY <1>1, <1>4
  <2>2. ASSUME NEW j \in 1..Len(t), NEW k \in 1..Len(t), at(j) = at(k)
        PROVE  j = k
    BY <1>1, <1>4, <2>2
  <2>3. ASSUME NEW m \in 1..Len(s), m # i
        PROVE  \E j \in 1..Len(t) : at(j) = m
    <3>1. CASE m < i
      <4>1. m \in 1..Len(t) /\ at(m) = m
        BY <1>1, <1>4, <3>1
      <4> HIDE DEF at
      <4> QED BY <4>1
    <3>2. CASE m > i
      <4>1. m - 1 \in 1..Len(t) /\ at(m - 1) = m
        BY <1>1, <1>4, <3>2
      <4> HIDE DEF at
      <4> QED BY <4>1
    <3> QED BY <3>1, <3>2, <2>3, <1>1
  <2> QED BY <2>1, <2>2, <2>3
<1> HIDE DEF at
<1>7. \A E : Meets(s, E) <=> s[i] \in E \/ Meets(t, E)
  <2>1. \A E : Meets(t, E) => Meets(s, E)
    BY <1>6 DEF Meets
  <2>2. \A E : s[i] \in E => Meets(s, E)
    BY DEF Meets
  <2>3. \A E : Meets(s, E) => s[i] \in E \/ Meets(t, E)
    BY <1>6 DEF Meets
  <2> QED BY <2>1, <2>2, <2>3
<1>8. ASSUME NEW E, Single(s, E) PROVE Single(t, E) /\ ~(s[i] \in E /\ Meets(t, E))
  BY <1>8, <1>6 DEF Single, Meets
<1> QED BY <1>4, <1>5, <1>7, <1>8 DEF Shrinks

\* Nothing is in the empty sequence.
LEMMA EmptyEvents ==
    /\ \A E : ~Meets(<<>>, E) /\ Single(<<>>, E)
    /\ \A E, F : Ahead(<<>>, E, F)
BY DEF Meets, Single, Ahead

\* A set of elements and a part of it.
LEMMA PartMeets ==
    ASSUME NEW s, NEW E, NEW F, E \subseteq F
    PROVE  /\ Meets(s, E) => Meets(s, F)
           /\ Single(s, F) => Single(s, E)
BY DEF Meets, Single

-----------------------------------------------------------------------------
(* The invariant.                                                          *)

MgrEvents ==
    [type : {"queue"}, id : Jobs] \cup [type : {"unqueue"}, id : Requests]
    \cup [type : {"done"}, id : Workers, fetch : BOOLEAN] \cup [type : {"wake"}]
ClientEvents ==
    [type : {"tid"}, id : Requests, from : Workers]
    \cup [type : {"answer"}, id : Requests, value : {"success", "failure"}]
    \cup [type : {"pingtime"}, id : Hosts]
InboxEvents == [type : {"job"}, id : Jobs] \cup [type : {"cancel"}, id : Requests]
JobsOf(k) ==
    IF k = "fetch" THEN Fetches ELSE IF k = "exists" THEN Checks ELSE Hosts

\* The events of each kind, and those about a request or a worker.
QueueOf(r) == {e \in MgrEvents : e.type = "queue" /\ e.id = r}
UnqueueOf(r) == {e \in MgrEvents : e.type = "unqueue" /\ e.id = r}
Unqueues == {e \in MgrEvents : e.type = "unqueue"}
DoneOf(w) == {e \in MgrEvents : e.type = "done" /\ e.id = w}
DoneFetchOf(w) == {e \in MgrEvents : e.type = "done" /\ e.id = w /\ e.fetch}
TidOf(r) == {e \in ClientEvents : e.type = "tid" /\ e.id = r}
AnswerOf(r) == {e \in ClientEvents : e.type = "answer" /\ e.id = r}
JobOf(r) == {e \in InboxEvents : e.type = "job" /\ e.id = r}
AllJobs == {e \in InboxEvents : e.type = "job"}
CancelOf(r) == {e \in InboxEvents : e.type = "cancel" /\ e.id = r}
Cancels == {e \in InboxEvents : e.type = "cancel"}

ClientType ==
    /\ client \in [op : {"idle", "pings", "pingtime", "result", "show", "unqueue",
                         "tid", "cancel", "answer"},
                   id : Requests \cup Hosts \cup {None}, todo : SUBSET Hosts]
    /\ issued \subseteq Requests /\ active \subseteq issued
    /\ answer \in [Requests -> {None, "success", "failure"}]
    /\ tid \in [Requests -> Workers \cup {None}]
    /\ pinging \subseteq Hosts /\ pinged \subseteq Hosts
    /\ toClient \in Seq(ClientEvents)
MgrType ==
    /\ mgr \in {"wait", "pass"}
    /\ DOMAIN queue = Kinds /\ queue = [k \in Kinds |-> queue[k]]
    /\ \A k \in Kinds : queue[k] \in Seq(JobsOf(k))
    /\ available \in Seq(Workers)
    /\ threads \in 0..MaxThreads /\ fetching \in Nat
    /\ toMgr \in Seq(MgrEvents)
WorkerType ==
    /\ job \in [Workers -> [st : {"idle", "curl", "ping", "return"},
                            id : Jobs \cup {None}, tries : Nat, got : BOOLEAN]]
    /\ \A w \in Workers :
          /\ job[w].st = "curl" => job[w].id \in Requests
          /\ job[w].st = "ping" => job[w].id \in Hosts
    /\ cancelled \in [Workers -> BOOLEAN]
    /\ inbox \in [Workers -> Seq(InboxEvents)]
FetchType == ClientType /\ MgrType /\ WorkerType

\* The places a request can be at: sent to the management thread, in a queue,
\* with a worker, its result on the way, its result there.
InMsg(r) == Meets(toMgr, QueueOf(r))
InQueue(r) == Meets(queue[Kind(r)], {r})
Given(w, r) == Meets(inbox[w], JobOf(r))
Runs(w, r) == job[w].id = r /\ job[w].st \in {"curl", "ping"}
With(w, r) == Given(w, r) \/ Runs(w, r)
InWork(r) == \E w \in Workers : With(w, r)
InSent(r) == Meets(toClient, AnswerOf(r))
InAnswer(r) == answer[r] # None

\* The main thread has not done with it.
Known(r) == r \in issued /\ (r \in active \/ client.id = r)

\* How far a request has come, by its place.
At(r) ==
    CASE r \notin issued -> "new"
      [] r \in issued /\ ~Known(r) -> "gone"
      [] Known(r) /\ (InSent(r) \/ InAnswer(r)) -> "answered"
      [] Known(r) /\ ~(InSent(r) \/ InAnswer(r)) /\ (InMsg(r) \/ InQueue(r)) -> "waiting"
      [] OTHER -> "running"

\* A request is at one place as long as it is known, and at none before and
\* after.
OnePlace(r) ==
    /\ Known(r) <=> InMsg(r) \/ InQueue(r) \/ InWork(r) \/ InSent(r) \/ InAnswer(r)
    /\ ~(InMsg(r) /\ InQueue(r)) /\ ~(InMsg(r) /\ InWork(r))
    /\ ~(InMsg(r) /\ InSent(r)) /\ ~(InMsg(r) /\ InAnswer(r))
    /\ ~(InQueue(r) /\ InWork(r)) /\ ~(InQueue(r) /\ InSent(r))
    /\ ~(InQueue(r) /\ InAnswer(r)) /\ ~(InWork(r) /\ InSent(r))
    /\ ~(InWork(r) /\ InAnswer(r)) /\ ~(InSent(r) /\ InAnswer(r))

\* And once at that place.
OnceThere(r) ==
    /\ Single(toMgr, QueueOf(r))
    /\ Single(queue[Kind(r)], {r})
    /\ \A w, v \in Workers : With(w, r) /\ With(v, r) => w = v
    /\ Single(toClient, AnswerOf(r))

\* The _tid variable is set, or will be, by the worker that has begun, before
\* the result.
TidInOrder(r) ==
    /\ tid[r] # None \/ Meets(toClient, TidOf(r)) =>
          InSent(r) \/ InAnswer(r) \/ \E w \in Workers : Runs(w, r)
    /\ InAnswer(r) => ~Meets(toClient, TidOf(r))
    /\ Ahead(toClient, TidOf(r), AnswerOf(r))

\* What the procedure of the main thread is about.
ClientInOrder ==
    /\ client.op = "idle" <=> client = Idle
    /\ client.op \in {"result", "unqueue", "tid", "cancel", "answer"} =>
          client.id \in issued \ active
    /\ client.op = "show" => client.id \in active
    /\ client.op \in {"pings", "pingtime"} => client.id \in Hosts

\* The main thread waits for what it sent, after the request it withdraws.
UnqueueInOrder ==
    /\ \A r \in Requests : Meets(toMgr, UnqueueOf(r)) => client = Op("unqueue", r)
    /\ Single(toMgr, Unqueues)
    /\ \A r \in Requests : Ahead(toMgr, QueueOf(r), UnqueueOf(r))
CancelInOrder ==
    /\ \A w \in Workers, r \in Requests :
          Meets(inbox[w], CancelOf(r)) => client = Op("cancel", r)
    /\ \A w \in Workers : Single(inbox[w], Cancels)
    /\ \A w, v \in Workers :
          Meets(inbox[w], Cancels) /\ Meets(inbox[v], Cancels) => w = v

\* A thread that was created is available, reported as done, or has one job.
Free(w) == Meets(available, {w})
Done(w) == Meets(toMgr, DoneOf(w))
HasJob(w) == Meets(inbox[w], AllJobs)
Active(w) == job[w].st \in {"curl", "ping"}
OneState(w) ==
    /\ w > threads => ~Free(w) /\ ~Done(w) /\ ~HasJob(w) /\ ~Active(w)
    /\ ~(Free(w) /\ Done(w)) /\ ~(Free(w) /\ HasJob(w)) /\ ~(Free(w) /\ Active(w))
    /\ ~(Done(w) /\ HasJob(w)) /\ ~(Done(w) /\ Active(w))
    /\ ~(HasJob(w) /\ Active(w))
    /\ Single(available, {w})
    /\ Single(toMgr, DoneOf(w))
    /\ Single(inbox[w], AllJobs)

\* fetch_count is the number of workers with a fetch that is not reported as
\* done.
DoneFetch(w) == Meets(toMgr, DoneFetchOf(w))
FetchAt(w) == DoneFetch(w) \/ \E f \in Fetches : With(w, f)
Fetching == {w \in Workers : FetchAt(w)}
FetchesKnown == fetching = Cardinality(Fetching)

\* active_files, and the paths of the fetches that are known.
FilesKnown ==
    /\ files = {File[f] : f \in active \cap Fetches}
    /\ \A f, g \in Fetches : Known(f) /\ Known(g) /\ File[f] = File[g] => f = g

FetchInv ==
    /\ FetchType /\ ClientInOrder /\ UnqueueInOrder /\ CancelInOrder
    /\ FetchesKnown /\ FilesKnown
    /\ \A r \in Requests : OnePlace(r) /\ OnceThere(r) /\ TidInOrder(r)
    /\ \A w \in Workers : OneState(w)
\* What a step does to how far the requests have come: nothing, or one goes on.
Stay == \A r \in Requests : At(r)' = At(r)
Goes(x, from, to) ==
    /\ x \in Requests /\ At(x) = from /\ At(x)' = to
    /\ \A r \in Requests : r # x => At(r)' = At(r)

-----------------------------------------------------------------------------
(* The main thread.                                                        *)

\* Requests are not hosts, nor what stands for none.
LEMMA Constants ==
    /\ Requests \subseteq Jobs /\ Hosts \subseteq Jobs /\ None \notin Jobs
    /\ None \notin Workers /\ Requests \cap Hosts = {}
    /\ Fetches \cap Checks = {} /\ Fetches \subseteq Requests /\ Checks \subseteq Requests
    /\ None \notin Requests /\ None \notin Hosts
    /\ None # "success" /\ None # "failure"
BY JobAssumption, NoneAssumption DEF Jobs, Requests

\* A queue event is about its request.
LEMMA QueueEvent ==
    ASSUME NEW x \in Jobs, NEW e, e = [type |-> "queue", id |-> x]
    PROVE  /\ e \in MgrEvents /\ e \notin Unqueues
           /\ \A r : (e \in QueueOf(r) <=> r = x) /\ e \notin UnqueueOf(r)
           /\ \A w : e \notin DoneOf(w) /\ e \notin DoneFetchOf(w)
BY DEF MgrEvents, QueueOf, UnqueueOf, Unqueues, DoneOf, DoneFetchOf

\* A new request.
LEMMA QueueOk ==
    ASSUME FetchInv, NEW x \in Requests, Queue(x)
    PROVE  FetchInv' /\ Goes(x, "new", "waiting")
<1> DEFINE e == [type |-> "queue", id |-> x]
<1>1. e \in MgrEvents /\ toMgr' = Append(toMgr, e) /\ toMgr \in Seq(MgrEvents)
  BY Constants, QueueEvent DEF Queue, FetchInv, FetchType, MgrType
<1>2. /\ e \notin Unqueues
      /\ \A r : (e \in QueueOf(r) <=> r = x) /\ e \notin UnqueueOf(r)
      /\ \A w : e \notin DoneOf(w) /\ e \notin DoneFetchOf(w)
  BY Constants, QueueEvent
<1> HIDE DEF e
<1>3. toMgr' \in Seq(MgrEvents) /\ Grows(toMgr, e, toMgr')
  BY <1>1, AppendEvent
<1>4. FetchType'
  BY <1>3 DEF FetchInv, FetchType, ClientType, MgrType, WorkerType, Queue, mgrVars, workerVars, Grows
<1>5. ClientInOrder'
  BY DEF FetchInv, ClientInOrder, Queue
<1>6. UnqueueInOrder'
  BY <1>2, <1>3 DEF FetchInv, UnqueueInOrder, Queue, Idle, Op, Grows
<1>7. CancelInOrder'
  BY DEF FetchInv, CancelInOrder, Queue
<1>8. /\ ~Known(x) /\ Known(x)'
      /\ \A r \in Requests : r # x => (Known(r)' <=> Known(r))
  BY DEF FetchInv, FetchType, ClientType, Known, Queue
<1>9. /\ \A r \in Requests : (OnePlace(r) /\ OnceThere(r) /\ TidInOrder(r))'
      /\ Goes(x, "new", "waiting")
  <2>1. \A r \in Requests :
           /\ InMsg(r)' <=> InMsg(r) \/ r = x
           /\ InQueue(r)' <=> InQueue(r)
           /\ InWork(r)' <=> InWork(r)
           /\ InSent(r)' <=> InSent(r)
           /\ InAnswer(r)' <=> InAnswer(r)
           /\ \A w \in Workers : (With(w, r)' <=> With(w, r)) /\ (Runs(w, r)' <=> Runs(w, r))
    BY <1>2, <1>3 DEF Queue, mgrVars, workerVars, InMsg, InQueue, InWork, InSent, InAnswer, With, Given, Runs, Grows
  <2>2. \A r \in Requests : OnePlace(r)'
    BY <2>1, <1>8 DEF FetchInv, OnePlace
  <2>3. \A r \in Requests : OnceThere(r)'
    BY <2>1, <1>8, <1>2, <1>3 DEF FetchInv, OnePlace, OnceThere, InMsg, Queue, mgrVars, Grows
  <2>4. \A r \in Requests : TidInOrder(r)'
    BY <2>1 DEF FetchInv, TidInOrder, Queue
  <2>5. Goes(x, "new", "waiting")
    <3>1. ~InSent(x) /\ ~InAnswer(x) /\ x \notin issued /\ issued' = issued \cup {x}
      BY <1>8 DEF FetchInv, OnePlace, Queue
    <3> QED BY <3>1, <2>1, <1>8 DEF Goes, At
  <2> QED BY <2>2, <2>3, <2>4, <2>5
<1>10. \A w \in Workers : OneState(w)'
  BY <1>2, <1>3 DEF FetchInv, OneState, Free, Done, HasJob, Active, Queue, mgrVars, workerVars, Grows
<1>11. FetchesKnown'
  BY <1>2, <1>3 DEF FetchInv, FetchesKnown, Fetching, FetchAt, DoneFetch, With, Given, Runs, Queue, mgrVars, workerVars, Grows
<1>12. FilesKnown'
  <2>1. \A f \in Fetches : Known(f) => f \in active /\ File[f] \in files
    BY Constants DEF FetchInv, FilesKnown, Known, Queue, Idle
  <2>2. files' = {File[f] : f \in active' \cap Fetches}
    BY DEF FetchInv, FilesKnown, Queue
  <2>3. ASSUME NEW f \in Fetches, NEW g \in Fetches, Known(f)', Known(g)', File[f] = File[g]
        PROVE  f = g
    <3>1. CASE f # x /\ g # x
      BY <1>8, <2>3, <3>1, Constants DEF FetchInv, FilesKnown
    <3>2. CASE f = x \/ g = x
      BY <1>8, <2>1, <2>3, <3>2, Constants DEF Queue
    <3> QED BY <3>1, <3>2
  <2> QED BY <2>2, <2>3 DEF FilesKnown
<1> QED BY <1>4, <1>5, <1>6, <1>7, <1>9, <1>10, <1>11, <1>12 DEF FetchInv
\* A procedure begins or goes on, and no event is sent or handled.
LEMMA Unmoved ==
    ASSUME FetchInv, client.op \notin {"unqueue", "cancel"}, active' \subseteq active,
           UNCHANGED <<issued, answer, tid, pinging, pinged, mgrVars, workerVars, events>>,
           client' \in [op : {"idle", "pings", "pingtime", "result", "show"},
                        id : Requests \cup Hosts \cup {None}, todo : SUBSET Hosts],
           ClientInOrder', \A r \in Requests : Known(r)' <=> Known(r),
           files' = {File[f] : f \in active' \cap Fetches}
    PROVE  FetchInv' /\ Stay
<1>1. FetchType'
  BY DEF FetchInv, FetchType, ClientType, MgrType, WorkerType, mgrVars, workerVars, events
<1>2. UnqueueInOrder' /\ CancelInOrder'
  BY DEF FetchInv, UnqueueInOrder, CancelInOrder, Op, events
<1>3. Stay /\ \A r \in Requests : (OnePlace(r) /\ OnceThere(r) /\ TidInOrder(r))'
  <2>1. \A r \in Requests :
           /\ InMsg(r)' <=> InMsg(r)
           /\ InQueue(r)' <=> InQueue(r)
           /\ InWork(r)' <=> InWork(r)
           /\ InSent(r)' <=> InSent(r)
           /\ InAnswer(r)' <=> InAnswer(r)
           /\ \A w \in Workers : (With(w, r)' <=> With(w, r)) /\ (Runs(w, r)' <=> Runs(w, r))
    BY DEF mgrVars, workerVars, events, InMsg, InQueue, InWork, InSent, InAnswer, With, Given, Runs
  <2>2. \A r \in Requests : (OnePlace(r) /\ OnceThere(r) /\ TidInOrder(r))'
    BY <2>1 DEF FetchInv, OnePlace, OnceThere, TidInOrder, mgrVars, events
  <2>3. Stay
    BY <2>1, \A r \in Requests : Known(r)' <=> Known(r) DEF Stay, At
  <2> QED BY <2>2, <2>3
<1>4. \A w \in Workers : OneState(w)'
  BY DEF FetchInv, OneState, Free, Done, HasJob, Active, mgrVars, workerVars, events
<1>5. FetchesKnown'
  BY DEF FetchInv, FetchesKnown, Fetching, FetchAt, DoneFetch, With, Given, Runs, mgrVars, workerVars, events
<1>6. FilesKnown'
  BY Constants DEF FetchInv, FilesKnown
<1> QED BY <1>1, <1>2, <1>3, <1>4, <1>5, <1>6 DEF FetchInv

\* Pings begin.
LEMMA StartPingsOk ==
    ASSUME FetchInv, NEW s \in Sites, StartPings(s)
    PROVE  FetchInv' /\ Stay
<1>1. s.wait \in Hosts /\ s.ping \subseteq Hosts
  BY JobAssumption
<1>2. ClientInOrder'
  BY <1>1 DEF ClientInOrder, StartPings, Idle
<1>3. \A r \in Requests : Known(r)' <=> Known(r)
  BY <1>1, Constants DEF Known, StartPings, Idle
<1> QED BY <1>1, <1>2, <1>3, Unmoved DEF StartPings, Idle, FetchInv, FilesKnown

\* The pings were sent.
LEMMA WaitForPingOk ==
    ASSUME FetchInv, WaitForPing
    PROVE  FetchInv' /\ Stay
<1>1. client.id \in Hosts
  BY DEF FetchInv, ClientInOrder, WaitForPing
<1>2. ClientInOrder'
  BY <1>1 DEF ClientInOrder, WaitForPing, Idle, Op
<1>3. \A r \in Requests : Known(r)' <=> Known(r)
  BY <1>1, Constants DEF Known, WaitForPing, Idle, Op
<1> QED BY <1>1, <1>2, <1>3, Unmoved DEF WaitForPing, Idle, Op, FetchInv, FilesKnown

\* The files of the requests that remain.
LEMMA DropFiles ==
    ASSUME FetchInv, NEW r \in active, client = Idle, Drop(r)
    PROVE  files' = {File[f] : f \in active' \cap Fetches}
<1>1. \A f \in active \cap Fetches : Known(f) /\ f \in Requests
  BY DEF FetchInv, FetchType, ClientType, Known
<1>2. \A f, g \in active \cap Fetches : File[f] = File[g] => f = g
  BY <1>1 DEF FetchInv, FilesKnown
<1> QED BY <1>2 DEF FetchInv, FilesKnown, Drop

\* The result of a request is asked for.
LEMMA GetResultOk ==
    ASSUME FetchInv, NEW r \in Requests, GetResult(r)
    PROVE  FetchInv' /\ Stay
<1>1. r \in active /\ r \in issued /\ Drop(r) /\ client = Idle
  BY DEF FetchInv, FetchType, ClientType, GetResult
<1>2. ClientInOrder'
  BY <1>1, Constants DEF ClientInOrder, GetResult, Idle, Op, Drop
<1>3. \A x \in Requests : Known(x)' <=> Known(x)
  BY <1>1, Constants DEF Known, GetResult, Idle, Op, Drop
<1>4. files' = {File[f] : f \in active' \cap Fetches}
  BY <1>1, DropFiles
<1> QED BY <1>1, <1>2, <1>3, <1>4, Unmoved DEF GetResult, Idle, Op, Drop

\* What a transfer has done so far is shown.
LEMMA ShowProgressOk ==
    ASSUME FetchInv, NEW r \in Requests, ShowProgress(r)
    PROVE  FetchInv' /\ Stay
<1>1. r \in active /\ r \in issued
  BY DEF FetchInv, FetchType, ClientType, ShowProgress
<1>2. ClientInOrder'
  BY <1>1, Constants DEF ClientInOrder, ShowProgress, Idle, Op
<1>3. \A x \in Requests : Known(x)' <=> Known(x)
  BY <1>1, Constants DEF Known, ShowProgress, Idle, Op
<1> QED BY <1>1, <1>2, <1>3, Unmoved DEF ShowProgress, Idle, Op, FetchInv, FilesKnown
\* A host to ping.
LEMMA QueuePingOk ==
    ASSUME FetchInv, NEW h \in Hosts, QueuePing(h)
    PROVE  FetchInv' /\ Stay
<1> DEFINE e == [type |-> "queue", id |-> h]
<1>1. e \in MgrEvents /\ toMgr' = Append(toMgr, e) /\ toMgr \in Seq(MgrEvents)
  BY Constants, QueueEvent DEF QueuePing, FetchInv, FetchType, MgrType
<1>2. /\ e \notin Unqueues
      /\ \A r \in Requests : e \notin QueueOf(r) /\ e \notin UnqueueOf(r)
      /\ \A w : e \notin DoneOf(w) /\ e \notin DoneFetchOf(w)
  BY Constants, QueueEvent
<1> HIDE DEF e
<1>3. toMgr' \in Seq(MgrEvents) /\ Grows(toMgr, e, toMgr')
  BY <1>1, AppendEvent
<1>4. client' = [op |-> "pings", id |-> client.id, todo |-> client.todo \ {h}]
      /\ client.op = "pings" /\ client.id \in Hosts /\ client.todo \subseteq Hosts
  BY DEF FetchInv, FetchType, ClientType, ClientInOrder, QueuePing
<1>5. FetchType'
  <2>1. client' \in [op : {"pings"}, id : Hosts, todo : SUBSET Hosts]
    BY <1>4
  <2>2. ClientType'
    BY <2>1 DEF FetchInv, FetchType, ClientType, QueuePing
  <2> QED BY <2>2, <1>3 DEF FetchInv, FetchType, MgrType, WorkerType, QueuePing, mgrVars, workerVars, Grows
<1>6. ClientInOrder'
  BY <1>4 DEF ClientInOrder, Idle
<1>7. UnqueueInOrder' /\ CancelInOrder'
  BY <1>2, <1>3, <1>4 DEF FetchInv, UnqueueInOrder, CancelInOrder, QueuePing, Op, Grows
<1>8. \A r \in Requests : Known(r)' <=> Known(r)
  BY <1>4 DEF Known, QueuePing
<1>9. Stay /\ \A r \in Requests : (OnePlace(r) /\ OnceThere(r) /\ TidInOrder(r))'
  <2>1. \A r \in Requests :
           /\ InMsg(r)' <=> InMsg(r)
           /\ InQueue(r)' <=> InQueue(r)
           /\ InWork(r)' <=> InWork(r)
           /\ InSent(r)' <=> InSent(r)
           /\ InAnswer(r)' <=> InAnswer(r)
           /\ \A w \in Workers : (With(w, r)' <=> With(w, r)) /\ (Runs(w, r)' <=> Runs(w, r))
    BY <1>2, <1>3 DEF QueuePing, mgrVars, workerVars, InMsg, InQueue, InWork, InSent, InAnswer, With, Given, Runs, Grows
  <2>2. \A r \in Requests : (OnePlace(r) /\ OnceThere(r) /\ TidInOrder(r))'
    BY <2>1, <1>2, <1>3, <1>8
    DEF FetchInv, OnePlace, OnceThere, TidInOrder, QueuePing, mgrVars, Grows
  <2>3. Stay
    BY <2>1, <1>8 DEF Stay, At, QueuePing
  <2> QED BY <2>2, <2>3
<1>10. \A w \in Workers : OneState(w)'
  BY <1>2, <1>3 DEF FetchInv, OneState, Free, Done, HasJob, Active, QueuePing, mgrVars, workerVars, Grows
<1>11. FetchesKnown'
  BY <1>2, <1>3 DEF FetchInv, FetchesKnown, Fetching, FetchAt, DoneFetch, With, Given, Runs, QueuePing, mgrVars, workerVars, Grows
<1>12. FilesKnown'
  BY <1>8, Constants DEF FetchInv, FilesKnown, QueuePing
<1> QED BY <1>5, <1>6, <1>7, <1>9, <1>10, <1>11, <1>12 DEF FetchInv

\* A request is cancelled when its result is there, or its result is returned.
LEMMA UnsetOk ==
    ASSUME FetchInv, NEW x \in Requests, answer[x] # None, Unset(x),
           client.op \notin {"unqueue", "cancel"}, client' = Idle,
           UNCHANGED <<issued, pinging, pinged, mgrVars, workerVars, events>>,
           active' = active \ {x}, client = Idle \/ (client.id = x /\ x \notin active),
           files' = {File[f] : f \in active' \cap Fetches}
    PROVE  FetchInv' /\ Goes(x, "answered", "gone")
<1>1. /\ answer' \in [Requests -> {None, "success", "failure"}]
      /\ tid' \in [Requests -> Workers \cup {None}]
      /\ answer'[x] = None /\ tid'[x] = None
      /\ \A r \in Requests : r # x => answer'[r] = answer[r] /\ tid'[r] = tid[r]
  BY DEF FetchInv, FetchType, ClientType, Unset
<1>2. FetchType'
  BY <1>1, Constants DEF FetchInv, FetchType, ClientType, MgrType, WorkerType, mgrVars, workerVars, events, Idle
<1>3. ClientInOrder'
  BY DEF ClientInOrder, Idle
<1>4. UnqueueInOrder' /\ CancelInOrder'
  BY DEF FetchInv, UnqueueInOrder, CancelInOrder, Op, events
<1>5. /\ ~Known(x)'
      /\ \A r \in Requests : r # x => (Known(r)' <=> Known(r))
  BY Constants DEF Known, Idle
<1>6. /\ \A r \in Requests : (OnePlace(r) /\ OnceThere(r) /\ TidInOrder(r))'
      /\ Goes(x, "answered", "gone")
  <2>1. \A r \in Requests :
           /\ InMsg(r)' <=> InMsg(r)
           /\ InQueue(r)' <=> InQueue(r)
           /\ InWork(r)' <=> InWork(r)
           /\ InSent(r)' <=> InSent(r)
           /\ InAnswer(r)' <=> InAnswer(r) /\ r # x
           /\ \A w \in Workers : (With(w, r)' <=> With(w, r)) /\ (Runs(w, r)' <=> Runs(w, r))
    BY <1>1 DEF mgrVars, workerVars, events, InMsg, InQueue, InWork, InSent, InAnswer, With, Given, Runs
  <2>2. InAnswer(x)
    BY DEF InAnswer
  <2>3. \A r \in Requests : OnePlace(r)'
    BY <2>1, <2>2, <1>5 DEF FetchInv, OnePlace
  <2>4. \A r \in Requests : OnceThere(r)'
    BY <2>1 DEF FetchInv, OnceThere, mgrVars, events
  <2>5. \A r \in Requests : TidInOrder(r)'
    BY <2>1, <2>2, <1>1 DEF FetchInv, TidInOrder, mgrVars, events
  <2>6. Goes(x, "answered", "gone")
    <3>1. x \in issued /\ Known(x)
      BY <2>2 DEF FetchInv, OnePlace, Known
    <3> QED BY <3>1, <2>1, <2>2, <1>5 DEF Goes, At
  <2> QED BY <2>3, <2>4, <2>5, <2>6
<1>7. \A w \in Workers : OneState(w)'
  BY DEF FetchInv, OneState, Free, Done, HasJob, Active, mgrVars, workerVars, events
<1>8. FetchesKnown'
  BY DEF FetchInv, FetchesKnown, Fetching, FetchAt, DoneFetch, With, Given, Runs, mgrVars, workerVars, events
<1>9. FilesKnown'
  BY <1>5, Constants DEF FetchInv, FilesKnown
<1> QED BY <1>2, <1>3, <1>4, <1>6, <1>7, <1>8, <1>9 DEF FetchInv

\* A complete request is cancelled.
LEMMA CancelCompleteOk ==
    ASSUME FetchInv, NEW r \in Requests, CancelComplete(r)
    PROVE  FetchInv' /\ Goes(r, "answered", "gone")
<1>1. r \in active /\ Drop(r) /\ client = Idle
  BY DEF CancelComplete
<1>2. files' = {File[f] : f \in active' \cap Fetches}
  BY <1>1, DropFiles
<1>3. client.op \notin {"unqueue", "cancel"} /\ client' = Idle
  BY DEF CancelComplete, Idle
<1>4. active' = active \ {r} /\ answer[r] # None /\ Unset(r)
      /\ UNCHANGED <<issued, pinging, pinged, mgrVars, workerVars, events>>
  BY DEF CancelComplete, Drop
<1> QED BY <1>1, <1>2, <1>3, <1>4, UnsetOk

\* The result that was waited for is returned.
LEMMA FinishOk ==
    ASSUME FetchInv, Finish
    PROVE  FetchInv' /\ \E x \in Requests : Goes(x, "answered", "gone")
<1> PICK x : x = client.id
  OBVIOUS
<1>1. x \in issued /\ x \notin active /\ x \in Requests /\ client.id = x
  BY DEF FetchInv, FetchType, ClientType, ClientInOrder, Finish
<1>2. files' = {File[f] : f \in active' \cap Fetches}
  BY DEF FetchInv, FilesKnown, Finish
<1>3. active' = active \ {x}
  BY <1>1 DEF Finish
<1>4. client.op \notin {"unqueue", "cancel"} /\ client' = Idle
      /\ answer[x] # None /\ Unset(x)
      /\ UNCHANGED <<issued, pinging, pinged, mgrVars, workerVars, events>>
  BY <1>1 DEF Finish
<1> QED BY <1>1, <1>2, <1>3, <1>4, UnsetOk

\* A request is withdrawn: the management thread is told.
LEMMA CancelPendingOk ==
    ASSUME FetchInv, NEW x \in Requests, CancelPending(x)
    PROVE  FetchInv' /\ Stay
<1> DEFINE e == [type |-> "unqueue", id |-> x]
<1>1. /\ e \in MgrEvents /\ e \in Unqueues
      /\ \A r : (e \in UnqueueOf(r) <=> r = x) /\ e \notin QueueOf(r)
      /\ \A w : e \notin DoneOf(w) /\ e \notin DoneFetchOf(w)
  BY DEF MgrEvents, QueueOf, UnqueueOf, Unqueues, DoneOf, DoneFetchOf
<1>2. toMgr' = Append(toMgr, e) /\ toMgr \in Seq(MgrEvents)
  BY DEF CancelPending, FetchInv, FetchType, MgrType
<1> HIDE DEF e
<1>3. toMgr' \in Seq(MgrEvents) /\ Grows(toMgr, e, toMgr')
  BY <1>1, <1>2, AppendEvent
<1>4. /\ x \in issued /\ x \in active /\ client = Idle
      /\ client' = Op("unqueue", x) /\ active' = active \ {x}
  BY DEF FetchInv, FetchType, ClientType, CancelPending, Drop
<1>5. FetchType'
  <2>1. ClientType'
    BY <1>4 DEF FetchInv, FetchType, ClientType, CancelPending, Op
  <2> QED BY <2>1, <1>3 DEF FetchInv, FetchType, MgrType, WorkerType, CancelPending, mgrVars, workerVars, Grows
<1>6. ClientInOrder'
  BY <1>4 DEF ClientInOrder, Idle, Op, CancelPending
<1>7. UnqueueInOrder'
  <2>1. ~Meets(toMgr, Unqueues)
    <3>1. \A i \in 1..Len(toMgr) : toMgr[i] \in MgrEvents
      BY ElementOfSeq DEF FetchInv, FetchType, MgrType
    <3>2. \A m \in Unqueues : m.id \in Requests /\ m \in UnqueueOf(m.id)
      BY DEF Unqueues, UnqueueOf, MgrEvents
    <3> QED BY <1>4, <3>1, <3>2 DEF FetchInv, UnqueueInOrder, Meets, Idle, Op
  <2>2. Single(toMgr', Unqueues)
    BY <1>1, <1>3, <2>1 DEF FetchInv, UnqueueInOrder, Grows
  <2>3. \A r \in Requests : Meets(toMgr', UnqueueOf(r)) => r = x
    BY <1>1, <1>3, <1>4 DEF FetchInv, UnqueueInOrder, Idle, Op, Grows
  <2>4. \A r \in Requests : Ahead(toMgr', QueueOf(r), UnqueueOf(r))
    BY <1>1, <1>3 DEF FetchInv, UnqueueInOrder, Grows
  <2> QED BY <1>4, <2>2, <2>3, <2>4 DEF UnqueueInOrder
<1>8. CancelInOrder'
  BY <1>4 DEF FetchInv, CancelInOrder, CancelPending, Idle, Op
<1>9. \A r \in Requests : Known(r)' <=> Known(r)
  BY <1>4, Constants DEF Known, CancelPending, Idle, Op
<1>10. Stay /\ \A r \in Requests : (OnePlace(r) /\ OnceThere(r) /\ TidInOrder(r))'
  <2>1. \A r \in Requests :
           /\ InMsg(r)' <=> InMsg(r)
           /\ InQueue(r)' <=> InQueue(r)
           /\ InWork(r)' <=> InWork(r)
           /\ InSent(r)' <=> InSent(r)
           /\ InAnswer(r)' <=> InAnswer(r)
           /\ \A w \in Workers : (With(w, r)' <=> With(w, r)) /\ (Runs(w, r)' <=> Runs(w, r))
    BY <1>1, <1>3 DEF CancelPending, mgrVars, workerVars, InMsg, InQueue, InWork, InSent, InAnswer, With, Given, Runs, Grows
  <2>2. \A r \in Requests : (OnePlace(r) /\ OnceThere(r) /\ TidInOrder(r))'
    BY <2>1, <1>1, <1>3, <1>9
    DEF FetchInv, OnePlace, OnceThere, TidInOrder, CancelPending, mgrVars, Grows
  <2>3. Stay
    BY <2>1, <1>9 DEF Stay, At, CancelPending
  <2> QED BY <2>2, <2>3
<1>11. \A w \in Workers : OneState(w)'
  BY <1>1, <1>3 DEF FetchInv, OneState, Free, Done, HasJob, Active, CancelPending, mgrVars, workerVars, Grows
<1>12. FetchesKnown'
  BY <1>1, <1>3 DEF FetchInv, FetchesKnown, Fetching, FetchAt, DoneFetch, With, Given, Runs, CancelPending, mgrVars, workerVars, Grows
<1>13. FilesKnown'
  <2>1. files' = {File[f] : f \in active' \cap Fetches}
    BY <1>4, DropFiles DEF CancelPending
  <2> QED BY <1>9, <2>1, Constants DEF FetchInv, FilesKnown
<1> QED BY <1>5, <1>6, <1>7, <1>8, <1>10, <1>11, <1>12, <1>13 DEF FetchInv

\* Events of workers.
LEMMA CancelEvent ==
    ASSUME NEW x \in Requests, NEW e, e = [type |-> "cancel", id |-> x]
    PROVE  /\ e \in InboxEvents /\ e \in Cancels /\ e \notin AllJobs
           /\ \A r : (e \in CancelOf(r) <=> r = x) /\ e \notin JobOf(r)
BY DEF InboxEvents, Cancels, AllJobs, CancelOf, JobOf

\* Where a cancellation is, it is the one of the request that is cancelled.
LEMMA CancelIsClient ==
    ASSUME FetchInv, NEW w \in Workers, Meets(inbox[w], Cancels)
    PROVE  client.op = "cancel"
<1>1. PICK i \in 1..Len(inbox[w]) : inbox[w][i] \in Cancels
  BY DEF Meets
<1>2. inbox[w][i].id \in Requests /\ inbox[w][i] \in CancelOf(inbox[w][i].id)
  BY <1>1 DEF Cancels, CancelOf, InboxEvents
<1> QED BY <1>1, <1>2 DEF FetchInv, CancelInOrder, Meets, Op

\* A worker is told to give up.
LEMMA SendCancelOk ==
    ASSUME FetchInv, SendCancel
    PROVE  FetchInv' /\ Stay
<1> DEFINE x == client.id
           w == tid[x]
           e == [type |-> "cancel", id |-> x]
<1>1. /\ x \in Requests /\ x \in issued /\ x \notin active /\ w \in Workers
      /\ client.op = "tid" /\ client' = Op("cancel", x)
  BY DEF FetchInv, FetchType, ClientType, ClientInOrder, SendCancel
<1>2. /\ inbox \in [Workers -> Seq(InboxEvents)]
      /\ inbox' = [inbox EXCEPT ![w] = Append(inbox[w], e)]
  BY DEF FetchInv, FetchType, WorkerType, SendCancel
<1>3. /\ e \in InboxEvents /\ e \in Cancels /\ e \notin AllJobs
      /\ \A r : (e \in CancelOf(r) <=> r = x) /\ e \notin JobOf(r)
  BY <1>1, CancelEvent
<1> HIDE DEF e, w, x
<1>4. /\ inbox' \in [Workers -> Seq(InboxEvents)]
      /\ \A v \in Workers : v # w => inbox'[v] = inbox[v]
      /\ Grows(inbox[w], e, inbox'[w])
  <2>1. inbox'[w] = Append(inbox[w], e) /\ inbox[w] \in Seq(InboxEvents)
    BY <1>1, <1>2
  <2> QED BY <2>1, <1>1, <1>2, <1>3, AppendEvent
<1>5. FetchType'
  <2>1. ClientType'
    BY <1>1, Constants DEF FetchInv, FetchType, ClientType, SendCancel, Op
  <2> QED BY <2>1, <1>4 DEF FetchInv, FetchType, MgrType, WorkerType, SendCancel, mgrVars, workerVars, Grows
<1>6. ClientInOrder'
  BY <1>1 DEF ClientInOrder, Idle, Op, SendCancel
<1>7. UnqueueInOrder'
  BY <1>1 DEF FetchInv, UnqueueInOrder, SendCancel, Op
<1>8. CancelInOrder'
  <2>1. \A v \in Workers : ~Meets(inbox[v], Cancels)
    BY <1>1, CancelIsClient
  <2>2. \A v \in Workers : \A r \in Requests : ~Meets(inbox[v], CancelOf(r))
    BY <1>1 DEF FetchInv, CancelInOrder, Op
  <2>3. \A v \in Workers : Single(inbox'[v], Cancels)
    BY <2>1, <1>3, <1>4, <1>1 DEF FetchInv, CancelInOrder, Grows
  <2>4. \A v \in Workers : Meets(inbox'[v], Cancels) => v = w
    BY <2>1, <1>4 DEF Grows
  <2>5. \A v \in Workers, r \in Requests : Meets(inbox'[v], CancelOf(r)) => r = x
    BY <2>2, <1>3, <1>4 DEF Grows
  <2> QED BY <2>3, <2>4, <2>5, <1>1 DEF CancelInOrder
<1>9. \A r \in Requests : Known(r)' <=> Known(r)
  BY <1>1 DEF Known, SendCancel, Op, x
<1>10. \A r \in Jobs : \A v \in Workers :
          (With(v, r)' <=> With(v, r)) /\ (Runs(v, r)' <=> Runs(v, r))
  BY <1>3, <1>4 DEF SendCancel, workerVars, With, Given, Runs, Grows
<1>11. Stay /\ \A r \in Requests : (OnePlace(r) /\ OnceThere(r) /\ TidInOrder(r))'
  <2>1. \A r \in Requests :
           /\ InMsg(r)' <=> InMsg(r)
           /\ InQueue(r)' <=> InQueue(r)
           /\ InWork(r)' <=> InWork(r)
           /\ InSent(r)' <=> InSent(r)
           /\ InAnswer(r)' <=> InAnswer(r)
    BY <1>10, Constants DEF SendCancel, mgrVars, InMsg, InQueue, InWork, InSent, InAnswer
  <2>2. \A r \in Requests : (OnePlace(r) /\ OnceThere(r) /\ TidInOrder(r))'
    BY <2>1, <1>9, <1>10, Constants
    DEF FetchInv, OnePlace, OnceThere, TidInOrder, SendCancel, mgrVars
  <2>3. Stay
    BY <2>1, <1>9 DEF Stay, At, SendCancel
  <2> QED BY <2>2, <2>3
<1>12. \A v \in Workers : OneState(v)'
  BY <1>3, <1>4 DEF FetchInv, OneState, Free, Done, HasJob, Active, SendCancel, mgrVars, workerVars, Grows
<1>13. FetchesKnown'
  BY <1>10, Constants DEF FetchInv, FetchesKnown, Fetching, FetchAt, DoneFetch, SendCancel, mgrVars
<1>14. FilesKnown'
  BY <1>9, Constants DEF FetchInv, FilesKnown, SendCancel
<1> QED BY <1>5, <1>6, <1>7, <1>8, <1>11, <1>12, <1>13, <1>14 DEF FetchInv
\* Where a request is when no place of it changes.
LEMMA SamePlaces ==
    ASSUME FetchInv, NEW r \in Requests, Known(r)' <=> Known(r),
           InMsg(r)' <=> InMsg(r), InQueue(r)' <=> InQueue(r), InWork(r)' <=> InWork(r),
           InSent(r)' <=> InSent(r), InAnswer(r)' <=> InAnswer(r)
    PROVE  OnePlace(r)'
BY DEF FetchInv, OnePlace

\* What an event of a worker to the main thread is about.
LEMMA ClientEventKinds ==
    ASSUME NEW m \in ClientEvents
    PROVE  /\ m.type \in {"tid", "answer", "pingtime"}
           /\ m.type = "tid" => /\ m.id \in Requests /\ m.from \in Workers
                                /\ \A r : m \in TidOf(r) <=> r = m.id
                                /\ \A r : m \notin AnswerOf(r)
           /\ m.type = "answer" => /\ m.id \in Requests /\ m.value \in {"success", "failure"}
                                   /\ \A r : m \in AnswerOf(r) <=> r = m.id
                                   /\ \A r : m \notin TidOf(r)
           /\ m.type = "pingtime" => /\ m.id \in Hosts
                                     /\ \A r : m \notin AnswerOf(r) /\ m \notin TidOf(r)
BY DEF ClientEvents, TidOf, AnswerOf

\* An event of the main thread.
LEMMA ClientEventOk ==
    ASSUME FetchInv, ClientEvent
    PROVE  FetchInv' /\ Stay
<1> DEFINE m == Head(toClient)
<1>1. /\ m \in ClientEvents /\ toClient' \in Seq(ClientEvents) /\ Shrinks(toClient, m, toClient')
      /\ \A E, F : Ahead(toClient, E, F) => Ahead(toClient', E, F)
      /\ \A E, F : Ahead(toClient, E, F) => ~(m \in F /\ Meets(toClient, E))
  BY TailEvent DEF ClientEvent, FetchInv, FetchType, ClientType
<1>2. /\ m.type = "tid" => /\ m.id \in Requests /\ m.from \in Workers
                           /\ \A r : m \in TidOf(r) <=> r = m.id
                           /\ \A r : m \notin AnswerOf(r)
      /\ m.type = "answer" => /\ m.id \in Requests /\ m.value \in {"success", "failure"}
                              /\ \A r : m \in AnswerOf(r) <=> r = m.id
                              /\ \A r : m \notin TidOf(r)
      /\ m.type = "pingtime" => /\ m.id \in Hosts
                                /\ \A r : m \notin AnswerOf(r) /\ m \notin TidOf(r)
  BY <1>1, ClientEventKinds
<1>3. /\ m.type = "tid" => /\ tid' = [tid EXCEPT ![m.id] = m.from]
                           /\ client' = IF client = Op("show", m.id) THEN Idle ELSE client
                           /\ UNCHANGED <<answer, pinging, pinged>>
      /\ m.type = "answer" => /\ answer' = [answer EXCEPT ![m.id] = m.value]
                              /\ UNCHANGED <<client, tid, pinging, pinged>>
      /\ m.type = "pingtime" => /\ pinging' = pinging \ {m.id} /\ pinged' = pinged \cup {m.id}
                                /\ client' = IF client = Op("pingtime", m.id) THEN Idle ELSE client
                                /\ UNCHANGED <<answer, tid>>
      /\ m.type \in {"tid", "answer", "pingtime"}
  BY DEF ClientEvent
<1>4. UNCHANGED <<issued, active, files, mgrVars, workerVars, toMgr, inbox>>
  BY DEF ClientEvent
<1> HIDE DEF m
<1>5. client' = client \/ (client' = Idle /\ client.op \in {"show", "pingtime"})
  BY <1>3 DEF Op
<1>6. /\ answer' \in [Requests -> {None, "success", "failure"}]
      /\ tid' \in [Requests -> Workers \cup {None}]
      /\ m.type # "answer" => answer' = answer
      /\ m.type # "tid" => tid' = tid
      /\ m.type = "answer" => /\ answer'[m.id] # None
                              /\ \A r \in Requests : r # m.id => answer'[r] = answer[r]
      /\ m.type = "tid" => \A r \in Requests : r # m.id => tid'[r] = tid[r]
  BY <1>2, <1>3, Constants DEF FetchInv, FetchType, ClientType
<1>7. FetchType'
  <2>1. ClientType'
    BY <1>1, <1>2, <1>3, <1>4, <1>5, <1>6 DEF FetchInv, FetchType, ClientType, Idle
  <2> QED BY <2>1, <1>4 DEF FetchInv, FetchType, MgrType, WorkerType, mgrVars, workerVars
<1>8. ClientInOrder'
  BY <1>4, <1>5 DEF FetchInv, ClientInOrder, Idle
<1>9. UnqueueInOrder' /\ CancelInOrder'
  BY <1>4, <1>5 DEF FetchInv, UnqueueInOrder, CancelInOrder, Op
<1>10. \A r \in Requests : Known(r)' <=> Known(r)
  <2>1. CASE client' = client
    BY <2>1, <1>4 DEF Known
  <2>2. CASE client' = Idle /\ client.op \in {"show", "pingtime"}
    BY <2>2, <1>4, Constants DEF FetchInv, ClientInOrder, Known, Idle
  <2> QED BY <2>1, <2>2, <1>5
<1>11. ASSUME NEW r \in Requests
       PROVE  (OnePlace(r) /\ OnceThere(r) /\ TidInOrder(r))' /\ At(r)' = At(r)
  <2>1. /\ InMsg(r)' <=> InMsg(r)
        /\ InQueue(r)' <=> InQueue(r)
        /\ InWork(r)' <=> InWork(r)
        /\ \A w \in Workers : (With(w, r)' <=> With(w, r)) /\ (Runs(w, r)' <=> Runs(w, r))
    BY <1>4 DEF mgrVars, workerVars, InMsg, InQueue, InWork, With, Given, Runs
  <2>2. OnePlace(r) /\ OnceThere(r) /\ TidInOrder(r)
    BY DEF FetchInv
  <2>3. OnceThere(r)'
    BY <2>1, <2>2, <1>1, <1>4 DEF OnceThere, Shrinks, mgrVars
  <2>4. CASE m.type = "answer" /\ m.id = r
    <3>1. InSent(r) /\ ~InSent(r)' /\ InAnswer(r)'
      BY <2>2, <2>4, <1>1, <1>2, <1>6 DEF OnceThere, InSent, InAnswer, Shrinks
    <3>2. OnePlace(r)'
      BY <3>1, <2>1, <2>2, <1>10 DEF OnePlace
    <3>3. TidInOrder(r)'
      BY <3>1, <2>1, <2>2, <2>4, <1>1, <1>2, <1>6 DEF TidInOrder, Shrinks
    <3>4. At(r)' = At(r)
      BY <3>1, <1>4, <1>10 DEF At
    <3> QED BY <2>3, <3>2, <3>3, <3>4
  <2>5. CASE ~(m.type = "answer" /\ m.id = r)
    <3>1. (InSent(r)' <=> InSent(r)) /\ (InAnswer(r)' <=> InAnswer(r))
      BY <2>5, <1>1, <1>2, <1>3, <1>6 DEF InSent, InAnswer, Shrinks
    <3>2. OnePlace(r)'
      BY <3>1, <2>1, <1>10, SamePlaces
    <3>3. tid'[r] # None \/ Meets(toClient', TidOf(r)) =>
             tid[r] # None \/ Meets(toClient, TidOf(r))
      BY <1>1, <1>2, <1>3, <1>6 DEF Shrinks
    <3>4. TidInOrder(r)'
      BY <3>1, <3>3, <2>1, <2>2, <1>1 DEF TidInOrder, Shrinks
    <3>5. At(r)' = At(r)
      BY <3>1, <2>1, <1>4, <1>10 DEF At
    <3> QED BY <2>3, <3>2, <3>4, <3>5
  <2> QED BY <2>4, <2>5
<1>12. \A w \in Workers : OneState(w)'
  BY <1>4 DEF FetchInv, OneState, Free, Done, HasJob, Active, mgrVars, workerVars
<1>13. FetchesKnown'
  BY <1>4 DEF FetchInv, FetchesKnown, Fetching, FetchAt, DoneFetch, With, Given, Runs, mgrVars, workerVars
<1>14. FilesKnown'
  BY <1>4, <1>10, Constants DEF FetchInv, FilesKnown
<1> QED BY <1>7, <1>8, <1>9, <1>11, <1>12, <1>13, <1>14 DEF FetchInv, Stay
-----------------------------------------------------------------------------
(* The management thread.                                                  *)

\* The queue of a request or host.
LEMMA KindOf ==
    /\ \A x \in Jobs : Kind(x) \in Kinds /\ x \in JobsOf(Kind(x))
    /\ \A k \in Kinds : \A x \in JobsOf(k) : x \in Jobs /\ Kind(x) = k
    /\ \A x \in Requests : Kind(x) \in {"fetch", "exists"}
    /\ \A x \in Requests : Kind(x) = "fetch" <=> x \in Fetches
BY Constants DEF Kind, Kinds, JobsOf, Jobs, Requests

\* The workers with a fetch are finitely many.
LEMMA FetchingFinite ==
    IsFiniteSet(Fetching)
<1>1. IsFiniteSet(Workers)
  BY ThreadAssumption, FS_Interval DEF Workers
<1>2. Fetching \subseteq Workers
  BY DEF Fetching
<1> QED BY <1>1, <1>2, FS_Subset

\* The thread that is taken is there, and free.
LEMMA ThreadFree ==
    ASSUME FetchInv, HasThread, TakeThread, NEW w, w = Thread
    PROVE  /\ w \in Workers /\ threads' \in 0..MaxThreads /\ available' \in Seq(Workers)
           /\ ~Done(w) /\ ~HasJob(w) /\ ~Active(w) /\ ~(w > threads') /\ ~Free(w)'
           /\ \A v \in Workers : v # w => (Free(v)' <=> Free(v)) /\ (v > threads' => v > threads)
           /\ \A v \in Workers : Single(available, {v}) => Single(available', {v})
<1>1. MaxThreads \in Nat /\ threads \in 0..MaxThreads /\ available \in Seq(Workers)
  BY ThreadAssumption DEF FetchInv, FetchType, MgrType
<1>2. \A v \in Workers : OneState(v)
  BY DEF FetchInv
<1>3. CASE available # <<>>
  <2>1. /\ w \in Workers /\ available' \in Seq(Workers) /\ Shrinks(available, w, available')
        /\ threads' = threads
    BY <1>1, <1>3, FrontThread DEF Thread, TakeThread
  <2>2. Free(w) /\ OneState(w)
    BY <2>1, <1>2 DEF Free, Shrinks
  <2>3. ~(w > threads') /\ ~Done(w) /\ ~HasJob(w) /\ ~Active(w)
    BY <2>1, <2>2 DEF OneState
  <2>4. ~Free(w)' /\ \A v \in Workers : v # w => (Free(v)' <=> Free(v))
    BY <2>1, <2>2 DEF OneState, Free, Shrinks
  <2>5. \A v \in Workers : Single(available, {v}) => Single(available', {v})
    BY <2>1 DEF Shrinks
  <2> QED BY <2>1, <2>3, <2>4, <2>5, <1>1
<1>4. CASE available = <<>>
  <2>1. threads < MaxThreads /\ w = threads + 1 /\ threads' = threads + 1
        /\ available' = available
    BY <1>4 DEF HasThread, Thread, TakeThread
  <2>2. w \in Workers /\ threads' \in 0..MaxThreads /\ ~(w > threads') /\ w > threads
    BY <1>1, <2>1 DEF Workers
  <2>3. ~Free(w) /\ ~Done(w) /\ ~HasJob(w) /\ ~Active(w)
    BY <1>2, <2>2 DEF OneState
  <2>4. \A v \in Workers : v > threads' => v > threads
    BY <1>1, <2>1 DEF Workers
  <2>5. \A v \in Workers : Free(v)' <=> Free(v)
    BY <2>1 DEF Free
  <2> QED BY <1>1, <2>1, <2>2, <2>3, <2>4, <2>5
<1> QED BY <1>3, <1>4

\* A job goes to a free thread.
LEMMA DispatchOk ==
    ASSUME FetchInv, NEW k \in Kinds, Dispatch(k), mgr' = mgr,
           fetching' = IF k = "fetch" THEN fetching + 1 ELSE fetching
    PROVE  /\ FetchInv'
           /\ \/ /\ \E x \in JobsOf(k) : Goes(x, "waiting", "running")
                 /\ \E w \in Workers : \A r \in Requests : ~With(w, r)
              \/ k = "ping" /\ Stay
<1> PICK w : w = Thread
  OBVIOUS
<1> PICK x : x = Head(queue[k])
  OBVIOUS
<1> DEFINE e == [type |-> "job", id |-> x]
<1>1. /\ w \in Workers /\ threads' \in 0..MaxThreads /\ available' \in Seq(Workers)
      /\ ~Done(w) /\ ~HasJob(w) /\ ~Active(w) /\ ~(w > threads') /\ ~Free(w)'
      /\ \A v \in Workers : v # w => (Free(v)' <=> Free(v)) /\ (v > threads' => v > threads)
      /\ \A v \in Workers : Single(available, {v}) => Single(available', {v})
  BY ThreadFree DEF Dispatch
<1>2. /\ DOMAIN queue' = Kinds /\ queue' = [l \in Kinds |-> queue'[l]]
      /\ \A l \in Kinds : l # k => queue'[l] = queue[l]
      /\ x \in JobsOf(k) /\ queue'[k] \in Seq(JobsOf(k)) /\ Shrinks(queue[k], x, queue'[k])
  <2>1. queue' = [queue EXCEPT ![k] = Tail(queue[k])] /\ DOMAIN queue = Kinds
        /\ queue[k] \in Seq(JobsOf(k)) /\ queue[k] # <<>>
    BY DEF Dispatch, FetchInv, FetchType, MgrType
  <2> QED BY <2>1, TailEvent
<1>3. x \in Jobs /\ Kind(x) = k
  BY <1>2, KindOf
<1>4. /\ inbox \in [Workers -> Seq(InboxEvents)]
      /\ inbox' = [inbox EXCEPT ![w] = Append(inbox[w], e)]
      /\ UNCHANGED <<clientVars, workerVars, toClient, toMgr>>
  BY DEF FetchInv, FetchType, WorkerType, Dispatch
<1>5. /\ e \in InboxEvents /\ e \in AllJobs /\ e \notin Cancels
      /\ \A r : (e \in JobOf(r) <=> r = x) /\ e \notin CancelOf(r)
  BY <1>3 DEF InboxEvents, Cancels, AllJobs, CancelOf, JobOf
<1> HIDE DEF e
<1>6. /\ inbox' \in [Workers -> Seq(InboxEvents)]
      /\ \A v \in Workers : v # w => inbox'[v] = inbox[v]
      /\ Grows(inbox[w], e, inbox'[w])
  <2>1. inbox'[w] = Append(inbox[w], e) /\ inbox[w] \in Seq(InboxEvents)
    BY <1>1, <1>4
  <2> QED BY <2>1, <1>1, <1>4, <1>5, AppendEvent
<1>7. FetchType'
  <2>1. \A l \in Kinds : queue'[l] \in Seq(JobsOf(l))
    BY <1>2 DEF FetchInv, FetchType, MgrType
  <2>2. MgrType'
    BY <1>1, <1>2, <1>4, <2>1 DEF FetchInv, FetchType, MgrType
  <2> QED BY <2>2, <1>4, <1>6 DEF FetchInv, FetchType, ClientType, WorkerType, clientVars, workerVars
<1>8. ClientInOrder' /\ UnqueueInOrder'
  BY <1>4 DEF FetchInv, ClientInOrder, UnqueueInOrder, clientVars
<1>9. CancelInOrder'
  <2>1. \A v \in Workers : (Meets(inbox'[v], Cancels) <=> Meets(inbox[v], Cancels))
                           /\ (Single(inbox[v], Cancels) => Single(inbox'[v], Cancels))
    BY <1>5, <1>6 DEF Grows
  <2>2. \A v \in Workers, r \in Requests : Meets(inbox'[v], CancelOf(r)) <=> Meets(inbox[v], CancelOf(r))
    BY <1>5, <1>6 DEF Grows
  <2> QED BY <2>1, <2>2, <1>4 DEF FetchInv, CancelInOrder, clientVars
<1>10. \A r \in Requests : Known(r)' <=> Known(r)
  BY <1>4 DEF Known, clientVars
<1>11. /\ \A v \in Workers, r \in Jobs : With(v, r)' <=> With(v, r) \/ (v = w /\ r = x)
       /\ \A v \in Workers, r \in Jobs : Runs(v, r)' <=> Runs(v, r)
       /\ \A r \in Jobs : ~With(w, r)
  <2>1. \A r \in Jobs : ~With(w, r)
    <3>1. \A r : JobOf(r) \subseteq AllJobs
      BY DEF JobOf, AllJobs
    <3> QED BY <3>1, <1>1, PartMeets DEF With, Given, Runs, HasJob, Active
  <2> QED BY <2>1, <1>4, <1>5, <1>6 DEF With, Given, Runs, workerVars, Grows
<1>12. ASSUME NEW r \in Requests
       PROVE  /\ (OnePlace(r) /\ OnceThere(r) /\ TidInOrder(r))'
              /\ r # x => At(r)' = At(r)
              /\ r = x => At(r) = "waiting" /\ At(r)' = "running"
  <2>1. /\ InMsg(r)' <=> InMsg(r)
        /\ InSent(r)' <=> InSent(r)
        /\ InAnswer(r)' <=> InAnswer(r)
    BY <1>4 DEF clientVars, InMsg, InSent, InAnswer
  <2>2. OnePlace(r) /\ OnceThere(r) /\ TidInOrder(r) /\ r \in Jobs
    BY Constants DEF FetchInv
  <2>3. TidInOrder(r)'
    BY <2>1, <2>2, <1>4, <1>11 DEF TidInOrder, clientVars
  <2>4. Single(queue'[Kind(r)], {r})
    BY <2>2, <1>2, KindOf DEF OnceThere, Shrinks
  <2>5. CASE r = x
    <3>1. InQueue(r) /\ ~InQueue(r)' /\ InWork(r)'
      BY <2>2, <2>5, <1>1, <1>2, <1>3, <1>11 DEF InQueue, InWork, OnceThere, Shrinks
    <3>2. ~InWork(r)
      BY <3>1, <2>2 DEF OnePlace
    <3>3. OnePlace(r)'
      BY <3>1, <2>1, <2>2, <1>10 DEF OnePlace
    <3>4. OnceThere(r)'
      BY <3>2, <2>2, <2>4, <1>4, <1>11 DEF OnceThere, InWork
    <3>5. At(r) = "waiting" /\ At(r)' = "running"
      <4>1. /\ Known(r) /\ ~InSent(r) /\ ~InAnswer(r) /\ ~InMsg(r)
            /\ r \in issued /\ issued' = issued
        BY <3>1, <2>2, <1>4 DEF OnePlace, Known, clientVars
      <4> QED BY <4>1, <3>1, <2>1, <1>10 DEF At
    <3> QED BY <2>3, <2>5, <3>3, <3>4, <3>5
  <2>6. CASE r # x
    <3>1. InQueue(r)' <=> InQueue(r)
      BY <2>6, <2>2, <1>2, KindOf DEF InQueue, Shrinks
    <3>2. InWork(r)' <=> InWork(r)
      BY <2>6, <2>2, <1>11 DEF InWork
    <3>3. OnePlace(r)'
      BY <3>1, <3>2, <2>1, <1>10, SamePlaces
    <3>4. OnceThere(r)'
      BY <2>6, <2>2, <2>4, <1>4, <1>11 DEF OnceThere
    <3>5. At(r)' = At(r)
      BY <3>1, <2>1, <1>4, <1>10 DEF At, clientVars
    <3> QED BY <2>3, <2>6, <3>3, <3>4, <3>5
  <2> QED BY <2>5, <2>6
<1>13. ASSUME NEW v \in Workers PROVE OneState(v)'
  <2>1. OneState(v) /\ (Done(v)' <=> Done(v)) /\ (Active(v)' <=> Active(v))
    BY <1>4 DEF FetchInv, Done, Active, workerVars
  <2>2. CASE v = w
    <3>1. ~(v > threads')
      BY <2>2, <1>1
    <3>2. Single(inbox'[v], AllJobs)
      BY <2>2, <1>1, <1>5, <1>6, <2>1 DEF OneState, HasJob, Grows
    <3>3. Single(available', {v}) /\ Single(toMgr', DoneOf(v))
      BY <1>1, <1>4, <2>1 DEF OneState
    <3> QED BY <3>1, <3>2, <3>3, <2>1, <2>2, <1>1 DEF OneState
  <2>3. CASE v # w
    <3>1. (Free(v)' <=> Free(v)) /\ (v > threads' => v > threads) /\ (HasJob(v)' <=> HasJob(v))
      BY <2>3, <1>1, <1>6 DEF HasJob
    <3>2. Single(available', {v}) /\ Single(toMgr', DoneOf(v)) /\ Single(inbox'[v], AllJobs)
      BY <2>3, <1>1, <1>4, <1>6, <2>1 DEF OneState
    <3> QED BY <3>1, <3>2, <2>1 DEF OneState
  <2> QED BY <2>2, <2>3
<1>14. FetchesKnown'
  <2>1. \A v \in Workers : DoneFetch(v)' <=> DoneFetch(v)
    BY <1>4 DEF DoneFetch
  <2>2. \A f \in Fetches : f \in Jobs
    BY Constants
  <2>3. CASE k = "fetch"
    <3>1. x \in Fetches
      BY <2>3, <1>2 DEF JobsOf
    <3>2. Fetching' = Fetching \cup {w}
      BY <2>1, <2>2, <3>1, <1>1, <1>11 DEF Fetching, FetchAt
    <3>3. ~DoneFetch(w)
      <4>1. DoneFetchOf(w) \subseteq DoneOf(w)
        BY DEF DoneFetchOf, DoneOf
      <4> QED BY <4>1, <1>1, PartMeets DEF DoneFetch, Done
    <3>4. w \notin Fetching
      BY <3>3, <2>2, <1>11 DEF Fetching, FetchAt
    <3> QED BY <2>3, <3>2, <3>4, FetchingFinite, FS_AddElement DEF FetchInv, FetchesKnown
  <2>4. CASE k # "fetch"
    <3>1. x \notin Fetches
      BY <2>4, <1>3, KindOf, Constants
    <3>2. Fetching' = Fetching
      BY <2>1, <2>2, <3>1, <1>11 DEF Fetching, FetchAt
    <3> QED BY <2>4, <3>2 DEF FetchInv, FetchesKnown
  <2> QED BY <2>3, <2>4
<1>15. FilesKnown'
  BY <1>4, <1>10, Constants DEF FetchInv, FilesKnown, clientVars
<1>16. FetchInv'
  BY <1>7, <1>8, <1>9, <1>12, <1>13, <1>14, <1>15 DEF FetchInv
<1>17. CASE x \in Requests
  <2>1. Goes(x, "waiting", "running")
    BY <1>12, <1>17 DEF Goes
  <2>2. \A r \in Requests : ~With(w, r)
    BY <1>11, Constants
  <2> QED BY <2>1, <2>2, <1>1, <1>2, <1>16
<1>18. CASE x \notin Requests
  <2>1. Stay
    BY <1>12, <1>18 DEF Stay
  <2>2. k = "ping"
    BY <1>2, <1>18, Constants DEF JobsOf, Kinds
  <2> QED BY <2>1, <2>2, <1>16
<1> QED BY <1>17, <1>18
\* The passes over the queues.
LEMMA PassOk ==
    ASSUME FetchInv, DispatchFetch \/ DispatchCheck \/ DispatchPing
    PROVE  FetchInv'
<1>1. CASE DispatchFetch
  BY <1>1, DispatchOk, "fetch" \in Kinds DEF DispatchFetch, Kinds
<1>2. CASE DispatchCheck
  BY <1>2, DispatchOk, "exists" \in Kinds DEF DispatchCheck, Kinds
<1>3. CASE DispatchPing
  BY <1>3, DispatchOk, "ping" \in Kinds DEF DispatchPing, Kinds
<1> QED BY <1>1, <1>2, <1>3

\* What an event of the management thread is about.
LEMMA MgrEventKinds ==
    ASSUME NEW m \in MgrEvents
    PROVE  /\ m.type = "queue" =>
                 /\ m.id \in Jobs /\ m \notin Unqueues
                 /\ \A r : (m \in QueueOf(r) <=> r = m.id) /\ m \notin UnqueueOf(r)
           /\ m.type = "unqueue" =>
                 /\ m.id \in Requests /\ m \in Unqueues
                 /\ \A r : (m \in UnqueueOf(r) <=> r = m.id) /\ m \notin QueueOf(r)
           /\ m.type = "done" =>
                 /\ m.id \in Workers /\ m.fetch \in BOOLEAN
                 /\ \A w : m \in DoneOf(w) <=> w = m.id
                 /\ \A w : m \in DoneFetchOf(w) <=> w = m.id /\ m.fetch
           /\ m.type # "done" => \A w : m \notin DoneOf(w) /\ m \notin DoneFetchOf(w)
           /\ m.type \in {"done", "wake"} =>
                 m \notin Unqueues /\ \A r : m \notin QueueOf(r) /\ m \notin UnqueueOf(r)
BY DEF MgrEvents, QueueOf, UnqueueOf, Unqueues, DoneOf, DoneFetchOf

\* What handling an event leaves of the queue of events.
LEMMA MgrTail ==
    ASSUME FetchInv, MgrEvent, NEW m, m = Head(toMgr)
    PROVE  /\ m \in MgrEvents /\ toMgr' \in Seq(MgrEvents) /\ Shrinks(toMgr, m, toMgr')
           /\ \A E, F : Ahead(toMgr, E, F) => Ahead(toMgr', E, F)
           /\ \A E, F : Ahead(toMgr, E, F) => ~(m \in F /\ Meets(toMgr, E))
BY TailEvent DEF MgrEvent, FetchInv, FetchType, MgrType

\* A job comes in.
LEMMA MgrQueueOk ==
    ASSUME FetchInv, MgrEvent, NEW m, m = Head(toMgr), m.type = "queue"
    PROVE  FetchInv' /\ Stay
<1> DEFINE x == m.id
           k == Kind(x)
<1>1. /\ m \in MgrEvents /\ toMgr' \in Seq(MgrEvents) /\ Shrinks(toMgr, m, toMgr')
      /\ \A E, F : Ahead(toMgr, E, F) => Ahead(toMgr', E, F)
  BY MgrTail
<1>2. /\ x \in Jobs /\ m \notin Unqueues
      /\ \A r : (m \in QueueOf(r) <=> r = x) /\ m \notin UnqueueOf(r)
      /\ \A w : m \notin DoneOf(w) /\ m \notin DoneFetchOf(w)
  BY <1>1, MgrEventKinds
<1>3. /\ queue' = [queue EXCEPT ![k] = Append(queue[k], x)] /\ mgr' = "pass"
      /\ UNCHANGED <<clientVars, available, threads, fetching, workerVars, toClient, inbox>>
  BY DEF MgrEvent, clientVars
<1> HIDE DEF x
<1>4. k \in Kinds /\ x \in JobsOf(k)
  BY <1>2, KindOf
<1> HIDE DEF k
<1>5. /\ DOMAIN queue' = Kinds /\ queue' = [l \in Kinds |-> queue'[l]]
      /\ \A l \in Kinds : l # k => queue'[l] = queue[l]
      /\ queue'[k] \in Seq(JobsOf(k)) /\ Grows(queue[k], x, queue'[k])
  <2>1. DOMAIN queue = Kinds /\ queue[k] \in Seq(JobsOf(k))
    BY <1>4 DEF FetchInv, FetchType, MgrType
  <2>2. queue'[k] = Append(queue[k], x)
    BY <1>3, <1>4, <2>1
  <2> QED BY <1>3, <1>4, <2>1, <2>2, AppendEvent
<1>6. FetchType'
  <2>1. \A l \in Kinds : queue'[l] \in Seq(JobsOf(l))
    BY <1>5 DEF FetchInv, FetchType, MgrType
  <2>2. MgrType'
    BY <1>1, <1>3, <1>5, <2>1 DEF FetchInv, FetchType, MgrType
  <2> QED BY <2>2, <1>3 DEF FetchInv, FetchType, ClientType, WorkerType, clientVars, workerVars
<1>7. ClientInOrder' /\ CancelInOrder'
  BY <1>3 DEF FetchInv, ClientInOrder, CancelInOrder, clientVars
<1>8. UnqueueInOrder'
  BY <1>1, <1>2, <1>3 DEF FetchInv, UnqueueInOrder, clientVars, Shrinks
<1>9. \A r \in Requests : Known(r)' <=> Known(r)
  BY <1>3 DEF Known, clientVars
<1>10. \A r, w : (With(w, r)' <=> With(w, r)) /\ (Runs(w, r)' <=> Runs(w, r))
  BY <1>3 DEF With, Given, Runs, workerVars
<1>11. ASSUME NEW r \in Requests
       PROVE  (OnePlace(r) /\ OnceThere(r) /\ TidInOrder(r))' /\ At(r)' = At(r)
  <2>1. /\ InWork(r)' <=> InWork(r)
        /\ InSent(r)' <=> InSent(r)
        /\ InAnswer(r)' <=> InAnswer(r)
    BY <1>3, <1>10 DEF clientVars, InWork, InSent, InAnswer
  <2>2. OnePlace(r) /\ OnceThere(r) /\ TidInOrder(r) /\ r \in Jobs /\ Kind(r) \in Kinds
    BY Constants, KindOf DEF FetchInv
  <2>3. TidInOrder(r)'
    BY <2>1, <2>2, <1>3, <1>10 DEF TidInOrder, clientVars
  <2>4. CASE r = x
    <3>1. InMsg(r) /\ ~InMsg(r)' /\ InQueue(r)'
      BY <2>2, <2>4, <1>1, <1>2, <1>5 DEF InMsg, InQueue, OnceThere, Shrinks, Grows, k
    <3>2. OnePlace(r)'
      BY <3>1, <2>1, <2>2, <1>9 DEF OnePlace
    <3>3. ~InQueue(r)
      BY <3>1, <2>2 DEF OnePlace
    <3>4. Single(queue'[Kind(r)], {r})
      BY <3>3, <2>2, <2>4, <1>5 DEF OnceThere, InQueue, Grows, k
    <3>5. OnceThere(r)'
      BY <3>4, <2>2, <1>1, <1>3, <1>10 DEF OnceThere, Shrinks
    <3>6. At(r)' = At(r)
      BY <3>1, <2>1, <1>3, <1>9 DEF At, clientVars
    <3> QED BY <2>3, <3>2, <3>5, <3>6
  <2>5. CASE r # x
    <3>1. (InMsg(r)' <=> InMsg(r)) /\ (InQueue(r)' <=> InQueue(r))
      BY <2>2, <2>5, <1>1, <1>2, <1>5 DEF InMsg, InQueue, Shrinks, Grows
    <3>2. OnePlace(r)'
      BY <3>1, <2>1, <1>9, SamePlaces
    <3>3. Single(queue'[Kind(r)], {r})
      BY <2>2, <2>5, <1>5 DEF OnceThere, Grows
    <3>4. OnceThere(r)'
      BY <3>3, <2>2, <1>1, <1>3, <1>10 DEF OnceThere, Shrinks
    <3>5. At(r)' = At(r)
      BY <3>1, <2>1, <1>3, <1>9 DEF At, clientVars
    <3> QED BY <2>3, <3>2, <3>4, <3>5
  <2> QED BY <2>4, <2>5
<1>12. \A w \in Workers : OneState(w)'
  BY <1>1, <1>2, <1>3 DEF FetchInv, OneState, Free, Done, HasJob, Active, workerVars, Shrinks
<1>13. FetchesKnown'
  BY <1>1, <1>2, <1>3, <1>10 DEF FetchInv, FetchesKnown, Fetching, FetchAt, DoneFetch, Shrinks
<1>14. FilesKnown'
  BY <1>3, <1>9, Constants DEF FetchInv, FilesKnown, clientVars
<1> QED BY <1>6, <1>7, <1>8, <1>11, <1>12, <1>13, <1>14 DEF FetchInv, Stay

\* A request is withdrawn: it leaves its queue, or a worker has it.
LEMMA MgrUnqueueOk ==
    ASSUME FetchInv, MgrEvent, NEW m, m = Head(toMgr), m.type = "unqueue"
    PROVE  FetchInv' /\ (Stay \/ Goes(m.id, "waiting", "gone"))
<1> PICK x : x = m.id
  OBVIOUS
<1> DEFINE k == Kind(x)
<1>1. /\ m \in MgrEvents /\ toMgr' \in Seq(MgrEvents) /\ Shrinks(toMgr, m, toMgr')
      /\ \A E, F : Ahead(toMgr, E, F) => Ahead(toMgr', E, F)
      /\ \A E, F : Ahead(toMgr, E, F) => ~(m \in F /\ Meets(toMgr, E))
  BY MgrTail
<1>2. /\ x \in Requests /\ m \in Unqueues
      /\ \A r : (m \in UnqueueOf(r) <=> r = x) /\ m \notin QueueOf(r)
      /\ \A w : m \notin DoneOf(w) /\ m \notin DoneFetchOf(w)
  BY <1>1, MgrEventKinds
<1>3. /\ \/ \E i \in DOMAIN queue[k] :
               /\ queue[k][i] = x
               /\ queue' = [queue EXCEPT ![k] = RemoveAt(queue[k], i)]
               /\ client' = Idle
         \/ client' = Op("tid", x) /\ queue' = queue
      /\ UNCHANGED <<issued, active, files, answer, tid, pinging, pinged, mgr,
                     available, threads, fetching, workerVars, toClient, inbox>>
  BY DEF MgrEvent
<1>4. k \in Kinds /\ x \in JobsOf(k)
  BY <1>2, KindOf, Constants
<1> HIDE DEF k
<1>5. client = Op("unqueue", x) /\ x \in issued /\ x \notin active
  <2>1. client = Op("unqueue", x)
    BY <1>1, <1>2 DEF FetchInv, UnqueueInOrder, Shrinks
  <2> QED BY <2>1 DEF FetchInv, ClientInOrder, Op
<1>6. /\ DOMAIN queue' = Kinds /\ queue' = [l \in Kinds |-> queue'[l]]
      /\ \A l \in Kinds : l # k => queue'[l] = queue[l]
      /\ queue'[k] \in Seq(JobsOf(k))
      /\ \/ Shrinks(queue[k], x, queue'[k]) /\ client' = Idle
         \/ queue'[k] = queue[k] /\ client' = Op("tid", x)
  <2>1. DOMAIN queue = Kinds /\ queue[k] \in Seq(JobsOf(k)) /\ queue = [l \in Kinds |-> queue[l]]
    BY <1>4 DEF FetchInv, FetchType, MgrType
  <2>2. CASE \E i \in DOMAIN queue[k] :
               /\ queue[k][i] = x
               /\ queue' = [queue EXCEPT ![k] = RemoveAt(queue[k], i)]
               /\ client' = Idle
    <3>1. PICK i \in DOMAIN queue[k] :
               /\ queue[k][i] = x
               /\ queue' = [queue EXCEPT ![k] = RemoveAt(queue[k], i)]
               /\ client' = Idle
      BY <2>2
    <3>2. i \in 1..Len(queue[k])
      BY <2>1, LenProperties
    <3>3. RemoveAt(queue[k], i) \in Seq(JobsOf(k)) /\ Shrinks(queue[k], x, RemoveAt(queue[k], i))
      BY <3>1, <3>2, <2>1, RemoveRequest
    <3> QED BY <3>1, <3>3, <2>1, <1>4
  <2>3. CASE client' = Op("tid", x) /\ queue' = queue
    BY <2>1, <2>3
  <2> QED BY <2>2, <2>3, <1>3
<1>7. FetchType'
  <2>1. \A l \in Kinds : queue'[l] \in Seq(JobsOf(l))
    BY <1>6 DEF FetchInv, FetchType, MgrType
  <2>2. MgrType'
    BY <1>1, <1>3, <1>6, <2>1 DEF FetchInv, FetchType, MgrType
  <2>3. ClientType'
    BY <1>2, <1>3, <1>6, Constants DEF FetchInv, FetchType, ClientType, Idle, Op
  <2> QED BY <2>2, <2>3, <1>3 DEF FetchInv, FetchType, WorkerType, workerVars
<1>8. ClientInOrder'
  BY <1>3, <1>5, <1>6 DEF ClientInOrder, Idle, Op
<1>9. CancelInOrder'
  <2>1. \A w \in Workers : ~Meets(inbox[w], Cancels)
    BY <1>5, CancelIsClient DEF Op
  <2>2. \A w \in Workers, r \in Requests : ~Meets(inbox[w], CancelOf(r))
    BY <1>5 DEF FetchInv, CancelInOrder, Op
  <2> QED BY <2>1, <2>2, <1>3 DEF FetchInv, CancelInOrder
<1>10. UnqueueInOrder'
  <2>1. ~Meets(toMgr', Unqueues)
    BY <1>1, <1>2 DEF FetchInv, UnqueueInOrder, Shrinks
  <2>2. \A r : ~Meets(toMgr', UnqueueOf(r))
    <3>1. \A r : UnqueueOf(r) \subseteq Unqueues
      BY DEF UnqueueOf, Unqueues
    <3> QED BY <2>1, <3>1, PartMeets
  <2>3. Single(toMgr', Unqueues) /\ \A r \in Requests : Ahead(toMgr', QueueOf(r), UnqueueOf(r))
    BY <1>1 DEF FetchInv, UnqueueInOrder, Shrinks
  <2> QED BY <2>2, <2>3 DEF UnqueueInOrder
<1>11. \A r, w : (With(w, r)' <=> With(w, r)) /\ (Runs(w, r)' <=> Runs(w, r))
  BY <1>3 DEF With, Given, Runs, workerVars
<1>12. \A r \in Requests : Known(r)' <=> IF r = x THEN client' # Idle ELSE Known(r)
  BY <1>2, <1>3, <1>5, <1>6, Constants DEF Known, Op, Idle
<1>13. ASSUME NEW r \in Requests
       PROVE  /\ (OnePlace(r) /\ OnceThere(r) /\ TidInOrder(r))'
              /\ At(r)' = At(r) \/ (r = x /\ At(r) = "waiting" /\ At(r)' = "gone")
  <2>1. /\ InMsg(r)' <=> InMsg(r)
        /\ InWork(r)' <=> InWork(r)
        /\ InSent(r)' <=> InSent(r)
        /\ InAnswer(r)' <=> InAnswer(r)
    BY <1>1, <1>2, <1>3, <1>11 DEF InMsg, InWork, InSent, InAnswer, Shrinks
  <2>2. OnePlace(r) /\ OnceThere(r) /\ TidInOrder(r) /\ Kind(r) \in Kinds
    BY Constants, KindOf DEF FetchInv
  <2>3. TidInOrder(r)'
    BY <2>1, <2>2, <1>3, <1>11 DEF TidInOrder
  <2>4. Single(queue'[Kind(r)], {r})
    BY <2>2, <1>6 DEF OnceThere, Shrinks
  <2>5. OnceThere(r)'
    BY <2>2, <2>4, <1>1, <1>3, <1>11 DEF OnceThere, Shrinks
  <2>6. CASE r = x /\ Shrinks(queue[k], x, queue'[k]) /\ client' = Idle
    <3>1. InQueue(r) /\ ~InQueue(r)' /\ ~Known(r)'
      BY <2>2, <2>6, <1>12 DEF InQueue, OnceThere, Shrinks, k
    <3>2. Known(r) /\ ~InSent(r) /\ ~InAnswer(r) /\ r \in issued /\ issued' = issued
      BY <3>1, <2>2, <1>3 DEF OnePlace, Known
    <3>3. At(r) = "waiting" /\ At(r)' = "gone"
      BY <3>1, <3>2 DEF At
    <3>4. OnePlace(r)'
      BY <3>1, <2>1, <2>2 DEF OnePlace
    <3> QED BY <3>3, <3>4, <2>3, <2>5, <2>6
  <2>7. CASE r # x \/ (queue'[k] = queue[k] /\ client' = Op("tid", x))
    <3>1. Known(r)' <=> Known(r)
      BY <2>7, <1>5, <1>12 DEF Op, Idle, Known
    <3>2. InQueue(r)' <=> InQueue(r)
      BY <2>2, <2>7, <1>6 DEF InQueue, Shrinks, k
    <3>3. At(r)' = At(r)
      BY <3>1, <3>2, <2>1, <1>3 DEF At
    <3>4. OnePlace(r)'
      BY <3>1, <3>2, <2>1, SamePlaces
    <3> QED BY <3>3, <3>4, <2>3, <2>5
  <2> QED BY <2>6, <2>7, <1>6
<1>14. \A w \in Workers : OneState(w)'
  BY <1>1, <1>2, <1>3 DEF FetchInv, OneState, Free, Done, HasJob, Active, workerVars, Shrinks
<1>15. FetchesKnown'
  BY <1>1, <1>2, <1>3, <1>11 DEF FetchInv, FetchesKnown, Fetching, FetchAt, DoneFetch, Shrinks
<1>16. FilesKnown'
  <2>1. \A f \in Fetches : Known(f)' => Known(f)
    BY <1>5, <1>12, Constants DEF Known, Op
  <2> QED BY <2>1, <1>3 DEF FetchInv, FilesKnown
<1>17. FetchInv'
  BY <1>7, <1>8, <1>9, <1>10, <1>13, <1>14, <1>15, <1>16 DEF FetchInv
<1>18. CASE At(x)' = At(x)
  BY <1>13, <1>17, <1>18 DEF Stay
<1>19. CASE At(x) = "waiting" /\ At(x)' = "gone"
  <2>1. Goes(x, "waiting", "gone")
    BY <1>2, <1>13, <1>19 DEF Goes
  <2> QED BY <2>1, <1>17
<1> QED BY <1>2, <1>13, <1>18, <1>19
\* A worker is done: its thread is available again.
LEMMA MgrDoneOk ==
    ASSUME FetchInv, MgrEvent, NEW m, m = Head(toMgr), m.type = "done"
    PROVE  FetchInv' /\ Stay
<1> PICK w : w = m.id
  OBVIOUS
<1>1. /\ m \in MgrEvents /\ toMgr' \in Seq(MgrEvents) /\ Shrinks(toMgr, m, toMgr')
      /\ \A E, F : Ahead(toMgr, E, F) => Ahead(toMgr', E, F)
  BY MgrTail
<1>2. /\ w \in Workers /\ m.fetch \in BOOLEAN
      /\ \A v : m \in DoneOf(v) <=> v = w
      /\ \A v : m \in DoneFetchOf(v) <=> v = w /\ m.fetch
      /\ m \notin Unqueues /\ \A r : m \notin QueueOf(r) /\ m \notin UnqueueOf(r)
  BY <1>1, MgrEventKinds
<1>3. /\ available' = Append(available, w)
      /\ fetching' = IF m.fetch THEN fetching - 1 ELSE fetching
      /\ UNCHANGED <<clientVars, mgr, queue, threads, workerVars, toClient, inbox>>
  BY DEF MgrEvent, clientVars
<1>4. available' \in Seq(Workers) /\ Grows(available, w, available')
  BY <1>2, <1>3, AppendEvent DEF FetchInv, FetchType, MgrType
<1>5. /\ OneState(w) /\ Done(w) /\ ~Done(w)'
      /\ \A v \in Workers : v # w => (Done(v)' <=> Done(v))
  BY <1>1, <1>2 DEF FetchInv, OneState, Done, Shrinks
<1>6. \A r, v : (With(v, r)' <=> With(v, r)) /\ (Runs(v, r)' <=> Runs(v, r))
  BY <1>3 DEF With, Given, Runs, workerVars
<1>7. FetchesKnown' /\ fetching' \in Nat
  <2>1. \A r : JobOf(r) \subseteq AllJobs
    BY DEF JobOf, AllJobs
  <2>2. \A f \in Fetches : ~With(w, f)
    BY <2>1, <1>5, PartMeets DEF OneState, With, Given, Runs, HasJob, Active
  <2>3. \A v : DoneFetchOf(v) \subseteq DoneOf(v)
    BY DEF DoneFetchOf, DoneOf
  <2>4. ~DoneFetch(w)' /\ (m.fetch => DoneFetch(w))
    BY <1>1, <1>2, <1>5, <2>3, PartMeets DEF Done, DoneFetch, Shrinks
  <2>5. DoneFetch(w) => m.fetch
    <3>1. Single(toMgr, DoneOf(w)) /\ m \in DoneOf(w)
      BY <1>2, <1>5 DEF OneState
    <3>2. ~Meets(toMgr', DoneOf(w))
      BY <3>1, <1>1 DEF Shrinks
    <3>3. ~Meets(toMgr', DoneFetchOf(w))
      BY <3>2, <2>3, PartMeets
    <3> QED BY <3>3, <1>1, <1>2 DEF DoneFetch, Shrinks
  <2>6. \A v \in Workers : v # w => (DoneFetch(v)' <=> DoneFetch(v))
    BY <1>1, <1>2 DEF DoneFetch, Shrinks
  <2>7. (w \in Fetching) <=> m.fetch
    BY <2>2, <2>4, <2>5, <1>2 DEF Fetching, FetchAt
  <2>8. Fetching' = Fetching \ {w}
    BY <2>2, <2>4, <2>6, <1>2, <1>6 DEF Fetching, FetchAt
  <2>9. Cardinality(Fetching) \in Nat /\ Cardinality(Fetching') \in Nat
        /\ Cardinality(Fetching') = IF m.fetch THEN Cardinality(Fetching) - 1 ELSE Cardinality(Fetching)
    BY <2>7, <2>8, FetchingFinite, FS_RemoveElement, FS_CardinalityType
  <2> QED BY <2>9, <1>3 DEF FetchInv, FetchesKnown
<1>8. FetchType'
  <2>1. MgrType'
    BY <1>1, <1>3, <1>4, <1>7 DEF FetchInv, FetchType, MgrType
  <2> QED BY <2>1, <1>3 DEF FetchInv, FetchType, ClientType, WorkerType, clientVars, workerVars
<1>9. ClientInOrder' /\ CancelInOrder'
  BY <1>3 DEF FetchInv, ClientInOrder, CancelInOrder, clientVars
<1>10. UnqueueInOrder'
  BY <1>1, <1>2, <1>3 DEF FetchInv, UnqueueInOrder, clientVars, Shrinks
<1>11. \A r \in Requests : Known(r)' <=> Known(r)
  BY <1>3 DEF Known, clientVars
<1>12. Stay /\ \A r \in Requests : (OnePlace(r) /\ OnceThere(r) /\ TidInOrder(r))'
  <2>1. \A r \in Requests :
           /\ InMsg(r)' <=> InMsg(r)
           /\ InQueue(r)' <=> InQueue(r)
           /\ InWork(r)' <=> InWork(r)
           /\ InSent(r)' <=> InSent(r)
           /\ InAnswer(r)' <=> InAnswer(r)
    BY <1>1, <1>2, <1>3, <1>6 DEF InMsg, InQueue, InWork, InSent, InAnswer, clientVars, Shrinks
  <2>2. \A r \in Requests : (OnePlace(r) /\ OnceThere(r) /\ TidInOrder(r))'
    BY <2>1, <1>1, <1>3, <1>6, <1>11
    DEF FetchInv, OnePlace, OnceThere, TidInOrder, clientVars, Shrinks
  <2>3. Stay
    BY <2>1, <1>11, <1>3 DEF Stay, At, clientVars
  <2> QED BY <2>2, <2>3
<1>13. ASSUME NEW v \in Workers PROVE OneState(v)'
  <2>1. OneState(v) /\ (HasJob(v)' <=> HasJob(v)) /\ (Active(v)' <=> Active(v))
        /\ Single(inbox'[v], AllJobs)
    BY <1>3 DEF FetchInv, OneState, HasJob, Active, workerVars
  <2>2. Single(toMgr', DoneOf(v))
    BY <2>1, <1>1 DEF OneState, Shrinks
  <2>3. CASE v = w
    <3>1. ~Free(v) /\ ~(v > threads) /\ ~HasJob(v) /\ ~Active(v) /\ ~Done(v)'
      BY <2>3, <1>5 DEF OneState
    <3>2. Single(available', {v})
      BY <3>1, <2>1, <1>4 DEF OneState, Free, Grows
    <3> QED BY <3>1, <3>2, <2>1, <2>2, <1>3 DEF OneState
  <2>4. CASE v # w
    <3>1. (Free(v)' <=> Free(v)) /\ Single(available', {v})
      BY <2>1, <2>4, <1>4 DEF OneState, Free, Grows
    <3> QED BY <3>1, <2>1, <2>2, <2>4, <1>3, <1>5 DEF OneState
  <2> QED BY <2>3, <2>4
<1>14. FilesKnown'
  BY <1>3, <1>11, Constants DEF FetchInv, FilesKnown, clientVars
<1> QED BY <1>7, <1>8, <1>9, <1>10, <1>12, <1>13, <1>14 DEF FetchInv

\* The management thread wakes up.
LEMMA MgrWakeOk ==
    ASSUME FetchInv, MgrEvent, NEW m, m = Head(toMgr), m.type = "wake"
    PROVE  FetchInv' /\ Stay
<1>1. /\ m \in MgrEvents /\ toMgr' \in Seq(MgrEvents) /\ Shrinks(toMgr, m, toMgr')
      /\ \A E, F : Ahead(toMgr, E, F) => Ahead(toMgr', E, F)
  BY MgrTail
<1>2. /\ m \notin Unqueues /\ \A r : m \notin QueueOf(r) /\ m \notin UnqueueOf(r)
      /\ \A w : m \notin DoneOf(w) /\ m \notin DoneFetchOf(w)
  BY <1>1, MgrEventKinds
<1>3. /\ mgr' = "pass"
      /\ UNCHANGED <<clientVars, queue, available, fetching, threads, workerVars, toClient, inbox>>
  BY DEF MgrEvent, clientVars
<1>4. FetchType'
  BY <1>1, <1>3 DEF FetchInv, FetchType, ClientType, MgrType, WorkerType, clientVars, workerVars
<1>5. ClientInOrder' /\ CancelInOrder'
  BY <1>3 DEF FetchInv, ClientInOrder, CancelInOrder, clientVars
<1>6. UnqueueInOrder'
  BY <1>1, <1>2, <1>3 DEF FetchInv, UnqueueInOrder, clientVars, Shrinks
<1>7. \A r, w : (With(w, r)' <=> With(w, r)) /\ (Runs(w, r)' <=> Runs(w, r))
  BY <1>3 DEF With, Given, Runs, workerVars
<1>8. \A r \in Requests : Known(r)' <=> Known(r)
  BY <1>3 DEF Known, clientVars
<1>9. Stay /\ \A r \in Requests : (OnePlace(r) /\ OnceThere(r) /\ TidInOrder(r))'
  <2>1. \A r \in Requests :
           /\ InMsg(r)' <=> InMsg(r)
           /\ InQueue(r)' <=> InQueue(r)
           /\ InWork(r)' <=> InWork(r)
           /\ InSent(r)' <=> InSent(r)
           /\ InAnswer(r)' <=> InAnswer(r)
    BY <1>1, <1>2, <1>3, <1>7 DEF InMsg, InQueue, InWork, InSent, InAnswer, clientVars, Shrinks
  <2>2. \A r \in Requests : (OnePlace(r) /\ OnceThere(r) /\ TidInOrder(r))'
    BY <2>1, <1>1, <1>3, <1>7, <1>8
    DEF FetchInv, OnePlace, OnceThere, TidInOrder, clientVars, Shrinks
  <2>3. Stay
    BY <2>1, <1>8, <1>3 DEF Stay, At, clientVars
  <2> QED BY <2>2, <2>3
<1>10. \A w \in Workers : OneState(w)'
  BY <1>1, <1>2, <1>3 DEF FetchInv, OneState, Free, Done, HasJob, Active, workerVars, Shrinks
<1>11. FetchesKnown'
  BY <1>1, <1>2, <1>3, <1>7 DEF FetchInv, FetchesKnown, Fetching, FetchAt, DoneFetch, Shrinks
<1>12. FilesKnown'
  BY <1>3, <1>8, Constants DEF FetchInv, FilesKnown, clientVars
<1> QED BY <1>4, <1>5, <1>6, <1>9, <1>10, <1>11, <1>12 DEF FetchInv

\* An event of the management thread.
LEMMA MgrEventOk ==
    ASSUME FetchInv, MgrEvent
    PROVE  FetchInv' /\ (Stay \/ \E r \in Requests : Goes(r, "waiting", "gone"))
<1> PICK m : m = Head(toMgr)
  OBVIOUS
<1>1. m.type \in {"queue", "unqueue", "done", "wake"}
  BY DEF MgrEvent
<1> QED BY <1>1, MgrQueueOk, MgrUnqueueOk, MgrDoneOk, MgrWakeOk DEF Goes

\* The management thread has nothing left to do.
LEMMA SleepOk ==
    ASSUME FetchInv, Sleep
    PROVE  FetchInv' /\ Stay
<1>1. FetchType'
  BY DEF FetchInv, FetchType, ClientType, MgrType, WorkerType, Sleep, clientVars, workerVars, events
<1>2. ClientInOrder' /\ UnqueueInOrder' /\ CancelInOrder'
  BY DEF FetchInv, ClientInOrder, UnqueueInOrder, CancelInOrder, Sleep, clientVars, events
<1>3. \A r : (Known(r)' <=> Known(r)) /\ \A w : (With(w, r)' <=> With(w, r)) /\ (Runs(w, r)' <=> Runs(w, r))
  BY DEF Sleep, Known, With, Given, Runs, clientVars, workerVars, events
<1>4. Stay /\ \A r \in Requests : (OnePlace(r) /\ OnceThere(r) /\ TidInOrder(r))'
  <2>1. \A r \in Requests :
           /\ InMsg(r)' <=> InMsg(r)
           /\ InQueue(r)' <=> InQueue(r)
           /\ InWork(r)' <=> InWork(r)
           /\ InSent(r)' <=> InSent(r)
           /\ InAnswer(r)' <=> InAnswer(r)
    BY <1>3 DEF InMsg, InQueue, InWork, InSent, InAnswer, Sleep, clientVars, events
  <2>2. \A r \in Requests : (OnePlace(r) /\ OnceThere(r) /\ TidInOrder(r))'
    BY <2>1, <1>3 DEF FetchInv, OnePlace, OnceThere, TidInOrder, Sleep, clientVars, events
  <2>3. Stay
    BY <2>1, <1>3 DEF Stay, At, Sleep, clientVars
  <2> QED BY <2>2, <2>3
<1>5. \A w \in Workers : OneState(w)'
  BY DEF FetchInv, OneState, Free, Done, HasJob, Active, Sleep, workerVars, events
<1>6. FetchesKnown'
  BY <1>3 DEF FetchInv, FetchesKnown, Fetching, FetchAt, DoneFetch, Sleep, events
<1>7. FilesKnown'
  BY <1>3, Constants DEF FetchInv, FilesKnown, Sleep, clientVars
<1> QED BY <1>1, <1>2, <1>4, <1>5, <1>6, <1>7 DEF FetchInv
-----------------------------------------------------------------------------
(* The workers.                                                            *)

\* What a worker handles.
LEMMA InboxTail ==
    ASSUME FetchInv, NEW w \in Workers, inbox[w] # <<>>, NEW e, e = Head(inbox[w]),
           inbox' = [inbox EXCEPT ![w] = Tail(inbox[w])]
    PROVE  /\ e \in InboxEvents /\ inbox' \in [Workers -> Seq(InboxEvents)]
           /\ Shrinks(inbox[w], e, inbox'[w])
           /\ \A v \in Workers : v # w => inbox'[v] = inbox[v]
<1>1. inbox \in [Workers -> Seq(InboxEvents)] /\ inbox[w] \in Seq(InboxEvents)
  BY DEF FetchInv, FetchType, WorkerType
<1>2. inbox'[w] = Tail(inbox[w])
  BY <1>1
<1> QED BY <1>1, <1>2, TailEvent

\* A worker is told that its request is cancelled.
LEMMA WorkerCancelledOk ==
    ASSUME FetchInv, NEW w \in Workers, WorkerCancelled(w)
    PROVE  FetchInv' /\ Stay
<1> PICK e : e = Head(inbox[w])
  OBVIOUS
<1>1. /\ e \in InboxEvents /\ inbox' \in [Workers -> Seq(InboxEvents)]
      /\ Shrinks(inbox[w], e, inbox'[w])
      /\ \A v \in Workers : v # w => inbox'[v] = inbox[v]
  BY InboxTail DEF WorkerCancelled
<1>2. e.type = "cancel" /\ e.id \in Requests /\ e \in CancelOf(e.id) /\ e \in Cancels
      /\ e \notin AllJobs /\ \A r : e \notin JobOf(r)
  BY <1>1 DEF WorkerCancelled, InboxEvents, CancelOf, Cancels, AllJobs, JobOf
<1>3. client = Op("cancel", e.id) /\ client' = Op("answer", e.id)
  <2>1. Meets(inbox[w], CancelOf(e.id))
    BY <1>1, <1>2 DEF Shrinks
  <2>2. client = Op("cancel", e.id)
    BY <2>1, <1>2 DEF FetchInv, CancelInOrder
  <2> QED BY <2>2 DEF WorkerCancelled, Op
<1>4. UNCHANGED <<issued, active, files, answer, tid, pinging, pinged,
                  mgrVars, job, toClient, toMgr>>
  BY DEF WorkerCancelled
<1>5. FetchType'
  <2>1. ClientType'
    BY <1>2, <1>3, <1>4 DEF FetchInv, FetchType, ClientType, Op
  <2>2. cancelled' \in [Workers -> BOOLEAN]
    BY DEF FetchInv, FetchType, WorkerType, WorkerCancelled
  <2> QED BY <2>1, <2>2, <1>1, <1>4 DEF FetchInv, FetchType, MgrType, WorkerType, mgrVars
<1>6. ClientInOrder'
  BY <1>3, <1>4 DEF FetchInv, ClientInOrder, Idle, Op
<1>7. UnqueueInOrder'
  BY <1>3, <1>4 DEF FetchInv, UnqueueInOrder, Op
<1>8. CancelInOrder'
  <2>1. \A v \in Workers : ~Meets(inbox'[v], Cancels)
    BY <1>1, <1>2 DEF FetchInv, CancelInOrder, Shrinks
  <2>2. \A r : CancelOf(r) \subseteq Cancels
    BY DEF CancelOf, Cancels
  <2>3. \A v \in Workers : Single(inbox'[v], Cancels)
    BY <1>1 DEF FetchInv, CancelInOrder, Shrinks
  <2>4. \A v \in Workers : \A r : ~Meets(inbox'[v], CancelOf(r))
    BY <2>1, <2>2, PartMeets
  <2> QED BY <2>1, <2>3, <2>4 DEF CancelInOrder
<1>9. \A r, v : v \in Workers => (With(v, r)' <=> With(v, r)) /\ (Runs(v, r)' <=> Runs(v, r))
  BY <1>1, <1>2, <1>4 DEF With, Given, Runs, Shrinks
<1>10. \A r \in Requests : Known(r)' <=> Known(r)
  BY <1>3, <1>4 DEF Known, Op
<1>11. Stay /\ \A r \in Requests : (OnePlace(r) /\ OnceThere(r) /\ TidInOrder(r))'
  <2>1. \A r \in Requests :
           /\ InMsg(r)' <=> InMsg(r)
           /\ InQueue(r)' <=> InQueue(r)
           /\ InWork(r)' <=> InWork(r)
           /\ InSent(r)' <=> InSent(r)
           /\ InAnswer(r)' <=> InAnswer(r)
    BY <1>4, <1>9 DEF InMsg, InQueue, InWork, InSent, InAnswer, mgrVars
  <2>2. \A r \in Requests : (OnePlace(r) /\ OnceThere(r) /\ TidInOrder(r))'
    BY <2>1, <1>4, <1>9, <1>10 DEF FetchInv, OnePlace, OnceThere, TidInOrder, mgrVars
  <2>3. Stay
    BY <2>1, <1>4, <1>10 DEF Stay, At
  <2> QED BY <2>2, <2>3
<1>12. \A v \in Workers : OneState(v)'
  BY <1>1, <1>2, <1>4 DEF FetchInv, OneState, Free, Done, HasJob, Active, mgrVars, Shrinks
<1>13. FetchesKnown'
  BY <1>4, <1>9 DEF FetchInv, FetchesKnown, Fetching, FetchAt, DoneFetch, mgrVars
<1>14. FilesKnown'
  BY <1>4, <1>10, Constants DEF FetchInv, FilesKnown
<1> QED BY <1>5, <1>6, <1>7, <1>8, <1>11, <1>12, <1>13, <1>14 DEF FetchInv

\* An idle worker takes its job.
LEMMA StartJobOk ==
    ASSUME FetchInv, NEW w \in Workers, StartJob(w)
    PROVE  FetchInv' /\ Stay
<1> PICK e : e = Head(inbox[w])
  OBVIOUS
<1> PICK x : x = e.id
  OBVIOUS
<1>1. /\ e \in InboxEvents /\ inbox' \in [Workers -> Seq(InboxEvents)]
      /\ Shrinks(inbox[w], e, inbox'[w])
      /\ \A v \in Workers : v # w => inbox'[v] = inbox[v]
  BY InboxTail DEF StartJob
<1>2. /\ x \in Jobs /\ \A r : e \in JobOf(r) <=> r = x
      /\ e \in AllJobs /\ e \notin Cancels /\ \A r : e \notin CancelOf(r)
  BY <1>1 DEF StartJob, InboxEvents, CancelOf, Cancels, AllJobs, JobOf
<1>3. /\ job[w].st = "idle" /\ job \in [Workers -> [st : {"idle", "curl", "ping", "return"},
                                                  id : Jobs \cup {None}, tries : Nat, got : BOOLEAN]]
      /\ job' = [job EXCEPT ![w] = [st |-> IF x \in Requests THEN "curl" ELSE "ping",
                                    id |-> x, tries |-> 1, got |-> FALSE]]
      /\ x \notin Requests => x \in Hosts
  BY <1>2 DEF FetchInv, FetchType, WorkerType, StartJob, Jobs
<1>4. /\ cancelled' \in [Workers -> BOOLEAN]
      /\ UNCHANGED <<clientVars, mgrVars, toMgr>>
  BY DEF FetchInv, FetchType, WorkerType, StartJob
<1>5. /\ job' \in [Workers -> [st : {"idle", "curl", "ping", "return"},
                               id : Jobs \cup {None}, tries : Nat, got : BOOLEAN]]
      /\ job'[w].id = x /\ job'[w].st = IF x \in Requests THEN "curl" ELSE "ping"
      /\ \A v \in Workers : v # w => job'[v] = job[v]
  BY <1>2, <1>3
<1>6. /\ toClient' \in Seq(ClientEvents)
      /\ \A r \in Requests :
            /\ Meets(toClient', AnswerOf(r)) <=> Meets(toClient, AnswerOf(r))
            /\ Single(toClient, AnswerOf(r)) => Single(toClient', AnswerOf(r))
            /\ Meets(toClient', TidOf(r)) <=> Meets(toClient, TidOf(r)) \/ r = x
            /\ Ahead(toClient, TidOf(r), AnswerOf(r)) /\ ~(r = x /\ Meets(toClient, AnswerOf(r)))
                  => Ahead(toClient', TidOf(r), AnswerOf(r))
  <2>1. toClient \in Seq(ClientEvents)
    BY DEF FetchInv, FetchType, ClientType
  <2>2. CASE x \in Requests
    <3> DEFINE n == [type |-> "tid", id |-> x, from |-> w]
    <3>1. n \in ClientEvents /\ \A r : (n \in TidOf(r) <=> r = x) /\ n \notin AnswerOf(r)
      BY <2>2 DEF ClientEvents, TidOf, AnswerOf
    <3>2. toClient' = Append(toClient, n)
      BY <2>2 DEF StartJob
    <3> HIDE DEF n
    <3>3. toClient' \in Seq(ClientEvents) /\ Grows(toClient, n, toClient')
      BY <2>1, <3>1, <3>2, AppendEvent
    <3> QED BY <3>1, <3>3 DEF Grows
  <2>3. CASE x \notin Requests
    BY <2>1, <2>3 DEF StartJob
  <2> QED BY <2>2, <2>3
<1>7. FetchType'
  <2>1. ClientType'
    BY <1>4, <1>6 DEF FetchInv, FetchType, ClientType, clientVars
  <2>2. WorkerType'
    BY <1>1, <1>3, <1>4, <1>5 DEF FetchInv, FetchType, WorkerType
  <2> QED BY <2>1, <2>2, <1>4 DEF FetchInv, FetchType, MgrType, mgrVars
<1>8. ClientInOrder' /\ UnqueueInOrder'
  BY <1>4 DEF FetchInv, ClientInOrder, UnqueueInOrder, clientVars
<1>9. CancelInOrder'
  <2>1. \A v \in Workers : (Meets(inbox'[v], Cancels) <=> Meets(inbox[v], Cancels))
                           /\ (Single(inbox[v], Cancels) => Single(inbox'[v], Cancels))
    BY <1>1, <1>2 DEF Shrinks
  <2>2. \A v \in Workers, r \in Requests : Meets(inbox'[v], CancelOf(r)) <=> Meets(inbox[v], CancelOf(r))
    BY <1>1, <1>2 DEF Shrinks
  <2> QED BY <2>1, <2>2, <1>4 DEF FetchInv, CancelInOrder, clientVars
<1>10. /\ OneState(w) /\ HasJob(w) /\ ~HasJob(w)' /\ ~Active(w) /\ Active(w)'
       /\ \A v \in Workers : v # w => (HasJob(v)' <=> HasJob(v)) /\ (Active(v)' <=> Active(v))
  BY <1>1, <1>2, <1>3, <1>5 DEF FetchInv, OneState, HasJob, Active, Shrinks
<1>11. /\ \A r, v : v \in Workers => (With(v, r)' <=> With(v, r))
       /\ \A r, v : v \in Workers => (Runs(v, r)' <=> Runs(v, r) \/ (v = w /\ r = x))
       /\ With(w, x)
  <2>1. \A r : JobOf(r) \subseteq AllJobs
    BY DEF JobOf, AllJobs
  <2>2. \A r : ~Given(w, r)' /\ ~Runs(w, r)
    BY <2>1, <1>10, PartMeets DEF HasJob, Active, Given, Runs
  <2>3. \A r : (Given(w, r) <=> r = x) /\ (Runs(w, r)' <=> r = x)
    BY <2>2, <1>1, <1>2, <1>5 DEF Given, Runs, Shrinks
  <2> QED BY <2>2, <2>3, <1>1, <1>5 DEF With, Given, Runs
<1>12. \A r \in Requests : Known(r)' <=> Known(r)
  BY <1>4 DEF Known, clientVars
<1>13. ASSUME NEW r \in Requests
       PROVE  (OnePlace(r) /\ OnceThere(r) /\ TidInOrder(r))' /\ At(r)' = At(r)
  <2>1. /\ InMsg(r)' <=> InMsg(r)
        /\ InQueue(r)' <=> InQueue(r)
        /\ InWork(r)' <=> InWork(r)
        /\ InSent(r)' <=> InSent(r)
        /\ InAnswer(r)' <=> InAnswer(r)
    BY <1>4, <1>6, <1>11 DEF InMsg, InQueue, InWork, InSent, InAnswer, clientVars, mgrVars
  <2>2. OnePlace(r) /\ OnceThere(r) /\ TidInOrder(r)
    BY DEF FetchInv
  <2>3. OnePlace(r)'
    BY <2>1, <1>12, SamePlaces
  <2>4. OnceThere(r)'
    BY <2>2, <1>4, <1>6, <1>11 DEF OnceThere, mgrVars
  <2>5. r = x => ~InSent(r) /\ ~InAnswer(r) /\ \E v \in Workers : Runs(v, r)'
    BY <2>2, <1>11 DEF OnePlace, InWork
  <2>6. TidInOrder(r)'
    BY <2>1, <2>2, <2>5, <1>4, <1>6, <1>11 DEF TidInOrder, InSent, clientVars
  <2>7. At(r)' = At(r)
    BY <2>1, <1>4, <1>12 DEF At, clientVars
  <2> QED BY <2>3, <2>4, <2>6, <2>7
<1>14. ASSUME NEW v \in Workers PROVE OneState(v)'
  <2>1. OneState(v) /\ (Free(v)' <=> Free(v)) /\ (Done(v)' <=> Done(v))
    BY <1>4 DEF FetchInv, Free, Done, mgrVars
  <2>2. Single(available', {v}) /\ Single(toMgr', DoneOf(v)) /\ Single(inbox'[v], AllJobs)
    BY <2>1, <1>1, <1>4 DEF OneState, mgrVars, Shrinks
  <2> QED BY <2>1, <2>2, <1>4, <1>10 DEF OneState, mgrVars
<1>15. FetchesKnown'
  BY <1>4, <1>11 DEF FetchInv, FetchesKnown, Fetching, FetchAt, DoneFetch, mgrVars
<1>16. FilesKnown'
  BY <1>4, <1>12, Constants DEF FetchInv, FilesKnown, clientVars
<1> QED BY <1>7, <1>8, <1>9, <1>13, <1>14, <1>15, <1>16 DEF FetchInv, Stay
\* A transfer follows another, of the same request.
LEMMA NextTransferOk ==
    ASSUME FetchInv, NEW w \in Workers, NEW got \in BOOLEAN, NextTransfer(w, got),
           UNCHANGED <<clientVars, mgrVars, inbox>>
    PROVE  FetchInv' /\ Stay
<1>1. UNCHANGED <<toClient, toMgr>>
  BY DEF NextTransfer
<1>2. /\ WorkerType'
      /\ \A v \in Workers : job'[v].st = job[v].st /\ job'[v].id = job[v].id
  <2>1. job \in [Workers -> [st : {"idle", "curl", "ping", "return"},
                             id : Jobs \cup {None}, tries : Nat, got : BOOLEAN]]
    BY DEF FetchInv, FetchType, WorkerType
  <2>2. job' = [job EXCEPT ![w] = [job[w] EXCEPT !.tries = job[w].tries + 1, !.got = got]]
    BY <2>1 DEF NextTransfer
  <2>3. PICK n : n = [job[w] EXCEPT !.tries = job[w].tries + 1, !.got = got]
    OBVIOUS
  <2>6. n \in [st : {"idle", "curl", "ping", "return"},
               id : Jobs \cup {None}, tries : Nat, got : BOOLEAN]
        /\ n.st = job[w].st /\ n.id = job[w].id
    <3>1. PICK j : j = job[w]
      OBVIOUS
    <3>2. j \in [st : {"idle", "curl", "ping", "return"},
                 id : Jobs \cup {None}, tries : Nat, got : BOOLEAN]
      BY <2>1, <3>1
    <3>3. n = [j EXCEPT !.tries = j.tries + 1, !.got = got]
      BY <2>3, <3>1
    <3>4. n = [st |-> j.st, id |-> j.id, tries |-> j.tries + 1, got |-> got]
      BY ONLY <3>2, <3>3
    <3> QED BY <3>1, <3>2, <3>4
  <2>4. /\ job' \in [Workers -> [st : {"idle", "curl", "ping", "return"},
                                 id : Jobs \cup {None}, tries : Nat, got : BOOLEAN]]
        /\ \A v \in Workers : job'[v].st = job[v].st /\ job'[v].id = job[v].id
    BY <2>1, <2>2, <2>3, <2>6
  <2>5. cancelled' \in [Workers -> BOOLEAN]
    BY DEF FetchInv, FetchType, WorkerType, NextTransfer
  <2> QED BY <2>4, <2>5 DEF FetchInv, FetchType, WorkerType
<1>3. FetchType'
  BY <1>1, <1>2 DEF FetchInv, FetchType, ClientType, MgrType, clientVars, mgrVars
<1>4. ClientInOrder' /\ UnqueueInOrder' /\ CancelInOrder'
  BY <1>1 DEF FetchInv, ClientInOrder, UnqueueInOrder, CancelInOrder, clientVars
<1>5. \A r : /\ Known(r)' <=> Known(r)
             /\ \A v \in Workers : (With(v, r)' <=> With(v, r)) /\ (Runs(v, r)' <=> Runs(v, r))
  BY <1>2 DEF Known, With, Given, Runs, clientVars
<1>6. Stay /\ \A r \in Requests : (OnePlace(r) /\ OnceThere(r) /\ TidInOrder(r))'
  <2>1. \A r \in Requests :
           /\ InMsg(r)' <=> InMsg(r)
           /\ InQueue(r)' <=> InQueue(r)
           /\ InWork(r)' <=> InWork(r)
           /\ InSent(r)' <=> InSent(r)
           /\ InAnswer(r)' <=> InAnswer(r)
    BY <1>1, <1>5 DEF InMsg, InQueue, InWork, InSent, InAnswer, clientVars, mgrVars
  <2>2. \A r \in Requests : (OnePlace(r) /\ OnceThere(r) /\ TidInOrder(r))'
    BY <2>1, <1>1, <1>5 DEF FetchInv, OnePlace, OnceThere, TidInOrder, clientVars, mgrVars
  <2>3. Stay
    BY <2>1, <1>5 DEF Stay, At, clientVars
  <2> QED BY <2>2, <2>3
<1>7. \A v \in Workers : OneState(v)'
  BY <1>1, <1>2 DEF FetchInv, OneState, Free, Done, HasJob, Active, mgrVars
<1>8. FetchesKnown'
  BY <1>1, <1>5 DEF FetchInv, FetchesKnown, Fetching, FetchAt, DoneFetch, mgrVars
<1>9. FilesKnown'
  BY <1>5, Constants DEF FetchInv, FilesKnown, clientVars
<1> QED BY <1>3, <1>4, <1>6, <1>7, <1>8, <1>9 DEF FetchInv

\* What the end of a job tells the management thread.
LEMMA DoneEvent ==
    ASSUME NEW w \in Workers, NEW f \in BOOLEAN, NEW d, d = [type |-> "done", id |-> w, fetch |-> f]
    PROVE  /\ d \in MgrEvents /\ d \notin Unqueues
           /\ \A r : d \notin QueueOf(r) /\ d \notin UnqueueOf(r)
           /\ \A v : d \in DoneOf(v) <=> v = w
           /\ \A v : d \in DoneFetchOf(v) <=> v = w /\ f
BY DEF MgrEvents, QueueOf, UnqueueOf, Unqueues, DoneOf, DoneFetchOf

\* What event n says of the requests: the result of x, if that is one.
Results(n, x) == \A r \in Requests : (n \in AnswerOf(r) <=> r = x) /\ n \notin TidOf(r)

\* A worker that runs a job ends it: what is on the way to the main thread is
\* its result.
LEMMA EndOk ==
    ASSUME FetchInv, NEW w \in Workers, Active(w), NEW x, x = job[w].id,
           NEW f \in BOOLEAN, f <=> x \in Fetches, NEW n \in ClientEvents,
           Results(n, x), toClient' = Append(toClient, n),
           toMgr' = Append(toMgr, [type |-> "done", id |-> w, fetch |-> f]),
           job' = [job EXCEPT ![w].st = "return"],
           UNCHANGED <<clientVars, mgrVars, cancelled, inbox>>
    PROVE  FetchInv' /\ (Stay \/ \E r \in Requests : Goes(r, "running", "answered"))
<1> PICK d : d = [type |-> "done", id |-> w, fetch |-> f]
  OBVIOUS
<1>1. /\ d \in MgrEvents /\ d \notin Unqueues
      /\ \A r : d \notin QueueOf(r) /\ d \notin UnqueueOf(r)
      /\ \A v : d \in DoneOf(v) <=> v = w
      /\ \A v : d \in DoneFetchOf(v) <=> v = w /\ f
  BY DoneEvent
<1>2. toMgr' \in Seq(MgrEvents) /\ Grows(toMgr, d, toMgr')
  BY <1>1, AppendEvent DEF FetchInv, FetchType, MgrType
<1>3. toClient' \in Seq(ClientEvents) /\ Grows(toClient, n, toClient')
  BY AppendEvent DEF FetchInv, FetchType, ClientType
<1>4. /\ job' \in [Workers -> [st : {"idle", "curl", "ping", "return"},
                               id : Jobs \cup {None}, tries : Nat, got : BOOLEAN]]
      /\ job'[w].st = "return"
      /\ \A v \in Workers : v # w => job'[v] = job[v]
  <2>1. job \in [Workers -> [st : {"idle", "curl", "ping", "return"},
                             id : Jobs \cup {None}, tries : Nat, got : BOOLEAN]]
    BY DEF FetchInv, FetchType, WorkerType
  <2>2. job' = [job EXCEPT ![w] = [job[w] EXCEPT !.st = "return"]]
    BY <2>1
  <2>3. PICK j : j = [job[w] EXCEPT !.st = "return"]
    OBVIOUS
  <2>4. j \in [st : {"idle", "curl", "ping", "return"},
               id : Jobs \cup {None}, tries : Nat, got : BOOLEAN] /\ j.st = "return"
    BY <2>1, <2>3
  <2> QED BY <2>1, <2>2, <2>3, <2>4
<1>5. FetchType'
  <2>1. ClientType'
    BY <1>3 DEF FetchInv, FetchType, ClientType, clientVars
  <2>2. MgrType'
    BY <1>2 DEF FetchInv, FetchType, MgrType, mgrVars
  <2>3. WorkerType'
    BY <1>4 DEF FetchInv, FetchType, WorkerType
  <2> QED BY <2>1, <2>2, <2>3 DEF FetchType
<1>6. ClientInOrder' /\ CancelInOrder'
  BY DEF FetchInv, ClientInOrder, CancelInOrder, clientVars
<1>7. UnqueueInOrder'
  BY <1>1, <1>2 DEF FetchInv, UnqueueInOrder, clientVars, Grows
<1>8. \A r \in Requests : Known(r)' <=> Known(r)
  BY DEF Known, clientVars
<1>9. OneState(w) /\ ~HasJob(w) /\ ~Done(w) /\ ~Free(w)
  BY DEF FetchInv, OneState
<1>10. /\ \A r, v : v \in Workers => (Runs(v, r)' <=> Runs(v, r) /\ v # w)
       /\ \A r : ~Given(w, r) /\ (Runs(w, r) <=> r = x)
       /\ \A r, v : v \in Workers => (With(v, r)' <=> With(v, r) /\ v # w)
  <2>1. \A r : JobOf(r) \subseteq AllJobs
    BY DEF JobOf, AllJobs
  <2>2. \A r : ~Given(w, r)
    BY <2>1, <1>9, PartMeets DEF HasJob, Given
  <2>3. \A r : ~Given(w, r)'
    BY <2>2 DEF Given
  <2>4. \A r, v : v \in Workers => (Runs(v, r)' <=> Runs(v, r) /\ v # w)
    BY <1>4 DEF Runs
  <2>5. \A r : Runs(w, r) <=> r = x
    BY DEF Runs, Active
  <2> QED BY <2>2, <2>3, <2>4, <2>5 DEF With, Given
<1>11. ASSUME NEW r \in Requests
       PROVE  /\ (OnePlace(r) /\ OnceThere(r) /\ TidInOrder(r))'
              /\ r # x => At(r)' = At(r)
              /\ r = x => At(r) = "running" /\ At(r)' = "answered"
  <2>1. /\ InMsg(r)' <=> InMsg(r)
        /\ InQueue(r)' <=> InQueue(r)
        /\ InAnswer(r)' <=> InAnswer(r)
    BY <1>1, <1>2 DEF InMsg, InQueue, InAnswer, clientVars, mgrVars, Grows
  <2>2. OnePlace(r) /\ OnceThere(r) /\ TidInOrder(r)
    BY DEF FetchInv
  <2>3. Single(toMgr', QueueOf(r)) /\ Single(queue'[Kind(r)], {r})
    BY <2>2, <1>1, <1>2 DEF OnceThere, Grows, mgrVars
  <2>4. Ahead(toClient', TidOf(r), AnswerOf(r))
    BY <2>2, <1>3 DEF TidInOrder, Grows, Results
  <2>5. /\ Meets(toClient', TidOf(r)) <=> Meets(toClient, TidOf(r))
        /\ InSent(r)' <=> InSent(r) \/ r = x
    BY <1>3 DEF InSent, Grows, Results
  <2>6. r = x => With(w, r) /\ InWork(r) /\ ~InSent(r) /\ ~InWork(r)'
    BY <2>2, <1>10 DEF With, InWork, OnePlace, OnceThere
  <2>7. r # x => (InWork(r)' <=> InWork(r)) /\ \A v \in Workers : Runs(v, r)' <=> Runs(v, r)
    BY <1>10 DEF With, InWork
  <2>8. Single(toClient', AnswerOf(r))
    BY <2>2, <2>6, <1>3 DEF OnceThere, InSent, Grows, Results
  <2>9. OnePlace(r)'
    BY <2>1, <2>2, <2>5, <2>6, <2>7, <1>8 DEF OnePlace
  <2>10. OnceThere(r)'
    BY <2>2, <2>3, <2>8, <1>10 DEF OnceThere
  <2>11. TidInOrder(r)'
    BY <2>1, <2>2, <2>4, <2>5, <2>7 DEF TidInOrder, clientVars
  <2>12. r # x => At(r)' = At(r)
    BY <2>1, <2>5, <1>8 DEF At, clientVars
  <2>13. r = x => At(r) = "running" /\ At(r)' = "answered"
    <3>1. r = x => Known(r) /\ ~InMsg(r) /\ ~InQueue(r) /\ ~InAnswer(r) /\ r \in issued
      BY <2>2, <2>6 DEF OnePlace, Known
    <3> QED BY <3>1, <2>5, <2>6, <1>8 DEF At, clientVars
  <2> QED BY <2>9, <2>10, <2>11, <2>12, <2>13
<1>12. ASSUME NEW v \in Workers PROVE OneState(v)'
  <2>1. OneState(v) /\ (Free(v)' <=> Free(v)) /\ (HasJob(v)' <=> HasJob(v))
    BY DEF FetchInv, Free, HasJob, mgrVars
  <2>2. Single(available', {v}) /\ Single(inbox'[v], AllJobs)
    BY <2>1 DEF OneState, mgrVars
  <2>3. (Done(v)' <=> Done(v) \/ v = w) /\ Single(toMgr', DoneOf(v))
    BY <2>1, <1>1, <1>2, <1>9 DEF OneState, Done, Grows
  <2>4. Active(v)' <=> Active(v) /\ v # w
    BY <1>4 DEF Active
  <2> QED BY <2>1, <2>2, <2>3, <2>4, <1>9 DEF OneState, mgrVars
<1>13. FetchesKnown'
  <2>1. \A v \in Workers : DoneFetch(v)' <=> DoneFetch(v) \/ (v = w /\ f)
    BY <1>1, <1>2 DEF DoneFetch, Grows
  <2>2. (\E g \in Fetches : With(w, g)) <=> f
    BY <1>10 DEF With
  <2>3. ~DoneFetch(w)
    <3>1. DoneFetchOf(w) \subseteq DoneOf(w)
      BY DEF DoneFetchOf, DoneOf
    <3> QED BY <3>1, <1>9, PartMeets DEF DoneFetch, Done
  <2>4. \A v \in Workers : FetchAt(v)' <=> FetchAt(v)
    BY <2>1, <2>2, <2>3, <1>10 DEF FetchAt
  <2> QED BY <2>4 DEF FetchInv, FetchesKnown, Fetching, mgrVars
<1>14. FilesKnown'
  BY <1>8, Constants DEF FetchInv, FilesKnown, clientVars
<1>15. FetchInv'
  BY <1>5, <1>6, <1>7, <1>11, <1>12, <1>13, <1>14 DEF FetchInv
<1>16. Stay \/ \E r \in Requests : Goes(r, "running", "answered")
  <2>1. CASE x \in Requests
    <3>1. Goes(x, "running", "answered")
      BY <1>11, <2>1 DEF Goes
    <3> QED BY <2>1, <3>1
  <2>2. CASE x \notin Requests
    BY <1>11, <2>2 DEF Stay
  <2> QED BY <2>1, <2>2
<1> QED BY <1>15, <1>16

\* The result of a request is sent.
LEMMA DeliverOk ==
    ASSUME FetchInv, NEW w \in Workers, job[w].st = "curl",
           NEW value \in {"success", "failure"}, Deliver(w, value),
           UNCHANGED <<clientVars, mgrVars, inbox>>
    PROVE  FetchInv' /\ (Stay \/ \E r \in Requests : Goes(r, "running", "answered"))
<1> PICK x : x = job[w].id
  OBVIOUS
<1> PICK n : n = [type |-> "answer", id |-> x, value |-> value]
  OBVIOUS
<1>1. FetchInv /\ x \in Requests /\ Active(w) /\ x = job[w].id
  BY DEF FetchInv, FetchType, WorkerType, Active
<1>2. n \in ClientEvents /\ Results(n, x)
  BY <1>1 DEF ClientEvents, AnswerOf, TidOf, Results
<1>3. /\ toClient' = Append(toClient, n)
      /\ job' = [job EXCEPT ![w].st = "return"]
      /\ UNCHANGED <<clientVars, mgrVars, cancelled, inbox>>
  BY DEF Deliver
<1>4. CASE x \in Fetches
  <2>1. toMgr' = Append(toMgr, [type |-> "done", id |-> w, fetch |-> TRUE])
    <3>1. (x \in Fetches) = TRUE
      BY <1>4
    <3> QED BY <3>1 DEF Deliver
  <2>2. TRUE \in BOOLEAN /\ (TRUE <=> x \in Fetches)
    BY <1>4
  <2> QED BY ONLY <1>1, <1>2, <1>3, <2>1, <2>2, EndOk
<1>5. CASE x \notin Fetches
  <2>1. toMgr' = Append(toMgr, [type |-> "done", id |-> w, fetch |-> FALSE])
    <3>1. (x \in Fetches) = FALSE
      BY <1>5
    <3> QED BY <3>1 DEF Deliver
  <2>2. FALSE \in BOOLEAN /\ (FALSE <=> x \in Fetches)
    BY <1>5
  <2> QED BY ONLY <1>1, <1>2, <1>3, <2>1, <2>2, EndOk
<1> QED BY <1>4, <1>5

\* A ping ends.
LEMMA PingDoneOk ==
    ASSUME FetchInv, NEW w \in Workers, PingDone(w)
    PROVE  FetchInv' /\ (Stay \/ \E r \in Requests : Goes(r, "running", "answered"))
<1> PICK x : x = job[w].id
  OBVIOUS
<1> PICK n : n = [type |-> "pingtime", id |-> x]
  OBVIOUS
<1>1. x \in Hosts /\ Active(w) /\ x \notin Requests /\ x \notin Fetches
  BY Constants DEF FetchInv, FetchType, WorkerType, Active, PingDone
<1>2. n \in ClientEvents /\ Results(n, x)
  BY <1>1 DEF ClientEvents, AnswerOf, TidOf, Results
<1>3. /\ toClient' = Append(toClient, n)
      /\ toMgr' = Append(toMgr, [type |-> "done", id |-> w, fetch |-> FALSE])
      /\ job' = [job EXCEPT ![w].st = "return"]
      /\ UNCHANGED <<clientVars, mgrVars, cancelled, inbox>>
  BY DEF PingDone
<1>4. FALSE \in BOOLEAN /\ (FALSE <=> x \in Fetches)
  BY <1>1
<1> QED BY <1>1, <1>2, <1>3, <1>4, EndOk

\* A transfer ends.
LEMMA TransferOver ==
    ASSUME FetchInv, NEW w \in Workers, TransferOk(w) \/ TransferFails(w)
    PROVE  FetchInv' /\ (Stay \/ \E r \in Requests : Goes(r, "running", "answered"))
<1>1. job[w].st = "curl" /\ job[w].got \in BOOLEAN /\ UNCHANGED <<clientVars, mgrVars, inbox>>
  BY DEF FetchInv, FetchType, WorkerType, TransferOk, TransferFails
<1>2. \/ \E got \in BOOLEAN : NextTransfer(w, got)
      \/ \E value \in {"success", "failure"} : Deliver(w, value)
  BY <1>1 DEF TransferOk, TransferFails
<1> QED BY <1>1, <1>2, NextTransferOk, DeliverOk

\* The script of a worker ends.
LEMMA ReturnOk ==
    ASSUME FetchInv, NEW w \in Workers, Return(w)
    PROVE  FetchInv' /\ Stay
<1> PICK e : e = [type |-> "wake"]
  OBVIOUS
<1>1. /\ e \in MgrEvents /\ e \notin Unqueues
      /\ \A r : e \notin QueueOf(r) /\ e \notin UnqueueOf(r)
      /\ \A v : e \notin DoneOf(v) /\ e \notin DoneFetchOf(v)
  BY DEF MgrEvents, QueueOf, UnqueueOf, Unqueues, DoneOf, DoneFetchOf
<1>2. toMgr' \in Seq(MgrEvents) /\ Grows(toMgr, e, toMgr')
  BY <1>1, AppendEvent DEF FetchInv, FetchType, MgrType, Return
<1>3. /\ job' \in [Workers -> [st : {"idle", "curl", "ping", "return"},
                               id : Jobs \cup {None}, tries : Nat, got : BOOLEAN]]
      /\ job[w].st = "return" /\ job'[w].st = "idle"
      /\ \A v \in Workers : v # w => job'[v] = job[v]
  BY DEF FetchInv, FetchType, WorkerType, Return, NoJob
<1>4. UNCHANGED <<clientVars, mgrVars, cancelled, toClient, inbox>>
  BY DEF Return
<1>5. FetchType'
  <2>1. ClientType' /\ MgrType'
    BY <1>2, <1>4 DEF FetchInv, FetchType, ClientType, MgrType, clientVars, mgrVars
  <2>2. WorkerType'
    BY <1>3, <1>4 DEF FetchInv, FetchType, WorkerType
  <2> QED BY <2>1, <2>2 DEF FetchType
<1>6. ClientInOrder' /\ CancelInOrder'
  BY <1>4 DEF FetchInv, ClientInOrder, CancelInOrder, clientVars
<1>7. UnqueueInOrder'
  BY <1>1, <1>2, <1>4 DEF FetchInv, UnqueueInOrder, clientVars, Grows
<1>8. /\ \A r : Known(r)' <=> Known(r)
      /\ \A r : \A v \in Workers : (With(v, r)' <=> With(v, r)) /\ (Runs(v, r)' <=> Runs(v, r))
  BY <1>3, <1>4 DEF Known, With, Given, Runs, clientVars
<1>9. Stay /\ \A r \in Requests : (OnePlace(r) /\ OnceThere(r) /\ TidInOrder(r))'
  <2>1. \A r \in Requests :
           /\ InMsg(r)' <=> InMsg(r)
           /\ InQueue(r)' <=> InQueue(r)
           /\ InWork(r)' <=> InWork(r)
           /\ InSent(r)' <=> InSent(r)
           /\ InAnswer(r)' <=> InAnswer(r)
    BY <1>1, <1>2, <1>4, <1>8 DEF InMsg, InQueue, InWork, InSent, InAnswer, clientVars, mgrVars, Grows
  <2>2. \A r \in Requests : (OnePlace(r) /\ OnceThere(r) /\ TidInOrder(r))'
    BY <2>1, <1>1, <1>2, <1>4, <1>8
    DEF FetchInv, OnePlace, OnceThere, TidInOrder, clientVars, mgrVars, Grows
  <2>3. Stay
    BY <2>1, <1>4, <1>8 DEF Stay, At, clientVars
  <2> QED BY <2>2, <2>3
<1>10. \A v \in Workers : OneState(v)'
  BY <1>1, <1>2, <1>3, <1>4 DEF FetchInv, OneState, Free, Done, HasJob, Active, mgrVars, Grows
<1>11. FetchesKnown'
  BY <1>1, <1>2, <1>4, <1>8 DEF FetchInv, FetchesKnown, Fetching, FetchAt, DoneFetch, mgrVars, Grows
<1>12. FilesKnown'
  BY <1>4, <1>8, Constants DEF FetchInv, FilesKnown, clientVars
<1> QED BY <1>5, <1>6, <1>7, <1>9, <1>10, <1>11, <1>12 DEF FetchInv
-----------------------------------------------------------------------------
(* The invariant holds.                                                    *)

\* Nothing has been asked for.
LEMMA InitOk == Init => FetchInv
<1> SUFFICES ASSUME Init PROVE FetchInv
  OBVIOUS
<1>1. \A S : <<>> \in Seq(S)
  BY EmptySeq
<1>2. FetchType
  <2>1. ClientType
    BY <1>1 DEF Init, ClientType, Idle
  <2>2. MgrType
    BY <1>1, ThreadAssumption DEF Init, MgrType, Kinds
  <2>3. WorkerType
    BY <1>1 DEF Init, WorkerType, NoJob
  <2> QED BY <2>1, <2>2, <2>3 DEF FetchType
<1>3. /\ toMgr = <<>> /\ toClient = <<>> /\ available = <<>>
      /\ \A w \in Workers : inbox[w] = <<>> /\ job[w].st = "idle"
      /\ \A r \in Requests : queue[Kind(r)] = <<>> /\ answer[r] = None /\ tid[r] = None
      /\ client = Idle /\ issued = {} /\ active = {} /\ files = {} /\ fetching = 0
  BY Constants, KindOf DEF Init, NoJob
<1>4. \A r : \A w \in Workers : ~With(w, r) /\ ~Runs(w, r)
  BY <1>3, EmptyEvents DEF With, Given, Runs
<1>5. ASSUME NEW r \in Requests PROVE OnePlace(r) /\ OnceThere(r) /\ TidInOrder(r)
  <2>1. ~Known(r) /\ ~InMsg(r) /\ ~InQueue(r) /\ ~InWork(r) /\ ~InSent(r) /\ ~InAnswer(r)
    BY <1>3, <1>4, EmptyEvents DEF Known, InMsg, InQueue, InWork, InSent, InAnswer
  <2> QED BY <2>1, <1>3, <1>4, EmptyEvents DEF OnePlace, OnceThere, TidInOrder
<1>6. \A w \in Workers : OneState(w)
  BY <1>3, EmptyEvents DEF OneState, Free, Done, HasJob, Active
<1>7. ClientInOrder /\ UnqueueInOrder /\ CancelInOrder
  BY <1>3, EmptyEvents DEF ClientInOrder, UnqueueInOrder, CancelInOrder, Idle
<1>8. FetchesKnown
  <2>1. Fetching = {}
    BY <1>3, <1>4, EmptyEvents DEF Fetching, FetchAt, DoneFetch
  <2> QED BY <2>1, <1>3, FS_EmptySet DEF FetchesKnown
<1>9. FilesKnown
  BY <1>3 DEF FilesKnown, Known
<1> QED BY <1>2, <1>5, <1>6, <1>7, <1>8, <1>9 DEF FetchInv

\* No step breaks it.
LEMMA StepOk == FetchInv /\ [Next]_vars => FetchInv'
<1> SUFFICES ASSUME FetchInv, [Next]_vars PROVE FetchInv'
  OBVIOUS
<1>1. CASE Call
  <2>1. ASSUME NEW r \in Requests,
               Queue(r) \/ GetResult(r) \/ ShowProgress(r) \/ CancelComplete(r) \/ CancelPending(r)
        PROVE  FetchInv'
    BY <2>1, QueueOk, GetResultOk, ShowProgressOk, CancelCompleteOk, CancelPendingOk
  <2> QED BY <2>1, <1>1, StartPingsOk DEF Call
<1>2. CASE Client
  BY <1>2, QueuePingOk, WaitForPingOk, SendCancelOk, FinishOk, ClientEventOk DEF Client
<1>3. CASE Manager
  BY <1>3, PassOk, SleepOk, MgrEventOk DEF Manager
<1>4. CASE \E w \in Workers : Worker(w)
  BY <1>4, WorkerCancelledOk, StartJobOk, TransferOver, PingDoneOk, ReturnOk DEF Worker
<1>5. CASE UNCHANGED vars
  <2>1. UNCHANGED <<clientVars, mgrVars, workerVars, toClient, toMgr, inbox>>
    BY <1>5 DEF vars, events
  <2>2. FetchType'
    BY <2>1 DEF FetchInv, FetchType, ClientType, MgrType, WorkerType, clientVars, mgrVars, workerVars
  <2>3. ClientInOrder' /\ UnqueueInOrder' /\ CancelInOrder'
    BY <2>1 DEF FetchInv, ClientInOrder, UnqueueInOrder, CancelInOrder, clientVars
  <2>4. \A r : (Known(r)' <=> Known(r)) /\ \A w : (With(w, r)' <=> With(w, r)) /\ (Runs(w, r)' <=> Runs(w, r))
    BY <2>1 DEF Known, With, Given, Runs, clientVars, workerVars
  <2>5. \A r \in Requests : (OnePlace(r) /\ OnceThere(r) /\ TidInOrder(r))'
    <3>1. \A r \in Requests :
             /\ InMsg(r)' <=> InMsg(r)
             /\ InQueue(r)' <=> InQueue(r)
             /\ InWork(r)' <=> InWork(r)
             /\ InSent(r)' <=> InSent(r)
             /\ InAnswer(r)' <=> InAnswer(r)
      BY <2>1, <2>4 DEF InMsg, InQueue, InWork, InSent, InAnswer, clientVars, mgrVars
    <3> QED BY <3>1, <2>1, <2>4 DEF FetchInv, OnePlace, OnceThere, TidInOrder, clientVars, mgrVars
  <2>6. \A w \in Workers : OneState(w)'
    BY <2>1 DEF FetchInv, OneState, Free, Done, HasJob, Active, mgrVars, workerVars
  <2>7. FetchesKnown'
    BY <2>1, <2>4 DEF FetchInv, FetchesKnown, Fetching, FetchAt, DoneFetch, mgrVars
  <2>8. FilesKnown'
    BY <2>1, <2>4, Constants DEF FetchInv, FilesKnown, clientVars
  <2> QED BY <2>2, <2>3, <2>5, <2>6, <2>7, <2>8 DEF FetchInv
<1> QED BY <1>1, <1>2, <1>3, <1>4, <1>5 DEF Next

\* The three kinds of threads keep their books: a request is at one place while the
\* main thread knows it and nowhere else, fetch_count counts the workers with a fetch,
\* a thread is free or has one job.
THEOREM FetchInvariant == Spec => []FetchInv
<1>1. Init => FetchInv
  BY InitOk
<1>2. FetchInv /\ [Next]_vars => FetchInv'
  BY StepOk
<1> QED BY <1>1, <1>2, PTL DEF Spec

\* The places in the words of the specification.
LEMMA Places ==
    ASSUME FetchInv, NEW r \in Requests
    PROVE  /\ Queued(r) <=> InMsg(r) \/ InQueue(r)
           /\ Working(r) <=> InWork(r)
           /\ Sent(r) <=> InSent(r)
<1>1. /\ toMgr \in Seq(MgrEvents) /\ toClient \in Seq(ClientEvents)
      /\ inbox \in [Workers -> Seq(InboxEvents)] /\ queue[Kind(r)] \in Seq(JobsOf(Kind(r)))
      /\ r \in Jobs
  BY Constants, KindOf DEF FetchInv, FetchType, ClientType, MgrType, WorkerType
<1>2. Queued(r) <=> InMsg(r) \/ InQueue(r)
  <2>1. (\E i \in DOMAIN toMgr : toMgr[i] = [type |-> "queue", id |-> r]) <=> InMsg(r)
    <3>1. \A m \in MgrEvents : m \in QueueOf(r) <=> m = [type |-> "queue", id |-> r]
      BY DEF MgrEvents, QueueOf
    <3>2. DOMAIN toMgr = 1..Len(toMgr) /\ \A i \in 1..Len(toMgr) : toMgr[i] \in MgrEvents
      BY <1>1, LenProperties, ElementOfSeq
    <3> QED BY <3>1, <3>2 DEF InMsg, Meets
  <2>2. Contains(queue[Kind(r)], r) <=> InQueue(r)
    BY DEF Contains, InQueue, Meets
  <2> QED BY <2>1, <2>2 DEF Queued
<1>3. Working(r) <=> InWork(r)
  <2>1. ASSUME NEW w \in Workers PROVE Has(w, r) <=> With(w, r)
    <3>1. \A m \in InboxEvents : m \in JobOf(r) <=> m = [type |-> "job", id |-> r]
      BY DEF InboxEvents, JobOf
    <3>2. inbox[w] \in Seq(InboxEvents)
      BY <1>1
    <3>3. DOMAIN inbox[w] = 1..Len(inbox[w]) /\ \A i \in 1..Len(inbox[w]) : inbox[w][i] \in InboxEvents
      BY <3>2, LenProperties, ElementOfSeq
    <3>4. Assigned(w, r) <=> Given(w, r)
      BY <3>1, <3>3 DEF Assigned, Given, Meets
    <3> QED BY <3>4 DEF Has, With, Runs
  <2> QED BY <2>1 DEF Working, InWork
<1>4. Sent(r) <=> InSent(r)
  <2>1. DOMAIN toClient = 1..Len(toClient) /\ \A i \in 1..Len(toClient) : toClient[i] \in ClientEvents
    BY <1>1, LenProperties, ElementOfSeq
  <2> QED BY <2>1 DEF Sent, InSent, Meets, AnswerOf
<1> QED BY <1>2, <1>3, <1>4

\* No path is saved by two fetches, however many are asked for, cancelled and asked for again.
THEOREM FetchOneWriter == Spec => []OneWriter
<1>1. FetchInv => OneWriter
  <2> SUFFICES ASSUME FetchInv, NEW f \in Fetches, NEW g \in Fetches, f # g,
                      Queued(f) \/ Working(f), Queued(g) \/ Working(g)
               PROVE  File[f] # File[g]
    BY DEF OneWriter
  <2>1. f \in Requests /\ g \in Requests
    BY Constants
  <2>2. Known(f) /\ Known(g)
    BY <2>1, Places DEF FetchInv, OnePlace
  <2> QED BY <2>2 DEF FetchInv, FilesKnown
<1> QED BY <1>1, FetchInvariant, PTL

\* Nothing is left of a request that is gone.
THEOREM FetchNothingLeft == Spec => []NothingLeft
<1>1. FetchInv => NothingLeft
  <2> SUFFICES ASSUME FetchInv, NEW r \in issued, Phase(r) = "gone"
               PROVE  ~Queued(r) /\ ~Working(r) /\ ~Sent(r) /\ answer[r] = None /\ tid[r] = None
    BY DEF NothingLeft
  <2>1. r \in Requests
    BY DEF FetchInv, FetchType, ClientType
  <2>2. ~Known(r)
    BY DEF Phase, Known
  <2>3. ~InMsg(r) /\ ~InQueue(r) /\ ~InWork(r) /\ ~InSent(r) /\ ~InAnswer(r)
    BY <2>1, <2>2 DEF FetchInv, OnePlace
  <2>4. tid[r] = None
    BY <2>1, <2>3 DEF FetchInv, TidInOrder, InWork, With
  <2> QED BY <2>1, <2>3, <2>4, Places DEF InAnswer
<1> QED BY <1>1, FetchInvariant, PTL

-----------------------------------------------------------------------------
(* The threads implement the service.                                      *)

Busy == {r \in Requests : At(r) = "running"}
HasRoom == \E w \in Workers : \A r \in Requests : ~With(w, r)

\* A worker has one request.
LEMMA OneJob ==
    ASSUME FetchInv
    PROVE  \A w \in Workers, r, s \in Requests : With(w, r) /\ With(w, s) => r = s
<1> SUFFICES ASSUME NEW w \in Workers, NEW r \in Requests, NEW s \in Requests,
                    With(w, r), With(w, s)
             PROVE  r = s
  OBVIOUS
<1>1. OneState(w)
  BY DEF FetchInv
<1>2. (Given(w, r) => HasJob(w)) /\ (Given(w, s) => HasJob(w))
  BY DEF Given, HasJob, Meets, JobOf, AllJobs
<1>3. (Runs(w, r) => Active(w)) /\ (Runs(w, s) => Active(w))
  BY DEF Runs, Active
<1>4. CASE Given(w, r) /\ Given(w, s)
  <2>1. Single(inbox[w], AllJobs)
    BY <1>1 DEF OneState
  <2> QED BY <2>1, <1>4 DEF Given, Meets, Single, JobOf, AllJobs
<1>5. CASE Runs(w, r) /\ Runs(w, s)
  BY <1>5 DEF Runs
<1> QED BY <1>1, <1>2, <1>3, <1>4, <1>5 DEF With, OneState

\* A request that is worked on is with a worker, and the workers are finitely many.
LEMMA BusyInWork ==
    ASSUME FetchInv
    PROVE  \A r \in Busy : \E w \in Workers : With(w, r)
<1> SUFFICES ASSUME NEW r \in Busy PROVE InWork(r)
  BY DEF InWork
<1>1. /\ r \in Requests /\ Known(r) /\ ~InSent(r) /\ ~InAnswer(r) /\ ~InMsg(r) /\ ~InQueue(r)
  BY DEF Busy, At, Known
<1> QED BY <1>1 DEF FetchInv, OnePlace

\* Requests that are worked on, each with a worker of V, are no more than V.
LEMMA Injected ==
    ASSUME FetchInv, NEW S \in SUBSET Busy, NEW V \in SUBSET Workers,
           \A r \in S : \A w \in Workers : With(w, r) => w \in V
    PROVE  /\ IsFiniteSet(V) /\ Cardinality(V) \in Nat
           /\ Cardinality(S) \in Nat /\ Cardinality(S) <= Cardinality(V)
<1> DEFINE f == [r \in S |-> CHOOSE w \in Workers : With(w, r)]
<1>1. \A r \in S : f[r] \in Workers /\ With(f[r], r)
  BY BusyInWork
<1>2. f \in [S -> V]
  BY <1>1
<1>3. DOMAIN f = S
  OBVIOUS
<1> HIDE DEF f
<1>4. \A r, s \in S : f[r] = f[s] => r = s
  BY <1>1, OneJob DEF Busy
<1>5. f \in Injection(S, V)
  BY <1>2, <1>3, <1>4 DEF Injection, IsInjective
<1>6. IsFiniteSet(Workers)
  BY ThreadAssumption, FS_Interval DEF Workers
<1>7. IsFiniteSet(V)
  BY <1>6, FS_Subset
<1>8. IsFiniteSet(S) /\ Cardinality(S) <= Cardinality(V)
  BY <1>5, <1>7, FS_Injection
<1> QED BY <1>7, <1>8, FS_CardinalityType

\* When a request is taken up there is a thread for it, and when a fetch is, it is not
\* one too many.
LEMMA Room ==
    ASSUME FetchInv
    PROVE  /\ HasRoom => Cardinality(Busy) < MaxThreads
           /\ Cardinality(Busy \cap Fetches) <= fetching
<1>1. ASSUME HasRoom PROVE Cardinality(Busy) < MaxThreads
  <2>1. PICK w \in Workers : \A r \in Requests : ~With(w, r)
    BY <1>1 DEF HasRoom
  <2>2. /\ Cardinality(Workers \ {w}) \in Nat /\ Cardinality(Busy) \in Nat
        /\ Cardinality(Busy) <= Cardinality(Workers \ {w})
    <3>1. \A r \in Busy : \A v \in Workers : With(v, r) => v \in Workers \ {w}
      BY <2>1 DEF Busy
    <3> QED BY <3>1, Injected
  <2>3. IsFiniteSet(Workers) /\ Cardinality(Workers) = MaxThreads
    BY ThreadAssumption, FS_Interval DEF Workers
  <2>4. Cardinality(Workers \ {w}) = MaxThreads - 1
    BY <2>1, <2>3, FS_RemoveElement
  <2> QED BY <2>2, <2>4, ThreadAssumption
<1>2. Cardinality(Busy \cap Fetches) <= fetching
  <2>1. \A r \in Busy \cap Fetches : \A w \in Workers : With(w, r) => w \in Fetching
    BY DEF Fetching, FetchAt
  <2>2. Cardinality(Busy \cap Fetches) <= Cardinality(Fetching)
    BY <2>1, Injected DEF Fetching
  <2> QED BY <2>2 DEF FetchInv, FetchesKnown
<1> QED BY <1>1, <1>2

\* The passes over the queues take a request up if there is room.
LEMMA PassMoves ==
    ASSUME FetchInv, DispatchFetch \/ DispatchCheck \/ DispatchPing
    PROVE  \/ Stay
           \/ \E x \in Requests : /\ Goes(x, "waiting", "running") /\ HasRoom
                                  /\ x \in Fetches => fetching < MaxFetches
<1>1. ASSUME NEW k \in Kinds, Dispatch(k), mgr' = mgr,
             fetching' = IF k = "fetch" THEN fetching + 1 ELSE fetching,
             k = "fetch" => fetching < MaxFetches
      PROVE  \/ Stay
             \/ \E x \in Requests : /\ Goes(x, "waiting", "running") /\ HasRoom
                                    /\ x \in Fetches => fetching < MaxFetches
  <2>1. CASE Stay
    BY <2>1
  <2>2. CASE \E x \in JobsOf(k) : Goes(x, "waiting", "running") /\ HasRoom
    <3>1. PICK x \in JobsOf(k) : Goes(x, "waiting", "running") /\ HasRoom
      BY <2>2
    <3>2. x \in Requests
      BY <3>1 DEF Goes
    <3>3. x \in Fetches => k = "fetch"
      BY <3>2, KindOf
    <3> QED BY <3>1, <3>2, <3>3, <1>1
  <2> QED BY <2>1, <2>2, <1>1, DispatchOk DEF HasRoom
<1>2. CASE DispatchFetch
  BY <1>2, <1>1, "fetch" \in Kinds DEF DispatchFetch, MayFetch, Kinds
<1>3. CASE DispatchCheck
  BY <1>3, <1>1, "exists" \in Kinds DEF DispatchCheck, Kinds
<1>4. CASE DispatchPing
  BY <1>4, <1>1, "ping" \in Kinds DEF DispatchPing, Kinds
<1> QED BY <1>2, <1>3, <1>4

\* What a step does to the requests.
LEMMA StepMoves ==
    ASSUME FetchInv, Next
    PROVE  \/ Stay
           \/ \E x \in Requests : \/ Goes(x, "new", "waiting")
                                  \/ Goes(x, "running", "answered")
                                  \/ Goes(x, "waiting", "gone")
                                  \/ Goes(x, "answered", "gone")
           \/ \E x \in Requests : /\ Goes(x, "waiting", "running") /\ HasRoom
                                  /\ x \in Fetches => fetching < MaxFetches
<1>1. CASE Call
  <2>1. ASSUME NEW r \in Requests,
               Queue(r) \/ GetResult(r) \/ ShowProgress(r) \/ CancelComplete(r) \/ CancelPending(r)
        PROVE  Stay \/ Goes(r, "new", "waiting") \/ Goes(r, "answered", "gone")
    BY <2>1, QueueOk, GetResultOk, ShowProgressOk, CancelCompleteOk, CancelPendingOk
  <2> QED BY <2>1, <1>1, StartPingsOk DEF Call
<1>2. CASE Client
  BY <1>2, QueuePingOk, WaitForPingOk, SendCancelOk, FinishOk, ClientEventOk DEF Client
<1>3. CASE Manager
  BY <1>3, PassMoves, SleepOk, MgrEventOk DEF Manager
<1>4. CASE \E w \in Workers : Worker(w)
  BY <1>4, WorkerCancelledOk, StartJobOk, TransferOver, PingDoneOk, ReturnOk DEF Worker
<1> QED BY <1>1, <1>2, <1>3, <1>4 DEF Next

\* The place of a request is its phase.
LEMMA PhaseAt == FetchInv => \A r \in Requests : Phase(r) = At(r)
<1> SUFFICES ASSUME FetchInv, NEW r \in Requests PROVE Phase(r) = At(r)
  OBVIOUS
<1>1. /\ Queued(r) <=> InMsg(r) \/ InQueue(r)
      /\ Working(r) <=> InWork(r)
      /\ Sent(r) <=> InSent(r)
      /\ answer[r] # None <=> InAnswer(r)
  BY Places DEF InAnswer
<1>2. OnePlace(r) /\ active \subseteq issued
  BY DEF FetchInv, FetchType, ClientType
<1>3. r \in issued \ active /\ client.id # r <=> r \in issued /\ ~Known(r)
  BY DEF Known
<1>4. ~Known(r) => ~Queued(r) /\ ~Working(r) /\ ~Sent(r) /\ answer[r] = None
  BY <1>1, <1>2 DEF OnePlace
<1>5. CASE ~Known(r)
  BY <1>1, <1>3, <1>4, <1>5 DEF Phase, At
<1>6. CASE Known(r)
  <2>1. ~(r \in issued \ active /\ client.id # r)
    BY <1>3, <1>6
  <2>a. r \in issued
    BY <1>6 DEF Known
  <2>2. /\ Queued(r) \/ Working(r) \/ Sent(r) \/ answer[r] # None
        /\ ~(Queued(r) /\ (Sent(r) \/ answer[r] # None)) /\ ~(Queued(r) /\ Working(r))
        /\ ~(Working(r) /\ (Sent(r) \/ answer[r] # None))
    BY <1>1, <1>2, <1>6 DEF OnePlace
  <2>3. CASE Sent(r) \/ answer[r] # None
    BY <2>1, <2>2, <2>3, <2>a, <1>1, <1>6 DEF Phase, At
  <2>4. CASE Queued(r)
    BY <2>1, <2>2, <2>4, <2>a, <1>1, <1>6 DEF Phase, At
  <2>5. CASE ~Queued(r) /\ Working(r)
    BY <2>1, <2>2, <2>5, <2>a, <1>1, <1>6 DEF Phase, At
  <2> QED BY <2>2, <2>3, <2>4, <2>5
<1> QED BY <1>5, <1>6

\* The requests and their phases, as the service sees them.
phases == [r \in Requests |-> Phase(r)]

\* One request goes on in the service.
LEMMA MoveRefines ==
    ASSUME FetchInv, \A r \in Requests : Phase(r)' = At(r)',
           NEW x, NEW from, NEW to, Goes(x, from, to)
    PROVE  x \in Requests /\ Service!Move(x, from, to)
<1>1. /\ x \in Requests /\ At(x) = from /\ At(x)' = to
      /\ \A r \in Requests : r # x => At(r)' = At(r)
  BY DEF Goes
<1>2. Phase(x) = from /\ Phase(x)' = to /\ \A r \in Requests : r # x => Phase(r)' = Phase(r)
  BY <1>1, PhaseAt
<1>3. phases' = [phases EXCEPT ![x] = to] /\ phases[x] = from
  BY <1>1, <1>2 DEF phases
<1> QED BY <1>1, <1>3 DEF phases, Service!Move

\* In the beginning nothing was asked of the service.
LEMMA InitRefines == Init => Service!Init
<1> SUFFICES ASSUME Init PROVE Service!Init
  OBVIOUS
<1>1. \A r \in Requests : Phase(r) = "new"
  <2>1. FetchInv /\ issued = {}
    BY InitOk DEF Init
  <2>2. \A r \in Requests : At(r) = "new"
    BY <2>1 DEF At, Known
  <2> QED BY <2>1, <2>2, PhaseAt
<1>2. Requests = Service!Requests
  BY DEF Requests, Service!Requests
<1> QED BY <1>1, <1>2 DEF Service!Init

\* Every step is a step of the service, or none.
LEMMA StepRefines ==
    ASSUME FetchInv, \A r \in Requests : Phase(r)' = At(r)', [Next]_vars
    PROVE  [Service!Next]_phases
<1>1. Requests = Service!Requests
  BY DEF Requests, Service!Requests
<1>2. CASE UNCHANGED vars
  BY <1>2 DEF vars, clientVars, mgrVars, workerVars, events, phases, Phase, Queued, Working,
              Has, Assigned, Sent
<1>3. CASE Stay
  <2>1. \A r \in Requests : Phase(r)' = Phase(r)
    BY <1>3, PhaseAt DEF Stay
  <2> QED BY <2>1 DEF phases
<1>4. CASE \E x \in Requests : \/ Goes(x, "new", "waiting")
                               \/ Goes(x, "running", "answered")
                               \/ Goes(x, "waiting", "gone")
                               \/ Goes(x, "answered", "gone")
  <2>1. PICK x \in Requests : \/ Service!Move(x, "new", "waiting")
                              \/ Service!Move(x, "running", "answered")
                              \/ Service!Move(x, "waiting", "gone")
                              \/ Service!Move(x, "answered", "gone")
    BY <1>4, MoveRefines
  <2>2. Service!Ask(x) \/ Service!Answer(x) \/ Service!Forget(x)
    BY <2>1 DEF Service!Ask, Service!Answer, Service!Forget
  <2> QED BY <2>2, <1>1 DEF Service!Next
<1>5. CASE \E x \in Requests : /\ Goes(x, "waiting", "running") /\ HasRoom
                               /\ x \in Fetches => fetching < MaxFetches
  <2>1. PICK x \in Requests : /\ Goes(x, "waiting", "running") /\ HasRoom
                              /\ x \in Fetches => fetching < MaxFetches
    BY <1>5
  <2>2. Service!Running = Busy
    <3>1. \A r \in Requests : phases[r] = At(r)
      BY PhaseAt DEF phases
    <3> QED BY <3>1, <1>1 DEF Busy, Service!Running, phases
  <2>3. Cardinality(Busy) < MaxThreads
    BY <2>1, Room
  <2>4. x \in Fetches => Cardinality(Busy \cap Fetches) < MaxFetches
    <3>1. Cardinality(Busy \cap Fetches) \in Nat /\ Cardinality(Busy \cap Fetches) <= fetching
      <4>1. \A r \in Busy \cap Fetches : \A w \in Workers : With(w, r) => w \in Workers
        OBVIOUS
      <4> QED BY <4>1, Room, Injected
    <3>2. fetching \in Nat /\ MaxFetches \in Nat
      BY ThreadAssumption DEF FetchInv, FetchType, MgrType
    <3> QED BY <2>1, <3>1, <3>2
  <2>5. Service!Start(x)
    <3>1. Service!Move(x, "waiting", "running")
      BY <2>1, MoveRefines
    <3>2. \A S : Service!Cardinality(S) = Cardinality(S)
      BY DEF Service!Cardinality, Cardinality
    <3> QED BY <3>1, <3>2, <2>2, <2>3, <2>4 DEF Service!Start
  <2> QED BY <2>1, <2>5, <1>1 DEF Service!Next
<1> QED BY <1>2, <1>3, <1>4, <1>5, StepMoves

\* Whatever is asked for, cancelled or abandoned, in any order of the events of the three
\* kinds of threads, the service keeps its promise.
THEOREM FetchRefines == Spec => ServiceSpec
<1>1. Init => Service!Init
  BY InitRefines
<1>2. FetchInv /\ FetchInv' /\ [Next]_vars => [Service!Next]_phases
  <2>1. FetchInv' => (\A r \in Requests : Phase(r) = At(r))'
    BY PhaseAt, PTL
  <2> QED BY <2>1, StepRefines
<1> QED BY <1>1, <1>2, FetchInvariant, PTL DEF Spec, ServiceSpec, Service!Spec, phases
=============================================================================
