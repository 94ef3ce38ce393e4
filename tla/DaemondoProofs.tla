--------------------------- MODULE DaemondoProofs ---------------------------
(***************************************************************************)
(* What is true of daemondo for any number of processes, signals and       *)
(* events.                                                                 *)
(***************************************************************************)
EXTENDS Daemondo, SequenceTheorems, TLAPS

Record ==
    [role : {"daemon", "start", "restart", "stop", "done"}, child : BOOLEAN,
     group : BOOLEAN, state : {"runs", "zombie", "dead"}, wrote : BOOLEAN]
DaemondoType == proc \in Seq(Record)

\* What is reported as ended has ended.
ReportsTrue == \A p \in kqueue : p \in Pids /\ ~Alive(p)

\* What can be left of Start, Stop and Restart.
Lists ==
    {<<"start">>, <<"await", "monitor">>, <<"monitor">>, <<"poll">>,
     <<"stop", "start">>, <<"await", "start">>, <<"await", "forget", "start">>,
     <<"forget", "start">>, <<"restart">>,
     <<"stop">>, <<"await">>, <<"await", "forget">>, <<"forget">>, <<>>,
     <<"exited">>}
StepsType == steps \in Lists

\* A pid that is waited for, registered or kept is one of a process.
PidsKnown ==
    /\ Step("monitor") \/ Step("await") => awaited \in Pids
    /\ runningPid \in Pids \cup {0, -1}

\* After SIGTERM only the rest of Stop is left.
StopLists ==
    {<<"stop">>, <<"await">>, <<"await", "forget">>, <<"forget">>, <<>>,
     <<"exited">>}
OnlyStops == terminating => steps \in StopLists

\* With an executable and no commands, the only child is the process that is
\* waited for or registered, or the daemon; there is none when one is started.
ExecOnly == config.style = "exec" /\ ~config.stop /\ ~config.restart
ExecLists ==
    {<<"start">>, <<"monitor">>, <<>>, <<"exited">>, <<"stop">>, <<"await">>,
     <<"stop", "start">>, <<"await", "start">>}
Kid(p) == p \in Pids /\ Alive(p) /\ proc[p].child
Current == IF Step("monitor") \/ Step("await") THEN awaited ELSE runningPid
KidsKnown == \A p : Kid(p) => ~Step("start") /\ p = Current

DaemondoInv ==
    /\ DaemondoType /\ StepsType /\ PidsKnown /\ ReportsTrue /\ OnlyStops
    /\ ExecOnly => steps \in ExecLists /\ KidsKnown

-----------------------------------------------------------------------------
(* Processes.                                                              *)

\* The processes after one has ended: the others are as they were.
LEMMA EndedProc ==
  ASSUME NEW ps \in Seq(Record), NEW p \in DOMAIN ps
  PROVE  /\ Ended(ps, p) \in Seq(Record)
         /\ Len(Ended(ps, p)) = Len(ps)
         /\ DOMAIN Ended(ps, p) = DOMAIN ps
         /\ Ended(ps, p)[p].state # "runs"
         /\ \A q \in DOMAIN ps : 
               /\ Ended(ps, p)[q].child = ps[q].child
               /\ q # p => Ended(ps, p)[q] = ps[q]
<1> DEFINE r == [ps[p] EXCEPT !.state = IF ps[p].child THEN "zombie" ELSE "dead"]
<1>1. Ended(ps, p) = [ps EXCEPT ![p] = r]
  BY DEF Ended
<1>2. p \in 1..Len(ps) /\ ps[p] \in Record
  BY ElementOfSeq, LenProperties
<1>3. r \in Record /\ r.state # "runs" /\ r.child = ps[p].child
  BY <1>2 DEF Record
<1>4. /\ Ended(ps, p) \in Seq(Record)
      /\ Len(Ended(ps, p)) = Len(ps)
  BY <1>1, <1>2, <1>3, ExceptSeq
<1>5. DOMAIN Ended(ps, p) = DOMAIN ps
  BY <1>1
<1>6. \A q \in DOMAIN ps : Ended(ps, p)[q] = IF q = p THEN r ELSE ps[q]
  BY <1>1
<1> HIDE DEF r
<1> QED
  BY <1>3, <1>4, <1>5, <1>6

\* A process that changes is still one of them.
LEMMA ChangedProc ==
  ASSUME NEW ps \in Seq(Record), NEW p \in DOMAIN ps, NEW r \in Record
  PROVE  /\ [ps EXCEPT ![p] = r] \in Seq(Record)
         /\ Len([ps EXCEPT ![p] = r]) = Len(ps)
         /\ DOMAIN [ps EXCEPT ![p] = r] = DOMAIN ps
BY ExceptSeq, LenProperties

\* A process is added behind the others.
LEMMA NewProc ==
  ASSUME NEW ps \in Seq(Record), NEW r \in Record
  PROVE  /\ Append(ps, r) \in Seq(Record)
         /\ Len(Append(ps, r)) = Len(ps) + 1
         /\ DOMAIN Append(ps, r) = DOMAIN ps \cup {Len(ps) + 1}
         /\ Append(ps, r)[Len(ps) + 1] = r
         /\ \A q \in DOMAIN ps : Append(ps, r)[q] = ps[q]
         /\ Len(ps) + 1 \notin DOMAIN ps
<1>1. /\ Append(ps, r) \in Seq(Record)
      /\ Len(Append(ps, r)) = Len(ps) + 1
      /\ \A i \in 1..Len(ps) : Append(ps, r)[i] = ps[i]
      /\ Append(ps, r)[Len(ps) + 1] = r
  BY AppendProperties
<1>2. DOMAIN ps = 1..Len(ps) /\ Len(ps) \in Nat
  BY LenProperties
<1>3. DOMAIN Append(ps, r) = 1..(Len(ps) + 1)
  BY <1>1, LenProperties
<1> QED
  BY <1>1, <1>2, <1>3

-----------------------------------------------------------------------------
(* The steps that are left.                                                *)

Names == {"start", "await", "monitor", "poll", "stop", "forget", "restart",
          "exited"}

\* Steps put before one that is left: one and one.
LEMMA PairOf ==
  ASSUME NEW a \in Names, NEW b \in Names
  PROVE  <<a>> \o <<b>> = <<a, b>>
<1>1. /\ <<a>> \in Seq(Names) /\ <<b>> \in Seq(Names)
      /\ <<a, b>> \in Seq(Names)
      /\ Len(<<a>>) = 1 /\ Len(<<b>>) = 1 /\ Len(<<a, b>>) = 2
  OBVIOUS
<1>2. \A i \in 1..2 : (<<a>> \o <<b>>)[i] = <<a, b>>[i]
  BY ConcatProperties, <1>1
<1>3. <<a>> \o <<b>> \in Seq(Names) /\ Len(<<a>> \o <<b>>) = 2
  BY ONLY ConcatProperties, <1>1
<1> QED
  BY ONLY <1>1, <1>2, <1>3, SeqEqual

\* Two and one.
LEMMA TripleOf ==
  ASSUME NEW a \in Names, NEW b \in Names, NEW c \in Names
  PROVE  <<a, b>> \o <<c>> = <<a, b, c>>
<1>1. /\ <<a, b>> \in Seq(Names) /\ <<c>> \in Seq(Names)
      /\ <<a, b, c>> \in Seq(Names)
      /\ Len(<<a, b>>) = 2 /\ Len(<<c>>) = 1 /\ Len(<<a, b, c>>) = 3
  OBVIOUS
<1>2. \A i \in 1..3 : (<<a, b>> \o <<c>>)[i] = <<a, b, c>>[i]
  BY ConcatProperties, <1>1
<1>3. <<a, b>> \o <<c>> \in Seq(Names) /\ Len(<<a, b>> \o <<c>>) = 3
  BY ONLY ConcatProperties, <1>1
<1> QED
  BY ONLY <1>1, <1>2, <1>3, SeqEqual

\* Steps put before none, or none before some.
LEMMA WithNothing ==
  ASSUME NEW a \in Names, NEW b \in Names
  PROVE  /\ <<>> \o <<a>> = <<a>> /\ <<>> \o <<a, b>> = <<a, b>>
         /\ <<a>> \o <<>> = <<a>> /\ <<a, b>> \o <<>> = <<a, b>>
<1>1. <<a>> \in Seq(Names) /\ <<a, b>> \in Seq(Names)
  OBVIOUS
<1> QED
  BY <1>1, ConcatEmptySeq

\* What Then does where the rest of the steps is empty, or starts again.
LEMMA Concats ==
  /\ <<>> \o <<>> = <<>> /\ <<>> \o <<"start">> = <<"start">>
  /\ <<>> \o <<"monitor">> = <<"monitor">>
  /\ <<>> \o <<"forget">> = <<"forget">>
  /\ <<>> \o <<"forget", "start">> = <<"forget", "start">>
  /\ <<"await">> \o <<>> = <<"await">>
  /\ <<"await">> \o <<"start">> = <<"await", "start">>
  /\ <<"await", "forget">> \o <<>> = <<"await", "forget">>
  /\ <<"await", "forget">> \o <<"start">> = <<"await", "forget", "start">>
  /\ <<"await", "monitor">> \o <<>> = <<"await", "monitor">>
  /\ <<"monitor">> \o <<>> = <<"monitor">>
  /\ <<"poll">> \o <<>> = <<"poll">>
<1>1. <<>> \o <<>> = <<>>
  OBVIOUS
<1>2. <<"await">> \o <<"start">> = <<"await", "start">>
  BY PairOf DEF Names
<1>3. <<"await", "forget">> \o <<"start">> = <<"await", "forget", "start">>
  BY TripleOf DEF Names
<1>4. {"start", "monitor", "forget", "await", "poll"} \subseteq Names
  BY DEF Names
<1> QED
  BY <1>1, <1>2, <1>3, <1>4, WithNothing

\* What can be left when start comes next.
LEMMA AfterStart ==
  ASSUME StepsType, Step("start") PROVE steps = <<"start">>
BY DEF StepsType, Lists, Step
\* What can be left when poll comes next.
LEMMA AfterPoll ==
  ASSUME StepsType, Step("poll") PROVE steps = <<"poll">>
BY DEF StepsType, Lists, Step
\* What can be left when monitor comes next.
LEMMA AfterMonitor ==
  ASSUME StepsType, Step("monitor") PROVE steps = <<"monitor">>
BY DEF StepsType, Lists, Step
\* What can be left when restart comes next.
LEMMA AfterRestart ==
  ASSUME StepsType, Step("restart") PROVE steps = <<"restart">>
BY DEF StepsType, Lists, Step
\* What can be left when stop comes next.
LEMMA AfterStop ==
  ASSUME StepsType, Step("stop") PROVE steps \in {<<"stop">>, <<"stop", "start">>}
BY DEF StepsType, Lists, Step
\* What can be left when forget comes next.
LEMMA AfterForget ==
  ASSUME StepsType, Step("forget")
  PROVE  steps \in {<<"forget">>, <<"forget", "start">>}
BY DEF StepsType, Lists, Step
\* What can be left when await comes next.
LEMMA AfterAwait ==
  ASSUME StepsType, Step("await")
  PROVE  steps \in {<<"await">>, <<"await", "start">>, <<"await", "monitor">>,
                    <<"await", "forget">>, <<"await", "forget", "start">>}
BY DEF StepsType, Lists, Step

\* A step is done and adds nothing.
LEMMA TailOnly ==
  ASSUME Then(<<>>)
  PROVE  /\ steps = <<"stop">> => steps' = <<>>
         /\ steps = <<"forget">> => steps' = <<>>
         /\ steps = <<"await">> => steps' = <<>>
         /\ steps = <<"start">> => steps' = <<>>
         /\ steps = <<"poll">> => steps' = <<>>
         /\ steps = <<"monitor">> => steps' = <<>>
         /\ steps = <<"restart">> => steps' = <<>>
         /\ steps = <<"stop", "start">> => steps' = <<"start">>
         /\ steps = <<"forget", "start">> => steps' = <<"start">>
         /\ steps = <<"await", "start">> => steps' = <<"start">>
         /\ steps = <<"await", "monitor">> => steps' = <<"monitor">>
         /\ steps = <<"await", "forget">> => steps' = <<"forget">>
         /\ steps = <<"await", "forget", "start">> => steps' = <<"forget", "start">>
<1>1. steps' = <<>> \o Tail(steps)
  BY DEF Then
<1>2. \A a : Tail(<<a>>) = <<>>
  OBVIOUS
<1>3. \A a, b : Tail(<<a, b>>) = <<b>>
  OBVIOUS
<1>4. \A a, b, c : Tail(<<a, b, c>>) = <<b, c>>
  OBVIOUS
<1>5. /\ Tail(<<"stop", "start">>) = <<"start">>
      /\ Tail(<<"forget", "start">>) = <<"start">>
      /\ Tail(<<"await", "start">>) = <<"start">>
      /\ Tail(<<"await", "monitor">>) = <<"monitor">>
      /\ Tail(<<"await", "forget">>) = <<"forget">>
  BY <1>3
<1>6. Tail(<<"await", "forget", "start">>) = <<"forget", "start">>
  BY <1>4
<1>7. \A n : steps = <<n>> => steps' = <<>>
  BY <1>1, <1>2, Concats
<1> QED
  BY <1>1, <1>5, <1>6, <1>7, Concats

\* Start and Stop add the wait for a process, and what follows it.
LEMMA TailAwait ==
  ASSUME NEW l \in {<<"await">>, <<"await", "forget">>, <<"await", "monitor">>,
                    <<"monitor">>, <<"poll">>},
         Then(l)
  PROVE  /\ steps \in {<<"stop">>, <<"start">>, <<"poll">>, <<"restart">>} =>
               steps' = l
         /\ steps = <<"stop", "start">> =>
               /\ l = <<"await">> => steps' = <<"await", "start">>
               /\ l = <<"await", "forget">> =>
                     steps' = <<"await", "forget", "start">>
<1>1. steps' = l \o Tail(steps)
  BY DEF Then
<1>2. \A a : Tail(<<a>>) = <<>>
  OBVIOUS
<1>3. Tail(<<"stop", "start">>) = <<"start">>
  OBVIOUS
<1> QED
  BY <1>1, <1>2, <1>3, Concats

-----------------------------------------------------------------------------
(* The environment.                                                        *)

\* No process comes to life, and what is lost is not alive: the conjuncts that
\* depend on the processes are kept if the thread does nothing else.
LEMMA Passive ==
  ASSUME DaemondoInv, UNCHANGED <<config, steps, awaited, terminating>>,
         DaemondoType', ReportsTrue', Pids \subseteq Pids',
         \A p : Kid(p)' => Kid(p),
         \/ runningPid' = runningPid
         \/ runningPid' = 0 /\ \A p : Kid(p)' => p # runningPid
  PROVE  DaemondoInv'
<1>1. OnlyStops' /\ StepsType'
  BY DEF DaemondoInv, OnlyStops, StepsType
<1>2. PidsKnown'
  BY DEF DaemondoInv, PidsKnown, Step
<1>3. ASSUME ExecOnly' PROVE steps' \in ExecLists /\ KidsKnown'
  <2>1. ExecOnly /\ steps \in ExecLists /\ KidsKnown
    BY <1>3 DEF DaemondoInv, ExecOnly
  <2> QED
    BY <2>1 DEF KidsKnown, Current, Step
<1> QED
  BY <1>1, <1>2, <1>3 DEF DaemondoInv

\* A process ends, whoever ends it.
LEMMA EndReported ==
  ASSUME DaemondoInv, NEW p \in Pids, proc' = Ended(proc, p), Report(p)
  PROVE  /\ DaemondoType' /\ ReportsTrue' /\ Pids' = Pids
         /\ \A q : Kid(q)' => Kid(q) /\ q # p
<1>1. proc \in Seq(Record) /\ p \in DOMAIN proc
  BY DEF DaemondoInv, DaemondoType, Pids
<1>2. /\ proc' \in Seq(Record) /\ DOMAIN proc' = DOMAIN proc
      /\ proc'[p].state # "runs"
      /\ \A q \in DOMAIN proc : q # p => proc'[q] = proc[q]
  BY <1>1, EndedProc
<1>3. kqueue' \subseteq kqueue \cup {p}
  BY DEF Report
<1> QED
  BY <1>1, <1>2, <1>3
  DEF DaemondoInv, DaemondoType, ReportsTrue, Pids, Alive, Kid

\* A process ends by itself, is killed by a command, or by daemondo.
LEMMA EndsOk ==
  ASSUME DaemondoInv, NEW p \in Pids, Ends(p)
  PROVE  DaemondoInv'
BY EndReported, Passive DEF Ends, own

\* A command kills a daemon.
LEMMA KillsOk ==
  ASSUME DaemondoInv, NEW p \in Pids, NEW q \in Pids, Kills(p, q)
  PROVE  DaemondoInv'
BY EndReported, Passive DEF Kills, own

\* daemondo kills the process it waits for.
LEMMA KillChildOk ==
  ASSUME DaemondoInv, KillChild
  PROVE  DaemondoInv'
<1>1. awaited \in Pids
  BY DEF KillChild, DaemondoInv, PidsKnown
<1> QED
  BY <1>1, EndReported, Passive DEF KillChild, own

\* A daemon that leaves the process group is as alive as before.
LEMMA SetsidOk ==
  ASSUME DaemondoInv, NEW p \in Pids, Setsid(p)
  PROVE  DaemondoInv'
<1> DEFINE r == [proc[p] EXCEPT !.group = FALSE]
<1>1. proc \in Seq(Record) /\ p \in DOMAIN proc /\ proc[p] \in Record
  BY ElementOfSeq, LenProperties DEF DaemondoInv, DaemondoType, Pids
<1>2. r \in Record /\ r.state = proc[p].state /\ r.child = proc[p].child
  BY <1>1 DEF Record
<1>3. proc' = [proc EXCEPT ![p] = r]
  BY DEF Setsid
<1>4. proc' \in Seq(Record) /\ DOMAIN proc' = DOMAIN proc
  BY <1>1, <1>2, <1>3, ChangedProc
<1>5. \A q \in Pids : proc'[q].state = proc[q].state
                   /\ proc'[q].child = proc[q].child
  BY <1>1, <1>2, <1>3 DEF Pids
<1>6. UNCHANGED <<config, steps, awaited, terminating, runningPid, kqueue>>
  BY DEF Setsid, own
<1>7. DaemondoType' /\ ReportsTrue' /\ Pids' = Pids /\ \A q : Kid(q)' => Kid(q)
  BY <1>4, <1>5, <1>6
  DEF DaemondoInv, DaemondoType, ReportsTrue, Pids, Alive, Kid
<1> QED
  BY <1>6, <1>7, Passive

\* A command leaves a daemon behind, which is no child.
LEMMA SpawnsOk ==
  ASSUME DaemondoInv, NEW p \in Pids, Spawns(p)
  PROVE  DaemondoInv'
<1> DEFINE r == [proc[p] EXCEPT !.role = "done"]
           ps == [proc EXCEPT ![p] = r]
<1>1. proc \in Seq(Record) /\ p \in DOMAIN proc /\ proc[p] \in Record
  BY ElementOfSeq, LenProperties DEF DaemondoInv, DaemondoType, Pids
<1>2. r \in Record /\ r.state = proc[p].state /\ r.child = proc[p].child
  BY <1>1 DEF Record
<1>3. Process("daemon", FALSE) \in Record /\ ~Process("daemon", FALSE).child
  BY DEF Process, Record
<1>4. ps \in Seq(Record) /\ DOMAIN ps = DOMAIN proc
  BY <1>1, <1>2, ChangedProc
<1>5. \A q \in Pids : ps[q].state = proc[q].state /\ ps[q].child = proc[q].child
  BY <1>1, <1>2 DEF Pids
<1>6. proc' = Append(ps, Process("daemon", FALSE))
  BY DEF Spawns
<1> HIDE DEF ps
<1>7. /\ proc' \in Seq(Record) /\ Pids' = Pids \cup {Len(ps) + 1}
      /\ Len(ps) + 1 \notin Pids
      /\ proc'[Len(ps) + 1] = Process("daemon", FALSE)
      /\ \A q \in Pids : proc'[q] = ps[q]
  <2> DEFINE d == Process("daemon", FALSE)
  <2>1. d \in Record /\ proc' = Append(ps, d)
    BY <1>3, <1>6
  <2> HIDE DEF d
  <2>2. /\ Append(ps, d) \in Seq(Record)
        /\ DOMAIN Append(ps, d) = DOMAIN ps \cup {Len(ps) + 1}
        /\ Append(ps, d)[Len(ps) + 1] = d
        /\ \A q \in DOMAIN ps : Append(ps, d)[q] = ps[q]
        /\ Len(ps) + 1 \notin DOMAIN ps
    BY ONLY <1>4, <2>1, NewProc
  <2> QED
    BY <1>4, <2>1, <2>2 DEF Pids, d
<1>8. UNCHANGED <<config, steps, awaited, terminating, runningPid, kqueue>>
  BY DEF Spawns, own
<1>9. DaemondoType' /\ ReportsTrue' /\ Pids \subseteq Pids'
  BY <1>5, <1>7, <1>8 DEF DaemondoInv, DaemondoType, ReportsTrue, Alive
<1>10. \A q : Kid(q)' => Kid(q)
  BY <1>3, <1>5, <1>7 DEF Alive, Kid
<1> QED
  BY <1>8, <1>9, <1>10, Passive

\* A daemon that writes the pid file is as alive as before.
LEMMA WritesPidFileOk ==
  ASSUME DaemondoInv, NEW p \in Pids, WritesPidFile(p)
  PROVE  DaemondoInv'
<1> DEFINE r == [proc[p] EXCEPT !.wrote = TRUE]
<1>1. proc \in Seq(Record) /\ p \in DOMAIN proc /\ proc[p] \in Record
  BY ElementOfSeq, LenProperties DEF DaemondoInv, DaemondoType, Pids
<1>2. r \in Record /\ r.state = proc[p].state /\ r.child = proc[p].child
  BY <1>1 DEF Record
<1>3. proc' = [proc EXCEPT ![p] = r]
  BY DEF WritesPidFile
<1>4. proc' \in Seq(Record) /\ DOMAIN proc' = DOMAIN proc
  BY <1>1, <1>2, <1>3, ChangedProc
<1>5. \A q \in Pids : proc'[q].state = proc[q].state
                   /\ proc'[q].child = proc[q].child
  BY <1>1, <1>2, <1>3 DEF Pids
<1>6. UNCHANGED <<config, steps, awaited, terminating, runningPid, kqueue>>
  BY DEF WritesPidFile, own
<1>7. DaemondoType' /\ ReportsTrue' /\ Pids' = Pids /\ \A q : Kid(q)' => Kid(q)
  BY <1>4, <1>5, <1>6
  DEF DaemondoInv, DaemondoType, ReportsTrue, Pids, Alive, Kid
<1> QED
  BY <1>6, <1>7, Passive

\* Nothing the daemons and the commands do breaks the invariant.
LEMMA EnvironmentOk ==
  ASSUME DaemondoInv, Environment
  PROVE  DaemondoInv'
BY EndsOk, SetsidOk, WritesPidFileOk, SpawnsOk, KillsOk DEF Environment

-----------------------------------------------------------------------------
(* Deaths.                                                                 *)

\* Children that are collected have ended, the daemon among them or not.
LEMMA CheckChildrenOk ==
  ASSUME DaemondoInv, CheckChildren
  PROVE  DaemondoInv'
<1> DEFINE dead == {p \in Pids : Zombie(p) /\ proc[p].group}
<1>1. proc \in Seq(Record) /\ Pids = 1..Len(proc) /\ Len(proc) \in Nat
  BY LenProperties DEF DaemondoInv, DaemondoType, Pids
<1>2. \A p \in Pids : proc[p] \in Record
  BY <1>1, ElementOfSeq
<1>3. /\ Pids' = Pids
      /\ \A p \in Pids : proc'[p] = IF p \in dead
                              THEN [proc[p] EXCEPT !.state = "dead"]
                              ELSE proc[p]
  BY DEF CheckChildren, Pids
<1>4. \A p \in Pids : proc'[p] \in Record /\ proc'[p].child = proc[p].child
  BY <1>2, <1>3 DEF Record
<1>5. \A p \in Pids : Alive(p)' => Alive(p) /\ p \notin dead
  BY <1>2, <1>3 DEF Record, Alive, Zombie
<1>6. runningPid' = runningPid \/ (runningPid' = 0 /\ runningPid \in dead)
  BY DEF CheckChildren, ProcessChildDeath
<1>7. UNCHANGED <<config, steps, awaited, terminating, kqueue>>
  BY DEF CheckChildren
<1>8. proc' \in Seq(Record)
  <2>1. proc' = [i \in 1..Len(proc) |->
                    IF i \in dead THEN [proc[i] EXCEPT !.state = "dead"]
                    ELSE proc[i]]
    BY <1>1 DEF CheckChildren
  <2>2. \A i \in 1..Len(proc) :
            (IF i \in dead THEN [proc[i] EXCEPT !.state = "dead"]
             ELSE proc[i]) \in Record
    BY <1>1, <1>2 DEF Record
  <2> HIDE DEF dead
  <2> QED
    BY <1>1, <2>1, <2>2, IsASeq
<1> HIDE DEF dead
<1>9. \A p : Kid(p)' => Kid(p) /\ p \notin dead
  BY <1>3, <1>4, <1>5 DEF Kid
<1>10. ReportsTrue'
  BY <1>3, <1>5, <1>7 DEF DaemondoInv, ReportsTrue
<1> QED
  BY <1>3, <1>6, <1>7, <1>8, <1>9, <1>10, Passive DEF DaemondoType

\* An exit that is reported is that of a process that has ended.
LEMMA KQueueCallBackOk ==
  ASSUME DaemondoInv, KQueueCallBack
  PROVE  DaemondoInv'
<1>1. PICK p \in kqueue : kqueue' = kqueue \ {p} /\ ProcessChildDeath({p})
  BY DEF KQueueCallBack
<1>2. UNCHANGED <<config, steps, awaited, terminating, proc>>
  BY DEF KQueueCallBack
<1>3. DaemondoType' /\ ReportsTrue' /\ Pids' = Pids /\ \A q : Kid(q)' => Kid(q)
  BY <1>1, <1>2 DEF DaemondoInv, DaemondoType, ReportsTrue, Pids, Alive, Kid
<1>4. \A q : Kid(q)' => q # p
  BY <1>3 DEF DaemondoInv, ReportsTrue, Kid
<1>5. runningPid' = runningPid \/ (runningPid' = 0 /\ runningPid = p)
  BY <1>1 DEF ProcessChildDeath
<1> QED
  BY <1>2, <1>3, <1>4, <1>5, Passive

\* wait4 has returned: the process that was waited for is no living child.
LEMMA WaitChildDeathOk ==
  ASSUME DaemondoInv, WaitChildDeath
  PROVE  DaemondoInv'
<1> DEFINE r == [proc[awaited] EXCEPT !.state =
                    IF Zombie(awaited) THEN "dead" ELSE @]
<1>1. /\ proc \in Seq(Record) /\ awaited \in DOMAIN proc
      /\ proc[awaited] \in Record
  BY ElementOfSeq, LenProperties
  DEF DaemondoInv, DaemondoType, PidsKnown, Pids, WaitChildDeath
<1>2. /\ r \in Record /\ r.child = proc[awaited].child
      /\ r.state = "runs" => proc[awaited].state = "runs"
  BY <1>1 DEF Record
<1>3. proc' = [proc EXCEPT ![awaited] = r]
  BY DEF WaitChildDeath
<1>4. proc' \in Seq(Record) /\ Pids' = Pids
  BY <1>1, <1>2, <1>3, ChangedProc DEF Pids
<1>5. \A q \in Pids : /\ proc'[q].state = "runs" => proc[q].state = "runs"
                     /\ proc'[q].child = proc[q].child
  BY <1>1, <1>2, <1>3 DEF Pids
<1>6. \A q : Kid(q)' => Kid(q) /\ q # awaited
  BY <1>4, <1>5 DEF WaitChildDeath, Kid, Alive
<1>7. /\ UNCHANGED <<config, awaited, terminating, kqueue>>
      /\ runningPid' \in {0, runningPid}
  BY DEF WaitChildDeath, ProcessChildDeath
<1>8. DaemondoType' /\ ReportsTrue'
  BY <1>4, <1>5, <1>7
  DEF DaemondoInv, DaemondoType, ReportsTrue, Alive
<1>9. /\ steps \in {<<"await">>, <<"await", "start">>, <<"await", "monitor">>,
                    <<"await", "forget">>, <<"await", "forget", "start">>}
      /\ steps = <<"await">> => steps' = <<>>
      /\ steps = <<"await", "start">> => steps' = <<"start">>
      /\ steps = <<"await", "monitor">> => steps' = <<"monitor">>
      /\ steps = <<"await", "forget">> => steps' = <<"forget">>
      /\ steps = <<"await", "forget", "start">> => steps' = <<"forget", "start">>
  BY AfterAwait, TailOnly DEF DaemondoInv, WaitChildDeath
<1>10. StepsType'
  BY <1>9 DEF StepsType, Lists
<1>11. PidsKnown'
  BY <1>1, <1>4, <1>7 DEF DaemondoInv, PidsKnown, Pids
<1>12. OnlyStops'
  BY <1>7, <1>9 DEF DaemondoInv, OnlyStops, StopLists
<1>13. ASSUME ExecOnly' PROVE steps' \in ExecLists /\ KidsKnown'
  <2>1. steps \in ExecLists /\ KidsKnown
    BY <1>7, <1>13 DEF DaemondoInv, ExecOnly
  <2>2. \A q : ~Kid(q)'
    BY <1>6, <2>1 DEF KidsKnown, Current, WaitChildDeath
  <2>3. steps' \in ExecLists
    BY <1>9, <2>1 DEF ExecLists
  <2> QED
    BY <2>2, <2>3 DEF KidsKnown
<1> QED
  BY <1>8, <1>10, <1>11, <1>12, <1>13 DEF DaemondoInv

-----------------------------------------------------------------------------
(* Start, Stop, Restart.                                                   *)

\* fork adds one living child.
LEMMA ExecAdds ==
  ASSUME DaemondoInv, UNCHANGED kqueue,
         NEW role \in {"daemon", "start", "restart", "stop"}, Exec(role)
  PROVE  /\ DaemondoType' /\ ReportsTrue'
         /\ NewPid \notin Pids /\ Pids' = Pids \cup {NewPid}
         /\ \A q : Kid(q)' => Kid(q) \/ q = NewPid
<1> DEFINE r == Process(role, TRUE)
<1>1. r \in Record
  BY DEF Process, Record
<1>2. proc \in Seq(Record) /\ proc' = Append(proc, r)
  BY DEF DaemondoInv, DaemondoType, Exec
<1> HIDE DEF r
<1>3. /\ Append(proc, r) \in Seq(Record)
      /\ DOMAIN Append(proc, r) = DOMAIN proc \cup {Len(proc) + 1}
      /\ \A q \in DOMAIN proc : Append(proc, r)[q] = proc[q]
      /\ Len(proc) + 1 \notin DOMAIN proc
  BY ONLY <1>1, <1>2, NewProc
<1>4. /\ DaemondoType' /\ NewPid \notin Pids /\ Pids' = Pids \cup {NewPid}
      /\ \A q \in Pids : proc'[q] = proc[q]
  BY <1>2, <1>3 DEF DaemondoType, NewPid, Pids
<1>5. ReportsTrue'
  BY <1>4 DEF DaemondoInv, ReportsTrue, Alive
<1>6. \A q : Kid(q)' => Kid(q) \/ q = NewPid
  BY <1>4 DEF Kid, Alive
<1> QED
  BY <1>4, <1>5, <1>6

\* Without a change of the processes there is none of what is said of them.
LEMMA Unchanged ==
  ASSUME DaemondoInv, UNCHANGED <<proc, kqueue>>
  PROVE  /\ DaemondoType' /\ ReportsTrue' /\ Pids' = Pids
         /\ \A q : Kid(q)' <=> Kid(q)
BY DEF DaemondoInv, DaemondoType, ReportsTrue, Pids, Kid, Alive

\* Start finds no child and leaves one, or none where fork fails.
LEMMA StartOk ==
  ASSUME DaemondoInv, Start
  PROVE  DaemondoInv'
<1>1. steps = <<"start">> /\ StepsType /\ PidsKnown
  BY AfterStart DEF Start, DaemondoInv
<1>2. ~terminating /\ UNCHANGED <<config, terminating, runningPid, kqueue>>
  BY <1>1 DEF DaemondoInv, OnlyStops, StopLists, Start
<1>3. ExecOnly => \A p : ~Kid(p)
  BY DEF DaemondoInv, KidsKnown, Start
<1>4. CASE StartFails /\ UNCHANGED <<awaited, proc>>
  <2>1. steps' = <<>>
    BY <1>1, <1>4, TailOnly DEF StartFails
  <2>2. /\ DaemondoType' /\ ReportsTrue' /\ Pids' = Pids
        /\ \A q : Kid(q)' <=> Kid(q)
    BY <1>2, <1>4, Unchanged
  <2>3. PidsKnown' /\ StepsType' /\ OnlyStops'
    BY <1>1, <1>2, <2>1, <2>2
    DEF PidsKnown, Step, StepsType, Lists, OnlyStops
  <2>4. ExecOnly' => steps' \in ExecLists /\ KidsKnown'
    BY <1>2, <1>3, <2>1, <2>2 DEF ExecOnly, ExecLists, KidsKnown
  <2> QED
    BY <2>2, <2>3, <2>4 DEF DaemondoInv
<1>5. ASSUME NEW role \in {"daemon", "start"}, Exec(role), awaited' = NewPid,
             Then(CASE config.style = "none" -> <<"await", "monitor">>
                    [] config.style = "exec" -> <<"monitor">>
                    [] OTHER -> <<"poll">>)
      PROVE  DaemondoInv'
  <2>1. /\ steps' \in {<<"await", "monitor">>, <<"monitor">>, <<"poll">>}
        /\ config.style = "exec" => steps' = <<"monitor">>
    <3>1. CASE config.style = "none"
      <4>1. Then(<<"await", "monitor">>) /\ config.style # "exec"
        BY <1>5, <3>1
      <4> QED
        BY <1>1, <4>1, TailAwait
    <3>2. CASE config.style = "exec"
      <4>1. Then(<<"monitor">>)
        BY <1>5, <3>2
      <4> QED
        BY <1>1, <4>1, TailAwait
    <3>3. CASE config.style \notin {"none", "exec"}
      <4>1. Then(<<"poll">>)
        BY <1>5, <3>3
      <4> QED
        BY <1>1, <3>3, <4>1, TailAwait
    <3> QED
      BY <3>1, <3>2, <3>3
  <2>2. /\ DaemondoType' /\ ReportsTrue'
        /\ NewPid \notin Pids /\ Pids' = Pids \cup {NewPid}
        /\ \A q : Kid(q)' => Kid(q) \/ q = NewPid
    BY <1>2, <1>5, ExecAdds
  <2>3. PidsKnown' /\ StepsType' /\ OnlyStops'
    BY <1>1, <1>2, <1>5, <2>1, <2>2
    DEF PidsKnown, StepsType, Lists, OnlyStops
  <2>4. ExecOnly' => steps' = <<"monitor">> /\ \A q : Kid(q)' => q = awaited'
    BY <1>2, <1>3, <1>5, <2>1, <2>2 DEF ExecOnly
  <2>5. ExecOnly' => steps' \in ExecLists /\ KidsKnown'
    BY <2>4 DEF ExecLists, KidsKnown, Current, Step
  <2> QED
    BY <2>2, <2>3, <2>5 DEF DaemondoInv
<1> QED
  BY <1>4, <1>5 DEF Start

\* The pid file gives the pid of a process that was not dead.
LEMMA WaitForValidPidFileOk ==
  ASSUME DaemondoInv, WaitForValidPidFile
  PROVE  DaemondoInv'
<1>1. steps = <<"poll">> /\ StepsType /\ PidsKnown
  BY AfterPoll DEF WaitForValidPidFile, DaemondoInv
<1>2. /\ ~terminating /\ ~ExecOnly
      /\ UNCHANGED <<config, terminating, runningPid, kqueue, proc>>
  BY <1>1 DEF DaemondoInv, OnlyStops, StopLists, ExecLists,
              WaitForValidPidFile, world
<1>3. DaemondoType' /\ ReportsTrue' /\ Pids' = Pids
  BY <1>2, Unchanged
<1>4. \/ steps' = <<>>
      \/ steps' = <<"monitor">> /\ awaited' \in Pids
  <2>1. CASE CheckForValidPidFile # -1
    <3>1. Then(<<"monitor">>) /\ awaited' = CheckForValidPidFile
      BY <2>1 DEF WaitForValidPidFile
    <3> QED
      BY <1>1, <2>1, <3>1, TailAwait DEF CheckForValidPidFile
  <2>2. CASE CheckForValidPidFile = -1
    BY <1>1, <2>2, TailOnly DEF WaitForValidPidFile, StartFails
  <2> QED
    BY <2>1, <2>2
<1>5. PidsKnown' /\ StepsType' /\ OnlyStops' /\ ~ExecOnly'
  BY <1>1, <1>2, <1>3, <1>4
  DEF PidsKnown, Step, StepsType, Lists, OnlyStops, ExecOnly
<1> QED
  BY <1>3, <1>5 DEF DaemondoInv

\* The process that was started becomes the daemon.
LEMMA MonitorChildOk ==
  ASSUME DaemondoInv, MonitorChild
  PROVE  DaemondoInv'
<1>1. steps = <<"monitor">> /\ StepsType /\ PidsKnown /\ awaited \in Pids
  BY AfterMonitor DEF MonitorChild, DaemondoInv, PidsKnown
<1>2. /\ ~terminating
      /\ UNCHANGED <<config, terminating, awaited, kqueue, proc>>
  BY <1>1 DEF DaemondoInv, OnlyStops, StopLists, MonitorChild
<1>3. /\ DaemondoType' /\ ReportsTrue' /\ Pids' = Pids
      /\ \A q : Kid(q)' <=> Kid(q)
  BY <1>2, Unchanged
<1>4. /\ steps' = <<>> /\ runningPid' \in {-1, awaited}
      /\ config.style # "none" => runningPid' = awaited
  BY <1>1, TailOnly DEF MonitorChild
<1>5. PidsKnown' /\ StepsType' /\ OnlyStops'
  BY <1>1, <1>2, <1>3, <1>4
  DEF PidsKnown, Step, StepsType, Lists, OnlyStops
<1>6. ASSUME ExecOnly' PROVE steps' \in ExecLists /\ KidsKnown'
  <2>1. KidsKnown /\ runningPid' = awaited
    BY <1>2, <1>4, <1>6 DEF ExecOnly, DaemondoInv
  <2>2. \A q : Kid(q)' => q = runningPid'
    BY <1>1, <1>3, <2>1 DEF KidsKnown, Current, Step
  <2> QED
    BY <1>4, <2>2 DEF ExecLists, KidsKnown, Current, Step
<1> QED
  BY <1>3, <1>5, <1>6 DEF DaemondoInv

\* Stop waits for the daemon, or for the stop command.
LEMMA StopOk ==
  ASSUME DaemondoInv, Stop
  PROVE  DaemondoInv'
<1>1. /\ steps \in {<<"stop">>, <<"stop", "start">>}
      /\ StepsType /\ PidsKnown
      /\ terminating => steps = <<"stop">>
  BY AfterStop DEF Stop, DaemondoInv, OnlyStops, StopLists
<1>2. /\ UNCHANGED <<config, terminating, runningPid, kqueue>>
      /\ ExecOnly => \A q : Kid(q) => q = runningPid
  BY <1>1 DEF Stop, DaemondoInv, KidsKnown, Current, Step
<1>3. CASE Then(<<>>) /\ UNCHANGED <<awaited, proc>>
           /\ (ExecOnly => ~OwnPid)
  <2>1. \/ steps = <<"stop">> /\ steps' = <<>>
        \/ steps = <<"stop", "start">> /\ steps' = <<"start">>
    <3>1. Then(<<>>)
      BY <1>3
    <3> QED
      BY <1>1, <3>1, TailOnly
  <2>2. /\ DaemondoType' /\ ReportsTrue' /\ Pids' = Pids
        /\ \A q : Kid(q)' <=> Kid(q)
    BY <1>2, <1>3, Unchanged
  <2>3. PidsKnown' /\ StepsType' /\ OnlyStops'
    BY <1>1, <1>2, <2>1, <2>2
    DEF PidsKnown, Step, StepsType, Lists, OnlyStops, StopLists
  <2>4. {0, -1} \cap Pids = {}
    BY LenProperties DEF DaemondoInv, DaemondoType, Pids
  <2>5. ExecOnly' => steps' \in ExecLists /\ KidsKnown'
    BY <1>2, <1>3, <2>1, <2>2, <2>4
    DEF ExecOnly, ExecLists, KidsKnown, OwnPid, Kid
  <2> QED
    BY <2>2, <2>3, <2>5 DEF DaemondoInv
<1>4. CASE ~config.stop /\ OwnPid /\ awaited' = runningPid
           /\ Then(<<"await">>) /\ UNCHANGED proc
  <2>1. \/ steps = <<"stop">> /\ steps' = <<"await">>
        \/ steps = <<"stop", "start">> /\ steps' = <<"await", "start">>
    <3>1. Then(<<"await">>)
      BY <1>4
    <3> QED
      BY <1>1, <3>1, TailAwait
  <2>2. /\ DaemondoType' /\ ReportsTrue' /\ Pids' = Pids
        /\ \A q : Kid(q)' <=> Kid(q)
    BY <1>2, <1>4, Unchanged
  <2>3. PidsKnown' /\ StepsType' /\ OnlyStops'
    BY <1>1, <1>2, <1>4, <2>1, <2>2
    DEF PidsKnown, OwnPid, StepsType, Lists, OnlyStops, StopLists
  <2>4. ExecOnly' => steps' \in ExecLists /\ \A q : Kid(q)' => q = awaited'
    BY <1>2, <1>4, <2>1, <2>2 DEF ExecOnly, ExecLists
  <2>5. Step("await")' /\ ~Step("start")'
    BY <2>1 DEF Step
  <2> QED
    BY <2>2, <2>3, <2>4, <2>5 DEF DaemondoInv, KidsKnown, Current
<1>5. CASE config.stop /\ Exec("stop") /\ awaited' = NewPid
           /\ Then(<<"await", "forget">>)
  <2>1. \/ steps = <<"stop">> /\ steps' = <<"await", "forget">>
        \/ /\ steps = <<"stop", "start">>
           /\ steps' = <<"await", "forget", "start">>
    BY <1>1, <1>5, TailAwait
  <2>2. DaemondoType' /\ ReportsTrue' /\ Pids' = Pids \cup {NewPid}
    BY <1>2, <1>5, ExecAdds
  <2>3. PidsKnown' /\ StepsType' /\ OnlyStops'
    BY <1>1, <1>2, <1>5, <2>1, <2>2
    DEF PidsKnown, StepsType, Lists, OnlyStops, StopLists
  <2>4. ~ExecOnly'
    BY <1>2, <1>5 DEF ExecOnly
  <2> QED
    BY <2>2, <2>3, <2>4 DEF DaemondoInv
<1> QED
  BY <1>3, <1>4, <1>5 DEF Stop, ExecOnly

\* After the stop command there is no daemon to speak of.
LEMMA ForgetOk ==
  ASSUME DaemondoInv, Forget
  PROVE  DaemondoInv'
<1>1. /\ steps \in {<<"forget">>, <<"forget", "start">>}
      /\ terminating => steps = <<"forget">>
  BY AfterForget DEF Forget, DaemondoInv, OnlyStops, StopLists
<1>2. /\ ~ExecOnly /\ runningPid' = 0
      /\ UNCHANGED <<config, terminating, kqueue, proc>>
  BY <1>1 DEF Forget, DaemondoInv, ExecLists
<1>3. DaemondoType' /\ ReportsTrue' /\ Pids' = Pids
  BY <1>2, Unchanged
<1>4. \/ steps = <<"forget">> /\ steps' = <<>>
      \/ steps = <<"forget", "start">> /\ steps' = <<"start">>
  BY <1>1, TailOnly DEF Forget
<1>5. PidsKnown' /\ StepsType' /\ OnlyStops' /\ ~ExecOnly'
  BY <1>1, <1>2, <1>3, <1>4
  DEF PidsKnown, Step, StepsType, Lists, OnlyStops, StopLists, ExecOnly
<1> QED
  BY <1>3, <1>5 DEF DaemondoInv

\* The restart command is a child of its own.
LEMMA RestartCommandOk ==
  ASSUME DaemondoInv, RestartCommand
  PROVE  DaemondoInv'
<1>1. steps = <<"restart">> /\ PidsKnown
  BY AfterRestart DEF RestartCommand, DaemondoInv
<1>2. /\ ~ExecOnly /\ ~terminating
      /\ UNCHANGED <<config, terminating, runningPid, kqueue>>
  BY <1>1 DEF RestartCommand, DaemondoInv, ExecLists, OnlyStops, StopLists
<1>3. CASE Exec("restart") /\ awaited' = NewPid /\ Then(<<"await">>)
  <2>1. DaemondoType' /\ ReportsTrue' /\ Pids' = Pids \cup {NewPid}
    BY <1>2, <1>3, ExecAdds
  <2>2. steps' = <<"await">>
    BY <1>1, <1>3, TailAwait
  <2> QED
    BY <1>1, <1>2, <1>3, <2>1, <2>2
    DEF DaemondoInv, PidsKnown, StepsType, Lists, OnlyStops, ExecOnly
<1>4. CASE Then(<<>>) /\ UNCHANGED <<awaited, proc>>
  <2>1. DaemondoType' /\ ReportsTrue' /\ Pids' = Pids
    BY <1>2, <1>4, Unchanged
  <2>2. steps' = <<>>
    BY <1>1, <1>4, TailOnly
  <2> QED
    BY <1>1, <1>2, <2>1, <2>2
    DEF DaemondoInv, PidsKnown, Step, StepsType, Lists, OnlyStops, ExecOnly
<1> QED
  BY <1>3, <1>4 DEF RestartCommand

-----------------------------------------------------------------------------
(* The main loop.                                                          *)

\* What the sources of the main loop begin: the processes stay as they are.
LEMMA BeginOk ==
  ASSUME DaemondoInv, steps = <<>>,
         steps' \in {<<>>, <<"exited">>, <<"stop">>, <<"restart">>,
                     <<"stop", "start">>},
         UNCHANGED <<config, awaited, runningPid, proc, kqueue>>,
         steps' = <<"restart">> => config.restart,
         terminating' => steps' \in StopLists
  PROVE  DaemondoInv'
<1>1. /\ DaemondoType' /\ ReportsTrue' /\ Pids' = Pids
      /\ \A q : Kid(q)' <=> Kid(q)
  BY Unchanged
<1>2. PidsKnown' /\ StepsType' /\ OnlyStops'
  BY <1>1 DEF DaemondoInv, PidsKnown, Step, StepsType, Lists, OnlyStops
<1>3. ASSUME ExecOnly' PROVE steps' \in ExecLists /\ KidsKnown'
  <2>1. KidsKnown
    BY <1>3 DEF DaemondoInv, ExecOnly
  <2>2. \A q : Kid(q)' => q = runningPid'
    BY <1>1, <2>1 DEF KidsKnown, Current, Step
  <2> QED
    BY <1>3, <2>2 DEF ExecOnly, ExecLists, KidsKnown, Current, Step
<1> QED
  BY <1>1, <1>2, <1>3 DEF DaemondoInv

\* The callbacks of the main loop, and its end.
LEMMA MainLoopOk ==
  ASSUME DaemondoInv,
         \/ SignalCallback \/ ScheduledRestartCallback
         \/ ScheduleDelayedRestart \/ MainLoopEnds
  PROVE  DaemondoInv'
<1>1. CASE SignalCallback
  BY <1>1, BeginOk
  DEF SignalCallback, Running, Begin, Restart, world, StopLists
<1>2. CASE ScheduledRestartCallback
  BY <1>2, BeginOk
  DEF ScheduledRestartCallback, Running, Begin, Restart, world
<1>3. CASE ScheduleDelayedRestart
  BY <1>3, BeginOk DEF ScheduleDelayedRestart, Running, Begin, world
<1>4. CASE MainLoopEnds
  BY <1>4, BeginOk DEF MainLoopEnds, world, StopLists
<1> QED
  BY <1>1, <1>2, <1>3, <1>4

\* A signal that is sent changes nothing but the port it waits at.
LEMMA SignalOk ==
  ASSUME DaemondoInv, NEW s, Signal(s)
  PROVE  DaemondoInv'
<1>1. UNCHANGED <<config, steps, awaited, terminating, runningPid, proc, kqueue>>
  BY DEF Signal, own, world
<1> QED
  BY <1>1, Unchanged, Passive

\* Whatever the thread does keeps the invariant.
LEMMA MainOk ==
  ASSUME DaemondoInv, Main
  PROVE  DaemondoInv'
BY CheckChildrenOk, KQueueCallBackOk, WaitChildDeathOk, KillChildOk, StartOk,
   WaitForValidPidFileOk, MonitorChildOk, StopOk, ForgetOk, RestartCommandOk,
   MainLoopOk
DEF Main, ChildWatch

\* The invariant holds at the start.
LEMMA InitOk == Init => DaemondoInv
<1> SUFFICES ASSUME Init PROVE DaemondoInv
  OBVIOUS
<1>1. proc = <<>> /\ steps = <<"start">> /\ kqueue = {} /\ runningPid = 0
      /\ ~terminating
  BY DEF Init
<1>2. proc \in Seq(Record) /\ Pids = {}
  BY <1>1, EmptySeq DEF Pids
<1>3. StepsType /\ PidsKnown
  BY <1>1 DEF StepsType, Lists, PidsKnown, Step
<1>4. KidsKnown /\ steps \in ExecLists
  BY <1>1, <1>2 DEF KidsKnown, Kid, ExecLists
<1> QED
  BY <1>1, <1>2, <1>3, <1>4 DEF DaemondoInv, DaemondoType, ReportsTrue, OnlyStops

\* Every step keeps it.
LEMMA StepOk == DaemondoInv /\ [Next]_vars => DaemondoInv'
<1> SUFFICES ASSUME DaemondoInv, [Next]_vars PROVE DaemondoInv'
  OBVIOUS
<1>1. CASE Next
  BY <1>1, MainOk, EnvironmentOk, MainLoopOk, SignalOk DEF Next
<1>2. CASE UNCHANGED vars
  BY <1>2, Unchanged, Passive DEF vars, own, world
<1> QED
  BY <1>1, <1>2

\* The pids daemondo waits for and keeps are those of processes it knows of,
\* what is reported dead is dead, after SIGTERM only Stop goes on, and the
\* children of an executable without commands are known.
THEOREM DaemondoInvariant == Spec => []DaemondoInv
BY InitOk, StepOk, PTL DEF Spec

\* A daemon that daemondo starts and stops itself is gone before the next is
\* started, for any number of processes, signals and restarts.
THEOREM OneDaemonHolds == Spec => []OneDaemon
<1>1. DaemondoInv => OneDaemon
  BY DEF DaemondoInv, OneDaemon, ExecOnly, KidsKnown, Kid
<1> QED
  BY <1>1, DaemondoInvariant, PTL

\* A step that keeps the pids starts nothing.
LEMMA SamePids ==
  ASSUME DaemondoType, DaemondoType', Pids' = Pids
  PROVE  ~(Len(proc') > Len(proc))
<1>1. /\ 1..Len(proc') = 1..Len(proc)
      /\ Len(proc) \in Nat /\ Len(proc') \in Nat
  BY LenProperties DEF DaemondoType, Pids
<1> QED
  BY <1>1

\* What a step adds to the processes after SIGTERM.
LEMMA NothingStarts ==
  ASSUME DaemondoInv, DaemondoInv', Next, terminating, Len(proc') > Len(proc)
  PROVE  ~proc'[Len(proc')].child \/ proc'[Len(proc')].role = "stop"
<1>1. proc \in Seq(Record) /\ Pids' # Pids
  BY SamePids DEF DaemondoInv, DaemondoType
<1>2. ~Step("start") /\ ~Step("restart")
  BY DEF DaemondoInv, OnlyStops, StopLists, Step
<1>3. ASSUME NEW ps, NEW p, ps = Ended(proc, p) PROVE DOMAIN ps = Pids
  BY <1>3 DEF Ended, Pids
<1>4. CASE Main
  <2>1. PICK role \in {"stop"} : Exec(role)
    BY <1>1, <1>2, <1>3, <1>4
    DEF Main, ChildWatch, CheckChildren, KQueueCallBack, WaitChildDeath,
        KillChild, Start, WaitForValidPidFile, MonitorChild, Stop, Forget,
        RestartCommand, SignalCallback, ScheduledRestartCallback, MainLoopEnds,
        Begin, Pids, world
  <2>2. proc' = Append(proc, Process("stop", TRUE))
    BY <2>1 DEF Exec
  <2> QED
    BY <1>1, <2>2, AppendProperties DEF Process
<1>5. CASE Environment
  <2>1. PICK p \in Pids : Spawns(p)
    BY <1>1, <1>3, <1>5
    DEF Environment, Ends, Setsid, WritesPidFile, Kills, Pids
  <2> DEFINE r == [proc[p] EXCEPT !.role = "done"]
             ps == [proc EXCEPT ![p] = r]
  <2>2. proc[p] \in Record /\ p \in DOMAIN proc
    BY <1>1, ElementOfSeq, LenProperties DEF Pids
  <2>3. r \in Record
    BY <2>2 DEF Record
  <2>4. ps \in Seq(Record) /\ proc' = Append(ps, Process("daemon", FALSE))
    BY <1>1, <2>1, <2>2, <2>3, ChangedProc DEF Spawns
  <2> HIDE DEF ps
  <2>5. ~Process("daemon", FALSE).child /\ Process("daemon", FALSE) \in Record
    BY DEF Process, Record
  <2> DEFINE d == Process("daemon", FALSE)
  <2> HIDE DEF d
  <2>6. Len(Append(ps, d)) = Len(ps) + 1 /\ Append(ps, d)[Len(ps) + 1] = d
    <3>1. d \in Record
      BY <2>5 DEF d
    <3> QED
      BY ONLY <3>1, <2>4, NewProc
  <2> QED
    BY <2>4, <2>5, <2>6 DEF d
<1>6. CASE ScheduleDelayedRestart
  BY <1>1, <1>6 DEF ScheduleDelayedRestart, Begin, world, Pids
<1>7. ASSUME NEW s, Signal(s) PROVE FALSE
  BY <1>1, <1>7 DEF Signal, world, Pids
<1> QED
  BY <1>4, <1>5, <1>6, <1>7 DEF Next

\* After SIGTERM daemondo starts nothing but the stop command.
THEOREM NothingAfterTermHolds == Spec => NothingAfterTerm
<1>1. DaemondoInv /\ DaemondoInv' /\ [Next]_vars =>
        [terminating /\ Len(proc') > Len(proc) =>
            LET new == proc'[Len(proc')]
            IN  ~new.child \/ new.role = "stop"]_vars
  BY NothingStarts
  DEF vars, world
<1> QED
  BY <1>1, DaemondoInvariant, PTL DEF Spec, NothingAfterTerm
=============================================================================
