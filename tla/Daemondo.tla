------------------------------ MODULE Daemondo ------------------------------
(***************************************************************************)
(* daemondo (programs/daemondo/main.c): one thread that starts a daemon,   *)
(* watches it, stops and restarts it on signals and events, and exits when *)
(* it is gone.  The thread's calls are a list of steps; in between, and    *)
(* while it waits for a process, it serves the sources of a run loop: the  *)
(* port SIGCHLD is forwarded to, the one for SIGTERM and SIGHUP, the kernel *)
(* queue that reports exits, and the restart timer.  Processes, signals    *)
(* and the pid file are modelled from outside.                             *)
(***************************************************************************)
EXTENDS Integers, Sequences

CONSTANTS
    Configs,      \* options: [style, stop, restart, file]
    MaxProcs,     \* bound: processes; when there are so many fork fails
    MaxSignals,   \* bound: SIGTERM and SIGHUP sent
    MaxEvents     \* bound: events that call for a restart

ASSUME DaemondoAssumption ==
    /\ \A c \in Configs :
        /\ c.style \in {"none", "exec", "fileauto", "fileclean"}
        /\ c.style \in {"fileauto", "fileclean"} => c.file
    /\ MaxProcs \in Nat /\ MaxSignals \in Nat /\ MaxEvents \in Nat

VARIABLES
    config,       \* the options of this run
    steps,        \* what is left of Start, Stop or Restart, or <<"exited">>
    awaited,      \* the process WaitChildDeath waits for
    status,       \* the result of the first Start, -1 before it
    runningPid,   \* 0 while stopped, -1 if there is a daemon of unknown pid
    terminating,
    timer,        \* whether restartTimer is set
    proc,         \* processes, by pid; no pid is used twice
    pidFile,      \* what the pid file holds
    watched,      \* registered with the kernel queue
    kqueue,       \* exits it has to report
    sigchld,      \* whether SIGCHLD is on the port
    signals,      \* SIGTERM and SIGHUP on the port
    sent, events  \* counters of the bounds

own == <<steps, awaited, status, runningPid, terminating, timer>>
world == <<proc, pidFile, watched, kqueue, sigchld>>
inputs == <<signals, sent, events>>
vars == <<config, own, world, inputs>>

\* Pid files without a pid of ours: none, one that cannot be parsed, and one
\* an earlier run left.
NoFile == 0
Junk == -1
Leftover == -2

Pids == DOMAIN proc
Alive(p) == proc[p].state = "runs"
Zombie(p) == proc[p].state = "zombie"
OwnPid == runningPid \notin {0, -1}

Init ==
    /\ config \in Configs
    /\ steps = <<"start">> /\ awaited = 0
    /\ status = -1 /\ runningPid = 0
    /\ terminating = FALSE /\ timer = FALSE
    /\ proc = <<>>
    /\ pidFile \in (IF config.file THEN {NoFile, Junk, Leftover} ELSE {NoFile})
    /\ watched = {} /\ kqueue = {} /\ sigchld = FALSE
    /\ signals = <<>> /\ sent = 0 /\ events = 0

-----------------------------------------------------------------------------
(* Processes.  A daemon may be a child of daemondo, in its process group   *)
(* or not, or a child of a command that has ended.                         *)

Process(role, child) ==
    [role |-> role, child |-> child, group |-> TRUE, state |-> "runs",
     wrote |-> FALSE]
Daemon(p) == proc[p].role = "daemon"
HasRoom == Len(proc) < MaxProcs

\* The processes after p has ended, by itself or killed.
Ended(ps, p) ==
    [ps EXCEPT ![p].state = IF ps[p].child THEN "zombie" ELSE "dead"]

Report(p) ==
    /\ kqueue' = IF p \in watched THEN kqueue \cup {p} ELSE kqueue
    /\ watched' = watched \ {p}
    /\ sigchld' = (sigchld \/ proc[p].child)

\* A process ends; a daemon may remove the pid file.
Ends(p) ==
    /\ Alive(p)
    /\ proc' = Ended(proc, p) /\ Report(p)
    /\ \/ UNCHANGED pidFile
       \/ Daemon(p) /\ proc[p].wrote /\ pidFile' = NoFile
    /\ UNCHANGED <<config, own, inputs>>

\* A daemon leaves the process group.
Setsid(p) ==
    /\ Alive(p) /\ Daemon(p) /\ proc[p].group
    /\ proc' = [proc EXCEPT ![p].group = FALSE]
    /\ UNCHANGED <<config, own, pidFile, watched, kqueue, sigchld, inputs>>

WritesPidFile(p) ==
    /\ config.style \in {"fileauto", "fileclean"}
    /\ Alive(p) /\ Daemon(p) /\ ~proc[p].wrote
    /\ pidFile' = p
    /\ proc' = [proc EXCEPT ![p].wrote = TRUE]
    /\ UNCHANGED <<config, own, watched, kqueue, sigchld, inputs>>

\* A start or restart command leaves a daemon behind.
Spawns(p) ==
    /\ Alive(p) /\ proc[p].role \in {"start", "restart"} /\ HasRoom
    /\ proc' = Append([proc EXCEPT ![p].role = "done"], Process("daemon", FALSE))
    /\ UNCHANGED <<config, own, pidFile, watched, kqueue, sigchld, inputs>>

\* A stop or restart command kills a daemon.
Kills(p, q) ==
    /\ Alive(p) /\ proc[p].role \in {"stop", "restart"}
    /\ Alive(q) /\ Daemon(q)
    /\ proc' = Ended(proc, q) /\ Report(q)
    /\ UNCHANGED <<config, own, pidFile, inputs>>

Environment ==
    \E p \in Pids :
        \/ Ends(p) \/ Setsid(p) \/ WritesPidFile(p) \/ Spawns(p)
        \/ \E q \in Pids : Kills(p, q)

Signal(s) ==
    /\ steps # <<"exited">> /\ sent < MaxSignals
    /\ sent' = sent + 1
    /\ signals' = Append(signals, s)
    /\ UNCHANGED <<config, own, world, events>>

-----------------------------------------------------------------------------
(* The pid file.                                                           *)

CreatePidFile(p) ==
    pidFile' = IF config.file /\ config.style = "exec" THEN p ELSE pidFile
AfterDestroyPidFile ==
    IF config.file /\ config.style \in {"exec", "fileclean"}
    THEN NoFile ELSE pidFile
CheckForValidPidFile ==
    IF pidFile \in Pids /\ proc[pidFile].state # "dead" THEN pidFile ELSE -1

\* One that holds a number is deleted.
DeletePreexistingPidFile ==
    pidFile' = IF config.file /\ pidFile # Junk THEN NoFile ELSE pidFile

-----------------------------------------------------------------------------
(* Deaths.                                                                 *)

ProcessChildDeath(dead) ==
    IF OwnPid /\ runningPid \in dead
    THEN runningPid' = 0 /\ pidFile' = AfterDestroyPidFile
    ELSE UNCHANGED <<runningPid, pidFile>>

\* wait4(0, ...) collects the children in daemondo's process group.
CheckChildren ==
    LET dead == {p \in Pids : Zombie(p) /\ proc[p].group} IN
    /\ sigchld /\ sigchld' = FALSE
    /\ proc' = [p \in Pids |->
                  IF p \in dead THEN [proc[p] EXCEPT !.state = "dead"]
                  ELSE proc[p]]
    /\ ProcessChildDeath(dead)
    /\ UNCHANGED <<config, steps, awaited, status, terminating, timer, watched,
                   kqueue, inputs>>

\* Mutant: the exit is taken for an unexpected event.
KQueueCallBackMutUnexpected ==
    \E p \in kqueue :
        /\ kqueue' = kqueue \ {p}
        /\ UNCHANGED <<config, own, proc, pidFile, watched, sigchld, inputs>>

KQueueCallBack ==
    \E p \in kqueue :
        /\ kqueue' = kqueue \ {p}
        /\ ProcessChildDeath({p})
        /\ UNCHANGED <<config, steps, awaited, status, terminating, timer, proc,
                       watched, sigchld, inputs>>

\* The sources of the mode in which a child is waited for.
ChildWatch == CheckChildren \/ KQueueCallBack

Then(list) == steps' = list \o Tail(steps)
Step(name) == steps # <<>> /\ Head(steps) = name

\* Mutant: a process that has not died in time is not waited for any longer.
WaitChildDeathMutGivesUp ==
    /\ Step("await")
    /\ proc' = proc
    /\ ProcessChildDeath({awaited}) /\ Then(<<>>)
    /\ UNCHANGED <<config, awaited, status, terminating, timer, watched, kqueue,
                   sigchld, inputs>>

\* wait4 returns when the child has died, or at once when it is no child or
\* has been collected already.
WaitChildDeath ==
    /\ Step("await")
    /\ ~(proc[awaited].child /\ Alive(awaited))
    /\ proc' = [proc EXCEPT ![awaited].state =
                    IF Zombie(awaited) THEN "dead" ELSE @]
    /\ ProcessChildDeath({awaited}) /\ Then(<<>>)
    /\ UNCHANGED <<config, awaited, status, terminating, timer, watched, kqueue,
                   sigchld, inputs>>

\* The patience is at an end: SIGKILL.
KillChild ==
    /\ Step("await")
    /\ proc[awaited].child /\ Alive(awaited)
    /\ proc' = Ended(proc, awaited) /\ Report(awaited)
    /\ UNCHANGED <<config, own, pidFile, inputs>>

-----------------------------------------------------------------------------
(* Start, Stop, Restart.                                                   *)

NewPid == Len(proc) + 1
Exec(role) == HasRoom /\ proc' = Append(proc, Process(role, TRUE))

StartFails ==
    /\ status' = IF status = -1 THEN 2 ELSE status
    /\ Then(<<>>)

\* The process started is the daemon, or starts it and ends.
Start ==
    /\ Step("start")
    /\ DeletePreexistingPidFile
    /\ \/ ~HasRoom /\ StartFails /\ UNCHANGED <<awaited, proc>>
       \/ \E role \in {"daemon", "start"} :
            /\ config.style = "none" => role = "start"
            /\ Exec(role) /\ awaited' = NewPid /\ UNCHANGED status
            /\ Then(CASE config.style = "none" -> <<"await", "monitor">>
                      [] config.style = "exec" -> <<"monitor">>
                      [] OTHER -> <<"poll">>)
    /\ UNCHANGED <<config, runningPid, terminating, timer, watched, kqueue, sigchld,
                   inputs>>

WaitForValidPidFile ==
    /\ Step("poll")
    /\ IF CheckForValidPidFile # -1
       THEN /\ awaited' = CheckForValidPidFile
            /\ Then(<<"monitor">>) /\ UNCHANGED status
       ELSE StartFails /\ UNCHANGED awaited
    /\ UNCHANGED <<config, runningPid, terminating, timer, world, inputs>>

\* A process that has ended cannot be registered.
MonitorChild ==
    /\ Step("monitor") /\ Then(<<>>)
    /\ status' = IF status = -1 THEN 0 ELSE status
    /\ IF config.style = "none"
       THEN runningPid' = -1 /\ UNCHANGED <<watched, pidFile>>
       ELSE /\ runningPid' = awaited
            /\ watched' = IF Alive(awaited) THEN watched \cup {awaited} ELSE watched
            /\ CreatePidFile(awaited)
    /\ UNCHANGED <<config, awaited, terminating, timer, proc, kqueue, sigchld,
                   inputs>>

\* SIGTERM to the process, which does with it what it likes.
Stop ==
    /\ Step("stop")
    /\ \/ /\ ~config.stop
          /\ IF OwnPid THEN awaited' = runningPid /\ Then(<<"await">>)
             ELSE Then(<<>>) /\ UNCHANGED awaited
          /\ UNCHANGED proc
       \/ /\ config.stop /\ Exec("stop")
          /\ awaited' = NewPid /\ Then(<<"await", "forget">>)
       \/ /\ config.stop /\ ~HasRoom
          /\ Then(<<>>) /\ UNCHANGED <<awaited, proc>>
    /\ UNCHANGED <<config, status, runningPid, terminating, timer, pidFile, watched,
                   kqueue, sigchld, inputs>>

\* After stop-cmd: UnmonitorChild, DestroyPidFile.
Forget ==
    /\ Step("forget") /\ Then(<<>>)
    /\ runningPid' = 0
    /\ pidFile' = AfterDestroyPidFile
    /\ UNCHANGED <<config, awaited, status, terminating, timer, proc, watched, kqueue,
                   sigchld, inputs>>

Restart == IF config.restart THEN <<"restart">> ELSE <<"stop", "start">>

RestartCommand ==
    /\ Step("restart")
    /\ \/ Exec("restart") /\ awaited' = NewPid /\ Then(<<"await">>)
       \/ ~HasRoom /\ Then(<<>>) /\ UNCHANGED <<awaited, proc>>
    /\ UNCHANGED <<config, status, runningPid, terminating, timer, pidFile, watched,
                   kqueue, sigchld, inputs>>

-----------------------------------------------------------------------------
(* The main loop, and the sources of its mode.                             *)

\* Mutant: the loop does not look at the flag SIGTERM sets.
RunningMutNoTerm == steps = <<>> /\ status = 0 /\ runningPid # 0

Running ==
    /\ steps = <<>>
    /\ status = 0 /\ ~terminating /\ runningPid # 0
Begin(list) == steps' = list /\ UNCHANGED <<config, awaited, status, runningPid, world>>

SignalCallback ==
    /\ Running /\ signals # <<>>
    /\ signals' = Tail(signals)
    /\ \/ Head(signals) = "TERM" /\ terminating' = TRUE /\ Begin(<<"stop">>)
       \/ Head(signals) = "HUP" /\ Begin(Restart) /\ UNCHANGED terminating
    /\ UNCHANGED <<timer, sent, events>>

\* DynamicStoreChanged, PowerCallBack, NotificationCenterCallback: the timer
\* is cancelled and set again.
ScheduleDelayedRestart ==
    /\ Running /\ events < MaxEvents
    /\ events' = events + 1
    /\ timer' = TRUE
    /\ Begin(<<>>)
    /\ UNCHANGED <<terminating, signals, sent>>

\* Mutant: the timer is in every mode of the run loop.
ScheduledRestartCallbackMutAllModes ==
    /\ Running \/ Step("await")
    /\ timer /\ timer' = FALSE
    /\ steps' = Restart \o steps
    /\ UNCHANGED <<config, awaited, status, runningPid, world, terminating, inputs>>

ScheduledRestartCallback ==
    /\ Running
    /\ timer /\ timer' = FALSE
    /\ Begin(Restart)
    /\ UNCHANGED <<terminating, inputs>>

MainLoopEnds ==
    /\ steps = <<>> /\ ~Running
    /\ steps' = <<"exited">>
    /\ UNCHANGED <<config, awaited, status, runningPid, terminating, timer, world,
                   inputs>>

Main ==
    \/ (Running \/ Step("await")) /\ ChildWatch
    \/ WaitChildDeath \/ KillChild
    \/ Start \/ WaitForValidPidFile \/ MonitorChild
    \/ Stop \/ Forget \/ RestartCommand
    \/ SignalCallback \/ ScheduledRestartCallback \/ MainLoopEnds

Next ==
    \/ Main \/ Environment \/ ScheduleDelayedRestart
    \/ \E s \in {"TERM", "HUP"} : Signal(s)

\* Fair: daemondo, whose waits end by time.  Nothing is assumed of the
\* daemon and of the commands.
Spec == Init /\ [][Next]_vars /\ WF_vars(Main)
-----------------------------------------------------------------------------
\* An executable that daemondo starts, stops and restarts itself: each is gone
\* before the next is started (Stop, Restart, and the wait in between).
OneDaemon ==
    config.style = "exec" /\ ~config.stop /\ ~config.restart =>
        \A p, q \in Pids :
            Alive(p) /\ Alive(q) /\ proc[p].child /\ proc[q].child => p = q

\* Nothing is started after SIGTERM, although a restart may be due.
NothingAfterTerm ==
    [][terminating /\ Len(proc') > Len(proc) =>
        LET new == proc'[Len(proc')]
        IN  ~new.child \/ new.role = "stop"]_vars

\* A death the kernel queue or SIGCHLD tells of is noticed.
Told(p) ==
    p \in watched \cup kqueue \/ (proc[p].child /\ proc[p].group)
DeathNoticed ==
    \A p \in 1..MaxProcs :
        (p \in Pids /\ runningPid = p /\ ~Alive(p) /\ Told(p))
            ~> (runningPid # p \/ steps = <<"exited">>)

\* SIGTERM ends daemondo, whatever the daemon and the commands do.
TermEnds == (\E i \in DOMAIN signals : signals[i] = "TERM")
                ~> steps = <<"exited">>
=============================================================================
