----------------------------- MODULE SystemCmd -----------------------------
(***************************************************************************)
(* The system command (pextlib1.0/system.c) of one port process in trace   *)
(* mode: one call after the other, each forks a child that starts a shell  *)
(* as SipCopy says, and the shell starts a tool the same way.  The call    *)
(* reads what is written to its pipe, tells its callbacks, and waits for   *)
(* any child.  A call that a callback ends leaves its child behind.        *)
(***************************************************************************)
EXTENDS SipCopy

CONSTANTS
    MaxCalls,       \* bound on calls, which number their children
    Options,        \* options of a call
    MaxLines,       \* bound on the lines a command writes
    PipeSize        \* lines a pipe holds

ASSUME SystemAssumption ==
    /\ MaxCalls \in Nat /\ Procs = 1 .. MaxCalls
    /\ {"sh", "sandbox-exec"} \subseteq Programs
    /\ Options \subseteq [callback : BOOLEAN, dup : BOOLEAN, notty : BOOLEAN,
                          sandbox : BOOLEAN]
    /\ MaxLines \in Nat /\ PipeSize \in Nat \ {0}

VARIABLES
    call,         \* the call: [pc, n, rfd, wfd, readFailed, status, code];
                  \* rfd "cut": closed although not everything was read
    kid,          \* children: [pc, opts, exit, lines, pipe, tool]
    interrupted   \* whether a signal came during the call

port == <<call, kid, interrupted>>
vars == <<sipVars, port>>

NoOptions == [callback |-> FALSE, dup |-> FALSE, notty |-> FALSE,
              sandbox |-> FALSE]
NoKid == [pc |-> "none", opts |-> NoOptions, exit |-> "none", lines |-> 0,
          pipe |-> 0, tool |-> "none"]

Init ==
    /\ SipInit
    /\ call = [pc |-> "idle", n |-> 0, rfd |-> "closed", wfd |-> "closed",
               readFailed |-> FALSE, status |-> "none", code |-> "none"]
    /\ kid = [n \in Procs |-> NoKid]
    /\ interrupted = FALSE

Idle == call.pc = "idle"
Opts == kid[call.n].opts
CallbackEnabled == Opts.callback

(* The shell runs, or waits for what it starts itself.                     *)
InCommand(n) == kid[n].pc = "command"
Runs(n) ==
    /\ InCommand(n)
    /\ \/ job[n].pc = "started"
       \/ job[n].pc = "failed" /\ job[n].call = "posix_spawn"
ToolRuns(n) ==
    \/ kid[n].tool = "runs"
    \/ /\ job[n].call = "posix_spawn" /\ job[n].pc = "started"
       /\ kid[n].tool = "none"

HasReader(n) == call.n = n /\ call.rfd = "open"
HasWriter(n) ==
    \/ kid[n].pc \in {"setup", "command"}
    \/ ToolRuns(n)
    \/ call.n = n /\ call.wfd = "open"

Parent(pc) == call.pc = pc
ToCleanup(c, status, code) ==
    call' = [c EXCEPT !.pc = "cleanup", !.status = status, !.code = code]
AfterFork(o) == IF o.dup THEN "fdopen" ELSE "wait"

(* Every callback is asked in turn; an error of one ends the call.         *)
CallbackFails == CallbackEnabled /\ Fault

(* A program for the sandbox is the one named for it, when one is set up.  *)
CheckSandboxing(o) == IF o.sandbox THEN "sandbox-exec" ELSE "sh"

System(o) ==
    LET n == call.n + 1
        fd == IF o.dup THEN "open" ELSE "closed"
        c == [call EXCEPT !.n = n, !.rfd = fd, !.wfd = fd,
                          !.readFailed = FALSE]
    IN  /\ Idle /\ n \in Procs
        /\ \/ /\ call' = [c EXCEPT !.pc =
                            IF o.callback THEN "event" ELSE AfterFork(o)]
              /\ \E l \in IF o.dup THEN 0 .. MaxLines ELSE {0} :
                    kid' = [kid EXCEPT ![n] =
                        [NoKid EXCEPT !.pc = "setup", !.opts = o,
                                      !.lines = l]]
              /\ interrupted' = FALSE
              /\ UNCHANGED <<faults>>
           \/ /\ Fault /\ ToCleanup(c, "error", "none")
              /\ interrupted' = FALSE
              /\ UNCHANGED <<kid>>
           \/ /\ Fault /\ call' = [call EXCEPT !.n = n]
              /\ UNCHANGED <<kid, interrupted>>
        /\ UNCHANGED <<folder, temp, job, image>>

(* The child up to its program: one of its descriptors, its session, the   *)
(* drop of privileges or the change of directory may fail.                 *)
Ended(n, how) ==
    [kid[n] EXCEPT !.pc = "ended", !.exit = how, !.lines = 0,
                   !.tool = IF ToolRuns(n) THEN "runs" ELSE "done"]
Dies(n, how) == kid' = [kid EXCEPT ![n] = Ended(n, how)] /\ Gone({n})
ChildSetup(n) ==
    LET o == kid[n].opts
    IN  /\ kid[n].pc = "setup"
        /\ UNCHANGED <<call, interrupted>>
        /\ \/ /\ SipCopyExecve(n, CheckSandboxing(o), TRUE)
              /\ kid' = [kid EXCEPT ![n].pc = "command"]
           \/ Fault /\ Dies(n, "nonzero")

ChildSip(n) == InCommand(n) /\ SipStep(n) /\ UNCHANGED port

ExecFailed(n) ==
    /\ InCommand(n) /\ job[n].call = "execve" /\ job[n].pc = "failed"
    /\ Dies(n, "nonzero")
    /\ UNCHANGED <<faults, call, interrupted>>

(* A traced shell starts a tool; darwintrace calls sip_copy_posix_spawn.   *)
SpawnTool(n) ==
    /\ Runs(n) /\ job[n].call = "execve"
    /\ \E g \in Programs \ {"sh", "sandbox-exec"} :
          SipCopyPosixSpawn(n, g, TRUE)
    /\ UNCHANGED port

(* A line for the pipe; without one, output goes where the port's goes.    *)
WriteLine(n) ==
    LET k == kid[n]
    IN  /\ Runs(n) /\ k.lines > 0
        /\ \/ /\ HasReader(n) /\ k.pipe < PipeSize
              /\ kid' = [kid EXCEPT ![n].lines = @ - 1, ![n].pipe = @ + 1]
              /\ UNCHANGED <<folder, temp, job, image>>
           \/ ~HasReader(n) /\ Dies(n, "signal")
        /\ UNCHANGED <<faults, call, interrupted>>

ShellEnds(n) ==
    /\ Runs(n) /\ kid[n].lines = 0
    /\ \E how \in {"zero", "nonzero"} : Dies(n, how)
    /\ UNCHANGED <<faults, call, interrupted>>

ToolEnds(n) ==
    /\ ToolRuns(n)
    /\ kid' = [kid EXCEPT ![n].tool = "done"]
    /\ UNCHANGED <<sipVars, call, interrupted>>

(* A child that is killed, in the middle of a copy as well.                *)
ChildKilled(n) ==
    /\ kid[n].pc \in {"setup", "command"}
    /\ Fault
    /\ Dies(n, "signal")
    /\ UNCHANGED <<call, interrupted>>

(* An interrupt reaches this process, and the commands of its terminal.    *)
(* Those that do not handle it end; a child that has not put back the      *)
(* handlers takes note of it and goes on.                                  *)
Interrupt ==
    /\ ~Idle /\ Fault
    /\ interrupted' = TRUE
    /\ \E killed \in SUBSET {n \in Procs : InCommand(n) /\ ~kid[n].opts.notty} :
          /\ kid' = [n \in Procs |->
                IF n \in killed THEN Ended(n, "signal") ELSE kid[n]]
          /\ Gone(killed)
    /\ UNCHANGED call

ExecEvent ==
    /\ Parent("event")
    /\ \/ call' = [call EXCEPT !.pc = AfterFork(Opts)] /\ UNCHANGED faults
       \/ CallbackFails /\ ToCleanup(call, "error", "none")
    /\ UNCHANGED <<folder, temp, job, image, kid, interrupted>>

OpenPipeMutKeepsWriting ==
    /\ Parent("fdopen")
    /\ call' = [call EXCEPT !.pc = "read"]
    /\ UNCHANGED <<sipVars, kid, interrupted>>
(* The callbacks are told of the failure; the child has nobody to read.    *)
OpenPipe ==
    LET c == [call EXCEPT !.wfd = "closed"]
    IN  /\ Parent("fdopen")
        /\ \/ call' = [c EXCEPT !.pc = "read"] /\ UNCHANGED faults
           \/ /\ Fault
              /\ \/ call' = [c EXCEPT !.pc = "wait", !.readFailed = TRUE]
                 \/ CallbackEnabled /\ ToCleanup(c, "error", "none")
        /\ UNCHANGED <<folder, temp, job, image, kid, interrupted>>

ReadLine ==
    /\ Parent("read") /\ kid[call.n].pipe > 0
    /\ kid' = [kid EXCEPT ![call.n].pipe = @ - 1]
    /\ \/ UNCHANGED <<call, faults>>
       \/ /\ CallbackFails
          /\ ToCleanup([call EXCEPT !.rfd = "fclosed"], "error", "none")
    /\ UNCHANGED <<folder, temp, job, image, interrupted>>

(* The end of the file ends the loop, and so does an error of getline,     *)
(* which nobody asks about.                                                *)
ReadEnd ==
    /\ Parent("read")
    /\ \/ /\ kid[call.n].pipe = 0 /\ ~HasWriter(call.n)
          /\ call' = [call EXCEPT !.pc = "wait", !.rfd = "fclosed"]
          /\ UNCHANGED faults
       \/ Fault /\ call' = [call EXCEPT !.pc = "wait", !.rfd = "cut"]
    /\ UNCHANGED <<folder, temp, job, image, kid, interrupted>>

(* What is returned for the command's own status.                          *)
ErrorCode(n) ==
    IF interrupted THEN "SIG"
    ELSE IF kid[n].exit = "nonzero" THEN "CHILDSTATUS" ELSE "CHILDKILLED"
ExitEvent(n) ==
    \/ /\ kid[n].exit = "zero" /\ ToCleanup(call, "ok", "none")
       /\ UNCHANGED faults
    \/ /\ kid[n].exit # "zero" /\ ToCleanup(call, "error", ErrorCode(n))
       /\ UNCHANGED faults
    \/ CallbackFails /\ ToCleanup(call, "error", "none")

Reap(c) ==
    kid' = [kid EXCEPT ![c] =
        IF c = call.n THEN [@ EXCEPT !.pc = "reaped"]
        ELSE [NoKid EXCEPT !.pc = "reaped", !.tool = kid[c].tool]]
WaitMutAnyChild ==
    /\ Parent("wait")
    /\ \E c \in Procs : kid[c].pc = "ended" /\ Reap(c) /\ ExitEvent(c)
    /\ UNCHANGED <<folder, temp, job, image, interrupted>>
(* wait takes any child that has ended, also one of an earlier call.       *)
Wait ==
    /\ Parent("wait")
    /\ \E c \in Procs :
          /\ kid[c].pc = "ended" /\ Reap(c)
          /\ IF c = call.n /\ ~call.readFailed THEN ExitEvent(c)
             ELSE ToCleanup(call, "error", "none") /\ UNCHANGED faults
    /\ UNCHANGED <<folder, temp, job, image, interrupted>>

(* The handlers are put back, and both ends of the pipe are closed.        *)
Cleanup ==
    /\ Parent("cleanup")
    /\ call' = [call EXCEPT !.pc = "idle", !.rfd = "closed",
                            !.wfd = "closed", !.status = "none",
                            !.code = "none", !.readFailed = FALSE]
    /\ interrupted' = FALSE
    /\ kid' = [kid EXCEPT ![call.n] = IF @.pc = "reaped" /\ @.tool = "done"
                                      THEN [NoKid EXCEPT !.pc = "reaped"]
                                      ELSE @]
    /\ UNCHANGED sipVars

SystemCmd ==
    \/ ExecEvent \/ OpenPipe \/ ReadLine \/ ReadEnd \/ Wait \/ Cleanup
Child(n) ==
    \/ ChildSetup(n) \/ ChildSip(n) \/ ExecFailed(n) \/ WriteLine(n)
    \/ ShellEnds(n)

Next ==
    \/ \E o \in Options : System(o)
    \/ SystemCmd
    \/ \E n \in Procs :
          Child(n) \/ SpawnTool(n) \/ ToolEnds(n) \/ ChildKilled(n)
    \/ Interrupt
    \/ (SystemUpdate \/ SelfUpdate) /\ UNCHANGED port

(* The process goes on when it can, and so do commands, each of which ends.*)
Fairness ==
    /\ WF_vars(SystemCmd)
    /\ \A n \in Procs : WF_vars(Child(n)) /\ WF_vars(ToolEnds(n))
Spec == Init /\ [][Next]_vars /\ Fairness
-----------------------------------------------------------------------------
(* A program that runs from the shared folder is a whole copy, and a copy  *)
(* of the program, or of the interpreter of the script, that was asked     *)
(* for; a script is passed to its interpreter after the interpreter's own  *)
(* arguments.  A program that needs a copy and could be examined never     *)
(* runs without one, whatever fails while the copy is made                 *)
(* (sip_copy_execve, lazy_copy).                                           *)
RunsWhole ==
    \A p \in Procs :
        LET i == image[p]
        IN  /\ i.file # Absent =>
                  /\ CopyNeeded(i.prog, TRUE)
                  /\ Whole(Interpreter(i.prog), i.file)
                  /\ i.argv # << >> /\ Head(i.argv) = Interpreter(i.prog)
            /\ i.prog # "none" /\ i.seen /\ i.file = Absent =>
                  ~CopyNeeded(i.prog, TRUE)

(* A copy that would be taken for the current version of its program holds *)
(* that version, whatever was updated while copies were made (lazy_copy    *)
(* gives a copy the time the source had before it was read).               *)
NeverStale ==
    \A g \in Programs :
        target[g] # Absent /\ target[g].mtime = source[g] =>
            target[g].ver = source[g]

(* What a call returns is true of its own command, although the wait takes *)
(* children of earlier calls too: without an error, the command has ended  *)
(* with 0 and, unless getline failed, all it wrote was read; with an error *)
(* code, the command ended as the code says (system.c, from wait to        *)
(* cleanup).                                                               *)
ResultTrue ==
    Parent("cleanup") =>
        LET k == kid[call.n]
        IN  /\ call.status = "ok" =>
                /\ k.pc = "reaped" /\ k.exit = "zero"
                /\ k.pipe = 0 \/ call.rfd = "cut"
            /\ call.code # "none" => k.pc = "reaped" /\ k.exit # "zero"
            /\ call.code = "SIG" => interrupted
            /\ call.code = "CHILDSTATUS" => k.exit = "nonzero"
            /\ call.code = "CHILDKILLED" => k.exit = "signal"

(* A call ends, as its command does, whatever earlier calls left behind;   *)
(* except that nothing is read, and a command that fills the pipe cannot   *)
(* end, when the pipe could not be opened for reading.                     *)
CallEnds ==
    ~Idle ~> \/ Idle
             \/ call.readFailed /\ kid[call.n].pipe = PipeSize
=============================================================================
