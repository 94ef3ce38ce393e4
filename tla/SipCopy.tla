------------------------------ MODULE SipCopy ------------------------------
(***************************************************************************)
(* How a traced program is started (pextlib1.0/sip_copy_proc.c).  The      *)
(* system drops the injected library when it runs one of its own protected *)
(* programs, so such a program, or the interpreter of a script, is copied  *)
(* to a folder all processes of a user share, made to load the library,    *)
(* and run from there; a copy that bears the time of its source is used    *)
(* again.  Processes do this at the same time, each can be killed at any   *)
(* step, and the system and MacPorts are updated meanwhile.                *)
(***************************************************************************)
EXTENDS Naturals, Sequences

CONSTANTS
    Procs,        \* processes that start programs
    Programs,     \* the programs they start
    Shebang,      \* the interpreter and arguments a script names, or << >>
    Restricted,   \* programs that are protected
    SetId,        \* programs that run with the rights of their owner
    Binary,       \* the slices of each protected program
    WholeTimes,   \* versions of a program with a time in whole microseconds
    MaxUpdates,   \* bound on updates of the system, and of MacPorts
    MaxFaults     \* bound on what goes wrong: calls, interrupts

ASSUME SipAssumption ==
    /\ Shebang \in [Programs -> Seq(Programs \cup {"-e"})]
    /\ Restricted \subseteq Programs /\ SetId \subseteq Programs
    /\ MaxUpdates \in Nat /\ MaxFaults \in Nat

VARIABLES
    source,       \* the version of each program, which its time tells
    lib,          \* the library: [installed, mtime], its two times
    target,       \* the copy of each program in the shared folder
    temp,         \* the file each process works on in that folder
    job,          \* what each process starts: [pc, call, prog, seen, st,
                  \* copy, ret]
    image,        \* what it started last: [prog, seen, file, argv]
    faults        \* calls that have failed

folder == <<source, lib, target>>
sipVars == <<folder, temp, job, image, faults>>

Versions == 0 .. MaxUpdates
(* Times of a copy that no version has: of its making, and a cut one.      *)
Now == MaxUpdates + 1
Truncated == MaxUpdates + 2
Absent == [signed |-> "absent"]
NoJob == [pc |-> "none", call |-> "none", prog |-> "none", seen |-> FALSE,
          st |-> 0, copy |-> FALSE, ret |-> FALSE]
NoImage == [prog |-> "none", seen |-> FALSE, file |-> Absent,
            argv |-> << >>]

(* The times of the library, and of copies, which lie between its updates. *)
LibTime(n) == 2 * n
DetermineLibMtime == lib.mtime
CopyTime == lib.installed + 1

(* A slice says in its own header, and for a universal program in the      *)
(* entry that leads to it, whether it wants pointers authenticated.        *)
StripThin(slice) == [slice EXCEPT !.header = "plain"]
StripFat(slice) ==
    IF slice.entry = "ptrauth" THEN [entry |-> "plain", header |-> "plain"]
    ELSE slice
StripPointerAuth(slices) ==
    [i \in DOMAIN slices |->
        IF slices[i].entry = "thin" THEN StripThin(slices[i])
        ELSE StripFat(slices[i])]

(* What the file of a program stands for: a script, for its interpreter.   *)
Interpreter(prog) ==
    IF Shebang[prog] = << >> THEN prog ELSE Head(Shebang[prog])

CopyNeeded(prog, traced) ==
    LET real == Interpreter(prog)
    IN  /\ traced
        /\ real \in Restricted
        /\ real \notin SetId

(* A script's own interpreter line is expanded only when that is copied.   *)
Argv(prog, copied) ==
    IF copied /\ Shebang[prog] # << >> THEN Shebang[prog] \o <<prog>>
    ELSE <<prog>>

SipInit ==
    /\ source = [g \in Programs |-> 0]
    /\ lib = [installed |-> LibTime(1), mtime |-> LibTime(1)]
    /\ target = [g \in Programs |-> Absent]
    /\ temp = [p \in Procs |-> Absent]
    /\ job = [p \in Procs |-> NoJob]
    /\ image = [p \in Procs |-> NoImage]
    /\ faults = 0

At(p, pc) == job[p].pc = pc
Goto(p, pc) == job' = [job EXCEPT ![p].pc = pc]
Fault == faults < MaxFaults /\ faults' = faults + 1

(* Leaving lazy_copy; what is left of the temporary file goes there.       *)
Leave(p, ret) ==
    job' = [job EXCEPT ![p].pc = "unlink", ![p].ret = ret]

(* A step on the temporary file, which is the process's own: Failing, the  *)
(* function is left; done, the file is f and the next step is pc.          *)
Step(p, f, pc) ==
    /\ UNCHANGED <<folder, image>>
    /\ \/ /\ Goto(p, pc)
          /\ temp' = [temp EXCEPT ![p] = f]
          /\ UNCHANGED faults
       \/ /\ Fault
          /\ Leave(p, FALSE)
          /\ UNCHANGED temp

(* sip_copy_execve and sip_copy_posix_spawn, up to what copy_needed says;  *)
(* the source's time is taken here.  A program that cannot be opened, or a *)
(* file that has no status, counts as one that needs no copy; running out  *)
(* of memory for the words of a script's first line is an error.  A first  *)
(* line that cannot be read is like a file that cannot be opened, unless   *)
(* the script is protected itself: copying a script is left out.           *)
StartProgram(p, call, prog, traced) ==
    LET Job(pc, seen, copy) ==
            [pc |-> pc, call |-> call, prog |-> prog, seen |-> seen,
             st |-> source[Interpreter(prog)], copy |-> copy, ret |-> FALSE]
        Start(j) == job' = [job EXCEPT ![p] = j]
        need == CopyNeeded(prog, traced)
    IN  /\ UNCHANGED <<folder, temp, image>>
        /\ \/ /\ Start(Job(IF need THEN "check" ELSE "exec", TRUE, need))
              /\ UNCHANGED faults
           \/ traced /\ Fault /\ Start(Job("exec", FALSE, FALSE))
           \/ /\ traced /\ Shebang[prog] # << >> /\ Fault
              /\ Start(Job("failed", FALSE, FALSE))

SipCopyExecve(p, prog, traced) == StartProgram(p, "execve", prog, traced)
SipCopyPosixSpawn(p, prog, traced) ==
    StartProgram(p, "posix_spawn", prog, traced)

Real(p) == Interpreter(job[p].prog)

(* lazy_copy: make the folder, and see whether the copy there will do.     *)
UpToDate(p) ==
    LET out == target[Real(p)]
    IN  /\ out # Absent
        /\ out.mtime = job[p].st
        /\ out.ctime > DetermineLibMtime

CheckTarget(p) ==
    /\ At(p, "check")
    /\ UNCHANGED <<folder, temp, image>>
    /\ \/ /\ UpToDate(p) /\ Goto(p, "exec") /\ UNCHANGED faults
       \/ /\ ~UpToDate(p) /\ Goto(p, "copyfile") /\ UNCHANGED faults
       \/ /\ Fault /\ Leave(p, FALSE)

CopyFile(p) ==
    /\ At(p, "copyfile")
    /\ Step(p, [ver |-> source[Real(p)], slices |-> Binary[Real(p)],
                signed |-> "apple", mtime |-> Now, ctime |-> CopyTime,
                mode |-> "default"], "strip")

StripStepMutSkips(p) ==
    /\ At(p, "strip") /\ Goto(p, "resign")
    /\ UNCHANGED <<folder, temp, image, faults>>
StripStep(p) ==
    /\ At(p, "strip")
    /\ LET stripped == StripPointerAuth(temp[p].slices)
           f == [temp[p] EXCEPT !.slices = stripped, !.signed =
                    IF stripped = temp[p].slices THEN @ ELSE "broken"]
       IN  Step(p, f, "resign")

(* codesign; when its status was lost it may have done nothing.            *)
Resign(p) ==
    /\ At(p, "resign")
    /\ \/ Step(p, [temp[p] EXCEPT !.signed = "adhoc"], "utimes")
       \/ /\ Fault /\ Goto(p, "utimes")
          /\ temp' = [temp EXCEPT ![p].signed = "status lost"]
          /\ UNCHANGED <<folder, image>>

(* The times that are set have no more than microseconds.                  *)
TimeOf(v) == IF v \in WholeTimes THEN v ELSE Truncated
UtimesMutNewer(p) ==
    At(p, "utimes") /\
    Step(p, [temp[p] EXCEPT !.mtime = TimeOf(source[Real(p)])], "chmod")
Utimes(p) ==
    /\ At(p, "utimes")
    /\ Step(p, [temp[p] EXCEPT !.mtime = TimeOf(job[p].st)], "chmod")

Chmod(p) ==
    /\ At(p, "chmod")
    /\ Step(p, [temp[p] EXCEPT !.mode = "source", !.ctime = CopyTime],
            "rename")

Rename(p) ==
    /\ At(p, "rename")
    /\ \/ /\ target' = [target EXCEPT ![Real(p)] =
                           [temp[p] EXCEPT !.ctime = CopyTime]]
          /\ temp' = [temp EXCEPT ![p] = Absent]
          /\ Leave(p, TRUE)
          /\ UNCHANGED faults
       \/ Fault /\ Leave(p, FALSE) /\ UNCHANGED <<target, temp>>
    /\ UNCHANGED <<source, lib, image>>

(* The end of lazy_copy; the temporary file is there only when it failed,  *)
(* and may stay.  A copy that has its name is given up when unlink fails   *)
(* otherwise than because the temporary file is gone.                      *)
Unlink(p) ==
    /\ At(p, "unlink")
    /\ temp' \in {temp, [temp EXCEPT ![p] = Absent]}
    /\ \/ Goto(p, IF job[p].ret THEN "exec" ELSE "failed") /\ UNCHANGED faults
       \/ Fault /\ Goto(p, "failed")
    /\ UNCHANGED <<folder, image>>

(* The file that is run is the one that has the name now.                  *)
Exec(p) ==
    /\ At(p, "exec")
    /\ \/ /\ Goto(p, "started") /\ UNCHANGED faults
          /\ image' = [image EXCEPT ![p] =
                [prog |-> job[p].prog, seen |-> job[p].seen,
                 file |-> IF job[p].copy THEN target[Real(p)] ELSE Absent,
                 argv |-> Argv(job[p].prog, job[p].copy)]]
       \/ Fault /\ Goto(p, "failed") /\ UNCHANGED image
    /\ UNCHANGED <<folder, temp>>

LazyCopy(p) ==
    \/ CheckTarget(p) \/ CopyFile(p) \/ StripStep(p) \/ Resign(p)
    \/ Utimes(p) \/ Chmod(p) \/ Rename(p) \/ Unlink(p)
SipStep(p) == LazyCopy(p) \/ Exec(p)

(* A process that is gone; nobody looks again at a file it may have left.  *)
Gone(P) ==
    /\ job' = [p \in Procs |-> IF p \in P THEN NoJob ELSE job[p]]
    /\ image' = [p \in Procs |-> IF p \in P THEN NoImage ELSE image[p]]
    /\ temp' = [p \in Procs |-> IF p \in P THEN Absent ELSE temp[p]]
    /\ UNCHANGED folder

(* An update of the system replaces its programs; an update of MacPorts    *)
(* installs a library that was built then, or some time before.            *)
MayUpdate ==
    \A g \in Programs : source[g] + lib.installed \div 2 <= MaxUpdates
SystemUpdate ==
    /\ MayUpdate
    /\ source' = [g \in Programs |->
                    IF g \in Restricted THEN source[g] + 1 ELSE source[g]]
    /\ UNCHANGED <<lib, target, temp, job, image, faults>>
SelfUpdate ==
    /\ MayUpdate
    /\ \E built \in {lib.installed + 2, lib.installed} :
          lib' = [installed |-> lib.installed + 2, mtime |-> built]
    /\ UNCHANGED <<source, target, temp, job, image, faults>>

Times == Versions \cup {Now, Truncated}
Files(g) ==
    [ver : Versions, slices : {Binary[g], StripPointerAuth(Binary[g])},
     signed : {"apple", "broken", "adhoc", "status lost"}, mtime : Times,
     ctime : 1 .. LibTime(2 + MaxUpdates), mode : {"default", "source"}]

(* A file of the shared folder is whole: every slice runs without pointer  *)
(* authentication, and it is signed again, or codesign's status was lost.  *)
Whole(g, f) ==
    /\ f.slices = StripPointerAuth(Binary[g])
    /\ f.signed \in {"adhoc", "status lost"}
    /\ f.mode = "source"
=============================================================================
