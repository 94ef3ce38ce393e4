---------------------------- MODULE SystemProofs ----------------------------
(***************************************************************************)
(* What is true of commands and of the copies of programs they run, for    *)
(* any number of calls, programs, updates and failures.                    *)
(***************************************************************************)
EXTENDS SystemCmd, TLAPS

Copying == {"strip", "resign", "utimes", "chmod", "rename"}
SipPcs == {"none", "check", "copyfile", "unlink", "exec", "started", "failed"}
          \cup Copying
KidPcs == {"none", "setup", "command", "ended", "reaped"}
CallPcs == {"idle", "event", "fdopen", "read", "wait", "cleanup"}

SipType ==
    /\ source \in [Programs -> Versions]
    /\ DOMAIN lib = {"installed", "mtime"}
    /\ lib.installed \in Nat /\ lib.installed >= 2
    /\ DOMAIN target = Programs /\ DOMAIN temp = Procs
    /\ DOMAIN job = Procs /\ DOMAIN image = Procs
    /\ \A p \in Procs :
          /\ DOMAIN job[p] = {"pc", "call", "prog", "seen", "st", "copy", "ret"}
          /\ job[p].pc \in SipPcs
          /\ job[p].seen \in BOOLEAN
          /\ job[p].copy \in BOOLEAN /\ job[p].ret \in BOOLEAN

KidType(k) ==
    /\ DOMAIN k = {"pc", "opts", "exit", "lines", "pipe", "tool"}
    /\ k.pc \in KidPcs
    /\ k.opts \in [callback : BOOLEAN, dup : BOOLEAN, notty : BOOLEAN,
                   sandbox : BOOLEAN]
    /\ k.lines \in Nat /\ k.pipe \in Nat
PortType ==
    /\ DOMAIN call =
          {"pc", "n", "rfd", "wfd", "readFailed", "status", "code"}
    /\ call.pc \in CallPcs /\ call.n \in Nat
    /\ call.pc # "idle" => call.n \in Procs
    /\ call.readFailed \in BOOLEAN
    /\ DOMAIN kid = Procs
    /\ \A n \in Procs : KidType(kid[n])

\* What a process does is for the program it was asked to start, which it
\* copies when it has seen that this is needed; the copy is there before it
\* is run; the time it took is not later than the program it reads after that.
JobOk(p) ==
    /\ job[p].pc # "none" =>
          /\ job[p].prog \in Programs
          /\ job[p].copy => CopyNeeded(job[p].prog, TRUE)
          /\ job[p].seen /\ CopyNeeded(job[p].prog, TRUE) => job[p].copy
          /\ job[p].copy =>
                job[p].st \in Versions /\ job[p].st <= source[Real(p)]
    /\ job[p].pc \in {"check", "copyfile", "unlink"} \cup Copying =>
          job[p].copy
    /\ job[p].pc = "unlink" /\ job[p].ret => target[Real(p)] # Absent
    /\ job[p].pc = "exec" /\ job[p].copy => target[Real(p)] # Absent

\* How far the file a process works on has come.
FileOk(f, pc, st, real) ==
    /\ DOMAIN f = {"ver", "slices", "signed", "mtime", "ctime", "mode"}
    /\ f.ver \in Versions /\ st <= f.ver /\ f.ver <= source[real]
    /\ pc = "strip" => f.slices = Binary[real]
    /\ pc # "strip" => f.slices = StripPointerAuth(Binary[real])
    /\ pc \in {"utimes", "chmod", "rename"} =>
          f.signed \in {"adhoc", "status lost"}
    /\ pc \in {"chmod", "rename"} => f.mtime = TimeOf(st)
    /\ pc = "rename" => f.mode = "source"
TempOk(p) ==
    job[p].pc \in Copying => FileOk(temp[p], job[p].pc, job[p].st, Real(p))

\* A copy in the folder is whole, and its time is one that no version has, or
\* not later than the version it holds.
TargetOk(g) ==
    target[g] # Absent =>
        /\ DOMAIN target[g] =
              {"ver", "slices", "signed", "mtime", "ctime", "mode"}
        /\ Whole(g, target[g])
        /\ target[g].ver \in Versions /\ target[g].ver <= source[g]
        /\ target[g].mtime # Truncated =>
              target[g].mtime \in Versions /\ target[g].mtime <= target[g].ver

\* RunsWhole of one process.
ImageOk(i) ==
    /\ i.file # Absent =>
          /\ CopyNeeded(i.prog, TRUE)
          /\ Whole(Interpreter(i.prog), i.file)
          /\ i.argv # << >> /\ Head(i.argv) = Interpreter(i.prog)
    /\ i.prog # "none" /\ i.seen /\ i.file = Absent =>
          ~CopyNeeded(i.prog, TRUE)

SipInv ==
    /\ SipType
    /\ \A p \in Procs : JobOk(p) /\ TempOk(p)
    /\ \A g \in Programs : TargetOk(g)
    /\ RunsWhole

\* Nothing more is written once the call has read all, or has given up, and a
\* child that has ended has ended in one of three ways.
Drained ==
    /\ ~Idle /\ ~Opts.dup /\ call.pc = "event" =>
          kid[call.n].pipe = 0 /\ call.rfd # "open"
    /\ Parent("wait") /\ ~call.readFailed =>
          /\ kid[call.n].pipe = 0 \/ call.rfd = "cut"
          /\ call.rfd # "open"
ExitKnown ==
    \A n \in Procs : kid[n].pc = "ended" =>
        kid[n].exit \in {"zero", "nonzero", "signal"}

PortInv == PortType /\ Drained /\ ExitKnown /\ ResultTrue
IInv == SipInv /\ PortInv

-----------------------------------------------------------------------------
(* The copies of programs. *)

\* A program that has to be copied is one of the programs.
LEMMA CopyDomain ==
    ASSUME NEW prog \in Programs, CopyNeeded(prog, TRUE)
    PROVE  Interpreter(prog) \in Programs
BY SipAssumption DEF CopyNeeded

\* A step that touches the job and the file of one process only.
LEMMA OwnStep ==
    ASSUME SipInv, NEW p \in Procs, UNCHANGED <<folder, image>>,
           DOMAIN job' = Procs, DOMAIN temp' = Procs,
           \A q \in Procs \ {p} : job'[q] = job[q] /\ temp'[q] = temp[q],
           DOMAIN job'[p] = {"pc", "call", "prog", "seen", "st", "copy", "ret"},
           job'[p].pc \in SipPcs, job'[p].seen \in BOOLEAN,
           job'[p].copy \in BOOLEAN, job'[p].ret \in BOOLEAN,
           JobOk(p)', TempOk(p)'
    PROVE  SipInv'
<1>1. SipType'
  BY DEF SipInv, SipType, folder
<1>2. \A q \in Procs : JobOk(q)'
  BY DEF SipInv, JobOk, Real, folder
<1>3. ASSUME NEW q \in Procs, q # p PROVE TempOk(q)'
  <2>1. job'[q] = job[q] /\ temp'[q] = temp[q] /\ source' = source
    BY <1>3 DEF folder
  <2>2. TempOk(q)
    BY DEF SipInv
  <2> QED BY <2>1, <2>2 DEF TempOk, FileOk, Real
<1>4. \A g \in Programs : TargetOk(g)'
  BY DEF SipInv, TargetOk, folder
<1>5. RunsWhole'
  BY DEF SipInv, RunsWhole
<1> QED BY <1>1, <1>2, <1>3, <1>4, <1>5 DEF SipInv

\* A process whose job and file are left alone.
LEMMA Stays ==
    ASSUME SipInv, NEW q \in Procs, job'[q] = job[q], temp'[q] = temp[q],
           UNCHANGED target,
           \A g \in Programs :
              source'[g] \in Versions /\ source[g] <= source'[g]
    PROVE  JobOk(q)' /\ TempOk(q)'
<1>1. JobOk(q) /\ TempOk(q) /\ Real(q)' = Real(q)
  BY DEF SipInv, Real
<1>2. ASSUME job[q].pc # "none", job[q].copy PROVE Real(q) \in Programs
  BY <1>1, <1>2, CopyDomain DEF JobOk, Real
<1>3. ASSUME job[q].pc # "none", job[q].copy
      PROVE  source[Real(q)] <= source'[Real(q)]
             /\ source[Real(q)] \in Versions /\ source'[Real(q)] \in Versions
  BY <1>2, <1>3 DEF SipInv, SipType
<1>4. JobOk(q)'
  <2>1. ASSUME job[q].pc # "none", job[q].copy
        PROVE  job[q].st <= source'[Real(q)]
    <3>1. job[q].st \in Versions /\ job[q].st <= source[Real(q)]
      BY <1>1, <2>1 DEF JobOk
    <3> QED BY <1>3, <2>1, <3>1, SipAssumption DEF Versions
  <2> QED BY <1>1, <2>1 DEF JobOk
<1>5. TempOk(q)'
  <2>1. ASSUME job[q].pc \in Copying
        PROVE  FileOk(temp[q], job[q].pc, job[q].st, Real(q))'
    <3>1. FileOk(temp[q], job[q].pc, job[q].st, Real(q))
          /\ job[q].pc # "none" /\ job[q].copy
      BY <1>1, <2>1 DEF TempOk, JobOk, Copying
    <3>2. temp[q].ver <= source'[Real(q)]
      <4>1. temp[q].ver \in Versions /\ temp[q].ver <= source[Real(q)]
        BY <3>1 DEF FileOk
      <4> QED BY <1>3, <3>1, <4>1, SipAssumption DEF Versions
    <3> QED BY <1>1, <3>1, <3>2 DEF FileOk
  <2> QED BY <2>1 DEF TempOk
<1> QED BY <1>4, <1>5

\* Leaving lazy_copy.
LEMMA LeaveKeeps ==
    ASSUME SipInv, NEW p \in Procs, NEW ret \in BOOLEAN, job[p].copy,
           job[p].pc # "none", Leave(p, ret),
           ret => target[Real(p)] # Absent,
           UNCHANGED <<folder, temp, image>>
    PROVE  SipInv'
<1>1. JobOk(p)
  BY DEF SipInv
<1>2. JobOk(p)'
  BY <1>1 DEF SipInv, SipType, JobOk, Leave, Real, folder, Copying
<1>3. TempOk(p)'
  BY DEF SipInv, SipType, TempOk, Leave, Copying
<1> QED BY <1>2, <1>3, OwnStep
        DEF SipInv, SipType, Leave, SipPcs

\* Starting a program is a step of this kind.
LEMMA StartKeeps ==
    ASSUME SipInv, NEW p \in Procs, NEW call0, NEW prog \in Programs,
           StartProgram(p, call0, prog, TRUE)
    PROVE  SipInv'
<1> DEFINE need == CopyNeeded(prog, TRUE)
           st == source[Interpreter(prog)]
<1>1. need \in BOOLEAN
  BY DEF CopyNeeded
<1>2. need => st \in Versions
  BY CopyDomain DEF SipInv, SipType
<1>3. PICK pc0 \in {"check", "exec", "failed"}, seen0 \in BOOLEAN,
           copy0 \in BOOLEAN :
        /\ job' = [job EXCEPT ![p] =
                     [pc |-> pc0, call |-> call0, prog |-> prog,
                      seen |-> seen0, st |-> st, copy |-> copy0,
                      ret |-> FALSE]]
        /\ pc0 = "check" => copy0
        /\ pc0 = "exec" => ~copy0
        /\ copy0 => need
        /\ seen0 /\ need => copy0
  BY <1>1 DEF StartProgram
<1>4. job'[p] = [pc |-> pc0, call |-> call0, prog |-> prog, seen |-> seen0,
                 st |-> st, copy |-> copy0, ret |-> FALSE]
  BY <1>3 DEF SipInv, SipType
<1>5. /\ DOMAIN job'[p] = {"pc", "call", "prog", "seen", "st", "copy", "ret"}
      /\ job'[p].pc = pc0 /\ job'[p].prog = prog /\ job'[p].st = st
      /\ job'[p].seen = seen0
      /\ job'[p].copy = copy0 /\ job'[p].ret = FALSE
  BY <1>4
<1>6. UNCHANGED <<folder, temp, image>>
  BY DEF StartProgram
<1>7. st' = st /\ need' = need
  BY <1>6 DEF folder
<1> HIDE DEF need, st
<1>8. JobOk(p)'
  <2>1. (need => st <= st) /\ Real(p)' = Interpreter(prog)
    BY <1>2, <1>5 DEF Real, Versions
  <2> QED BY <1>1, <1>2, <1>3, <1>5, <1>6, <1>7, <2>1
          DEF JobOk, folder, Copying, need, st
<1>9. TempOk(p)'
  BY <1>5 DEF TempOk, Copying
<1> QED BY <1>1, <1>3, <1>5, <1>6, <1>8, <1>9, OwnStep
        DEF SipInv, SipType, SipPcs

\* Looking for an up to date copy.
LEMMA CheckTargetKeeps ==
    ASSUME SipInv, NEW p \in Procs, CheckTarget(p) PROVE SipInv'
<1>1. JobOk(p) /\ job[p].copy
  BY DEF SipInv, JobOk, CheckTarget, At
<1>3. CASE \/ Goto(p, "copyfile")
           \/ UpToDate(p) /\ Goto(p, "exec")
  <2>1. UNCHANGED <<folder, temp, image>>
    BY DEF CheckTarget
  <2>2. PICK pc0 \in {"copyfile", "exec"} :
          /\ job' = [job EXCEPT ![p].pc = pc0]
          /\ job'[p] = [job[p] EXCEPT !.pc = pc0]
          /\ pc0 = "exec" => target[Real(p)] # Absent
    BY <1>3 DEF Goto, UpToDate, SipInv, SipType
  <2>3. job[p].pc = "check"
    BY DEF CheckTarget, At
  <2>4. JobOk(p)'
    BY <1>1, <2>1, <2>2, <2>3
    DEF JobOk, Real, folder, Copying, SipInv, SipType
  <2>5. TempOk(p)'
    BY <2>2 DEF TempOk, Copying, SipInv, SipType
  <2> QED BY <2>1, <2>2, <2>4, <2>5, OwnStep
          DEF SipInv, SipType, SipPcs
<1>4. CASE Leave(p, FALSE)
  BY <1>1, <1>4, LeaveKeeps DEF CheckTarget, At
<1> QED BY <1>3, <1>4 DEF CheckTarget

\* A step on the temporary file, after which the file is f.
LEMMA FileStep ==
    ASSUME SipInv, NEW p \in Procs, NEW f, NEW pc0 \in Copying,
           job[p].pc \in {"copyfile"} \cup Copying,
           Step(p, f, pc0) \/
               (Goto(p, pc0) /\ temp' = [temp EXCEPT ![p] = f]
                  /\ UNCHANGED <<folder, image>>),
           FileOk(f, pc0, job[p].st, Real(p))
    PROVE  SipInv'
<1>1. JobOk(p) /\ job[p].copy
  BY DEF SipInv, JobOk
<1>2. CASE Goto(p, pc0) /\ temp' = [temp EXCEPT ![p] = f]
             /\ UNCHANGED <<folder, image>>
  <2>1. job'[p] = [job[p] EXCEPT !.pc = pc0] /\ temp'[p] = f
    BY <1>2 DEF Goto, SipInv, SipType
  <2>2. JobOk(p)'
    BY <1>1, <1>2, <2>1
    DEF SipInv, SipType, JobOk, Real, folder, Copying
  <2>3. /\ job'[p].pc = pc0 /\ job'[p].st = job[p].st
        /\ job'[p].prog = job[p].prog
    BY <2>1 DEF SipInv, SipType
  <2>4. TempOk(p)'
    BY <1>2, <2>1, <2>3 DEF TempOk, FileOk, Real, folder
  <2> QED BY <1>2, <2>1, <2>2, <2>4, OwnStep
          DEF Goto, SipInv, SipType, SipPcs
<1>3. CASE Leave(p, FALSE) /\ UNCHANGED <<folder, temp, image>>
  BY <1>1, <1>3, LeaveKeeps DEF Copying
<1> QED BY <1>2, <1>3 DEF Step

\* What is known of a process that is working on its file.
LEMMA Working ==
    ASSUME SipInv, NEW p \in Procs, job[p].pc \in {"copyfile"} \cup Copying
    PROVE  /\ Real(p) \in Programs /\ source[Real(p)] \in Versions
           /\ job[p].st \in Versions /\ job[p].st <= source[Real(p)]
           /\ job[p].pc # "copyfile" =>
                 FileOk(temp[p], job[p].pc, job[p].st, Real(p))
<1>1. JobOk(p) /\ TempOk(p) /\ job[p].copy
  BY DEF SipInv, JobOk
<1>2. Real(p) \in Programs
  BY <1>1, CopyDomain DEF JobOk, Real, Copying
<1> QED BY <1>1, <1>2 DEF JobOk, TempOk, SipInv, SipType, Copying

\* The copy starts with what the program is now, which is not older than the
\* time that was taken.
LEMMA CopyFileKeeps ==
    ASSUME SipInv, NEW p \in Procs, CopyFile(p) PROVE SipInv'
<1> DEFINE f == [ver |-> source[Real(p)], slices |-> Binary[Real(p)],
                 signed |-> "apple", mtime |-> Now, ctime |-> CopyTime,
                 mode |-> "default"]
<1>1. job[p].pc = "copyfile"
  BY DEF CopyFile, At
<1>2. FileOk(f, "strip", job[p].st, Real(p))
  <2>1. /\ source[Real(p)] \in Versions /\ job[p].st <= source[Real(p)]
        /\ source[Real(p)] <= source[Real(p)]
    BY <1>1, Working DEF Versions
  <2>2. DOMAIN f = {"ver", "slices", "signed", "mtime", "ctime", "mode"}
    OBVIOUS
  <2> QED BY <2>1, <2>2 DEF FileOk
<1> QED BY <1>1, <1>2, FileStep DEF CopyFile, Copying

\* Pointer authentication is removed from every slice.
LEMMA StripStepKeeps ==
    ASSUME SipInv, NEW p \in Procs, StripStep(p) PROVE SipInv'
<1>1. job[p].pc = "strip"
  BY DEF StripStep, At
<1> DEFINE stripped == StripPointerAuth(temp[p].slices)
           f == [temp[p] EXCEPT !.slices = stripped, !.signed =
                    IF stripped = temp[p].slices THEN @ ELSE "broken"]
<1>2. FileOk(temp[p], "strip", job[p].st, Real(p))
  BY <1>1, Working DEF Copying
<1>3. FileOk(f, "resign", job[p].st, Real(p))
  BY <1>2 DEF FileOk
<1> QED BY <1>1, <1>3, FileStep DEF StripStep, Copying

\* Signing again, whose status may be lost.
LEMMA ResignKeeps ==
    ASSUME SipInv, NEW p \in Procs, Resign(p) PROVE SipInv'
<1>1. job[p].pc = "resign"
  BY DEF Resign, At
<1>2. FileOk(temp[p], "resign", job[p].st, Real(p))
  BY <1>1, Working DEF Copying
<1>3. \A s \in {"adhoc", "status lost"} :
        FileOk([temp[p] EXCEPT !.signed = s], "utimes", job[p].st, Real(p))
  BY <1>2 DEF FileOk
<1>4. CASE Step(p, [temp[p] EXCEPT !.signed = "adhoc"], "utimes")
  BY <1>1, <1>3, <1>4, FileStep DEF Copying
<1>5. CASE /\ Goto(p, "utimes")
           /\ temp' = [temp EXCEPT ![p].signed = "status lost"]
           /\ UNCHANGED <<folder, image>>
  <2>1. temp' = [temp EXCEPT ![p] = [temp[p] EXCEPT !.signed = "status lost"]]
    BY <1>5
  <2> QED BY <1>1, <1>3, <1>5, <2>1, FileStep DEF Copying
<1> QED BY <1>4, <1>5 DEF Resign

\* The file gets the time that was taken.
LEMMA UtimesKeeps ==
    ASSUME SipInv, NEW p \in Procs, Utimes(p) PROVE SipInv'
<1>1. job[p].pc = "utimes"
  BY DEF Utimes, At
<1>2. FileOk(temp[p], "utimes", job[p].st, Real(p))
  BY <1>1, Working DEF Copying
<1>3. FileOk([temp[p] EXCEPT !.mtime = TimeOf(job[p].st)], "chmod",
             job[p].st, Real(p))
  BY <1>2 DEF FileOk
<1> QED BY <1>1, <1>3, FileStep DEF Utimes, Copying

\* The file gets the mode of the program.
LEMMA ChmodKeeps ==
    ASSUME SipInv, NEW p \in Procs, Chmod(p) PROVE SipInv'
<1>1. job[p].pc = "chmod"
  BY DEF Chmod, At
<1>2. FileOk(temp[p], "chmod", job[p].st, Real(p))
  BY <1>1, Working DEF Copying
<1>3. FileOk([temp[p] EXCEPT !.mode = "source", !.ctime = CopyTime],
             "rename", job[p].st, Real(p))
  BY <1>2 DEF FileOk
<1> QED BY <1>1, <1>3, FileStep DEF Chmod, Copying

\* The copy gets its name: it is whole, and other processes may run it.
LEMMA RenameKeeps ==
    ASSUME SipInv, NEW p \in Procs, Rename(p) PROVE SipInv'
<1>1. JobOk(p) /\ TempOk(p) /\ job[p].copy /\ job[p].pc = "rename"
  BY DEF SipInv, JobOk, Rename, At, Copying
<1>2. Real(p) \in Programs
  BY <1>1, CopyDomain DEF JobOk, Real
<1>3. CASE Leave(p, FALSE) /\ UNCHANGED <<target, temp>>
  BY <1>1, <1>3, LeaveKeeps DEF Rename, folder
<1>4. CASE /\ target' = [target EXCEPT ![Real(p)] =
                            [temp[p] EXCEPT !.ctime = CopyTime]]
           /\ temp' = [temp EXCEPT ![p] = Absent]
           /\ Leave(p, TRUE)
  <2>1. UNCHANGED <<source, lib, image>>
    BY DEF Rename
  <2>2. /\ DOMAIN target' = Programs
        /\ target'[Real(p)] = [temp[p] EXCEPT !.ctime = CopyTime]
        /\ \A g \in Programs : g # Real(p) => target'[g] = target[g]
    BY <1>2, <1>4 DEF SipInv, SipType
  <2>3. job'[p] = [job[p] EXCEPT !.pc = "unlink", !.ret = TRUE]
    BY <1>4 DEF Leave, SipInv, SipType
  <2> PICK g \in Programs : g = Real(p)
    BY <1>2
  <2>10. FileOk(temp[p], "rename", job[p].st, g)
    BY <1>1, Working DEF Copying
  <2>11. /\ DOMAIN target'[g] =
               {"ver", "slices", "signed", "mtime", "ctime", "mode"}
         /\ target'[g].ver = temp[p].ver
         /\ target'[g].mtime = TimeOf(job[p].st)
         /\ Whole(g, target'[g])
    BY <2>2, <2>10 DEF FileOk, Whole
  <2>12. target'[g] # Absent
    BY <2>11 DEF Absent
  <2>4. TargetOk(g)'
    <3>1. /\ temp[p].ver \in Versions /\ job[p].st \in Versions
          /\ job[p].st <= temp[p].ver /\ temp[p].ver <= source[g]
      BY <1>1, <2>10, Working DEF FileOk, Copying
    <3>2. /\ target'[g].ver \in Versions /\ target'[g].ver <= source'[g]
          /\ target'[g].mtime # Truncated =>
                target'[g].mtime \in Versions
                /\ target'[g].mtime <= target'[g].ver
      BY <2>1, <2>11, <3>1 DEF TimeOf
    <3> QED BY <2>11, <3>2 DEF TargetOk
  <2>5. ASSUME NEW h \in Programs, h # g PROVE TargetOk(h)'
    <3>1. TargetOk(h) /\ target'[h] = target[h] /\ source'[h] = source[h]
      BY <2>1, <2>2, <2>5 DEF SipInv
    <3> QED BY <3>1 DEF TargetOk
  <2>6. \A q \in Procs : JobOk(q)'
    <3> SUFFICES ASSUME NEW q \in Procs PROVE JobOk(q)'
      OBVIOUS
    <3>1. JobOk(q)
      BY DEF SipInv
    <3>2. ASSUME q # p PROVE job'[q] = job[q]
      BY <1>4, <3>2 DEF Leave, SipInv, SipType
    <3>3. CASE q = p
      BY <1>1, <2>1, <2>3, <2>12, <3>3
      DEF JobOk, Real, Copying, SipInv, SipType
    <3>4. CASE q # p
      <4>1. ASSUME job[q].copy, job[q].pc # "none" PROVE Real(q) \in Programs
        BY <3>1, <4>1, CopyDomain DEF JobOk, Real
      <4>2. Real(q)' = Real(q)
        BY <3>2, <3>4 DEF Real
      <4>3. ASSUME Real(q) \in Programs, target[Real(q)] # Absent
            PROVE  target'[Real(q)] # Absent
        BY <2>2, <2>12, <4>3
      <4> QED BY <2>1, <3>1, <3>2, <3>4, <4>1, <4>2, <4>3 DEF JobOk
    <3> QED BY <3>3, <3>4
  <2>7. \A q \in Procs : TempOk(q)'
    <3> SUFFICES ASSUME NEW q \in Procs PROVE TempOk(q)'
      OBVIOUS
    <3>1. CASE q = p
      BY <2>3, <3>1 DEF TempOk, Copying, SipInv, SipType
    <3>2. CASE q # p
      <4>1. job'[q] = job[q] /\ temp'[q] = temp[q] /\ TempOk(q)
        BY <1>4, <3>2 DEF Leave, SipInv, SipType
      <4> QED BY <2>1, <4>1 DEF TempOk, FileOk, Real
    <3> QED BY <3>1, <3>2
  <2>8. RunsWhole'
    BY <2>1 DEF RunsWhole, SipInv
  <2>9. SipType'
    BY <1>4, <2>1, <2>2, <2>3 DEF Leave, SipInv, SipType, SipPcs
  <2> QED BY <2>4, <2>5, <2>6, <2>7, <2>8, <2>9 DEF SipInv
<1> QED BY <1>3, <1>4 DEF Rename

\* The end of lazy_copy.
LEMMA UnlinkKeeps ==
    ASSUME SipInv, NEW p \in Procs, Unlink(p) PROVE SipInv'
<1>1. JobOk(p) /\ job[p].pc = "unlink"
  BY DEF SipInv, Unlink, At
<1>2. PICK pc0 \in {"exec", "failed"} :
        /\ job' = [job EXCEPT ![p].pc = pc0]
        /\ job'[p] = [job[p] EXCEPT !.pc = pc0]
        /\ pc0 = "exec" => job[p].ret
  BY DEF Unlink, Goto, SipInv, SipType
<1>3. JobOk(p)'
  BY <1>1, <1>2 DEF JobOk, Unlink, Real, folder, Copying, SipInv, SipType
<1>4. TempOk(p)'
  BY <1>2 DEF TempOk, Copying, SipInv, SipType
<1> QED BY <1>2, <1>3, <1>4, OwnStep
        DEF Unlink, Goto, SipInv, SipType, SipPcs

\* A script that is run by a copy is named after the interpreter's own
\* arguments.
LEMMA ArgvHead ==
    ASSUME NEW prog \in Programs
    PROVE  /\ Argv(prog, TRUE) # << >>
           /\ Head(Argv(prog, TRUE)) = Interpreter(prog)
<1>1. Shebang[prog] \in Seq(Programs \cup {"-e"})
  BY SipAssumption
<1>2. CASE Shebang[prog] = << >>
  BY <1>2 DEF Argv, Interpreter
<1>3. CASE Shebang[prog] # << >>
  BY <1>1, <1>3 DEF Argv, Interpreter
<1> QED BY <1>2, <1>3

\* What is run is the copy that has the name, which is whole, or the program.
LEMMA ExecKeeps ==
    ASSUME SipInv, NEW p \in Procs, Exec(p) PROVE SipInv'
<1>1. JobOk(p) /\ job[p].pc = "exec" /\ job[p].prog \in Programs
  BY DEF SipInv, Exec, At, JobOk
<1>2. PICK pc0 \in {"started", "failed"} :
        job' = [job EXCEPT ![p].pc = pc0]
  BY DEF Exec, Goto
<1>3. job'[p] = [job[p] EXCEPT !.pc = pc0]
  BY <1>2 DEF SipInv, SipType
<1>10. UNCHANGED <<folder, temp>>
  BY DEF Exec
<1>11. ASSUME NEW q \in Procs, q # p PROVE JobOk(q)' /\ TempOk(q)'
  <2>1. job'[q] = job[q]
    BY <1>2, <1>11 DEF SipInv, SipType
  <2>2. \A g \in Programs :
          source'[g] \in Versions /\ source[g] <= source'[g]
    BY <1>10 DEF folder, SipInv, SipType, Versions
  <2> QED BY <1>10, <2>1, <2>2, Stays DEF folder
<1>4. JobOk(p)'
  BY <1>1, <1>3, <1>10 DEF JobOk, Real, folder, Copying, SipInv, SipType
<1>5. TempOk(p)'
  BY <1>3 DEF TempOk, Copying, SipInv, SipType
<1>6. \A g \in Programs : TargetOk(g)'
  BY DEF Exec, TargetOk, folder, SipInv
<1>7. SipType'
  BY <1>2, <1>3 DEF Exec, folder, SipInv, SipType, SipPcs
<1>8. RunsWhole'
  <2>1. CASE UNCHANGED image
    BY <2>1 DEF RunsWhole, SipInv
  <2>2. CASE image' = [image EXCEPT ![p] =
                [prog |-> job[p].prog, seen |-> job[p].seen,
                 file |-> IF job[p].copy THEN target[Real(p)] ELSE Absent,
                 argv |-> Argv(job[p].prog, job[p].copy)]]
    <3>1. ASSUME job[p].copy
          PROVE  /\ target[Real(p)] # Absent
                 /\ Whole(Real(p), target[Real(p)])
      BY <1>1, <3>1, CopyDomain DEF JobOk, Real, TargetOk, SipInv
    <3>2. /\ job[p].copy => CopyNeeded(job[p].prog, TRUE)
          /\ job[p].seen /\ CopyNeeded(job[p].prog, TRUE) => job[p].copy
      BY <1>1 DEF JobOk
    <3>3. job[p].copy \in BOOLEAN
      BY DEF SipInv, SipType
    <3> DEFINE i == image'[p]
    <3>4. i = [prog |-> job[p].prog, seen |-> job[p].seen,
               file |-> IF job[p].copy THEN target[Real(p)] ELSE Absent,
               argv |-> Argv(job[p].prog, job[p].copy)]
      BY <2>2 DEF SipInv, SipType
    <3>5. i.file # Absent => job[p].copy
      BY <3>4
    <3>6. i.file # Absent =>
            /\ Whole(Interpreter(i.prog), i.file)
            /\ i.argv # << >> /\ Head(i.argv) = Interpreter(i.prog)
      <4> SUFFICES ASSUME i.file # Absent
                   PROVE  /\ Whole(Interpreter(i.prog), i.file)
                          /\ i.argv # << >>
                          /\ Head(i.argv) = Interpreter(i.prog)
        OBVIOUS
      <4>1. job[p].copy = TRUE
        BY <3>3, <3>5
      <4>2. i.prog = job[p].prog /\ i.file = target[Real(p)]
        BY <3>4, <4>1
      <4>3. i.argv = Argv(job[p].prog, job[p].copy)
        BY <3>4
      <4> QED BY <1>1, <3>1, <4>1, <4>2, <4>3, ArgvHead DEF Real
    <3>7. /\ i.file # Absent => CopyNeeded(i.prog, TRUE)
          /\ i.seen /\ i.file = Absent => ~CopyNeeded(i.prog, TRUE)
      <4>1. i.prog = job[p].prog /\ i.seen = job[p].seen
            /\ i.file = IF job[p].copy THEN target[Real(p)] ELSE Absent
        BY <3>4
      <4>2. CASE job[p].copy
        BY <3>1, <3>2, <4>1, <4>2
      <4>3. CASE ~job[p].copy
        BY <3>2, <4>1, <4>3
      <4> QED BY <4>2, <4>3
    <3>8. \A q \in Procs \ {p} : image'[q] = image[q]
      BY <2>2 DEF SipInv, SipType
    <3>9. ImageOk(i)
      BY <3>6, <3>7 DEF ImageOk
    <3>10. ASSUME NEW q \in Procs, q # p PROVE ImageOk(image'[q])
      <4>1. ImageOk(image[q])
        BY DEF ImageOk, RunsWhole, SipInv
      <4> QED BY <3>8, <3>10, <4>1
    <3> QED BY <3>9, <3>10 DEF ImageOk, RunsWhole
  <2> QED BY <2>1, <2>2 DEF Exec
<1> QED BY <1>11, <1>4, <1>5, <1>6, <1>7, <1>8 DEF SipInv

\* Every step of a program that starts another one.
LEMMA SipStepKeeps ==
    ASSUME SipInv, NEW p \in Procs, SipStep(p) PROVE SipInv'
BY CheckTargetKeeps, CopyFileKeeps, StripStepKeeps, ResignKeeps, UtimesKeeps,
   ChmodKeeps, RenameKeeps, UnlinkKeeps, ExecKeeps DEF SipStep, LazyCopy

\* Processes that are gone.
LEMMA GoneKeeps ==
    ASSUME SipInv, NEW P \in SUBSET Procs, Gone(P) PROVE SipInv'
<1>1. SipType'
  BY DEF Gone, SipInv, SipType, NoJob, SipPcs, folder
<1>2. ASSUME NEW q \in P PROVE JobOk(q)' /\ TempOk(q)'
  BY DEF Gone, JobOk, TempOk, NoJob, Copying
<1>3. ASSUME NEW q \in Procs \ P PROVE JobOk(q)' /\ TempOk(q)'
  <2>1. /\ job'[q] = job[q] /\ temp'[q] = temp[q]
        /\ UNCHANGED <<source, target>>
    BY DEF Gone, folder
  <2>2. \A g \in Programs :
          source'[g] \in Versions /\ source[g] <= source'[g]
    BY <2>1 DEF SipInv, SipType, Versions
  <2> QED BY <2>1, <2>2, Stays
<1>4. \A g \in Programs : TargetOk(g)'
  BY DEF Gone, SipInv, TargetOk, folder
<1>5. RunsWhole'
  BY DEF Gone, SipInv, SipType, RunsWhole, NoImage
<1> QED BY <1>1, <1>2, <1>3, <1>4, <1>5 DEF SipInv

\* A newer program makes no time and no copy wrong.
LEMMA SystemUpdateKeeps == ASSUME SipInv, SystemUpdate PROVE SipInv'
<1>1. \A g \in Programs : /\ source'[g] \in Versions
                          /\ source[g] <= source'[g]
  <2> SUFFICES ASSUME NEW g \in Programs
               PROVE  source'[g] \in Versions /\ source[g] <= source'[g]
    OBVIOUS
  <2>1. lib.installed \div 2 \in Nat /\ lib.installed \div 2 >= 1
    BY DEF SipInv, SipType
  <2>2. source[g] + lib.installed \div 2 <= MaxUpdates
    BY DEF SystemUpdate, MayUpdate
  <2>3. source[g] \in Nat /\ MaxUpdates \in Nat
    BY SipAssumption DEF SipInv, SipType, Versions
  <2>4. source[g] + 1 \in Versions
    <3> DEFINE d == lib.installed \div 2
    <3> HIDE DEF d
    <3>1. d \in Nat /\ d >= 1 /\ source[g] + d <= MaxUpdates
      BY <2>1, <2>2 DEF d
    <3> QED BY <2>3, <3>1 DEF Versions
  <2> QED BY <2>3, <2>4 DEF SystemUpdate, SipInv, SipType
<1>2. SipType'
  BY <1>1 DEF SystemUpdate, SipInv, SipType
<1>3. \A p \in Procs : JobOk(p)' /\ TempOk(p)'
  BY <1>1, Stays DEF SystemUpdate
<1>4. ASSUME NEW g \in Programs PROVE TargetOk(g)'
  <2>1. TargetOk(g) /\ target' = target
    BY DEF SipInv, SystemUpdate
  <2>2. source[g] \in Versions /\ source'[g] \in Versions
        /\ source[g] <= source'[g]
    BY <1>1 DEF SipInv, SipType
  <2>3. ASSUME target[g] # Absent PROVE target[g].ver <= source'[g]
    BY <2>1, <2>2, <2>3 DEF TargetOk, Versions
  <2> QED BY <2>1, <2>3 DEF TargetOk
<1>7. RunsWhole'
  BY DEF SystemUpdate, SipInv, RunsWhole
<1> QED BY <1>2, <1>3, <1>4, <1>7 DEF SipInv

\* A step that changes no more than the library, or nothing.
LEMMA SipStutter ==
    ASSUME SipInv, UNCHANGED <<source, target, temp, job, image>>, SipType'
    PROVE  SipInv'
<1>1. \A q \in Procs : JobOk(q)' /\ TempOk(q)'
  <2>1. \A g \in Programs :
          source'[g] \in Versions /\ source[g] <= source'[g]
    BY DEF SipInv, SipType, Versions
  <2> QED BY <2>1, Stays
<1>2. \A g \in Programs : TargetOk(g)'
  BY DEF SipInv, TargetOk
<1>3. RunsWhole'
  BY DEF SipInv, RunsWhole
<1> QED BY <1>1, <1>2, <1>3 DEF SipInv

\* An update of MacPorts changes the library only.
LEMMA SelfUpdateKeeps == ASSUME SipInv, SelfUpdate PROVE SipInv'
<1>1. SipType'
  BY DEF SelfUpdate, SipInv, SipType
<1> QED BY <1>1, SipStutter DEF SelfUpdate

-----------------------------------------------------------------------------
(* The port process and its children.                                      *)

\* Everything a step does to a child, unless its own call waits for it.
KidKeeps(n) ==
    /\ KidType(kid'[n])
    /\ kid'[n].opts = kid[n].opts
    /\ kid'[n].pipe # kid[n].pipe => HasReader(n)
    /\ kid'[n].pc = "ended" =>
          kid'[n].exit \in {"zero", "nonzero", "signal"}
    /\ kid[n].pc = "reaped" =>
          kid'[n].pc = "reaped" /\ kid'[n].exit = kid[n].exit
          /\ kid'[n].pipe = kid[n].pipe

\* Steps of children change nothing that the call has seen.
LEMMA KidsKeep ==
    ASSUME PortInv, DOMAIN kid' = Procs, UNCHANGED call,
           interrupted => interrupted', \A n \in Procs : KidKeeps(n)
    PROVE  PortInv'
<1>1. PortType'
  BY DEF PortInv, PortType, KidKeeps
<1>2. Drained'
  <2>1. ASSUME call.pc # "idle"
        PROVE  kid'[call.n].opts = kid[call.n].opts /\ KidKeeps(call.n)
    BY <2>1 DEF PortInv, PortType, KidKeeps
  <2> QED BY <2>1 DEF PortInv, Drained, Idle, Opts, Parent, KidKeeps, HasReader
<1>3. ExitKnown'
  BY DEF ExitKnown, KidKeeps
<1>4. ResultTrue'
  <2> SUFFICES ASSUME call.pc = "cleanup"
               PROVE  ResultTrue'
    BY DEF ResultTrue, Parent
  <2>1. KidKeeps(call.n)
    BY DEF PortInv, PortType
  <2> QED BY <2>1 DEF PortInv, ResultTrue, Parent, KidKeeps
<1> QED BY <1>1, <1>2, <1>3, <1>4 DEF PortInv

\* The same of one child, when the others are left alone.
LEMMA KidKeepsAlone ==
    ASSUME PortInv, NEW n \in Procs, UNCHANGED call, NEW k,
           interrupted => interrupted', kid' = [kid EXCEPT ![n] = k],
           KidType(k), k.opts = kid[n].opts,
           k.pipe # kid[n].pipe => HasReader(n),
           k.pc = "ended" => k.exit \in {"zero", "nonzero", "signal"},
           kid[n].pc = "reaped" =>
               k.pc = "reaped" /\ k.exit = kid[n].exit /\ k.pipe = kid[n].pipe
    PROVE  PortInv'
<1>1. DOMAIN kid' = Procs /\ kid'[n] = k
      /\ \A m \in Procs \ {n} : kid'[m] = kid[m]
  BY DEF PortInv, PortType
<1>2. KidKeeps(n)
  BY <1>1 DEF KidKeeps
<1>3. ASSUME NEW m \in Procs, m # n PROVE KidKeeps(m)
  BY <1>1, <1>3 DEF KidKeeps, PortInv, PortType, ExitKnown
<1> QED BY <1>1, <1>2, <1>3, KidsKeep

\* A child that is gone.
LEMMA EndedKeeps ==
    ASSUME PortInv, NEW n \in Procs, kid[n].pc \in {"setup", "command"},
           NEW how \in {"zero", "nonzero", "signal"}
    PROVE  /\ KidType(Ended(n, how))
           /\ Ended(n, how).pc = "ended" /\ Ended(n, how).exit = how
           /\ Ended(n, how).opts = kid[n].opts
           /\ Ended(n, how).pipe = kid[n].pipe
<1>1. KidType(kid[n])
  BY DEF PortInv, PortType
<1> QED BY <1>1 DEF Ended, KidType, KidPcs

\* A child that is gone takes its job with it.
LEMMA DiesKeeps ==
    ASSUME IInv, NEW n \in Procs, kid[n].pc \in {"setup", "command"},
           NEW how \in {"zero", "nonzero", "signal"}, Dies(n, how),
           UNCHANGED call, interrupted => interrupted'
    PROVE  IInv'
<1>1. SipInv'
  BY GoneKeeps DEF Dies, IInv
<1>2. PortInv'
  BY EndedKeeps, KidKeepsAlone DEF Dies, IInv
<1> QED BY <1>1, <1>2 DEF IInv

\* Steps that leave the calls and their children alone.
LEMMA PortStutter == ASSUME PortInv, UNCHANGED port PROVE PortInv'
<1>1. \A n \in Procs : KidKeeps(n)
  BY DEF PortInv, PortType, ExitKnown, KidKeeps, port
<1> QED BY <1>1, KidsKeep DEF port, PortInv, PortType

\* The child starts its program, or ends before.
LEMMA ChildSetupKeeps ==
    ASSUME IInv, NEW n \in Procs, ChildSetup(n) PROVE IInv'
<1>1. kid[n].pc = "setup" /\ UNCHANGED <<call, interrupted>>
  BY DEF ChildSetup
<1>2. CASE /\ SipCopyExecve(n, CheckSandboxing(kid[n].opts), TRUE)
           /\ kid' = [kid EXCEPT ![n].pc = "command"]
  <2>1. SipInv'
    BY <1>2, StartKeeps, SystemAssumption
    DEF SipCopyExecve, CheckSandboxing, IInv
  <2> DEFINE k == [kid[n] EXCEPT !.pc = "command"]
  <2>2. kid' = [kid EXCEPT ![n] = k]
    BY <1>2
  <2>3. KidType(k) /\ k.opts = kid[n].opts /\ k.pipe = kid[n].pipe
        /\ k.pc = "command"
    BY DEF IInv, PortInv, PortType, KidType, KidPcs
  <2>4. PortInv'
    <3> HIDE DEF k
    <3> QED BY <1>1, <2>2, <2>3, KidKeepsAlone DEF IInv
  <2> QED BY <2>1, <2>4 DEF IInv
<1>3. CASE Dies(n, "nonzero")
  BY <1>1, <1>3, DiesKeeps
<1> QED BY <1>2, <1>3 DEF ChildSetup

\* Every step of a child.
LEMMA ChildKeeps ==
    ASSUME IInv, NEW n \in Procs, Child(n) PROVE IInv'
<1>1. CASE ChildSetup(n)
  BY <1>1, ChildSetupKeeps
<1>2. CASE ChildSip(n)
  BY <1>2, SipStepKeeps, PortStutter DEF ChildSip, IInv
<1>3. CASE ExecFailed(n)
  BY <1>3, DiesKeeps DEF ExecFailed, InCommand
<1>4. CASE WriteLine(n)
  <2>1. kid[n].pc = "command" /\ kid[n].lines > 0
        /\ UNCHANGED <<call, interrupted>>
    BY <1>4 DEF WriteLine, Runs, InCommand
  <2>2. CASE /\ HasReader(n)
             /\ kid' = [kid EXCEPT ![n].lines = @ - 1, ![n].pipe = @ + 1]
             /\ UNCHANGED <<folder, temp, job, image>>
    <3> DEFINE k == [kid[n] EXCEPT !.lines = @ - 1, !.pipe = @ + 1]
    <3>1. kid' = [kid EXCEPT ![n] = k]
      BY <2>2 DEF IInv, PortInv, PortType
    <3>2. KidType(k) /\ k.opts = kid[n].opts /\ k.pc = "command"
      BY <2>1 DEF IInv, PortInv, PortType, KidType, KidPcs
    <3>3. PortInv'
      <4> HIDE DEF k
      <4> QED BY <2>1, <2>2, <3>1, <3>2, KidKeepsAlone DEF IInv
    <3>4. SipInv'
      BY <2>2, SipStutter DEF IInv, SipInv, SipType, folder
    <3> QED BY <3>3, <3>4 DEF IInv
  <2>3. CASE Dies(n, "signal")
    BY <2>1, <2>3, DiesKeeps
  <2> QED BY <1>4, <2>2, <2>3 DEF WriteLine
<1>5. CASE ShellEnds(n)
  <2>1. PICK how \in {"zero", "nonzero"} : Dies(n, how)
    BY <1>5 DEF ShellEnds
  <2> QED BY <1>5, <2>1, DiesKeeps DEF ShellEnds, Runs, InCommand
<1> QED BY <1>1, <1>2, <1>3, <1>4, <1>5 DEF Child

\* What a shell starts, and its end.
LEMMA ToolKeeps ==
    ASSUME IInv, NEW n \in Procs, SpawnTool(n) \/ ToolEnds(n) PROVE IInv'
<1>1. CASE SpawnTool(n)
  BY <1>1, StartKeeps, PortStutter DEF SpawnTool, SipCopyPosixSpawn, IInv
<1>2. CASE ToolEnds(n)
  <2> DEFINE k == [kid[n] EXCEPT !.tool = "done"]
  <2>1. kid' = [kid EXCEPT ![n] = k] /\ UNCHANGED <<call, interrupted>>
    BY <1>2 DEF ToolEnds
  <2>2. KidType(k) /\ k.opts = kid[n].opts /\ k.pipe = kid[n].pipe
        /\ k.pc = kid[n].pc /\ k.exit = kid[n].exit
    BY DEF IInv, PortInv, PortType, KidType
  <2>3. PortInv'
    <3> HIDE DEF k
    <3> QED BY <2>1, <2>2, KidKeepsAlone DEF IInv, PortInv, ExitKnown
  <2>4. SipInv'
    BY <1>2, SipStutter DEF ToolEnds, sipVars, folder, IInv, SipInv, SipType
  <2> QED BY <2>3, <2>4 DEF IInv
<1> QED BY <1>1, <1>2

\* A child that is killed.
LEMMA KilledKeeps ==
    ASSUME IInv, NEW n \in Procs, ChildKilled(n) PROVE IInv'
BY DiesKeeps DEF ChildKilled

\* An interrupt, which ends the commands that do not handle it.
LEMMA InterruptKeeps == ASSUME IInv, Interrupt PROVE IInv'
<1>1. PICK killed \in SUBSET {n \in Procs :
                                InCommand(n) /\ ~kid[n].opts.notty} :
        /\ kid' = [n \in Procs |->
                     IF n \in killed THEN Ended(n, "signal") ELSE kid[n]]
        /\ Gone(killed)
  BY DEF Interrupt
<1>2. SipInv'
  BY <1>1, GoneKeeps DEF IInv
<1>3. ASSUME NEW n \in Procs PROVE KidKeeps(n)
  <2>1. CASE n \in killed
    <3>1. kid'[n] = Ended(n, "signal") /\ kid[n].pc = "command"
      BY <1>1, <2>1 DEF InCommand
    <3> QED BY <3>1, EndedKeeps DEF KidKeeps, IInv
  <2>2. CASE n \notin killed
    BY <1>1, <2>2 DEF KidKeeps, IInv, PortInv, PortType, ExitKnown
  <2> QED BY <2>1, <2>2
<1>4. PortInv'
  BY <1>1, <1>3, KidsKeep DEF Interrupt, IInv
<1> QED BY <1>2, <1>4 DEF IInv

\* Steps of the port process, which leave the copies alone.
LEMMA SipSame ==
    ASSUME SipInv, UNCHANGED <<folder, temp, job, image>> PROVE SipInv'
BY SipStutter DEF SipInv, SipType, folder

\* A new call forks its child, or fails before.
LEMMA SystemKeeps ==
    ASSUME IInv, NEW o \in Options, System(o) PROVE IInv'
<1>1. SipInv'
  BY SipSame DEF System, IInv
<1> DEFINE n == call.n + 1
           fd == IF o.dup THEN "open" ELSE "closed"
           c == [call EXCEPT !.n = n, !.rfd = fd, !.wfd = fd,
                             !.readFailed = FALSE]
<1>2. call.pc = "idle" /\ n \in Procs /\ n \in Nat
  <2>1. Idle /\ call.n + 1 \in Procs
    BY DEF System
  <2>2. call.n \in Nat
    BY DEF IInv, PortInv, PortType
  <2> QED BY <2>1, <2>2 DEF Idle
<1>3. CASE /\ call' = [c EXCEPT !.pc =
                         IF o.callback THEN "event" ELSE AfterFork(o)]
           /\ \E l \in IF o.dup THEN 0 .. MaxLines ELSE {0} :
                 kid' = [kid EXCEPT ![n] =
                     [NoKid EXCEPT !.pc = "setup", !.opts = o, !.lines = l]]
  <2>1. PICK l \in Nat :
          kid' = [kid EXCEPT ![n] =
                    [NoKid EXCEPT !.pc = "setup", !.opts = o, !.lines = l]]
    <3>1. (IF o.dup THEN 0 .. MaxLines ELSE {0}) \subseteq Nat
      OBVIOUS
    <3> HIDE DEF n, c
    <3> QED BY <1>3, <3>1
  <2>2. /\ DOMAIN kid' = Procs
        /\ kid'[n] = [NoKid EXCEPT !.pc = "setup", !.opts = o, !.lines = l]
        /\ \A m \in Procs \ {n} : kid'[m] = kid[m]
    BY <1>2, <2>1 DEF IInv, PortInv, PortType
  <2>3. /\ KidType(kid'[n]) /\ kid'[n].pc = "setup" /\ kid'[n].opts = o
        /\ kid'[n].pipe = 0
    BY <2>2, SystemAssumption DEF NoKid, KidType, KidPcs
  <2>4. /\ call'.n = n /\ call'.rfd = fd
        /\ call'.pc = IF o.callback THEN "event" ELSE AfterFork(o)
        /\ call'.readFailed = FALSE
        /\ DOMAIN call' = DOMAIN call
    BY <1>3 DEF IInv, PortInv, PortType
  <2>5. call'.pc \in {"event", "fdopen", "wait"}
        /\ (call'.pc = "wait" => ~o.dup)
    BY <2>4 DEF AfterFork
  <2> HIDE DEF n, c
  <2>6. PortType'
    <3>1. ASSUME NEW m \in Procs PROVE KidType(kid'[m])
      BY <2>2, <2>3 DEF IInv, PortInv, PortType
    <3> QED BY <1>2, <2>2, <2>4, <2>5, <3>1
            DEF IInv, PortInv, PortType, CallPcs
  <2>7. Drained'
    BY <2>3, <2>4, <2>5 DEF Drained, Idle, Opts, Parent
  <2>8. ExitKnown'
    BY <2>2, <2>3 DEF IInv, PortInv, ExitKnown
  <2>9. ResultTrue'
    BY <2>5 DEF ResultTrue, Parent
  <2> QED BY <1>1, <2>6, <2>7, <2>8, <2>9 DEF IInv, PortInv
<1>4. CASE ToCleanup(c, "error", "none") /\ kid' = kid
  <2>1. /\ call'.pc = "cleanup" /\ call'.n = n /\ call'.readFailed = FALSE
        /\ call'.status = "error" /\ call'.code = "none"
        /\ DOMAIN call' = DOMAIN call
    BY <1>4 DEF ToCleanup, IInv, PortInv, PortType
  <2> HIDE DEF n, c
  <2>2. PortType'
    BY <1>2, <1>4, <2>1 DEF IInv, PortInv, PortType, CallPcs
  <2>3. Drained' /\ ExitKnown' /\ ResultTrue'
    BY <1>4, <2>1
    DEF IInv, PortInv, Drained, ExitKnown, ResultTrue, Parent
  <2> QED BY <1>1, <2>2, <2>3 DEF IInv, PortInv
<1>5. CASE call' = [call EXCEPT !.n = n] /\ kid' = kid
  <2>1. /\ call'.pc = "idle" /\ call'.n = n /\ DOMAIN call' = DOMAIN call
        /\ call'.readFailed = call.readFailed
    BY <1>2, <1>5 DEF IInv, PortInv, PortType
  <2> HIDE DEF n
  <2>2. PortType'
    BY <1>2, <1>5, <2>1 DEF IInv, PortInv, PortType
  <2>3. Drained' /\ ExitKnown' /\ ResultTrue'
    BY <1>5, <2>1
    DEF IInv, PortInv, Drained, ExitKnown, ResultTrue, Parent, Idle
  <2> QED BY <1>1, <2>2, <2>3 DEF IInv, PortInv
<1> QED BY <1>3, <1>4, <1>5 DEF System

\* The call goes to its cleanup with an error that has no code.
LEMMA PlainError ==
    ASSUME PortInv, NEW c, call.pc # "idle",
           DOMAIN c = DOMAIN call, c.n = call.n,
           c.readFailed \in BOOLEAN, ToCleanup(c, "error", "none"),
           DOMAIN kid' = Procs, \A n \in Procs : KidType(kid'[n]),
           ExitKnown'
    PROVE  PortInv'
<1>1. /\ call'.pc = "cleanup" /\ call'.n = call.n
      /\ call'.readFailed \in BOOLEAN
      /\ call'.status = "error" /\ call'.code = "none"
      /\ DOMAIN call' = DOMAIN call
  BY DEF ToCleanup, PortInv, PortType
<1>2. PortType'
  BY <1>1 DEF PortInv, PortType, CallPcs
<1>3. Drained' /\ ResultTrue'
  BY <1>1 DEF Drained, ResultTrue, Parent
<1> QED BY <1>2, <1>3 DEF PortInv

\* The call goes on, and its children are left alone.
LEMMA GoesOn ==
    ASSUME PortInv, NEW c, NEW pc0 \in {"fdopen", "read", "wait"},
           call.pc # "idle", DOMAIN c = DOMAIN call, c.n = call.n,
           c.readFailed \in BOOLEAN, call' = c, c.pc = pc0, kid' = kid,
           pc0 = "wait" /\ ~c.readFailed =>
               /\ kid[call.n].pipe = 0 \/ c.rfd = "cut"
               /\ c.rfd # "open"
    PROVE  PortInv'
<1>1. PortType'
  BY DEF PortInv, PortType, CallPcs
<1>2. Drained' /\ ResultTrue' /\ ExitKnown'
  BY DEF Drained, ResultTrue, ExitKnown, Parent, PortInv
<1> QED BY <1>1, <1>2 DEF PortInv

\* The steps of a call up to its wait.
LEMMA ParentKeeps ==
    ASSUME IInv, ExecEvent \/ OpenPipe \/ ReadLine \/ ReadEnd PROVE IInv'
<1> USE DEF IInv
<1>1. SipInv'
  BY SipSame DEF ExecEvent, OpenPipe, ReadLine, ReadEnd, sipVars
<1>2. /\ call.pc \in {"event", "fdopen", "read"} /\ call.n \in Procs
      /\ DOMAIN call =
            {"pc", "n", "rfd", "wfd", "readFailed", "status", "code"}
      /\ call.readFailed \in BOOLEAN /\ KidType(kid[call.n])
  BY DEF ExecEvent, OpenPipe, ReadLine, ReadEnd, Parent, PortInv, PortType
<1>3. CASE ExecEvent
  <2>1. CASE call' = [call EXCEPT !.pc = AfterFork(Opts)]
    <3> DEFINE c == [call EXCEPT !.pc = AfterFork(Opts)]
    <3>1. /\ DOMAIN c = DOMAIN call /\ c.n = call.n
          /\ c.readFailed = call.readFailed /\ c.rfd = call.rfd
          /\ c.pc = AfterFork(Opts)
      BY <1>2
    <3>2. kid[call.n].opts.dup \in BOOLEAN
      BY <1>2 DEF KidType
    <3>3. c.pc \in {"fdopen", "wait"} /\ (c.pc = "wait" => ~Opts.dup)
      BY <3>1, <3>2 DEF AfterFork, Opts
    <3>4. c.pc = "wait" => kid[call.n].pipe = 0 /\ c.rfd # "open"
      BY <1>3, <3>1, <3>3 DEF PortInv, Drained, Parent, ExecEvent, Idle
    <3> HIDE DEF c
    <3>5. call' = c /\ kid' = kid
      BY <1>3, <2>1 DEF ExecEvent, c
    <3> QED BY <1>1, <1>2, <3>1, <3>3, <3>4, <3>5, GoesOn
  <2>2. CASE ToCleanup(call, "error", "none")
    BY <1>1, <1>2, <1>3, <2>2, PlainError
    DEF ExecEvent, PortInv, PortType, ExitKnown
  <2> QED BY <1>3, <2>1, <2>2 DEF ExecEvent
<1>4. CASE OpenPipe
  <2> DEFINE c == [call EXCEPT !.wfd = "closed"]
  <2>1. /\ DOMAIN c = DOMAIN call /\ c.n = call.n
        /\ c.readFailed = call.readFailed
    BY <1>2
  <2>2. CASE call' = [c EXCEPT !.pc = "read"]
    <3> DEFINE d == [c EXCEPT !.pc = "read"]
    <3>1. /\ DOMAIN d = DOMAIN call /\ d.n = call.n /\ d.pc = "read"
          /\ d.readFailed = call.readFailed
      BY <1>2
    <3>2. call' = d /\ kid' = kid
      BY <1>4, <2>2 DEF OpenPipe
    <3> HIDE DEF d
    <3> QED BY <1>1, <1>2, <3>1, <3>2, GoesOn
  <2>3. CASE call' = [c EXCEPT !.pc = "wait", !.readFailed = TRUE]
    <3> DEFINE d == [c EXCEPT !.pc = "wait", !.readFailed = TRUE]
    <3>1. /\ DOMAIN d = DOMAIN call /\ d.n = call.n /\ d.pc = "wait"
          /\ d.readFailed = TRUE
      BY <1>2
    <3>2. call' = d /\ kid' = kid
      BY <1>4, <2>3 DEF OpenPipe
    <3> HIDE DEF d
    <3> QED BY <1>1, <1>2, <3>1, <3>2, GoesOn
  <2>4. CASE ToCleanup(c, "error", "none")
    BY <1>1, <1>2, <1>4, <2>1, <2>4, PlainError
    DEF OpenPipe, PortInv, PortType, ExitKnown
  <2> QED BY <1>4, <2>2, <2>3, <2>4 DEF OpenPipe
<1>5. CASE ReadLine
  <2> DEFINE k == [kid[call.n] EXCEPT !.pipe = @ - 1]
  <2>1. call.pc = "read" /\ kid[call.n].pipe > 0
        /\ kid' = [kid EXCEPT ![call.n] = k]
    BY <1>5 DEF ReadLine, Parent
  <2>2. /\ KidType(k) /\ k.pc = kid[call.n].pc /\ k.exit = kid[call.n].exit
        /\ k.opts = kid[call.n].opts
    BY <1>2, <2>1 DEF KidType
  <2> HIDE DEF k
  <2>3. /\ DOMAIN kid' = Procs /\ kid'[call.n] = k
        /\ \A m \in Procs \ {call.n} : kid'[m] = kid[m]
    BY <1>2, <2>1 DEF PortInv, PortType
  <2>4. \A m \in Procs : KidType(kid'[m])
    BY <2>2, <2>3 DEF PortInv, PortType
  <2>5. ExitKnown'
    BY <2>2, <2>3 DEF ExitKnown, PortInv
  <2>6. CASE UNCHANGED call
    <3>1. PortType'
      BY <2>3, <2>4, <2>6 DEF PortInv, PortType
    <3>2. Drained' /\ ResultTrue'
      BY <2>1, <2>6 DEF Drained, ResultTrue, Parent
    <3> QED BY <1>1, <2>5, <3>1, <3>2 DEF PortInv
  <2>7. CASE ToCleanup([call EXCEPT !.rfd = "fclosed"], "error", "none")
    BY <1>1, <1>2, <2>3, <2>4, <2>5, <2>7, PlainError
  <2> QED BY <1>5, <2>6, <2>7 DEF ReadLine
<1>6. CASE ReadEnd
  <2> DEFINE d(r) == [call EXCEPT !.pc = "wait", !.rfd = r]
  <2>1. PICK r \in {"fclosed", "cut"} :
          call' = d(r) /\ (r = "fclosed" => kid[call.n].pipe = 0)
    BY <1>6 DEF ReadEnd
  <2>2. /\ DOMAIN d(r) = DOMAIN call /\ d(r).n = call.n /\ d(r).pc = "wait"
        /\ d(r).readFailed = call.readFailed /\ d(r).rfd = r
    BY <1>2
  <2>3. kid' = kid
    BY <1>6 DEF ReadEnd
  <2> HIDE DEF d
  <2> QED BY <1>1, <1>2, <2>1, <2>2, <2>3, GoesOn
<1> QED BY <1>3, <1>4, <1>5, <1>6

\* A child that is waited for keeps its status and its output.
LEMMA ReapKeeps ==
    ASSUME PortInv, NEW c \in Procs, Reap(c)
    PROVE  /\ DOMAIN kid' = Procs /\ \A n \in Procs : KidType(kid'[n])
           /\ ExitKnown'
           /\ c = call.n => /\ kid'[c].pc = "reaped"
                            /\ kid'[c].exit = kid[c].exit
                            /\ kid'[c].pipe = kid[c].pipe
<1>1. /\ DOMAIN kid' = Procs /\ \A n \in Procs \ {c} : kid'[n] = kid[n]
      /\ kid'[c] = IF c = call.n THEN [kid[c] EXCEPT !.pc = "reaped"]
                   ELSE [NoKid EXCEPT !.pc = "reaped", !.tool = kid[c].tool]
  BY DEF Reap, PortInv, PortType
<1>2. KidType(kid[c])
  BY DEF PortInv, PortType
<1>3. CASE c = call.n
  <2>1. /\ KidType(kid'[c]) /\ kid'[c].pc = "reaped"
        /\ kid'[c].exit = kid[c].exit /\ kid'[c].pipe = kid[c].pipe
    BY <1>1, <1>2, <1>3 DEF KidType, KidPcs
  <2> QED BY <1>1, <2>1 DEF PortInv, PortType, ExitKnown
<1>4. CASE c # call.n
  <2>1. NoKid.opts \in [callback : BOOLEAN, dup : BOOLEAN, notty : BOOLEAN,
                        sandbox : BOOLEAN]
    BY DEF NoKid, NoOptions
  <2>2. KidType(kid'[c]) /\ kid'[c].pc = "reaped"
    BY <1>1, <1>4, <2>1 DEF KidType, KidPcs, NoKid
  <2> QED BY <1>1, <1>4, <2>2 DEF PortInv, PortType, ExitKnown
<1> QED BY <1>3, <1>4

\* The end of the child decides what the call returns.
LEMMA WaitKeeps == ASSUME IInv, Wait PROVE IInv'
<1>1. SipInv'
  BY SipSame DEF Wait, IInv
<1>2. /\ call.pc = "wait" /\ call.n \in Procs
      /\ DOMAIN call =
            {"pc", "n", "rfd", "wfd", "readFailed", "status", "code"}
      /\ call.readFailed \in BOOLEAN
  BY DEF Wait, Parent, IInv, PortInv, PortType
<1>3. PICK c \in Procs :
        /\ kid[c].pc = "ended" /\ Reap(c)
        /\ IF c = call.n /\ ~call.readFailed THEN ExitEvent(c)
           ELSE ToCleanup(call, "error", "none") /\ UNCHANGED faults
  BY DEF Wait
<1>4. /\ DOMAIN kid' = Procs /\ \A n \in Procs : KidType(kid'[n])
      /\ ExitKnown'
      /\ c = call.n => /\ kid'[c].pc = "reaped"
                       /\ kid'[c].exit = kid[c].exit
                       /\ kid'[c].pipe = kid[c].pipe
  BY <1>3, ReapKeeps DEF IInv
<1>5. CASE ToCleanup(call, "error", "none")
  BY <1>1, <1>2, <1>4, <1>5, PlainError DEF IInv
<1>6. CASE /\ c = call.n /\ ~call.readFailed
           /\ \/ kid[c].exit = "zero" /\ ToCleanup(call, "ok", "none")
              \/ /\ kid[c].exit # "zero"
                 /\ ToCleanup(call, "error", ErrorCode(c))
  <2>1. PICK status, code :
          /\ ToCleanup(call, status, code)
          /\ \/ kid[c].exit = "zero" /\ status = "ok" /\ code = "none"
             \/ /\ kid[c].exit # "zero" /\ status = "error"
                /\ code = ErrorCode(c)
    BY <1>6
  <2>2. /\ call'.pc = "cleanup" /\ call'.n = call.n
        /\ call'.readFailed = call.readFailed
        /\ call'.status = status /\ call'.code = code
        /\ DOMAIN call' = DOMAIN call
    BY <1>2, <2>1 DEF ToCleanup
  <2>3. PortType' /\ Drained'
    BY <1>2, <1>4, <2>2 DEF PortType, Drained, CallPcs, Parent, IInv, PortInv
  <2>4. ResultTrue'
    <3>1. kid[c].pipe = 0 \/ call.rfd = "cut"
      BY <1>2, <1>6 DEF IInv, PortInv, Drained, Parent
    <3>2. kid[c].exit \in {"zero", "nonzero", "signal"}
      BY <1>3 DEF IInv, PortInv, ExitKnown
    <3>3. interrupted' = interrupted
      BY DEF Wait
    <3>4. /\ kid'[c].pc = "reaped" /\ kid'[c].exit = kid[c].exit
          /\ kid'[c].pipe = 0 \/ call'.rfd = "cut"
          /\ call'.n = c
      BY <1>2, <1>4, <1>6, <2>1, <2>2, <3>1 DEF ToCleanup
    <3>5. code = "none" \/ code = ErrorCode(c)
      BY <2>1
    <3>6. /\ status = "ok" => kid[c].exit = "zero"
          /\ code # "none" => kid[c].exit # "zero"
          /\ code = "SIG" => interrupted
          /\ code = "CHILDSTATUS" => kid[c].exit = "nonzero"
          /\ code = "CHILDKILLED" => kid[c].exit = "signal"
      BY <2>1, <3>2 DEF ErrorCode
    <3> QED BY <2>2, <3>3, <3>4, <3>6 DEF ResultTrue, Parent
  <2> QED BY <1>1, <1>4, <2>3, <2>4 DEF IInv, PortInv
<1> QED BY <1>3, <1>5, <1>6 DEF ExitEvent

\* The call is over.
LEMMA CleanupKeeps == ASSUME IInv, Cleanup PROVE IInv'
<1>1. SipInv'
  BY SipSame DEF Cleanup, sipVars, IInv
<1>2. call.pc = "cleanup" /\ call.n \in Procs
  BY DEF Cleanup, Parent, IInv, PortInv, PortType
<1>3. /\ DOMAIN call' = DOMAIN call /\ call'.pc = "idle"
      /\ call'.n = call.n /\ call'.readFailed = FALSE
  BY DEF Cleanup, IInv, PortInv, PortType
<1>4. /\ DOMAIN kid' = Procs
      /\ \A m \in Procs \ {call.n} : kid'[m] = kid[m]
      /\ kid'[call.n] \in {kid[call.n], [NoKid EXCEPT !.pc = "reaped"]}
  BY <1>2 DEF Cleanup, IInv, PortInv, PortType
<1>5. KidType(kid'[call.n]) /\ (kid'[call.n].pc = "ended" =>
                                  kid'[call.n] = kid[call.n])
  <2>1. NoKid.opts \in [callback : BOOLEAN, dup : BOOLEAN, notty : BOOLEAN,
                        sandbox : BOOLEAN]
    BY DEF NoKid, NoOptions
  <2>2. CASE kid'[call.n] = kid[call.n]
    BY <1>2, <2>2 DEF IInv, PortInv, PortType
  <2>3. CASE kid'[call.n] = [NoKid EXCEPT !.pc = "reaped"]
    BY <2>1, <2>3 DEF KidType, KidPcs, NoKid
  <2> QED BY <1>4, <2>2, <2>3
<1>6. PortType'
  BY <1>2, <1>3, <1>4, <1>5 DEF IInv, PortInv, PortType, CallPcs
<1>7. Drained' /\ ExitKnown' /\ ResultTrue'
  BY <1>3, <1>4, <1>5
  DEF Drained, ExitKnown, ResultTrue, Parent, Idle, IInv, PortInv
<1> QED BY <1>1, <1>6, <1>7 DEF IInv, PortInv

-----------------------------------------------------------------------------
\* At the start nothing has been copied, and no command runs.
THEOREM InitOk == Init => IInv
<1> SUFFICES ASSUME Init PROVE IInv
  OBVIOUS
<1>1. SipType
  <2>1. source \in [Programs -> Versions]
    BY SipAssumption DEF Init, SipInit, Versions
  <2>2. DOMAIN lib = {"installed", "mtime"} /\ lib.installed = 2
    BY DEF Init, SipInit, LibTime
  <2>3. /\ DOMAIN target = Programs /\ DOMAIN temp = Procs
        /\ DOMAIN job = Procs /\ DOMAIN image = Procs
        /\ \A p \in Procs : job[p] = NoJob
    BY DEF Init, SipInit
  <2>4. /\ DOMAIN NoJob = {"pc", "call", "prog", "seen", "st", "copy", "ret"}
        /\ NoJob.pc \in SipPcs /\ NoJob.seen \in BOOLEAN
        /\ NoJob.copy \in BOOLEAN /\ NoJob.ret \in BOOLEAN
    BY DEF NoJob, SipPcs
  <2> QED BY <2>1, <2>2, <2>3, <2>4 DEF SipType
<1>2. \A p \in Procs : JobOk(p) /\ TempOk(p)
  BY DEF Init, SipInit, JobOk, TempOk, NoJob, Copying
<1>3. \A g \in Programs : TargetOk(g)
  BY DEF Init, SipInit, TargetOk
<1>4. RunsWhole
  BY DEF Init, SipInit, RunsWhole, NoImage
<1>5. PortType
  <2>1. NoKid.opts \in [callback : BOOLEAN, dup : BOOLEAN, notty : BOOLEAN,
                        sandbox : BOOLEAN]
    BY DEF NoKid, NoOptions
  <2>2. KidType(NoKid)
    BY <2>1 DEF KidType, KidPcs, NoKid
  <2> QED BY <2>2 DEF Init, PortType, CallPcs
<1>6. Drained /\ ExitKnown /\ ResultTrue
  BY DEF Init, Drained, ExitKnown, ResultTrue, Idle, Parent, NoKid
<1> QED BY <1>1, <1>2, <1>3, <1>4, <1>5, <1>6 DEF IInv, SipInv, PortInv

\* Every step keeps the invariant, and so does none.
THEOREM StepOk == IInv /\ [Next]_vars => IInv'
<1> SUFFICES ASSUME IInv, [Next]_vars PROVE IInv'
  OBVIOUS
<1>1. ASSUME NEW o \in Options, System(o) PROVE IInv'
  BY <1>1, SystemKeeps
<1>2. CASE SystemCmd
  BY <1>2, ParentKeeps, WaitKeeps, CleanupKeeps DEF SystemCmd
<1>3. ASSUME NEW n \in Procs,
             Child(n) \/ SpawnTool(n) \/ ToolEnds(n) \/ ChildKilled(n)
      PROVE  IInv'
  BY <1>3, ChildKeeps, ToolKeeps, KilledKeeps
<1>4. CASE Interrupt
  BY <1>4, InterruptKeeps
<1>5. CASE (SystemUpdate \/ SelfUpdate) /\ UNCHANGED port
  BY <1>5, SystemUpdateKeeps, SelfUpdateKeeps, PortStutter DEF IInv
<1>6. CASE UNCHANGED vars
  BY <1>6, SipSame, PortStutter DEF vars, sipVars, IInv
<1> QED BY <1>1, <1>2, <1>3, <1>4, <1>5, <1>6 DEF Next

\* The invariant of commands and copies.
THEOREM Invariant == Spec => []IInv
BY InitOk, StepOk, PTL DEF Spec

\* Whatever runs from the shared folder is a whole copy of the program that
\* was asked for (sip_copy_execve, lazy_copy).
THEOREM RunsWholeHolds == Spec => []RunsWhole
<1>1. IInv => RunsWhole
  BY DEF IInv, SipInv
<1> QED BY <1>1, Invariant, PTL

\* No copy that would be taken for the current version of its program holds
\* another one (the time lazy_copy gives a copy).
THEOREM NeverStaleHolds == Spec => []NeverStale
<1>1. IInv => NeverStale
  <2> SUFFICES ASSUME IInv, NEW g \in Programs, target[g] # Absent,
                      target[g].mtime = source[g]
               PROVE  target[g].ver = source[g]
    BY DEF NeverStale
  <2>1. TargetOk(g) /\ source[g] \in Versions
    BY DEF IInv, SipInv, SipType
  <2>2. source[g] # Truncated
    BY <2>1, SipAssumption DEF Versions, Truncated
  <2> QED BY <2>1, <2>2, SipAssumption DEF TargetOk, Versions
<1> QED BY <1>1, Invariant, PTL

\* What a call returns is true of its own command (system.c, from wait to
\* cleanup).
THEOREM ResultTrueHolds == Spec => []ResultTrue
<1>1. IInv => ResultTrue
  BY DEF IInv, PortInv
<1> QED BY <1>1, Invariant, PTL
=============================================================================
