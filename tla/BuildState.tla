----------------------------- MODULE BuildState -----------------------------
(***************************************************************************)
(* The state file of a port's build (port1.0/portutil.tcl): which targets  *)
(* are completed in the work directory, for which variants and for which   *)
(* Portfile.  Every target of every `port` command opens the file again,   *)
(* discards it with the work directory when the Portfile changed, takes a  *)
(* lock on it, skips the target if it is recorded and records it when it   *)
(* succeeds.  Commands run side by side, die at any step and are given     *)
(* again; the Portfile is edited; archives replace the build; clean        *)
(* removes everything.                                                     *)
(***************************************************************************)
EXTENDS Naturals, Sequences

CONSTANTS
    MaxCommands, \* bound: number of port commands given, all for one port
    Source,      \* its targets from fetch to destroot, in the order of their requires
    Variants,    \* the sets of variants that may be asked for
    MaxPortfile, \* bound: the versions of the Portfile are 1 to MaxPortfile
    Scenarios    \* what may happen in a behaviour, see ScenarioAssumption

\* alone: one command at a time; begun: a build was begun before (its state
\* file has version and checksum); edits: when the Portfile is edited; mode:
\* portimage_mode, how a new port image is kept; goals, variants, opts: what
\* commands are asked for.
ASSUME ScenarioAssumption ==
    Scenarios \subseteq
        [alone : BOOLEAN, begun : BOOLEAN, edits : {"never", "between", "any"}, cut : BOOLEAN,
         mode : {"archive", "directory"},
         goals : SUBSET {"build", "install", "clean"}, variants : SUBSET Variants,
         opts : SUBSET {"o", "f"}]
ASSUME SourceAssumption ==
    /\ Source \in Seq(STRING) /\ Source # <<>>
    /\ \A i, j \in DOMAIN Source : Source[i] = Source[j] => i = j
    /\ \A i \in DOMAIN Source : Source[i] \notin {"archivefetch", "install"}
ASSUME BoundAssumption == MaxPortfile \in Nat \ {0} /\ MaxCommands \in Nat \ {0}

\* check_variants is stage 0; the other stages are targets.
Stages == <<"archivefetch">> \o Source \o <<"install">>
Targets == {Source[i] : i \in DOMAIN Source}
Destroot == Source[Len(Source)]

Commands == 1 .. MaxCommands
None == 0

\* Inodes of state files: one for the path, one for every open channel.
Inodes == 1 .. MaxCommands + 1
NoFile == 0
EmptyFile == [version |-> FALSE, sums |-> <<>>, variants |-> {}, targets |-> {}, older |-> FALSE]

\* What the work directory has of a target: nothing, something incomplete, or
\* all of the work of a command with this Portfile and these variants.
Absent == [is |-> "absent", by |-> 0, vars |-> {}]
Partial == [Absent EXCEPT !.is = "partial"]
Work(portf, v) == [is |-> "done", by |-> portf, vars |-> v]
Nothing == [t \in Targets |-> Absent]

\* The port image: none, a fetched archive, made from a work directory, or what
\* an install left in the image directory that did not get to its end.
NoImage == [from |-> "none", work |-> Nothing]
Fetched == [NoImage EXCEPT !.from = "archive"]
Built(w) == [from |-> "destroot", work |-> w]
Left == [NoImage EXCEPT !.from = "left"]

VARIABLES
    scen,       \* the scenario
    portfile,   \* the Portfile on disk
    files,      \* inode -> what a state file has; older: than the Portfile
    cur,        \* inode at the path of the state file
    lock,       \* inode -> the command that has it locked
    there,      \* does the work directory exist?
    made,       \* target -> what the work directory has of it
    verified,   \* variants with a fetched archive in incoming/verified
    image,      \* variants -> the port image in the software directory
    dirs,       \* variants with an image directory there
    registered, \* variants of the port that are installed
    cmd         \* locals of every command

vars == <<scen, portfile, files, cur, lock, there, made, verified, image, dirs, registered, cmd>>
disk == <<files, cur, there, made>>
result == <<verified, image, dirs, registered>>

\* loaded: the Portfile its interpreter has sourced; at: the stage; sum:
\* checksum_portfile; fresh: fresh_build; fd: the channel of the state file.
NewCommand == [pc |-> "new", goal |-> "build", vars |-> {}, opts |-> {}, loaded |-> 1,
               at |-> 0, sum |-> 1, fresh |-> FALSE, fd |-> NoFile]

Active(c) == cmd[c].pc \notin {"new", "ended"}

Init ==
    /\ scen \in Scenarios
    /\ portfile = 1
    /\ files = [i \in Inodes |-> IF scen.begun /\ i = 1
                                 THEN [EmptyFile EXCEPT !.version = TRUE, !.sums = <<1>>]
                                 ELSE EmptyFile]
    /\ cur = IF scen.begun THEN 1 ELSE NoFile
    /\ lock = [i \in Inodes |-> None]
    /\ there = scen.begun
    /\ made = Nothing
    /\ verified = {}
    /\ image = [v \in Variants |-> NoImage]
    /\ dirs = {}
    /\ registered = {}
    /\ cmd = [c \in Commands |-> NewCommand]

\* Go(c, pc): the next step of c.
Go(c, pc) == cmd' = [cmd EXCEPT ![c].pc = pc]

\* The channel is closed, which ends the lock: with the process, or before the
\* next step.
Unlocked(c) == [i \in Inodes |-> IF lock[i] = c THEN None ELSE lock[i]]
End(c) ==
    /\ lock' = Unlocked(c)
    /\ cmd' = [cmd EXCEPT ![c] = [NewCommand EXCEPT !.pc = "ended", !.opts = cmd[c].opts]]
Close(c, pc, stage) ==
    /\ lock' = Unlocked(c)
    /\ cmd' = [cmd EXCEPT ![c] = [@ EXCEPT !.pc = pc, !.at = stage, !.fd = NoFile,
                                          !.sum = 1, !.fresh = FALSE]]

\* A file without a name goes with its last channel.
Unlinked(c) == [i \in Inodes |->
    IF i = cur /\ ~ \E d \in Commands \ {c} : cmd[d].fd = i THEN EmptyFile ELSE files[i]]

\* The stage is over: dlist_eval runs the next target.  An installed port has
\* nothing to do; clean follows an install unless automatic cleaning is off.
First(g) == IF g = "install" THEN 1 ELSE 2
Last(g) == IF g = "install" THEN Len(Stages) ELSE Len(Stages) - 1
NextStage(c) == IF cmd[c].at = 0 THEN First(cmd[c].goal) ELSE cmd[c].at + 1
Complete(c) ==
    \/ cmd[c].at = Last(cmd[c].goal)
    \/ cmd[c].at = 0 /\ cmd[c].goal = "install" /\ cmd[c].vars \in registered
Proceed(c) ==
    IF Complete(c)
    THEN End(c) \/ (cmd[c].goal = "install" /\ Close(c, "clean", 0))
    ELSE Close(c, "enter", NextStage(c))

-----------------------------------------------------------------------------
Start(c) ==
    /\ cmd[c].pc = "new"
    /\ \A d \in 1 .. c - 1 : cmd[d].pc # "new"
    /\ scen.alone => ~ \E d \in Commands : Active(d)
    /\ \E g \in scen.goals, v \in scen.variants, o \in SUBSET scen.opts :
        cmd' = [cmd EXCEPT ![c] =
            [NewCommand EXCEPT !.pc = IF g = "clean" THEN "clean" ELSE "enter",
                               !.goal = g, !.vars = v, !.opts = o, !.loaded = portfile]]
    /\ UNCHANGED <<scen, portfile, lock, disk, result>>

\* open_statefile up to the version of the file: the work directory is created
\* and the Portfile's checksum taken.  A file without a version is compared by
\* time; -o keeps the state whatever the Portfile.
Enter(c) ==
    /\ cmd[c].pc = "enter"
    /\ there' = TRUE
    /\ cmd' = [cmd EXCEPT ![c] =
        [@ EXCEPT !.sum = portfile, !.fresh = cur = NoFile, !.fd = cur,
                  !.pc = IF cur = NoFile \/ "o" \in cmd[c].opts THEN "open"
                         ELSE IF files[cur].version THEN "compare"
                         ELSE IF files[cur].older THEN "discard" ELSE "open"]]
    /\ UNCHANGED <<scen, portfile, files, cur, lock, made, result>>

\* The first recorded checksum is compared with the Portfile's.
\* Mutant: any checksum will do.
OutdatedMutNever(f, sum) == f.sums = <<>>
Outdated(f, sum) == f.sums = <<>> \/ Head(f.sums) # sum
Compare(c) ==
    /\ cmd[c].pc = "compare"
    /\ Go(c, IF Outdated(files[cmd[c].fd], cmd[c].sum) THEN "discard" ELSE "open")
    /\ UNCHANGED <<scen, portfile, lock, disk, result>>

\* Whatever locks the file, the work directory is deleted.
Discard(c) ==
    /\ cmd[c].pc = "discard"
    /\ cur' = NoFile
    /\ files' = Unlinked(c)
    /\ made' = Nothing
    /\ there' = TRUE
    /\ cmd' = [cmd EXCEPT ![c].pc = "open", ![c].fresh = TRUE]
    /\ UNCHANGED <<scen, portfile, lock, result>>

InUse == {cur} \cup {cmd[c].fd : c \in Commands}
Open(c) ==
    /\ cmd[c].pc = "open"
    /\ there
    /\ LET i == IF cur = NoFile THEN CHOOSE j \in Inodes : j \notin InUse ELSE cur IN
        /\ cur' = i
        /\ files' = IF cur = NoFile THEN [files EXCEPT ![i] = EmptyFile] ELSE files
        /\ cmd' = [cmd EXCEPT ![c].pc = "lock", ![c].fd = i]
    /\ UNCHANGED <<scen, portfile, lock, there, made, result>>

\* Waits as long as another command has the file locked.
MayLock(c) == lock[cmd[c].fd] = None
Lock(c) ==
    /\ cmd[c].pc = "lock"
    /\ MayLock(c)
    /\ lock' = [lock EXCEPT ![cmd[c].fd] = c]
    /\ Go(c, IF cmd[c].fresh THEN "version" ELSE "opened")
    /\ UNCHANGED <<scen, portfile, disk, result>>

WriteVersion(c) ==
    /\ cmd[c].pc = "version"
    /\ files' = [files EXCEPT ![cmd[c].fd] =
        IF @.version THEN @ ELSE [@ EXCEPT !.version = TRUE, !.older = FALSE]]
    /\ Go(c, "checksum")
    /\ UNCHANGED <<scen, portfile, cur, lock, there, made, result>>

\* The file with the checksum, which is written unless it is there.
WithSum(f, sum) ==
    IF \E n \in DOMAIN f.sums : f.sums[n] = sum THEN f
    ELSE [f EXCEPT !.sums = Append(@, sum), !.older = FALSE]
WriteChecksum(c) ==
    /\ cmd[c].pc = "checksum"
    /\ files' = [files EXCEPT ![cmd[c].fd] = WithSum(@, cmd[c].sum)]
    /\ Go(c, "opened")
    /\ UNCHANGED <<scen, portfile, cur, lock, there, made, result>>

-----------------------------------------------------------------------------
\* With the file open and locked.
At(c, S) == cmd[c].pc = "opened" /\ cmd[c].at > 0 /\ Stages[cmd[c].at] \in S
Recorded(c) == Stages[cmd[c].at] \in files[cmd[c].fd].targets

\* check_statefile_variants; a file without variants and targets agrees.
\* Mutant: a file without variants agrees whatever was built.
VariantsMatchMutNoTargets(f, v) == f.variants = {} \/ f.variants = v
VariantsMatch(f, v) == (f.variants = {} /\ f.targets = {}) \/ f.variants = v
CheckVariants(c) ==
    LET f == files[cmd[c].fd] IN
    /\ cmd[c].pc = "opened" /\ cmd[c].at = 0
    /\ IF "f" \in cmd[c].opts \/ VariantsMatch(f, cmd[c].vars)
       THEN /\ files' = [files EXCEPT ![cmd[c].fd] =
                 IF cmd[c].vars \subseteq f.variants THEN f
                 ELSE [f EXCEPT !.variants = @ \cup cmd[c].vars, !.older = FALSE]]
            /\ Proceed(c)
       ELSE files' = files /\ End(c)
    /\ UNCHANGED <<scen, portfile, cur, there, made, result>>

Skip(c) ==
    /\ At(c, Targets \cup {"archivefetch"})
    /\ Recorded(c)
    /\ Proceed(c)
    /\ UNCHANGED <<scen, portfile, disk, result>>

\* The file with more targets completed.
WithTargets(f, new) == [f EXCEPT !.targets = @ \cup new, !.older = FALSE]

\* An archive that is there already or can be fetched stands for all targets up
\* to destroot, unless the destroot is completed.  So does an image directory,
\* with no archive.
DestrootDone(c) == Destroot \in files[cmd[c].fd].targets /\ made[Destroot] # Absent
ArchiveFound(c) ==
    /\ At(c, {"archivefetch"}) /\ ~Recorded(c) /\ ~DestrootDone(c)
    /\ verified' = IF cmd[c].vars \in dirs THEN verified ELSE verified \cup {cmd[c].vars}
    /\ files' = [files EXCEPT ![cmd[c].fd] = WithTargets(@, Targets \cup {"archivefetch"})]
    /\ Proceed(c)
    /\ UNCHANGED <<scen, portfile, cur, there, made, image, dirs, registered>>

NoArchive(c) ==
    /\ At(c, {"archivefetch"}) /\ ~Recorded(c)
    /\ DestrootDone(c) \/ cmd[c].vars \notin verified \cup dirs
    /\ Proceed(c)
    /\ UNCHANGED <<scen, portfile, disk, result>>

\* The target's procedures run and leave something in the work directory.
Begin(c) ==
    /\ At(c, Targets) /\ ~Recorded(c)
    /\ made' = [made EXCEPT ![Stages[cmd[c].at]] = Partial]
    /\ Go(c, "running")
    /\ UNCHANGED <<scen, portfile, files, cur, lock, there, result>>

\* Their work is complete, if nobody has deleted it, and recorded.
Succeed(c) ==
    LET t == Stages[cmd[c].at] IN
    /\ cmd[c].pc = "running"
    /\ made' = [made EXCEPT ![t] =
        IF @ = Absent THEN Partial ELSE Work(cmd[c].loaded, cmd[c].vars)]
    /\ files' = [files EXCEPT ![cmd[c].fd] = WithTargets(@, {t})]
    /\ Proceed(c)
    /\ UNCHANGED <<scen, portfile, cur, there, result>>

\* install_main: a fetched archive is moved to the software directory and the
\* state file removed, in two steps; without one the destroot is archived.
MoveArchive(c) ==
    /\ At(c, {"install"}) /\ cmd[c].vars \in verified
    /\ verified' = verified \ {cmd[c].vars}
    /\ image' = [image EXCEPT ![cmd[c].vars] = Fetched]
    /\ Go(c, "moved")
    /\ UNCHANGED <<scen, portfile, lock, disk, dirs, registered>>

\* Mutant: the state file is kept until the work directory is cleaned.
DropStateMutKeep(c) ==
    /\ cmd[c].pc = "moved"
    /\ Go(c, "register")
    /\ UNCHANGED <<scen, portfile, lock, disk, result>>
DropState(c) ==
    /\ cmd[c].pc = "moved"
    /\ cur' = NoFile
    /\ files' = Unlinked(c)
    /\ Go(c, "register")
    /\ UNCHANGED <<scen, portfile, lock, there, made, result>>

\* In directory mode the destroot is copied into the image directory, over what
\* is there; an archive takes the place of an earlier one.
Creates(c) == At(c, {"install"}) /\ cmd[c].vars \notin verified
CreateArchive(c) ==
    LET v == cmd[c].vars IN
    /\ Creates(c) /\ made[Destroot] # Absent
    /\ image' = [image EXCEPT ![v] = IF v \in dirs THEN Left ELSE Built(made)]
    /\ dirs' = IF scen.mode = "directory" THEN dirs \cup {v} ELSE dirs
    /\ Go(c, "register")
    /\ UNCHANGED <<scen, portfile, lock, disk, verified, registered>>

\* The directory is created before anything else: it stays when there is no
\* destroot, and with a part of the destroot when the copy fails or the process dies.
CreateFails(c) ==
    /\ Creates(c) /\ scen.mode = "directory"
    /\ image' = [image EXCEPT ![cmd[c].vars] = Left]
    /\ dirs' = dirs \cup {cmd[c].vars}
    /\ End(c)
    /\ UNCHANGED <<scen, portfile, disk, verified, registered>>

Register(c) ==
    /\ cmd[c].pc = "register"
    /\ registered' = registered \cup {cmd[c].vars}
    /\ Proceed(c)
    /\ UNCHANGED <<scen, portfile, disk, verified, image, dirs>>

\* A target that fails, an install that archives no destroot, a work directory
\* gone before the state file is opened.
Fail(c) ==
    /\ \/ cmd[c].pc \in {"running", "register"}
       \/ At(c, {"archivefetch"}) /\ ~Recorded(c)
       \/ Creates(c) /\ scen.mode = "archive"
       \/ cmd[c].pc = "open" /\ ~there
    /\ End(c)
    /\ UNCHANGED <<scen, portfile, disk, result>>

\* clean_work takes no lock.
Clean(c) ==
    /\ cmd[c].pc = "clean"
    /\ cur' = NoFile
    /\ made' = Nothing
    /\ there' = FALSE
    /\ files' = Unlinked(c)
    /\ End(c)
    /\ UNCHANGED <<scen, portfile, result>>

-----------------------------------------------------------------------------
\* The process dies; the system closes its channels.
Crash(c) ==
    /\ Active(c)
    /\ cmd[c].pc = "moved" => scen.cut
    /\ End(c)
    /\ UNCHANGED <<scen, portfile, disk, result>>

\* The Portfile is changed, later than anything written to a state file so far.
Edit ==
    /\ portfile < MaxPortfile
    /\ \/ scen.edits = "any"
       \/ scen.edits = "between" /\ ~ \E c \in Commands : Active(c)
    /\ portfile' = portfile + 1
    /\ files' = [i \in Inodes |-> [files[i] EXCEPT !.older = i \in InUse]]
    /\ UNCHANGED <<scen, cur, lock, there, made, result, cmd>>

OpenStep(c) == \/ Enter(c) \/ Compare(c) \/ Discard(c) \/ Open(c)
               \/ Lock(c) \/ WriteVersion(c) \/ WriteChecksum(c)
TargetStep(c) == \/ CheckVariants(c) \/ Skip(c) \/ ArchiveFound(c) \/ NoArchive(c)
                 \/ Begin(c) \/ Succeed(c) \/ Fail(c) \/ Clean(c)
InstallStep(c) == MoveArchive(c) \/ DropState(c) \/ CreateArchive(c) \/ CreateFails(c) \/ Register(c)
Step(c) == OpenStep(c) \/ TargetStep(c) \/ InstallStep(c)

Next == Edit \/ \E c \in Commands : Start(c) \/ Step(c) \/ Crash(c)

\* A command goes on until it ends: the tools that targets run end too.
Fairness == \A c \in Commands : WF_vars(Step(c))
Spec == Init /\ [][Next]_vars /\ Fairness

-----------------------------------------------------------------------------
\* What stands for the targets up to destroot when they are recorded for an
\* archive: the archive, until install has moved it and drops the state, or an
\* image directory that was taken for one.
Archive(v) == v \in verified \/ \E c \in Commands : cmd[c].pc = "moved" /\ cmd[c].vars = v
Archived(v) == Archive(v) \/ v \in dirs

\* The work of the i-th target and of those it requires is in the work directory.
DoneUpTo(i) == \A j \in 1 .. i : made[Source[j]].is = "done"
RecordedTargets == {i \in DOMAIN Source : cur # NoFile /\ Source[i] \in files[cur].targets}

\* A target that the state file says is completed is: its work and that of the
\* targets it requires is in the work directory, or an archive or an image
\* directory has been found in its place - whatever failed, died, was discarded
\* or cleaned before.
RecordedIsDone ==
    \A i \in RecordedTargets : DoneUpTo(i) \/ \E v \in Variants : Archived(v)

\* A completed target that a command skips was done by the Portfile the command
\* runs and for the variants it was asked for, as long as nobody used -o or -f
\* (port.1: -o honors state files even if the Portfile was modified).
Plain == \A c \in Commands : cmd[c].opts = {}
HonouredIsMine ==
    Plain => \A c \in Commands : At(c, Targets) /\ Recorded(c) =>
        \/ made[Stages[cmd[c].at]] = Work(cmd[c].loaded, cmd[c].vars)
        \/ Archived(cmd[c].vars)

\* An installed port is an archive for its variants or was made, all of it, by
\* one Portfile with these variants, by however many commands - unless it was
\* copied into the directory of an install that did not get to its end.
InstalledIsWhole ==
    Plain => \A v \in registered :
        \/ image[v].from \in {"archive", "left"}
        \/ \E n \in 1 .. MaxPortfile : image[v].work = [t \in Targets |-> Work(n, v)]
=============================================================================
