--------------------------- MODULE PextlibProofs ---------------------------
(***************************************************************************)
(* What is true of the commands of pextlib: the curl commands of one       *)
(* interpreter, for all origins and timers, with kqueue or select, affected *)
(* or not, and the filemaps of any processes, for any tree that is a map of *)
(* paths.                                                                  *)
(***************************************************************************)
EXTENDS Curl, FilemapDb, SequenceTheorems, TLAPS

-----------------------------------------------------------------------------
(* The transfers.                                                          *)

Ops == {"fetch", "getsize", "isnewer", "post"}
AllOptions ==
    {"userpwd", "progress", "writedata", "nobody", "timecond", "postfields"}
Before == {"options", "open", "handles", "setopt"}
InLoop == {"loop", "wait", "act", "signals", "events", "uninstall"}
Pcs == {"idle", "poll", "start", "perform", "close", "finish"} \cup Before \cup InLoop

\* What the variables hold, apart from the kernel's and libcurl's part.
CurlType ==
    /\ easy \in [made : BOOLEAN, opts : SUBSET AllOptions, added : BOOLEAN]
    /\ DOMAIN multi = {"made", "origin", "callbacks", "strayed"}
    /\ multi.strayed \in BOOLEAN
    /\ DOMAIN urls = {"current", "previous"}
    /\ pc \in Pcs
    /\ DOMAIN cmd = {"op", "origin", "opts"}
    /\ cmd.op \in Ops \cup {None}
    /\ ok \in BOOLEAN
    /\ DOMAIN net = {"state", "asks", "ready"}

\* The handle has no options before the command sets its own, and these are
\* all it has while libcurl runs.
OptionsOwn ==
    /\ pc # "idle" => cmd.op \in Ops /\ cmd.opts \subseteq GivenTo(cmd.op)
    /\ pc \in Before \cup {"idle"} => easy.opts = {}
    /\ pc \in {"poll", "start"} \cup InLoop =>
          cmd.op \in Looping /\ easy.opts = Options
    /\ pc = "perform" => cmd.op \notin Looping

\* A transfer of fetch that ended well has written the body, and so has a
\* command that ends without an error.
WroteBody ==
    /\ pc = "start" => net.state = "new"
    /\ pc \in InLoop /\ cmd.op = "fetch" /\ net.state = "ok" => file = "whole"
    /\ pc = "close" => file = "whole"
    /\ pc \in {"finish", "idle"} /\ cmd.op = "fetch" /\ ok =>
          file \in {"whole", "cut"}

\* The multi handle was used for no origin but that of the last transfer,
\* unless it strayed.
OriginKept ==
    Affected /\ ~multi.strayed =>
        /\ multi.origin \in {None, urls.current}
        /\ pc \in {"setopt", "poll", "start"} /\ cmd.op \in Looping =>
              urls.current = cmd.origin

IInv == CurlType /\ OptionsOwn /\ WroteBody /\ OriginKept

\* At the start the invariant holds.
THEOREM InitOk == Init => IInv
BY DEF Init, IInv, CurlType, OptionsOwn, WroteBody, OriginKept,
       Ops, AllOptions, Before, InLoop, Pcs, Looping, None,
       NoHandle, NoPoll, NoTransfer

\* The options of a command are some of all options, none of another
\* command's, and show progress only if that was asked for.
LEMMA OwnOptions ==
    ASSUME cmd.op \in Ops, cmd.opts \subseteq GivenTo(cmd.op)
    PROVE  /\ Options \subseteq AllOptions
           /\ cmd.op = "fetch" => BodyOf(Options) = "whole"
           /\ "progress" \in Options => "progress" \in cmd.opts
<1> USE DEF Ops, GivenTo, FetchGiven, GetSizeGiven, IsNewerGiven, PostGiven,
            Options, OptionsOf, AllOptions
<1>1. CASE cmd.op = "fetch"
  BY <1>1 DEF FetchOptions, BodyOf
<1>2. CASE cmd.op = "getsize"
  BY <1>2 DEF GetSizeOptions
<1>3. CASE cmd.op = "isnewer"
  BY <1>3 DEF IsNewerOptions
<1>4. CASE cmd.op = "post"
  BY <1>4 DEF PostOptions
<1> QED BY <1>1, <1>2, <1>3, <1>4

\* What a call of libcurl does to the transfer.
TransferOwn ==
    /\ DOMAIN net = {"state", "asks", "ready"}
    /\ cmd.op = "fetch" /\ net.state = "ok" => file = "whole"

\* Nothing libcurl or the server does changes what the handle is set to.
LEMMA LibcurlKeeps ==
    ASSUME IInv, pc \in {"start", "act"}, NEW told, Libcurl(told), cmd' = cmd
    PROVE  TransferOwn'
<1>1. /\ cmd.op \in Ops /\ cmd.opts \subseteq GivenTo(cmd.op)
      /\ easy.opts = Options
  BY DEF IInv, CurlType, OptionsOwn, InLoop, Pcs
<1>2. TransferOwn
  BY DEF IInv, CurlType, WroteBody, InLoop, Before, None, TransferOwn
<1>3. cmd.op = "fetch" => BodyOf(easy.opts) = "whole"
  BY <1>1, OwnOptions
<1>4. ASSUME NEW asks, Waits(asks) PROVE TransferOwn'
  BY <1>2, <1>4 DEF Waits, TransferOwn
<1>5. CASE Receives
  BY <1>2, <1>5 DEF Receives, TransferOwn
<1>6. CASE Completes
  BY <1>2, <1>3, <1>6 DEF Completes, NoTransfer, TransferOwn
<1>7. CASE Breaks
  BY <1>2, <1>7 DEF Breaks, NoTransfer, TransferOwn
<1>8. CASE UNCHANGED <<poll, net, file, shown>>
  BY <1>2, <1>8 DEF TransferOwn
<1> QED BY <1>4, <1>5, <1>6, <1>7, <1>8 DEF Libcurl

\* Every step keeps the invariant.
THEOREM StepOk == IInv /\ [Next]_vars => IInv'
<1> SUFFICES ASSUME IInv, [Next]_vars PROVE IInv'
  OBVIOUS
<1> USE DEF IInv, CurlType, OptionsOwn, WroteBody, OriginKept, Ops, Before, InLoop, Pcs, Looping, None, Idle,
            handles, call, transfer, Goto, Fail
<1>1. CASE Command
  BY <1>1 DEF Command, CurlCmd, NoPoll, Options
<1>2. CASE ParseOptions
  BY <1>2 DEF ParseOptions, Options
<1>3. CASE OpenFile
  BY <1>3 DEF OpenFile, Options
<1>4. CASE MakeHandles
  <2>1. CurlType' /\ OptionsOwn' /\ WroteBody'
    BY <1>4 DEF MakeHandles, CleanupHandle, Compares, NoHandle, Options, AllOptions
  <2>2. ASSUME Affected, cmd.op \in Looping, ~multi'.strayed
        PROVE  multi'.origin \in {None, urls'.current} /\ urls'.current = cmd'.origin
    <3>1. PICK current \in {cmd.origin, None} : Compares(current, urls.current)
      BY <1>4, <2>2 DEF MakeHandles, CleanupHandle
    <3>2. urls'.current = current /\ cmd' = cmd /\ pc' = "setopt"
      BY <1>4, <3>1 DEF MakeHandles, Compares
    <3>3. current = None => multi'.strayed
      BY <3>1 DEF Compares, NoHandle
    <3>4. \/ multi'.origin = None
          \/ /\ multi'.origin = multi.origin
             /\ multi'.strayed <=> multi.strayed \/ current = None
             /\ None \in {current, urls.current} \/ current = urls.current
      BY <3>1 DEF Compares, NoHandle
    <3> QED BY <2>2, <3>1, <3>2, <3>3, <3>4
  <2>3. /\ cmd' = cmd
        /\ cmd.op \notin Looping => UNCHANGED <<multi, urls>>
    BY <1>4 DEF MakeHandles
  <2>4. OriginKept'
    BY <2>2, <2>3 DEF OriginKept
  <2> QED BY <2>1, <2>4
<1>5. CASE SetOptions
  <2>1. Options \subseteq AllOptions
    BY <1>5, OwnOptions DEF SetOptions
  <2>2. Options' = Options
    BY <1>5 DEF SetOptions, Options
  <2>3. easy' \in [made : BOOLEAN, opts : SUBSET AllOptions, added : BOOLEAN]
    BY <1>5, <2>1 DEF SetOptions
  <2>4. pc' \in {"poll", "perform", "finish"}
    BY <1>5 DEF SetOptions
  <2>5. pc' = "poll" => cmd.op \in Looping /\ easy'.opts = Options
    BY <1>5 DEF SetOptions
  <2>6. pc' = "perform" => cmd.op \notin Looping
    BY <1>5 DEF SetOptions
  <2>7. pc' = "finish" => ok' = FALSE
    BY <1>5 DEF SetOptions
  <2> QED BY <1>5, <2>2, <2>3, <2>4, <2>5, <2>6, <2>7 DEF SetOptions
<1>6. CASE InitPolling
  BY <1>6 DEF InitPolling, NoPoll, NoTransfer, Options
<1>7. CASE FirstAction
  <2>1. CASE Libcurl({}) /\ Goto("loop") /\ UNCHANGED ok
    <3>1. TransferOwn'
      BY <1>7, <2>1, LibcurlKeeps DEF FirstAction
    <3> QED BY <1>7, <2>1, <3>1 DEF FirstAction, TransferOwn, Options
  <2>2. CASE Fail /\ UNCHANGED transfer
    BY <1>7, <2>2 DEF FirstAction
  <2> QED BY <1>7, <2>1, <2>2 DEF FirstAction
<1>8. CASE CheckCancelled
  BY <1>8 DEF CheckCancelled, Options
<1>9. CASE WaitReturns
  BY <1>9 DEF WaitReturns, Options
<1>10. CASE WaitFails
  BY <1>10 DEF WaitFails, Options
<1>11. CASE HandlePollEvents
  <2>1. CASE Libcurl(net.ready) /\ Goto("signals") /\ UNCHANGED <<multi, ok>>
    <3>1. TransferOwn'
      BY <1>11, <2>1, LibcurlKeeps DEF HandlePollEvents
    <3> QED BY <1>11, <2>1, <3>1 DEF HandlePollEvents, TransferOwn, Options
  <2>2. CASE Redirected /\ Goto("signals") /\ UNCHANGED ok
    <3>1. multi'.strayed = TRUE /\ DOMAIN multi' = DOMAIN multi
      BY <2>2 DEF Redirected
    <3>2. DOMAIN net' = DOMAIN net /\ net'.state = "running"
      BY <2>2 DEF Redirected, Waits
    <3>3. UNCHANGED <<easy, cmd>> /\ pc' = "signals"
      BY <1>11, <2>2 DEF HandlePollEvents
    <3> QED BY <1>11, <2>2, <3>1, <3>2, <3>3 DEF HandlePollEvents, Options
  <2>3. CASE ok' = FALSE /\ Goto("uninstall") /\ UNCHANGED <<multi, transfer>>
    BY <1>11, <2>3 DEF HandlePollEvents, Options
  <2> QED BY <1>11, <2>1, <2>2, <2>3 DEF HandlePollEvents
<1>12. CASE ProcessSignals
  BY <1>12 DEF ProcessSignals, Options
<1>13. CASE ServiceEvents
  BY <1>13 DEF ServiceEvents, Repeats, Options
<1>14. CASE GetSizeRepeats
  BY <1>14 DEF GetSizeRepeats, Repeats, Options
<1>15. CASE Uninstall
  BY <1>15 DEF Uninstall, TransferOk
<1>16. CASE PerformIsNewer
  BY <1>16 DEF PerformIsNewer
<1>17. CASE PerformPost
  BY <1>17 DEF PerformPost
<1>18. CASE Finish
  BY <1>18 DEF Finish, Leave, NoTransfer
<1>19. CASE FreeInterpData
  BY <1>19 DEF FreeInterpData, NoHandle
<1>20. CASE Environment
  BY <1>20 DEF Environment, Options
<1>21. CASE UNCHANGED vars
  BY <1>21 DEF vars, Options
<1>22. CASE Close
  BY <1>22 DEF Close
<1> QED BY <1>1, <1>2, <1>3, <1>4, <1>5, <1>6, <1>7, <1>8, <1>9, <1>10, <1>11,
           <1>12, <1>13, <1>14, <1>15, <1>16, <1>17, <1>18, <1>19, <1>20, <1>21, <1>22
        DEF Next, Thread

\* The invariant of the handles of an interpreter.
THEOREM Invariant == Spec => []IInv
BY InitOk, StepOk, PTL DEF Spec

\* No option of an earlier command, an error on the way or a cancellation
\* makes fetch (CurlFetchCmd) return success without having been given the body
\* of its URL; what fclose loses of it is the one exception.
THEOREM SuccessIsWholeHolds == Spec => []SuccessIsWhole
<1>1. IInv => SuccessIsWhole
  BY DEF IInv, WroteBody, SuccessIsWhole, Idle
<1> QED BY <1>1, Invariant, PTL

\* The display: the callback has been told of the start, of updates, and of
\* the end in this order, until the transfer is taken out of the multi handle.
InOrder ==
    /\ shown \in {None, "started"}
    /\ DOMAIN poll = {"open", "watch", "timeout", "first"}
    /\ poll.first \in BOOLEAN
    /\ poll.first <=> shown = None
    /\ shown = "started" => "progress" \in cmd.opts
Display ==
    /\ shown \in {None, "started", "finished", "late"}
    /\ pc \in InLoop \cup Before \cup {"poll", "start", "perform"} => InOrder
    /\ pc \in Before \cup {"poll", "start", "perform"} => shown = None
    /\ pc \in {"close", "finish", "idle"} => shown # "started"

\* What a call of libcurl does to the display.
LEMMA LibcurlShows ==
    ASSUME IInv, InOrder, pc \in {"start", "act"}, cmd' = cmd,
           Libcurl(net.ready) \/ Libcurl({}) \/ Redirected
    PROVE  InOrder'
<1>1. "progress" \in easy.opts => "progress" \in cmd.opts
  <2>1. cmd.op \in Ops /\ cmd.opts \subseteq GivenTo(cmd.op) /\ easy.opts = Options
    BY DEF IInv, CurlType, OptionsOwn, InLoop, Pcs
  <2> QED BY <2>1, OwnOptions
<1>2. ASSUME CallsBack PROVE InOrder'
  BY <1>1, <1>2 DEF CallsBack, ProgressHandler, InOrder, None
<1>3. ASSUME NEW asks, Waits(asks) PROVE InOrder'
  BY <1>3 DEF Waits, InOrder
<1>4. CASE UNCHANGED <<poll, net, file, shown>>
  BY <1>4 DEF InOrder
<1> QED BY <1>2, <1>3, <1>4 DEF Libcurl, Redirected, Receives, Completes, Breaks

\* Every step keeps the order.
LEMMA DisplayStep == IInv /\ Display /\ [Next]_vars => Display'
<1> SUFFICES ASSUME IInv, Display, [Next]_vars PROVE Display'
  OBVIOUS
<1> USE DEF Display, InOrder, Before, InLoop, None, Idle, handles, call, transfer,
            Goto, Fail
<1>1. CASE Command
  BY <1>1 DEF Command, CurlCmd, NoPoll
<1>2. CASE ParseOptions \/ OpenFile \/ MakeHandles \/ SetOptions
  BY <1>2 DEF ParseOptions, OpenFile, MakeHandles, SetOptions
<1>3. CASE InitPolling
  BY <1>3 DEF InitPolling, NoPoll
<1>4. CASE FirstAction
  BY <1>4, LibcurlShows DEF FirstAction
<1>5. CASE HandlePollEvents
  BY <1>5, LibcurlShows DEF HandlePollEvents
<1>6. CASE CheckCancelled \/ WaitReturns \/ WaitFails \/ ProcessSignals
  BY <1>6 DEF CheckCancelled, WaitReturns, WaitFails, ProcessSignals
<1>7. CASE ServiceEvents \/ GetSizeRepeats
  BY <1>7 DEF ServiceEvents, GetSizeRepeats, Repeats
<1>8. CASE Uninstall
  BY <1>8 DEF Uninstall, ProgressCleanup
<1>9. CASE Close
  BY <1>9 DEF Close
<1>10. CASE PerformIsNewer
  BY <1>10 DEF PerformIsNewer
<1>11. CASE PerformPost
  BY <1>11 DEF PerformPost, ProgressCleanup
<1>12. CASE Finish
  BY <1>12 DEF Finish, Leave, LateProgress
<1>13. CASE FreeInterpData \/ Environment \/ UNCHANGED vars
  BY <1>13 DEF FreeInterpData, Environment, vars
<1> QED BY <1>1, <1>2, <1>3, <1>4, <1>5, <1>6, <1>7, <1>8, <1>9, <1>10, <1>11, <1>12,
           <1>13 DEF Next, Thread

\* The progress callback hears start, update and finish in this order, and a
\* display that was started is finished (CurlProgressHandler, CurlProgressCleanup),
\* however the transfer ends; what is heard when the transfer is taken out of
\* the multi handle is excepted.
THEOREM ProgressOrderedHolds == Spec => []ProgressOrdered
<1>1. Init => Display
  BY DEF Init, Display, InOrder, Before, InLoop, NoPoll, None
<1>2. Display => ProgressOrdered
  BY DEF Display, ProgressOrdered, Idle, None
<1> QED BY <1>1, <1>2, DisplayStep, Invariant, PTL DEF Spec

\* A multi handle that was used for another scheme or host is replaced before
\* it is used where that would crash libcurl (cleanup_handle_if_needed), unless
\* a URL given to it was not parsed or a server redirected it.
THEOREM OneOriginHolds == Spec => OneOrigin
<1>1. IInv /\ [Next]_vars =>
        [Affected /\ pc = "start" /\ pc' # "start" /\ ~multi.strayed =>
            multi.origin \in {None, cmd.origin}]_vars
  BY DEF IInv, OptionsOwn, OriginKept
<1> QED BY <1>1, Invariant, PTL DEF Spec, OneOrigin

-----------------------------------------------------------------------------
(* The filemaps.                                                           *)

Items == UNION {Range(TreeImage(root)) : root \in Trees}
Steps == {"idle", "lock", "load", "open", "save", "close"}
Filemaps ==
    [root : Trees \cup {Null}, readonly : BOOLEAN, dirty : BOOLEAN, ram : BOOLEAN,
     out : Seq(Items)]

FileTypes ==
    /\ temp \in Seq(Items)
    /\ lock \in [Procs -> {"none", "read", "write"}]
    /\ step \in [Procs -> Steps]
    /\ map \in [Procs -> Filemaps]
    /\ DOMAIN content = Procs
    /\ version \in Nat
    /\ base \in [Procs -> Nat]

\* Only a map that may be written is edited, and only one that has been edited
\* and has a file is saved.
MapOk(p) ==
    LET m == map[p] IN
    /\ m.ram \/ m.dirty => ~m.readonly
    /\ step[p] \in {"idle", "lock", "load"} => ~m.ram /\ ~m.dirty
    /\ Saving(p) => ~m.ram /\ m.dirty /\ m.root # Null

\* A process has the lock as long as it works on the file, for itself alone if
\* it may write it.
Working(p) == step[p] \in {"load", "open", "save", "close"} /\ ~map[p].ram
LockFor(p) == IF ~Working(p) THEN "none" ELSE IF map[p].readonly THEN "read" ELSE "write"
LockOk(p) ==
    /\ lock[p] = LockFor(p)
    /\ lock[p] = "write" => \A q \in Procs \ {p} : lock[q] = "none"

\* Who has no map has nothing in it.  What has been loaded is derived from the
\* file there is, which can be read, and a tree holds what it should.
Derived(p) ==
    /\ step[p] \in {"idle", "lock", "load"} => content[p] = NoContent
    /\ Working(p) /\ step[p] # "load" => base[p] = version /\ TreeLoad(db).err = ""
    /\ (Open(p) \/ Saving(p)) /\ map[p].root # Null => ContentOf(map[p].root) = content[p]

\* What has been written of a tree, and what is still to be, make its image.
Written(p) == Saving(p) => temp \o map[p].out = TreeImage(map[p].root)

\* A file that can be read is that of a tree, and the others are as they were
\* found.
FileOk ==
    IF TreeLoad(db).err = ""
    THEN TreeLoad(db).root \in Trees /\ ContentOf(TreeLoad(db).root) = saved
    ELSE db \in InitFiles /\ version = 0

ProcessOk(p) == MapOk(p) /\ LockOk(p) /\ Derived(p) /\ Written(p)
FileInv == FileTypes /\ (\A p \in Procs : ProcessOk(p)) /\ FileOk

\* The image of a tree is a sequence of items, and read back it is the tree.
LEMMA ImageOfTree ==
    ASSUME NEW root \in Trees
    PROVE  /\ TreeImage(root) \in Seq(Items)
           /\ TreeLoad(TreeImage(root)).err = "" /\ TreeLoad(TreeImage(root)).root = root
<1>1. TreeImage(root) \in Seq(Range(TreeImage(root)))
  BY TreeAssumption
<1>2. TreeLoad(TreeImage(root)) = [root |-> root, err |-> ""]
  BY TreeAssumption
<1>3. Range(TreeImage(root)) \subseteq Items
  BY DEF Items
<1>4. TreeImage(root) \in Seq(Items)
  BY <1>1, <1>3, SeqMonotonic
<1>5. TreeLoad(TreeImage(root)).err = "" /\ TreeLoad(TreeImage(root)).root = root
  <2> DEFINE read == [root |-> root, err |-> ""]
  <2>1. read.err = "" /\ read.root = root
    OBVIOUS
  <2> HIDE DEF read
  <2>2. TreeLoad(TreeImage(root)) = read
    BY <1>2 DEF read
  <2> QED BY ONLY <2>1, <2>2, Zenon
<1> QED BY <1>4, <1>5

\* The processes start without maps, and the file as it was found.
LEMMA FileInitOk == FileInit => FileInv
<1> SUFFICES ASSUME FileInit PROVE FileInv
  OBVIOUS
<1>1. NoMap \in Filemaps /\ ~NoMap.ram /\ ~NoMap.dirty
  BY DEF NoMap, Filemaps
<1>2. FileTypes
  <2>1. temp \in Seq(Items)
    BY EmptySeq DEF FileInit
  <2>2. map \in [Procs -> Filemaps] /\ step \in [Procs -> Steps]
    BY <1>1 DEF FileInit, Steps
  <2>3. /\ lock \in [Procs -> {"none", "read", "write"}] /\ DOMAIN content = Procs
        /\ version \in Nat /\ base \in [Procs -> Nat]
    BY EmptySeq DEF FileInit
  <2> QED BY <2>1, <2>2, <2>3 DEF FileTypes
<1>3. FileOk
  BY TreeAssumption DEF FileInit, FileOk
<1>4. ASSUME NEW p \in Procs PROVE ProcessOk(p)
  BY <1>1 DEF FileInit, ProcessOk, MapOk, LockOk, LockFor, Working, Derived, Written, Open, Saving
<1> QED BY <1>2, <1>3, <1>4 DEF FileInv

\* Of the others nothing changes.
Alone(p) ==
    \A q \in Procs \ {p} :
        /\ step'[q] = step[q] /\ map'[q] = map[q] /\ lock'[q] = lock[q]
        /\ content'[q] = content[q] /\ base'[q] = base[q]

\* A step of one process that leaves the file alone, gets no lock that another
\* excludes, and writes the temporary file only under the write lock, keeps what
\* the others rely on.
LEMMA FileKept ==
    ASSUME FileInv, FileTypes', NEW p \in Procs, Alone(p), UNCHANGED <<db, saved, version>>,
           temp' = temp \/ lock[p] = "write",
           lock'[p] \in {"none", lock[p]} \/ CanLock(p, lock'[p]),
           MapOk(p)', lock'[p] = LockFor(p)', Derived(p)', Written(p)'
    PROVE  FileInv'
<1>1. FileOk'
  BY DEF FileInv, FileOk
<1>2. ASSUME NEW q \in Procs PROVE lock[q] \in {"none", "read", "write"} /\ lock'[q] \in {"none", "read", "write"}
  BY DEF FileInv, FileTypes
<1>3. ASSUME NEW q \in Procs, NEW r \in Procs, q # r, lock'[q] = "write" PROVE lock'[r] = "none"
  <2>1. \A u, v \in Procs : u # v /\ lock[u] = "write" => lock[v] = "none"
    BY DEF FileInv, ProcessOk, LockOk
  <2>2. CASE q = p
    BY <1>2, <1>3, <2>1, <2>2 DEF Alone, CanLock
  <2>3. CASE r = p
    BY <1>2, <1>3, <2>1, <2>3 DEF Alone, CanLock
  <2>4. CASE q # p /\ r # p
    BY <1>3, <2>1, <2>4 DEF Alone
  <2> QED BY <2>2, <2>3, <2>4
<1>4. ASSUME NEW q \in Procs \ {p} PROVE ProcessOk(q)'
  <2>1. ProcessOk(q) /\ ProcessOk(p)
    BY DEF FileInv
  <2>2. /\ step'[q] = step[q] /\ map'[q] = map[q] /\ lock'[q] = lock[q]
        /\ content'[q] = content[q] /\ base'[q] = base[q]
    BY DEF Alone
  <2>3. Saving(q) => temp' = temp
    <3>1. Saving(q) => lock[q] = "write"
      BY <2>1 DEF ProcessOk, MapOk, LockOk, LockFor, Working, Saving
    <3> QED BY <3>1, <2>1 DEF ProcessOk, LockOk
  <2>4. MapOk(q)' /\ Derived(q)' /\ lock'[q] = LockFor(q)'
    BY <2>1, <2>2 DEF ProcessOk, MapOk, Derived, LockOk, LockFor, Working, Open, Saving
  <2>5. Written(q)'
    BY <2>1, <2>2, <2>3 DEF ProcessOk, Written, Saving
  <2>6. LockOk(q)'
    BY <1>3, <2>4 DEF LockOk
  <2> QED BY <2>4, <2>5, <2>6 DEF ProcessOk
<1>5. LockOk(p)'
  BY <1>3 DEF LockOk
<1> QED BY <1>1, <1>4, <1>5 DEF FileInv, ProcessOk

\* What a process is.
LEMMA Mine ==
    ASSUME FileInv, NEW p \in Procs
    PROVE  /\ FileTypes /\ ProcessOk(p) /\ map[p] \in Filemaps
           /\ step[p] \in Steps /\ lock[p] \in {"none", "read", "write"} /\ base[p] \in Nat
BY DEF FileInv, FileTypes

\* A process without a map, or a file, that goes away or starts again.
LEMMA DropKeeps ==
    ASSUME FileInv, NEW p \in Procs, Drop(p), UNCHANGED <<db, temp>>
    PROVE  FileInv'
<1>1. FileTypes /\ NoMap \in Filemaps /\ ~NoMap.ram /\ ~NoMap.dirty
  BY EmptySeq, Mine DEF NoMap, Filemaps
<1>2. /\ map' = [map EXCEPT ![p] = NoMap] /\ lock' = [lock EXCEPT ![p] = "none"]
      /\ step' = [step EXCEPT ![p] = "idle"] /\ content' = [content EXCEPT ![p] = NoContent]
      /\ base' = [base EXCEPT ![p] = 0] /\ UNCHANGED <<saved, version>>
  BY DEF Drop, SetMap, SetLock, SetStep
<1>3. FileTypes'
  BY <1>1, <1>2 DEF FileTypes, Steps
<1>4. Alone(p)
  BY <1>1, <1>2 DEF FileTypes, Alone
<1>5. /\ map'[p] = NoMap /\ step'[p] = "idle" /\ lock'[p] = "none"
      /\ content'[p] = NoContent
  BY <1>1, <1>2 DEF FileTypes
<1>6. MapOk(p)' /\ lock'[p] = LockFor(p)' /\ Derived(p)' /\ Written(p)'
  BY <1>1, <1>5 DEF MapOk, LockFor, Working, Derived, Written, Open, Saving
<1> QED BY <1>2, <1>3, <1>4, <1>5, <1>6, FileKept

LEMMA FilemapOpenStep ==
    ASSUME FileInv, NEW p \in Procs, NEW readonly \in BOOLEAN, FilemapOpen(p, readonly)
    PROVE  FileInv'
<1> DEFINE m == [NoMap EXCEPT !.readonly = ~(~readonly /\ p \in Owners)]
<1>1. FileTypes /\ m \in Filemaps /\ ~m.ram /\ ~m.dirty
  BY EmptySeq, Mine DEF NoMap, Filemaps
<1>2. /\ map' = [map EXCEPT ![p] = m] /\ step' = [step EXCEPT ![p] = "lock"]
      /\ step[p] = "idle" /\ UNCHANGED <<db, temp, lock, history>>
  BY DEF FilemapOpen, SetMap, SetStep, Closed
<1> HIDE DEF m
<1>3. FileTypes'
  BY <1>1, <1>2 DEF FileTypes, Steps, history
<1>4. /\ Alone(p) /\ map'[p] = m /\ step'[p] = "lock" /\ lock'[p] = lock[p]
      /\ content'[p] = content[p]
  BY <1>1, <1>2 DEF FileTypes, Alone, history
<1>5. lock[p] = "none" /\ content[p] = NoContent
  BY <1>2, Mine DEF ProcessOk, LockOk, LockFor, Working, Derived
<1>6. MapOk(p)' /\ lock'[p] = LockFor(p)' /\ Derived(p)' /\ Written(p)'
  BY <1>1, <1>4, <1>5 DEF MapOk, LockFor, Working, Derived, Written, Open, Saving
<1> QED BY <1>2, <1>3, <1>4, <1>6, FileKept DEF history

LEMMA GetLockStep ==
    ASSUME FileInv, NEW p \in Procs, GetLock(p)
    PROVE  FileInv'
<1> DEFINE l == IF map[p].readonly THEN "read" ELSE "write"
<1>1. /\ FileTypes /\ ProcessOk(p) /\ step[p] = "lock" /\ CanLock(p, l)
      /\ step' = [step EXCEPT ![p] = "load"] /\ lock' = [lock EXCEPT ![p] = l]
      /\ UNCHANGED <<db, temp, map, history>>
  BY Mine DEF GetLock, SetLock, SetStep, FilemapIsReadOnly, files
<1>2. FileTypes'
  BY <1>1 DEF FileTypes, Steps, history
<1>3. /\ Alone(p) /\ map'[p] = map[p] /\ step'[p] = "load" /\ lock'[p] = l
      /\ content'[p] = content[p]
  BY <1>1 DEF FileTypes, Alone, history
<1>4. ~map[p].ram /\ ~map[p].dirty /\ content[p] = NoContent
  BY <1>1 DEF ProcessOk, MapOk, Derived
<1>5. MapOk(p)' /\ lock'[p] = LockFor(p)' /\ Derived(p)' /\ Written(p)'
  BY <1>3, <1>4 DEF MapOk, LockFor, Working, Derived, Written, Open, Saving
<1> QED BY <1>1, <1>2, <1>3, <1>5, FileKept DEF history

\* The tree is that of the file, and so is what it should hold.
LEMMA AdoptKeeps ==
    ASSUME FileInv, NEW p \in Procs, ~map[p].ram, step[p] \in {"load", "open"},
           TreeLoad(db).err = "", Adopt(p, TreeLoad(db).root),
           step' = [step EXCEPT ![p] = "open"], UNCHANGED <<db, temp, lock>>
    PROVE  FileInv'
<1> DEFINE root == TreeLoad(db).root
           m == [map[p] EXCEPT !.root = root, !.dirty = FALSE]
<1>1. FileTypes /\ ProcessOk(p) /\ map[p] \in Filemaps
  BY Mine
<1>2. root \in Trees /\ ContentOf(root) = saved
  BY DEF FileInv, FileOk
<1>3. /\ map' = [map EXCEPT ![p] = m] /\ content' = [content EXCEPT ![p] = saved]
      /\ base' = [base EXCEPT ![p] = version] /\ UNCHANGED <<saved, version>>
  BY DEF Adopt, SetMap
<1> HIDE DEF root
<1>4. /\ m \in Filemaps /\ m.root = root /\ ~m.dirty /\ ~m.ram
      /\ m.readonly = map[p].readonly
  BY <1>1, <1>2 DEF Filemaps
<1> HIDE DEF m
<1>5. FileTypes'
  BY <1>1, <1>3, <1>4 DEF FileTypes, Steps
<1>6. /\ Alone(p) /\ map'[p] = m /\ step'[p] = "open" /\ lock'[p] = lock[p]
      /\ content'[p] = saved /\ base'[p] = version
  BY <1>1, <1>3 DEF FileTypes, Alone
<1>7. lock[p] = IF map[p].readonly THEN "read" ELSE "write"
  BY <1>1 DEF ProcessOk, LockOk, LockFor, Working
<1>8. MapOk(p)' /\ lock'[p] = LockFor(p)' /\ Derived(p)' /\ Written(p)'
  BY <1>2, <1>3, <1>4, <1>6, <1>7 DEF MapOk, LockFor, Working, Derived, Written, Open, Saving
<1> QED BY <1>3, <1>5, <1>6, <1>8, FileKept

LEMMA LoadMapStep ==
    ASSUME FileInv, NEW p \in Procs, LoadMap(p)
    PROVE  FileInv'
<1>1. step[p] = "load" /\ UNCHANGED <<db, temp>> /\ ~map[p].ram
  BY Mine DEF LoadMap, files, ProcessOk, MapOk
<1>2. CASE CanRead(p) /\ TreeLoad(db).err = ""
  BY <1>1, <1>2, AdoptKeeps DEF LoadMap, SetStep
<1>3. CASE ~(CanRead(p) /\ TreeLoad(db).err = "")
  BY <1>1, <1>3, DropKeeps DEF LoadMap
<1> QED BY <1>2, <1>3

LEMMA FilemapRevertStep ==
    ASSUME FileInv, NEW p \in Procs, FilemapRevert(p)
    PROVE  FileInv'
<1>1. step[p] = "open" /\ ~map[p].ram /\ UNCHANGED <<db, temp, step, lock>>
  BY DEF FilemapRevert, Open, files
<1>2. TreeLoad(db).err = ""
  BY <1>1, Mine DEF ProcessOk, Derived, Working
<1>3. step' = [step EXCEPT ![p] = "open"]
  BY <1>1, Mine DEF FileTypes
<1> QED BY <1>1, <1>2, <1>3, AdoptKeeps DEF FilemapRevert

LEMMA FilemapCreateStep ==
    ASSUME FileInv, NEW p \in Procs, FilemapCreate(p)
    PROVE  FileInv'
<1> DEFINE m == [NoMap EXCEPT !.root = EmptyTree, !.ram = TRUE]
<1>1. /\ FileTypes /\ m \in Filemaps /\ m.ram /\ ~m.dirty /\ ~m.readonly
      /\ m.root = EmptyTree /\ ContentOf(EmptyTree) = NoContent
  BY EmptySeq, Mine, TreeAssumption DEF NoMap, Filemaps
<1>2. /\ map' = [map EXCEPT ![p] = m] /\ step' = [step EXCEPT ![p] = "open"]
      /\ step[p] = "idle" /\ UNCHANGED <<db, temp, lock, history>>
  BY DEF FilemapCreate, SetMap, SetStep, Closed, files
<1> HIDE DEF m
<1>3. FileTypes'
  BY <1>1, <1>2 DEF FileTypes, Steps, history
<1>4. /\ Alone(p) /\ map'[p] = m /\ step'[p] = "open" /\ lock'[p] = lock[p]
      /\ content'[p] = content[p]
  BY <1>1, <1>2 DEF FileTypes, Alone, history
<1>5. lock[p] = "none" /\ content[p] = NoContent
  BY <1>2, Mine DEF ProcessOk, LockOk, LockFor, Working, MapOk, Derived
<1>6. MapOk(p)' /\ lock'[p] = LockFor(p)' /\ Derived(p)' /\ Written(p)'
  BY <1>1, <1>4, <1>5 DEF MapOk, LockFor, Working, Derived, Written, Open, Saving
<1> QED BY <1>2, <1>3, <1>4, <1>6, FileKept DEF history

\* An edit of a tree that may be written gives a tree again, with its content.
LEMMA ChangeKeeps ==
    ASSUME FileInv, NEW p \in Procs, Usable(p), ~map[p].readonly,
           NEW result, NEW new, Change(p, result, new),
           result.err # "crash" =>
                /\ result.root \in Trees
                /\ ContentOf(result.root) = IF result.err = "" THEN new ELSE content[p]
    PROVE  FileInv'
<1>1. CASE result.err = "crash"
  BY <1>1, DropKeeps DEF Change, files
<1>2. CASE result.err # "crash"
  <2> DEFINE m == [map[p] EXCEPT !.root = result.root, !.dirty = TRUE]
             c == IF result.err = "" THEN new ELSE content[p]
  <2>1. FileTypes /\ ProcessOk(p) /\ map[p] \in Filemaps /\ step[p] = "open"
    BY Mine DEF Usable, Open
  <2>2. /\ m \in Filemaps /\ m.root = result.root /\ m.ram = map[p].ram
        /\ m.readonly = map[p].readonly
    BY <1>2, <2>1 DEF Filemaps
  <2>3. /\ map' = [map EXCEPT ![p] = m] /\ content' = [content EXCEPT ![p] = c]
        /\ UNCHANGED <<db, temp, lock, step, saved, version, base>>
    BY <1>2 DEF Change, SetMap, files
  <2>4. ContentOf(m.root) = c
    BY <1>2, <2>2
  <2> HIDE DEF m, c
  <2>5. FileTypes'
    BY <2>1, <2>2, <2>3 DEF FileTypes
  <2>6. /\ Alone(p) /\ map'[p] = m /\ step'[p] = "open" /\ lock'[p] = lock[p]
        /\ content'[p] = c /\ base'[p] = base[p]
    BY <2>1, <2>3 DEF FileTypes, Alone
  <2>7. MapOk(p)' /\ lock'[p] = LockFor(p)' /\ Derived(p)' /\ Written(p)'
    BY <2>1, <2>2, <2>3, <2>4, <2>6
    DEF ProcessOk, MapOk, LockOk, LockFor, Working, Derived, Written, Open, Saving
  <2> QED BY <2>3, <2>5, <2>6, <2>7, FileKept
<1> QED BY <1>1, <1>2

\* An open map with a tree, and what it should hold.
LEMMA UsableTree ==
    ASSUME FileInv, NEW p \in Procs, Usable(p)
    PROVE  map[p].root \in Trees /\ ContentOf(map[p].root) = content[p]
BY Mine DEF Usable, Filemaps, ProcessOk, Derived

LEMMA FilemapSetStep ==
    ASSUME FileInv, NEW p \in Procs, NEW path \in Paths, NEW value \in Values,
           FilemapSet(p, path, value)
    PROVE  FileInv'
<1> DEFINE set == TreeSet(map[p].root, path, value)
           new == With(content[p], path, value)
<1>1. Usable(p) /\ ~map[p].readonly /\ Change(p, set, new)
  BY DEF FilemapSet, FilemapIsReadOnly
<1>2. /\ set.root \in Trees
      /\ ContentOf(set.root) = IF set.err = "" THEN new ELSE content[p]
  <2> DEFINE root == map[p].root
  <2>1. root \in Trees /\ ContentOf(root) = content[p]
    BY <1>1, UsableTree
  <2> HIDE DEF root
  <2>2. /\ TreeSet(root, path, value).root \in Trees
        /\ ContentOf(TreeSet(root, path, value).root) =
                IF TreeSet(root, path, value).err = "" THEN With(ContentOf(root), path, value)
                ELSE ContentOf(root)
    BY <2>1, TreeAssumption
  <2> QED BY <2>1, <2>2 DEF root
<1> HIDE DEF set, new
<1> QED BY <1>1, <1>2, ChangeKeeps

LEMMA FilemapUnsetStep ==
    ASSUME FileInv, NEW p \in Procs, NEW path \in Paths, FilemapUnset(p, path)
    PROVE  FileInv'
<1> DEFINE unset == TreeDelete(map[p].root, path)
           new == Without(content[p], path)
<1>1. Usable(p) /\ ~map[p].readonly /\ Change(p, unset, new)
  BY DEF FilemapUnset, FilemapIsReadOnly
<1>2. unset.err # "crash" =>
        /\ unset.root \in Trees
        /\ ContentOf(unset.root) = IF unset.err = "" THEN new ELSE content[p]
  BY <1>1, UsableTree, TreeAssumption
<1> HIDE DEF unset, new
<1> QED BY <1>1, <1>2, ChangeKeeps

\* The map of a step that changes only that map, in a process that stays where it
\* is and has what it has of the lock.
LEMMA OnlyMapChanges ==
    ASSUME FileInv, NEW p \in Procs, NEW m \in Filemaps, NEW s \in Steps,
           map' = [map EXCEPT ![p] = m], step' = [step EXCEPT ![p] = s],
           UNCHANGED <<db, lock, history>>, temp' \in Seq(Items),
           temp' = temp \/ lock[p] = "write",
           Open(p) \/ Saving(p), s \in {"open", "save", "close"},
           m.ram = map[p].ram, m.readonly = map[p].readonly,
           m.dirty => map[p].dirty, m.root \in {Null, map[p].root},
           s # "open" => ~m.ram /\ m.dirty /\ m.root # Null /\ temp' \o m.out = TreeImage(m.root)
    PROVE  FileInv'
<1>1. FileTypes /\ ProcessOk(p)
  BY Mine
<1>2. FileTypes'
  BY <1>1 DEF FileTypes, history
<1>3. /\ Alone(p) /\ map'[p] = m /\ step'[p] = s /\ lock'[p] = lock[p]
      /\ content'[p] = content[p] /\ base'[p] = base[p] /\ version' = version
  BY <1>1 DEF FileTypes, Alone, history
<1>4. lock[p] = LockFor(p) /\ MapOk(p) /\ Derived(p)
  BY <1>1 DEF ProcessOk, LockOk
<1>5. MapOk(p)' /\ lock'[p] = LockFor(p)' /\ Written(p)'
  BY <1>3, <1>4 DEF MapOk, LockFor, Working, Written, Open, Saving
<1>6. Derived(p)'
  BY <1>3, <1>4 DEF Working, Derived, Open, Saving
<1> QED BY <1>2, <1>3, <1>5, <1>6, FileKept DEF history

LEMMA RevertFailsStep ==
    ASSUME FileInv, NEW p \in Procs, RevertFails(p)
    PROVE  FileInv'
<1> DEFINE m == [map[p] EXCEPT !.root = Null, !.dirty = FALSE]
<1>1. FileTypes /\ map[p] \in Filemaps /\ step[p] = "open"
  BY Mine DEF RevertFails, Open
<1>2. /\ m \in Filemaps /\ m.root = Null /\ ~m.dirty /\ m.ram = map[p].ram
      /\ m.readonly = map[p].readonly
  BY <1>1 DEF Filemaps
<1>3. map' = [map EXCEPT ![p] = m] /\ UNCHANGED <<db, temp, step, lock, history>>
  BY DEF RevertFails, SetMap, files
<1> HIDE DEF m
<1>4. step' = [step EXCEPT ![p] = "open"] /\ temp' \in Seq(Items) /\ "open" \in Steps
  BY <1>1, <1>3 DEF FileTypes, Steps
<1> QED BY <1>1, <1>2, <1>3, <1>4, OnlyMapChanges DEF Open

\* Save starts to write the image of a tree, into an empty file.
LEMMA SaveStartsKeeps ==
    ASSUME FileInv, NEW p \in Procs, NEW then \in {"save", "close"},
           Usable(p), ~map[p].ram, map[p].dirty, SaveStarts(p, then)
    PROVE  FileInv'
<1> DEFINE image == TreeImage(map[p].root)
           m == [map[p] EXCEPT !.out = image]
<1>1. FileTypes /\ ProcessOk(p) /\ map[p] \in Filemaps /\ step[p] = "open"
  BY Mine DEF Usable, Open
<1>2. image \in Seq(Items)
  BY UsableTree, ImageOfTree
<1>3. /\ map' = [map EXCEPT ![p] = m] /\ step' = [step EXCEPT ![p] = then]
      /\ temp' = <<>> /\ UNCHANGED <<db, lock, history>>
  BY DEF SaveStarts, SetMap, SetStep
<1> HIDE DEF image
<1>4. /\ m \in Filemaps /\ m.root = map[p].root /\ m.dirty = map[p].dirty
      /\ m.ram = map[p].ram /\ m.readonly = map[p].readonly /\ m.out = image
  BY <1>1, <1>2 DEF Filemaps
<1>5. lock[p] = "write"
  BY <1>1 DEF ProcessOk, MapOk, LockOk, LockFor, Working
<1> HIDE DEF m
<1>6. temp' \in Seq(Items) /\ temp' \o m.out = TreeImage(m.root)
  BY <1>2, <1>3, <1>4, EmptySeq, ConcatEmptySeq DEF image
<1>7. then \in Steps /\ m.root # Null
  BY <1>4 DEF Steps, Usable
<1> QED BY <1>3, <1>4, <1>5, <1>6, <1>7, OnlyMapChanges DEF Usable

LEMMA FilemapSaveStep ==
    ASSUME FileInv, NEW p \in Procs, FilemapSave(p)
    PROVE  FileInv'
BY SaveStartsKeeps DEF FilemapSave

LEMMA FilemapCloseStep ==
    ASSUME FileInv, NEW p \in Procs, FilemapClose(p)
    PROVE  FileInv'
<1>1. CASE map[p].dirty /\ ~map[p].ram
  BY <1>1, SaveStartsKeeps DEF FilemapClose
<1>2. CASE ~(map[p].dirty /\ ~map[p].ram)
  BY <1>2, DropKeeps DEF FilemapClose, files
<1> QED BY <1>1, <1>2

\* The first item of a sequence moves to the end of another.
LEMMA Moved ==
    ASSUME NEW S, NEW done \in Seq(S), NEW todo \in Seq(S), todo # <<>>
    PROVE  /\ Append(done, Head(todo)) \in Seq(S) /\ Tail(todo) \in Seq(S)
           /\ Append(done, Head(todo)) \o Tail(todo) = done \o todo
<1>1. Head(todo) \in S /\ Tail(todo) \in Seq(S) /\ Len(todo) > 0
  BY EmptySeq
<1>2. Append(done, Head(todo)) \in Seq(S)
  BY <1>1
<1>3. Append(done, Head(todo)) \o Tail(todo) = done \o todo
  BY <1>1, <1>2
<1> QED BY <1>1, <1>2, <1>3

LEMMA SaveWriteStep ==
    ASSUME FileInv, NEW p \in Procs, SaveWrite(p)
    PROVE  FileInv'
<1> DEFINE out == map[p].out
           m == [map[p] EXCEPT !.out = Tail(out)]
<1>1. FileTypes /\ ProcessOk(p) /\ map[p] \in Filemaps /\ step[p] \in Steps
  BY Mine
<1>2. /\ Saving(p) /\ out # <<>> /\ temp' = Append(temp, Head(out))
      /\ map' = [map EXCEPT ![p] = m] /\ UNCHANGED <<db, step, lock, history>>
  BY DEF SaveWrite, SetMap
<1>3. out \in Seq(Items) /\ temp \in Seq(Items)
  BY <1>1 DEF FileTypes, Filemaps
<1>4. Tail(out) \in Seq(Items) /\ temp' \in Seq(Items) /\ temp' \o Tail(out) = temp \o out
  BY <1>2, <1>3, Moved
<1>5. /\ m \in Filemaps /\ m.root = map[p].root /\ m.dirty = map[p].dirty
      /\ m.ram = map[p].ram /\ m.readonly = map[p].readonly /\ m.out = Tail(out)
  BY <1>1, <1>4 DEF Filemaps
<1> HIDE DEF m
<1>6. step' = [step EXCEPT ![p] = step[p]] /\ step[p] \in {"open", "save", "close"}
  BY <1>1, <1>2 DEF FileTypes, Saving
<1>7. lock[p] = "write" /\ ~m.ram /\ m.dirty /\ m.root # Null
  BY <1>1, <1>2, <1>5 DEF ProcessOk, MapOk, LockOk, LockFor, Working, Saving
<1>8. temp' \o m.out = TreeImage(m.root)
  BY <1>1, <1>2, <1>4, <1>5 DEF ProcessOk, Written
<1> QED BY <1>1, <1>2, <1>4, <1>5, <1>6, <1>7, <1>8, OnlyMapChanges

\* A save that fails leaves the map, no longer dirty, or none.
LEMMA SaveFailsStep ==
    ASSUME FileInv, NEW p \in Procs, SaveFails(p)
    PROVE  FileInv'
<1>1. UNCHANGED <<db, temp, saved, version>> /\ Saving(p) /\ AfterSave(p, FALSE)
  BY DEF SaveFails, files
<1>2. CASE step[p] = "close"
  BY <1>1, <1>2, DropKeeps DEF AfterSave, Drop
<1>3. CASE step[p] # "close"
  <2> DEFINE m == [map[p] EXCEPT !.dirty = FALSE, !.out = <<>>]
  <2>1. FileTypes /\ ProcessOk(p) /\ map[p] \in Filemaps
    BY Mine
  <2>2. /\ m \in Filemaps /\ ~m.dirty /\ m.ram = map[p].ram /\ m.root = map[p].root
        /\ m.readonly = map[p].readonly
    BY <2>1, EmptySeq DEF Filemaps
  <2>3. map' = [map EXCEPT ![p] = m] /\ step' = [step EXCEPT ![p] = "open"]
    BY <1>1, <1>3 DEF AfterSave, SetMap, SetStep
  <2>4. UNCHANGED <<db, temp, lock, history>>
    <3>1. base' = [base EXCEPT ![p] = base[p]] /\ UNCHANGED <<lock, content>>
      BY <1>1, <1>3 DEF AfterSave
    <3>2. base' = base
      BY <2>1, <3>1 DEF FileTypes
    <3> QED BY <1>1, <3>1, <3>2 DEF history
  <2> HIDE DEF m
  <2>5. temp' \in Seq(Items) /\ "open" \in Steps
    BY <2>1, <2>4 DEF FileTypes, Steps
  <2> QED BY <1>1, <2>2, <2>3, <2>4, <2>5, OnlyMapChanges
<1> QED BY <1>2, <1>3

\* A completed save: the file is the image of the tree, and nobody else has it.
LEMMA SaveRenameStep ==
    ASSUME FileInv, NEW p \in Procs, SaveRename(p)
    PROVE  FileInv'
<1> DEFINE root == map[p].root
<1>1. FileTypes /\ ProcessOk(p) /\ map[p] \in Filemaps
  BY Mine
<1>2. /\ Saving(p) /\ map[p].out = <<>> /\ db' = temp /\ temp' = <<>>
      /\ saved' = content[p] /\ version' = version + 1 /\ AfterSave(p, TRUE)
  BY DEF SaveRename
<1>3. ~map[p].ram /\ ~map[p].readonly /\ root # Null /\ lock[p] = "write"
  BY <1>1, <1>2 DEF ProcessOk, MapOk, LockOk, LockFor, Working, Saving
<1>4. root \in Trees /\ ContentOf(root) = content[p]
  BY <1>1, <1>2, <1>3 DEF Filemaps, ProcessOk, Derived
<1>5. temp = TreeImage(root)
  <2>1. temp \in Seq(Items) /\ temp \o <<>> = TreeImage(root)
    BY <1>1, <1>2 DEF FileTypes, ProcessOk, Written
  <2> QED BY <2>1, ConcatEmptySeq
<1>6. TreeLoad(db').err = "" /\ TreeLoad(db').root = root
  BY <1>2, <1>4, <1>5, ImageOfTree
<1>7. FileOk'
  BY <1>2, <1>4, <1>6 DEF FileOk
<1>8. \A q \in Procs \ {p} : ProcessOk(q) /\ lock[q] = "none" /\ ~Working(q) /\ ~Saving(q)
  BY <1>1, <1>3 DEF FileInv, ProcessOk, MapOk, LockOk, LockFor, Working, Saving
<1>9. /\ temp' \in Seq(Items) /\ version' \in Nat
  BY <1>1, <1>2, EmptySeq DEF FileTypes
<1>10. CASE step[p] = "close"
  <2>1. NoMap \in Filemaps /\ ~NoMap.ram /\ ~NoMap.dirty
    BY EmptySeq DEF NoMap, Filemaps
  <2>2. /\ map' = [map EXCEPT ![p] = NoMap] /\ lock' = [lock EXCEPT ![p] = "none"]
        /\ step' = [step EXCEPT ![p] = "idle"] /\ content' = [content EXCEPT ![p] = NoContent]
        /\ base' = [base EXCEPT ![p] = 0]
    BY <1>2, <1>10 DEF AfterSave, SetMap, SetLock, SetStep
  <2>3. FileTypes'
    BY <1>1, <1>9, <2>1, <2>2 DEF FileTypes, Steps
  <2>4. /\ Alone(p) /\ map'[p] = NoMap /\ step'[p] = "idle" /\ lock'[p] = "none"
        /\ content'[p] = NoContent
    BY <1>1, <2>2 DEF FileTypes, Alone
  <2>5. ProcessOk(p)'
    BY <2>1, <2>4 DEF ProcessOk, MapOk, LockOk, LockFor, Working, Derived, Written, Open, Saving
  <2>6. ASSUME NEW q \in Procs \ {p} PROVE ProcessOk(q)'
    BY <1>8, <2>4
    DEF Alone, ProcessOk, MapOk, LockOk, LockFor, Working, Derived, Written, Open, Saving
  <2> QED BY <1>7, <2>3, <2>5, <2>6 DEF FileInv
<1>11. CASE step[p] # "close"
  <2> DEFINE m == [map[p] EXCEPT !.dirty = FALSE, !.out = <<>>]
  <2>1. /\ m \in Filemaps /\ ~m.dirty /\ ~m.ram /\ m.root = root /\ ~m.readonly
    BY <1>1, <1>3, EmptySeq DEF Filemaps
  <2>2. /\ map' = [map EXCEPT ![p] = m] /\ UNCHANGED <<lock, content>>
        /\ step' = [step EXCEPT ![p] = "open"] /\ base' = [base EXCEPT ![p] = version']
    BY <1>2, <1>11 DEF AfterSave, SetMap, SetStep
  <2> HIDE DEF m
  <2>3. FileTypes'
    BY <1>1, <1>9, <2>1, <2>2 DEF FileTypes, Steps
  <2>4. /\ Alone(p) /\ map'[p] = m /\ step'[p] = "open" /\ lock'[p] = "write"
        /\ content'[p] = content[p] /\ base'[p] = version'
    BY <1>1, <1>3, <2>2 DEF FileTypes, Alone
  <2>5. \A q \in Procs \ {p} : lock'[q] = "none"
    BY <1>8, <2>2
  <2>6. ProcessOk(p)'
    BY <1>4, <1>6, <2>1, <2>4, <2>5
    DEF ProcessOk, MapOk, LockOk, LockFor, Working, Derived, Written, Open, Saving
  <2>7. ASSUME NEW q \in Procs \ {p} PROVE ProcessOk(q)'
    BY <1>8, <2>4, <2>5
    DEF Alone, ProcessOk, MapOk, LockOk, LockFor, Working, Derived, Written, Open, Saving
  <2> QED BY <1>7, <2>3, <2>6, <2>7 DEF FileInv
<1> QED BY <1>10, <1>11

LEMMA CallStep ==
    ASSUME FileInv, NEW p \in Procs, Call(p)
    PROVE  FileInv'
<1>1. CASE NullDeref(p)
  BY <1>1, DropKeeps DEF NullDeref, files
<1> QED
  BY <1>1, FilemapOpenStep, FilemapCreateStep, FilemapSetStep, FilemapUnsetStep,
     FilemapRevertStep, RevertFailsStep, FilemapSaveStep, FilemapCloseStep DEF Call

LEMMA WithinStep ==
    ASSUME FileInv, NEW p \in Procs, Within(p)
    PROVE  FileInv'
<1>1. CASE LoadFails(p)
  BY <1>1, DropKeeps DEF LoadFails, files
<1> QED
  BY <1>1, GetLockStep, LoadMapStep, SaveWriteStep, SaveRenameStep, SaveFailsStep DEF Within

\* Whatever the processes do with the file, in whatever order, however they and
\* their calls end, the file and their maps are as FileInv says.
THEOREM FileInvariant == FileSpec => []FileInv
<1>1. ASSUME FileInv, [FileNext]_fileVars PROVE FileInv'
  <2>1. CASE UNCHANGED fileVars
    BY <1>1, <2>1
    DEF fileVars, files, history, FileInv, FileTypes, ProcessOk, MapOk, LockOk, LockFor,
        Working, Derived, Written, FileOk, Open, Saving
  <2>2. ASSUME NEW p \in Procs, Crash(p) PROVE FileInv'
    BY <1>1, <2>2, DropKeeps DEF Crash, files
  <2> QED BY <1>1, <2>1, <2>2, CallStep, WithinStep DEF FileNext
<1> QED BY <1>1, FileInitOk, PTL DEF FileSpec

\* Every call that reads an open filemap answers what an ordinary map of paths
\* would after the same sets, unsets, saves and reverts (filemap get, exists and
\* list), in every process.
THEOREM TreesAreMaps == FileSpec => []TreeIsMap
<1>1. ASSUME FileInv PROVE TreeIsMap
  BY <1>1, UsableTree, TreeAssumption DEF TreeIsMap
<1> QED BY <1>1, FileInvariant, PTL

\* The database file is whole at every moment, and holds what the last completed
\* save wrote (Save in filemap.c).
THEOREM SavesAreWhole == FileSpec => []SavedIsWhole
<1>1. ASSUME FileInv PROVE SavedIsWhole
  BY <1>1 DEF FileInv, FileOk, SavedIsWhole
<1> QED BY <1>1, FileInvariant, PTL

\* No save overwrites another that it has not read: the lock is held from the
\* load to the close (filemap open, save and close).
THEOREM UpdatesAreKept == FileSpec => []NoLostUpdate
<1>1. ASSUME FileInv PROVE NoLostUpdate
  BY <1>1, Mine DEF NoLostUpdate, ProcessOk, Derived, Working, Open, Saving
<1> QED BY <1>1, FileInvariant, PTL
=============================================================================
