-------------------------------- MODULE Curl --------------------------------
(***************************************************************************)
(* The curl command (pextlib1.0/curl.c) of one interpreter: fetch, getsize, *)
(* isnewer and post, one after the other, on an easy and a multi handle    *)
(* that are kept for the next command.  fetch and getsize drive libcurl    *)
(* from a loop of their own, in which signals are handled and, in fetch,   *)
(* the interpreter's events, among them a request to cancel.  libcurl, the *)
(* server and the kernel are modelled from outside, with one socket.       *)
(***************************************************************************)
EXTENDS Integers, FiniteSets

CONSTANTS
    Origins,      \* the scheme and host of URLs
    Affected,     \* whether libcurl may crash when a handle changes origin
    Kqueue,       \* whether the build polls with kqueue, or with select
    Timers        \* milliseconds libcurl asks to be called after, -1 for none

ASSUME CurlAssumption ==
    /\ Affected \in BOOLEAN /\ Kqueue \in BOOLEAN
    /\ Timers \subseteq Int

VARIABLES
    easy,         \* the easy handle: [made, opts, added]
    multi,        \* the multi handle: [made, origin, callbacks, strayed]
    urls,         \* the origins of this and of the previous transfer
    pc,           \* where the thread is
    cmd,          \* the command: [op, origin, opts]
    ok,           \* theResult = TCL_OK
    cancel,       \* the linked variable: [linked, value]
    poll,         \* poll_info: [open, watch, timeout, first]
    net,          \* the transfer: [state, asks, ready]
    file,         \* what the output file holds
    shown,        \* what the progress callback was called for, in order
    inbox,        \* whether a request to cancel is among the events
    signal        \* whether a signal is pending

handles == <<easy, multi, urls>>
call == <<pc, cmd, ok, cancel>>
transfer == <<poll, net, file, shown>>
vars == <<handles, call, transfer, inbox, signal>>

None == "none"
Looping == {"fetch", "getsize"}
Idle == pc = "idle"

(* The options a caller may give, and those each command sets for itself,  *)
(* as far as they change what is transferred.                              *)
FetchGiven == {"userpwd", "progress"}
GetSizeGiven == {"userpwd"}
IsNewerGiven == {}
PostGiven == {"progress"}
GivenTo(op) ==
    CASE op = "fetch" -> FetchGiven
      [] op = "getsize" -> GetSizeGiven
      [] op = "isnewer" -> IsNewerGiven
      [] op = "post" -> PostGiven

FetchOptions(given) == given \cup {"writedata"}
GetSizeOptions(given) == given \cup {"nobody"}
IsNewerOptions(given) == given \cup {"timecond"}
PostOptions(given) == given \cup {"postfields"}
OptionsOf(c) ==
    CASE c.op = "fetch" -> FetchOptions(c.opts)
      [] c.op = "getsize" -> GetSizeOptions(c.opts)
      [] c.op = "isnewer" -> IsNewerOptions(c.opts)
      [] c.op = "post" -> PostOptions(c.opts)
Options == OptionsOf(cmd)

(* With the options of another command there may be no body, or another.   *)
BodyOf(opts) ==
    IF opts \cap {"nobody", "timecond", "postfields"} = {} THEN "whole"
    ELSE "other"

Unwatched == [filter \in {"in", "out"} |-> FALSE]
NoPoll ==
    [open |-> FALSE, watch |-> Unwatched, timeout |-> 0, first |-> TRUE]
NoTransfer == [state |-> None, asks |-> {}, ready |-> {}]
NoHandle ==
    [made |-> FALSE, origin |-> None, callbacks |-> None, strayed |-> FALSE]

Init ==
    /\ easy = [made |-> FALSE, opts |-> {}, added |-> FALSE]
    /\ multi = NoHandle
    /\ urls = [current |-> None, previous |-> None]
    /\ pc = "idle" /\ cmd = [op |-> None, origin |-> None, opts |-> {}]
    /\ ok = TRUE /\ cancel = [linked |-> FALSE, value |-> FALSE]
    /\ poll = NoPoll /\ net = NoTransfer
    /\ file = None /\ shown = None
    /\ inbox = FALSE /\ signal = FALSE

Goto(label) == pc' = label
Fail == ok' = FALSE /\ Goto("finish")

(* CurlCmd.  fetch and getsize link the variable first, which sets it to 0. *)
CurlCmd(op, origin, opts) ==
    /\ Idle
    /\ opts \subseteq GivenTo(op)
    /\ cmd' = [op |-> op, origin |-> origin, opts |-> opts]
    /\ cancel' = IF op \in Looping THEN [linked |-> TRUE, value |-> FALSE]
                 ELSE cancel
    /\ ok' = TRUE /\ Goto("options")
    /\ poll' = NoPoll /\ shown' = None
    /\ UNCHANGED <<handles, net, file, inbox, signal>>

(* The options, and the output file, which is cut to nothing.              *)
ParseOptions ==
    /\ pc = "options"
    /\ \/ Goto("open") /\ UNCHANGED ok
       \/ Fail
    /\ UNCHANGED <<handles, cmd, cancel, transfer, inbox, signal>>

OpenFile ==
    /\ pc = "open"
    /\ \/ /\ Goto("handles") /\ UNCHANGED ok
          /\ file' = IF cmd.op = "fetch" THEN "empty" ELSE file
       \/ Fail /\ UNCHANGED file
    /\ UNCHANGED <<handles, cmd, cancel, poll, net, shown, inbox, signal>>

(* cleanup_handle_if_needed: where libcurl is affected, the multi handle   *)
(* goes when the URL has another scheme or host than the one before.  A    *)
(* URL that the parser rejects, which libcurl may still complete and use,  *)
(* is none here and is compared neither now nor by the next command.       *)
(* strayed is history: the handle has met such a URL, or a redirect.       *)
Compares(current, previous) ==
    LET other == None \notin {current, previous} /\ current # previous
    IN  /\ urls' = [current |-> current, previous |-> previous]
        /\ multi' = [IF other THEN NoHandle ELSE multi EXCEPT
                        !.made = TRUE, !.strayed = @ \/ current = None]

CleanupHandleMutKeepsPrevious ==
    \E current \in {cmd.origin, None} :
        Compares(current, IF urls.previous = None THEN urls.current
                          ELSE urls.previous)

CleanupHandle ==
    IF Affected THEN \E current \in {cmd.origin, None} :
                        Compares(current, urls.current)
    ELSE multi' = [multi EXCEPT !.made = TRUE] /\ UNCHANGED urls

(* Both handles are made when they are missing, or kept.                   *)
MakeHandles ==
    /\ pc = "handles"
    /\ IF cmd.op \in Looping THEN CleanupHandle ELSE UNCHANGED <<multi, urls>>
    /\ easy' = [easy EXCEPT !.made = TRUE]
    /\ Goto("setopt")
    /\ UNCHANGED <<cmd, ok, cancel, transfer, inbox, signal>>

(* curl_easy_setopt for one option after the other, until one fails.       *)
SetOptions ==
    /\ pc = "setopt"
    /\ \/ /\ easy' = [easy EXCEPT !.opts = @ \cup Options]
          /\ Goto(IF cmd.op \in Looping THEN "poll" ELSE "perform")
          /\ UNCHANGED ok
       \/ \E some \in SUBSET Options :
            easy' = [easy EXCEPT !.opts = @ \cup some] /\ Fail
    /\ UNCHANGED <<multi, urls, cmd, cancel, transfer, inbox, signal>>

(* init_polling, and the easy handle added to the multi handle.            *)
InitPolling ==
    /\ pc = "poll"
    /\ \/ /\ poll' = [NoPoll EXCEPT !.open = Kqueue]
          /\ multi' = [multi EXCEPT !.callbacks = "live"]
          /\ easy' = [easy EXCEPT !.added = TRUE]
          /\ net' = [NoTransfer EXCEPT !.state = "new"]
          /\ Goto("start") /\ UNCHANGED ok
       \/ Kqueue /\ Fail /\ UNCHANGED <<easy, multi, poll, net>>
    /\ UNCHANGED <<urls, cmd, cancel, file, shown, inbox, signal>>

(* socket_callback and timer_callback, which libcurl calls to say what it  *)
(* waits for: a filter is enabled for what it wants and disabled for what  *)
(* it no longer wants.                                                     *)
SocketCallback(what) == [filter \in {"in", "out"} |-> filter \in what]

TimerCallbackMutForever(ms) ==
    IF ms > 1000 THEN 1000 ELSE ms
TimerCallback(ms) ==
    IF ms > 1000 THEN 1000 ELSE IF ms < 0 THEN 0 ELSE ms

(* CurlProgressHandler: start before the first update.  The command may    *)
(* fail, and then libcurl aborts the transfer.                             *)
ProgressHandler ==
    /\ shown' = CASE poll.first /\ shown = None -> "started"
                  [] ~poll.first /\ shown = "started" -> "started"
                  [] OTHER -> "wrong"
    /\ poll' = [poll EXCEPT !.first = FALSE]

CallsBack ==
    IF "progress" \in easy.opts
    THEN ProgressHandler \/ UNCHANGED <<shown, poll>>
    ELSE UNCHANGED <<shown, poll>>

(* A step of libcurl, external: it connects, asks for what the socket must *)
(* be ready for, transfers some of the body or the last of it, or fails,   *)
(* by a timeout of its own, a refusal of the server or the callback.       *)
Waits(asks) ==
    \E ms \in Timers :
        /\ net' = [state |-> "running", asks |-> asks, ready |-> {}]
        /\ poll' = [poll EXCEPT !.watch = SocketCallback(asks),
                                !.timeout = TimerCallback(ms)]
        /\ UNCHANGED <<file, shown>>

Receives ==
    /\ net.state = "running" /\ "in" \in net.ready
    /\ file' = IF cmd.op = "fetch" THEN "part" ELSE file
    /\ net' = [net EXCEPT !.ready = {}]
    /\ CallsBack

Completes ==
    /\ net.state = "running" /\ "in" \in net.ready
    /\ net' = [NoTransfer EXCEPT !.state = "ok"]
    /\ file' = IF cmd.op = "fetch" THEN BodyOf(easy.opts) ELSE file
    /\ CallsBack

Breaks ==
    /\ net' = [NoTransfer EXCEPT !.state = "failed"]
    /\ CallsBack /\ UNCHANGED file

(* The answer is a redirect, to any URL.                                   *)
Redirected ==
    /\ net.state = "running" /\ "in" \in net.ready
    /\ Waits({"out"})
    /\ \E origin \in Origins :
           multi' = [multi EXCEPT !.origin = origin, !.strayed = TRUE]

Libcurl(told) ==
    \/ net.state = "new" /\ Waits({"out"})
    \/ "out" \in told /\ Waits({"in"})
    \/ "in" \in told /\ (Receives \/ Completes)
    \/ told = {} /\ UNCHANGED <<poll, net, file, shown>>
    \/ Breaks

(* The first call of curl_multi_socket_action.  When it fails, the command *)
(* ends with its callbacks still installed.                                *)
FirstAction ==
    /\ pc = "start"
    /\ multi' = [multi EXCEPT !.origin = cmd.origin]
    /\ \/ Libcurl({}) /\ Goto("loop") /\ UNCHANGED ok
       \/ Fail /\ UNCHANGED transfer
    /\ UNCHANGED <<easy, urls, cmd, cancel, inbox, signal>>

(* The loop begins with the linked variable.                               *)
CheckCancelled ==
    /\ pc = "loop"
    /\ IF cancel.value THEN ok' = FALSE /\ Goto("uninstall")
       ELSE Goto("wait") /\ UNCHANGED ok
    /\ UNCHANGED <<handles, cmd, cancel, transfer, inbox, signal>>

(* kevent or select: it returns with events, after the timeout, with an    *)
(* error, or interrupted, which is taken for a timeout.  select leaves the *)
(* events in the sets it was given.                                        *)
Events == {filter \in net.ready : poll.watch[filter]}
Polled ==
    IF Kqueue THEN poll.watch ELSE [f \in {"in", "out"} |-> f \in Events]

WaitReturns ==
    /\ pc = "wait"
    /\ Events # {} \/ poll.timeout >= 0
    /\ poll' = [poll EXCEPT !.watch = Polled]
    /\ net' = [net EXCEPT !.ready = Events]
    /\ Goto("act")
    /\ UNCHANGED <<handles, cmd, ok, cancel, file, shown, inbox, signal>>

WaitFails ==
    /\ pc = "wait"
    /\ ok' = FALSE /\ signal' = FALSE /\ Goto("uninstall")
    /\ UNCHANGED <<handles, cmd, cancel, transfer, inbox>>

(* handle_poll_events tells libcurl all that happened to the socket; with  *)
(* no event it is told that time passed.                                   *)
HandlePollEvents ==
    /\ pc = "act"
    /\ \/ Libcurl(net.ready) /\ Goto("signals") /\ UNCHANGED <<multi, ok>>
       \/ Redirected /\ Goto("signals") /\ UNCHANGED ok
       \/ ok' = FALSE /\ Goto("uninstall") /\ UNCHANGED <<multi, transfer>>
    /\ UNCHANGED <<easy, urls, cmd, cancel, inbox, signal>>

(* A pending signal may end the command with an error.                     *)
ProcessSignals ==
    /\ pc = "signals"
    /\ signal' = FALSE
    /\ IF signal THEN \/ ok' = FALSE /\ Goto("uninstall")
                      \/ Goto("events") /\ UNCHANGED ok
       ELSE Goto("events") /\ UNCHANGED ok
    /\ UNCHANGED <<handles, cmd, cancel, transfer, inbox>>

(* fetch services the events, and both go on while the transfer runs.      *)
Repeats == Goto(IF net.state = "running" THEN "loop" ELSE "uninstall")

ServiceEvents ==
    /\ pc = "events" /\ cmd.op = "fetch"
    /\ cancel' = [cancel EXCEPT !.value = @ \/ inbox]
    /\ inbox' = FALSE
    /\ Repeats
    /\ UNCHANGED <<handles, cmd, ok, transfer, signal>>

GetSizeRepeats ==
    /\ pc = "events" /\ cmd.op = "getsize"
    /\ Repeats
    /\ UNCHANGED <<handles, cmd, ok, cancel, transfer, inbox, signal>>

(* CurlProgressCleanup.                                                    *)
ProgressCleanup ==
    IF "progress" \in cmd.opts
    THEN shown' = (IF shown = "wrong" THEN shown ELSE "finished")
    ELSE UNCHANGED shown

(* There is no error from the loop, and libcurl reports a finished transfer *)
(* without one.                                                            *)
TransferOk == ok /\ net.state = "ok"

\* Mutant: the display is told to finish only by transfers that went well.
UninstallMutOnlyOk ==
    /\ pc = "uninstall"
    /\ multi' = [multi EXCEPT !.callbacks = None]
    /\ poll' = [poll EXCEPT !.open = FALSE, !.watch = Unwatched]
    /\ IF TransferOk THEN ProgressCleanup ELSE UNCHANGED shown
    /\ ok' = TransferOk
    /\ Goto(IF TransferOk /\ cmd.op = "fetch" THEN "close" ELSE "finish")
    /\ UNCHANGED <<easy, urls, cmd, cancel, net, file, inbox, signal>>

(* The callbacks are removed, the queue closed and the result read.        *)
Uninstall ==
    /\ pc = "uninstall"
    /\ multi' = [multi EXCEPT !.callbacks = None]
    /\ poll' = [poll EXCEPT !.open = FALSE, !.watch = Unwatched]
    /\ ProgressCleanup
    /\ ok' = TransferOk
    /\ Goto(IF TransferOk /\ cmd.op = "fetch" THEN "close" ELSE "finish")
    /\ UNCHANGED <<easy, urls, cmd, cancel, net, file, inbox, signal>>

(* fclose writes what stdio still holds of the body, or loses it; either   *)
(* way the command goes on.                                                *)
Close ==
    /\ pc = "close"
    /\ file' \in {file, "cut"}
    /\ Goto("finish")
    /\ UNCHANGED <<handles, cmd, ok, cancel, poll, net, shown, inbox, signal>>

(* isnewer and post have the whole transfer done by curl_easy_perform.     *)
PerformIsNewer ==
    /\ pc = "perform" /\ cmd.op = "isnewer"
    /\ ok' \in BOOLEAN
    /\ Goto("finish")
    /\ UNCHANGED <<handles, cmd, cancel, transfer, inbox, signal>>

PerformPost ==
    /\ pc = "perform" /\ cmd.op = "post"
    /\ ok' \in BOOLEAN
    /\ ProgressCleanup
    /\ Goto("finish")
    /\ UNCHANGED <<handles, cmd, cancel, poll, net, file, inbox, signal>>

(* The end of every command: the variable is unlinked and keeps its value, *)
(* the easy handle is taken out of the multi handle and reset, and what    *)
(* was the command's own is gone.  libcurl ends a transfer that still runs *)
(* with a call of the progress function, whose data is out of scope: when  *)
(* something was received it may tell that to a display that was finished. *)
Premature == net.state = "running" /\ file = "part" /\ "progress" \in easy.opts
LateProgress == shown' \in {shown} \cup (IF Premature THEN {"late"} ELSE {})

Leave(opts) ==
    /\ pc = "finish"
    /\ cancel' = [cancel EXCEPT !.linked = FALSE]
    /\ easy' = [easy EXCEPT !.added = FALSE, !.opts = opts]
    /\ multi' = [multi EXCEPT !.callbacks = IF @ = "live" THEN "dead" ELSE @]
    /\ net' = NoTransfer
    /\ LateProgress
    /\ Goto("idle")
    /\ UNCHANGED <<urls, cmd, ok, poll, file, inbox, signal>>

FinishMutNotGetSize == Leave(IF cmd.op = "getsize" THEN easy.opts ELSE {})
Finish == Leave({})

(* CurlFreeInterpData: the interpreter goes, and another begins.           *)
FreeInterpData ==
    /\ Idle /\ easy.made
    /\ easy' = [easy EXCEPT !.made = FALSE, !.opts = {}]
    /\ multi' = NoHandle
    /\ urls' = [current |-> None, previous |-> None]
    /\ UNCHANGED <<call, transfer, inbox, signal>>

Command ==
    \E op \in {"fetch", "getsize", "isnewer", "post"},
       origin \in Origins, opts \in SUBSET FetchGiven : CurlCmd(op, origin, opts)

Thread ==
    \/ ParseOptions \/ OpenFile \/ MakeHandles \/ SetOptions
    \/ InitPolling \/ FirstAction
    \/ CheckCancelled \/ WaitReturns \/ HandlePollEvents
    \/ ProcessSignals \/ ServiceEvents \/ GetSizeRepeats \/ Uninstall
    \/ Close \/ PerformIsNewer \/ PerformPost \/ Finish

(* The socket becomes ready for what libcurl waits for; another thread     *)
(* sends a request to cancel; a signal arrives.                            *)
Environment ==
    \/ /\ net.state = "running" /\ pc = "wait" /\ net.ready = {}
       /\ net' = [net EXCEPT !.ready = net.asks]
       /\ UNCHANGED <<handles, call, poll, file, shown, inbox, signal>>
    \/ /\ ~Idle /\ ~inbox /\ inbox' = TRUE
       /\ UNCHANGED <<handles, call, transfer, signal>>
    \/ /\ ~signal /\ signal' = TRUE
       /\ UNCHANGED <<handles, call, transfer, inbox>>

Next == Command \/ FreeInterpData \/ Thread \/ WaitFails \/ Environment

Spec == Init /\ [][Next]_vars /\ WF_vars(Thread)

\* A fetch that returns without an error has been given the whole body of its
\* URL, whatever commands used the handle before and however they ended, and
\* has written it but for what fclose lost.
SuccessIsWhole ==
    Idle /\ cmd.op = "fetch" /\ ok => file \in {"whole", "cut"}

\* Where libcurl crashes when a multi handle is used for another scheme or
\* host, no transfer starts on one that was used for another, as long as the
\* handle's URLs were all parsed and no server redirected it.
OneOrigin ==
    [][Affected /\ pc = "start" /\ pc' # "start" /\ ~multi.strayed =>
        multi.origin \in {None, cmd.origin}]_vars

\* Until the transfer is taken out of the multi handle, the progress callback
\* is called with start before any update and with finish after the last one,
\* and a display that was started is finished when the command returns, whatever
\* it returns for (port.tcl 5014-5015).
ProgressOrdered ==
    shown # "wrong" /\ (Idle => shown # "started")

\* A fetch that waits for a server that may never answer ends once it was
\* told to.
CancelEnds == (inbox /\ cmd.op = "fetch" /\ pc = "wait") ~> Idle
=============================================================================
