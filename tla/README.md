# TLA+ models of MacPorts base

Specifications of the parts of MacPorts base whose correctness depends on the
order of events: activation and deactivation of ports, the registry below it,
the evaluation of dependency lists, background fetches and the transfers they
make, the state file of a build, trace mode, commands and the copies of programs
they run, the filemap, and daemondo. Each is checked on small instances by TLC, and
theorems about each are proved with TLAPS for every instance. Paths below are relative
to `src/src/`.

Contents: [the system](#the-system), [modules](#modules), [runs](#runs),
[fairness](#fairness), [differences](#differences), [proofs](#proofs),
[what is not modelled](#what-is-not-modelled), [plan](#plan).

## The system

`port` (port/port.tcl) parses a command and calls the library macports1.0
(macports.tcl), which opens a Portfile in an interpreter of its own (port1.0,
package1.0) and runs *targets* in it (fetch, extract, ..., install, activate).
What is installed is recorded in an SQLite registry (registry2.0 over
cregistry). Several `port` processes may run; inside one, a thread pool
transfers files through pextlib's `curl` command. Targets run tools with
pextlib's `system` command, in trace mode with a library (darwintracelib1.0)
injected into them that asks a server thread in `port` (pextlib1.0/tracelib.c)
before a file is seen. `daemondo` is a separate program that keeps a daemon
running.

| component | state it keeps | operations | talks to | hard because of |
|---|---|---|---|---|
| port activation, `registry2.0/portimage.tcl` | the port images in `software/`, the files in the prefix, `force` | activate, deactivate (of single ports; nested for ports that are replaced) | registry, file system | two-phase work on disk and database; errors, signals, failing commits and crashes half-way; rollback by lists kept on the side |
| registry, `cregistry/*.c`, `registry2.0/*.c` | the database with its schema version, the transaction, the table of entry objects and their Tcl commands | open, create, update, attach, write, read, search, create, delete, map, activate, snapshot, port groups, close | SQLite, other processes | updates of old databases by several processes; statements that fail; rolled-back deletions of objects that are gone |
| dependency list, `macports1.0/macports_dlist.tcl` | the list, status per token | `dlist_eval`, `dlist_get_next` | handlers (`target_run`, `_mportexec`) | hard and soft dependencies, failures, `canfail`, cycles |
| background fetches, `macports1.0/mport_fetch_thread.tcl` | queues, thread and fetch counts, results, ping cache | queue, result, cancel, progress, ping | port fetch phases, transfers | three kinds of threads that exchange events; cancellations that race with completion; limits |
| transfers, `pextlib1.0/curl.c` | the easy and multi handle of the interpreter, the URL last used, the polling queue | fetch, getsize, isnewer, post | libcurl, the interpreter's events | a handle that is reused after every kind of error; callbacks inside waits |
| build state, `port1.0/portutil.tcl` with portinstall, portclean and portarchivefetch | `.macports.<port>.state`, the work directory | open and lock, compare, skip, record, discard, check variants, archive, install, clean | other `port` commands through the file | state read before the lock is taken, crashes between steps, Portfiles edited meanwhile |
| trace mode, `darwintracelib1.0/*.c`, `pextlib1.0/tracelib.c`, `port1.0/porttrace.tcl` | connections per thread and process; the server's sockets, peers, cache, violations | interposed calls; accept, answer, report; start, stop, clean | traced processes, the registry | fork, execve, threads, descriptors that are overwritten; a server that is stopped while it serves |
| commands, `pextlib1.0/system.c`, `sip_copy_proc.c` | the call's pipe and child; the folder of copies all processes of a user share | system; execve and posix_spawn of protected programs | children, other processes, system updates | copies made at the same time by several processes; kills and failures at any step; children left behind |
| filemap, `pextlib1.0/filemap.c` | a tree in memory, a database file, its lock file | open, create, set, unset, get, exists, list, revert, save, close | other processes | a tree ordered without regard to case; saves that fail half-way; two locks |
| daemondo, `programs/daemondo/main.c` | pid, timers, signals, kernel events | start, stop, restart | launchd, kernel | callbacks inside waits |
| registry lock, `registry2.0/registry.tcl` | count of nested locks, the lock file | lock, unlock | `port.tcl`, `mportexec` | early returns |
| port operations, `macports1.0/macports.tcl` | open ports, options | mportexec, mportdepends, upgrade, rev-upgrade, sync | all of the above | long operations that stop half-way |
| uninstallation, `registry2.0/portuninstall.tcl` | - | uninstall, with dependents or dependencies | portimage, registry | several files and rows, recursion |
| fetching of a port, `port1.0/portfetch_run.tcl`, `package1.0/portarchivefetch_run.tcl` | asynchronous jobs of the port | start, wait, fall back to a synchronous fetch, clean up | background fetches | files shared by ports |
| others (phases, index, selfupdate, packages, machista, migrate, ...) | see `PROJECT.json` | | | sequential, or input and output only |

What must hold:

* activation: the registry changes by whole activations and deactivations; no
  file is claimed twice; files of no port survive; a failed activation leaves the
  other ports alone; what is inactive can be activated;
* registry: where there are tables, the version says what their schema is; no command or table entry leads
  to a freed object; a write that is rolled back leaves what was in hand;
* dependency lists: nothing runs before what it requires, or after a failure;
  the answer tells the truth;
* fetches and transfers: one transfer per file, every request answered or
  withdrawn, limits kept; success means the whole body, whatever came before on
  the handle; a cancelled transfer ends;
* build state: what is recorded is done, what is skipped
  was done for this Portfile and these variants; what is installed is whole;
* trace mode: the answer a process acts on is the one to its own question and of
  its own session, the sandbox says what its file map says, and nothing hangs;
* commands: what is run in place of a protected program is a whole and current
  copy; what a call returns is true of its own command; a call ends;
* filemap: the tree is a map of paths, the file is always whole, no update is
  lost;
* daemondo: one daemon at a time, none after SIGTERM; a death is noticed.

## Modules

| module | role |
|---|---|
| `FileMap` | the file table of the registry as portimage uses it: which location each file of each port is active at |
| `ActivePorts` | abstract specification: the committed registry changes by whole steps |
| `PortImage`, `MCPortImage` | activate and deactivate, step by step, with faults; instances |
| `PortImageProofs` | lemmas on file maps, the inductive invariant, the theorems |
| `RegistryTables`, `RegistryApi`, `MCRegistryApi`, `RegistryApiProofs` | schema and tables as a value; processes that open, update and use the database; instance; theorems |
| `Dlist`, `MCDlist` | `dlist_eval`; instances |
| `FetchService` | abstract specification: what callers may rely on |
| `FetchThread`, `MCFetchThread`, `FetchThreadProofs` | main, management and worker threads; instances; theorems |
| `Curl`, `MCCurl` | the curl command; instance |
| `BuildState`, `MCBuildState` | the state file and the commands that use it; instances |
| `TargetProofs` | theorems on both: which targets an evaluation runs, and what their records are good for |
| `Sandbox`, `TraceClient`, `Trace`, `MCTrace`, `TraceProofs` | paths and file map; traced processes; the server, the target and the composition; instance; theorems |
| `SipCopy`, `SystemCmd`, `MCSystemCmd`, `SystemProofs` | starting a program through the folder of copies; the system command on top of it; instance; theorems |
| `PathNames`, `PathTree` | how a filemap compares names; its tree and the functions on it |
| `FilemapDb`, `MCFilemapDb` | processes that share the file of a filemap, for any tree; instance with `PathTree` |
| `PextlibProofs` | theorems on Curl and FilemapDb |
| `Daemondo`, `MCDaemondo`, `DaemondoProofs` | daemondo; instance; theorems |

`PortImage` extends `FileMap`; `TraceClient` extends `Sandbox` and is extended by
`Trace`, `SystemCmd` extends `SipCopy`, `RegistryApi` `RegistryTables`, `PathTree` and
`FilemapDb` `PathNames`; `MCFilemapDb` gives `FilemapDb` the operators of `PathTree`.
`ActivePorts` and `FetchService` are instantiated with refinement mappings (`Active`, `Service`). The definitions named `...Mut...` are
changes a plausible bug would make to the definition that follows; a property is
kept only if one of them violates it. `PathTree` alone, with the instance that uses it,
has RECURSIVE operators, and no theorem is about it: what the tree's operators compute
for every tree is not proved but assumed of FilemapDb's constants (`TreeAssumption`).

### PortImage

State: `disk` (what is at each path and at each backup path), `db` and `tx` (the
registry as committed, and as this process sees it), `stuck` (the
`reg_transacting` flag after a failed COMMIT), the images (`loc`, `arch`,
`dir`), the procedures' locals `act` and `dea`, `force`, and histories that only
properties read (`users`, `before`, `result`). `pc` follows the procedures:

    idle - olds - convert - drop - scan - aside - note - replaced -
    put - append - rename - commit - finish        (activate)
    undo - restore - reactivate - rethrow          (its error clauses)
    dbegin - ddelete - dend                        (deactivate)

An action is one step between points where an error, a signal or a crash makes
a difference: a file moved, a list appended to, a commit. Errors go through
`Raise`, which does what the two `try` blocks of `_activate_contents` do.
Faults are counted up to `MaxFaults` and of the kinds in `Faults`. A signal is
delivered at the next Tcl command, so that one that arrives during COMMIT acts
after it ("late").

Worth knowing when reading it against the code: a directory of the image, hard
links and the archive formats are abstracted (an image is a set of files); the
deactivation of the old version of a port runs its target first and directly
again if that fails (`try` 1 and 2, `registry::run_target`, port.tcl 2224-2253);
the reactivation of replaced ports after an error is one step that either does
what `ActivePorts` says or fails; the suffix of backups is the time in whole
seconds (`clock`), so that a forced activation has a new one or, with `SameSecond`,
that of the last one, whose backups it may then replace by `file rename -force`;
`force` stays set, as in the code; files of no port are created only at paths no
port has a file at; `Race` (files that appear during an operation) is off in the
runs.

### RegistryTables and RegistryApi

A database is a record: the schema as the set of what its versions differ in
(tables, indices, columns, constraints), the version it says it has, and the rows
of ports, files, dependencies, port groups and snapshots that answers depend on.
`RegistryTables` has one operator for each update of `update_db` (what it adds
and what a rebuilt table loses) and for each statement; the schema of a version
is what some update up to it added and none since has lost. `RegistryApi` has the
processes: opening with `create_tables` (the file first, the tables with their
commit) or `update_db`, transactions around Tcl
scripts, the table `open_entries` with the commands that lead to its objects, the
list of deleted entries kept for a rollback, and every method of an entry that
writes or returns entries. An entry object is a number: `objs` has the ids of all
that were allocated, and `proc`, `cmds`, `freed` and `list` are the sets of those
that have a command's name, have a command, were freed, or wait on the list. SQLite is modelled from outside: one writer, a view
fixed at the first statement, a statement or COMMIT that fails with or without
ending the transaction. BUSY is waited for except where the view is stale.
Objects of files, port groups and snapshots use the same table and command code
as entries and are left out; so are queries that return text.

### Dlist

Items provide, require and use tokens. State: the list, the status dictionary,
the item whose handler runs, the reason. `Select` leaves open which of the best
items is taken (`IsNext` translates the choice of `dlist_get_next`), handlers
succeed, fail or raise an error. `ran` and `good` are histories. The specification
is called `EvalSpec`, so that `TargetProofs` can have it beside BuildState's.

### FetchThread

Each thread is a set of actions that reads its own event queue; only events
connect them. The main thread's program is open: whatever procedure the callers
may call next, on any request, in any order, so that the run covers all clients.
The management thread wakes up for each event and starts what the limits permit;
a worker runs a job, which handles events while it transfers. `Attempts` bounds
the transfers per request, `Workloads` the sets of jobs asked for in one
behaviour. The refinement mapping `Phase` derives a request's phase from where
it is: in a queue, at a thread, in a result.

### Curl

State: the command that runs (`cmd`), what the easy handle is set to (`easy`),
the URL last used (`urls`), the polling structure and the callbacks on the multi
handle (`poll`), what libcurl does with the transfer, the request to cancel,
what the progress callback has shown. Each command is: parse, open the file,
`cleanup_handle_if_needed`, make the handles, set the options (each call may
fail), perform - for fetch and getsize by the loop of `curl_multi_socket_action`,
`select` or `kevent`, signals and, in fetch, the interpreter's events - remove the
handle, which ends a transfer that still runs with a last call of the progress
function, and close the file, which may lose what stdio has buffered (file "cut").
A URL may be one that curl_url_set refuses, and a server may redirect to another
origin; `multi.strayed` remembers both. libcurl, the server and the kernel are actions that may do anything the
documentation of libcurl allows with one socket. `Origins` are scheme and host,
`Affected` the libcurl versions that need the handle replaced.

### BuildState

Commands for one port share the state file (`files`, by inode, because a deleted
file lives on in the commands that have it open; `cur` is the inode at the
path), its lock (`lock`), the work directory (`there`, and `made`: what it has
of each target and from which Portfile and variants), archives (`verified`), the
port images and the registry. A command opens the file again for every target:

    enter - (compare - (discard)) - open - lock - (version - checksum) - opened

and then checks the variants (stage 0), skips the target, or runs and records it.
`opened` is where `target_run` has the lock. The directories of port images that
archivefetch takes for archives are `dirs`. `Crash` ends a command anywhere;
`Edit` changes the Portfile. The four scenarios of the run `build` (`Orderly`: one command after the other, the
same with `-o` and `-f`, builds side by side, images as directories) respect limits that
are listed under [Differences](#build-limits).

Targets are two, `extract` and `destroot`: the first and the last. What
archivefetch does, up to the recording of all targets, is one step, and so is
deletion of a directory; the transfer of archives is FetchThread's matter.
Dry run, file systems without locks, a Portfile from the future, the move of
pre-2.11 directories and the target unarchive are left out.

### Trace

`Sandbox` has normalisation of paths and the file map. `TraceClient` has the
traced processes: threads with a stack of interposed calls, each of which makes
sure of a connection of its own (inherited by fork in the thread's storage, lost
by execve, closed by dup2), goes through its paths hop by hop along links
(`Look` is one hop of one path), sends length and body as two writes, reads the
answer, and acts. `Trace` adds the
server's event loop (accept, read, answer from the file map, the registry or the
cache of the session, close at the end of file), the thread that runs targets and
starts, stops and cleans the server, and the kernel's sockets. Programs are open:
any thread makes any call of `Calls`, forks, starts threads and exits; only a
forked process that has not made a traced call yet starts no threads, unless
`EarlyThreads` says so, and a thread makes `Depth` calls at a time (more than one
from signal handlers): see [Differences](#differences). In the
instance the calls are those of the `Wrappers` that do more than check one path:
execve of a script behind a link, and dup2 over the connection.

### SipCopy and SystemCmd

`SipCopy` is one program start: `copy_needed` (script, restricted, set-id), the
state of `lazy_copy` from the check of the copy in the folder to the rename, each
step with its failure, and the exec of whatever has the name then. The checks of
`copy_needed` may fail, too: a program that cannot be opened or examined counts as
one that needs no copy (`seen` is FALSE then). A copy that has its name is given up
when the temporary name cannot be removed (756). An error of `getline` ends the
reading of the pipe as the end of the file does (`ReadEnd`, `rfd` "cut"). A file has a
version, slices with their pointer-authentication marks, a signature, times and a
mode. `SystemCmd` is a sequence of calls: fork, setup of the child, callbacks,
reading the pipe line by line, wait, cleanup; the child is a shell that may start
a tool in the same way, write lines, be killed, end. Updates of the system and of
MacPorts, interrupts and kills happen at any time. What the reader of the code
should know: `wait` takes any child; mktemp names do not collide; an update
always changes a program's mtime; a process reads the time of the library once;
only the build with `copyfile` and processes in trace mode are modelled.

### FilemapDb

`FilemapDb` takes the tree as constants: the trees there may be (`Trees`) and the
operators `TreeSet`, `TreeDelete`, `TreeGet`, `TreeList`, `TreeImage` and `TreeLoad`
on them. `TreeAssumption` says what it relies on: an edit without an error changes
the content at its path, one with an error changes nothing of it, the commands that
read answer what the content says, and the image of a tree is loaded as that tree.
In the run the operators are those of `PathTree`, and TLC evaluates the assumption
on all trees that sets and unsets of the four paths make of an empty one. Its operators
follow the C functions: a name is compared without regard to case over the length of
the key looked for and then by the next byte, a `char` (signed); insertion splits
nothing, `set` makes the directories it needs, `unset` removes those it empties. A
process opens with the lock file, reads the database node by node, works on its
tree, and saves through a temporary file that it renames, one step per node, each of
which may fail or be its last. Values are not empty, and one map is open per process
at a time, as the only client has it (registry2.0/receipt_flat.tcl,
`open_file_map`); the errno of a short write is taken to be set.

### Daemondo

The one thread is a list of steps still to do, as nested calls leave it; while it
waits for a child or sits in the main loop it serves its run loop's sources:
SIGCHLD, SIGTERM and SIGHUP as messages, the kernel queue, the restart timer.
Processes end, detach and write their pid file as they like. As in the code,
`wait4(0)` reaps the own process group only, `EV_ADD` fails for a process that has
ended, a failed fork of the stop command in Restart is ignored, and the pid of a
restart command is not captured again.

## Runs

All runs end within three minutes with two workers.

`registry_update` violates its property and shows a place where the code differs from
what a comment says ([Differences](#differences)); all others pass.

| run | states | instance | shows |
|---|---|---|---|
| `image_io` | 90 thousand | two versions of a port, and a port it replaces; two paths; three forced activations in different seconds; two errors of forward steps; archive mode | registry and disk agree after every operation (`Consistent`); a failed activation leaves other ports as they were (`AbortIsClean`); `TypeOK` |
| `image_faults` | 1.6 million | the same ports in directory mode, a startup item renamed to a place another version has a file; two forced activations in different seconds; any two of six kinds of fault | `NoFileOwnedTwice`, `UserFilesSurvive`, `ImageSurvives`; refinement of `ActivePorts` |
| `registry` | 455 thousand | two processes and a database that does not exist yet, is current, or lacks the last seven updates; two names, one path, one failing statement, crashes; five calls of the one and one of the other | the version describes the schema wherever there are tables (`VersionIsSchema`), nothing leads to a freed entry (`NoDangling`), a rolled-back write leaves the entries in hand valid (`RolledBackStayValid`) |
| `registry_update` | - | one process, a database two versions old | violates `OpenIsCurrent` |
| `dlist` | 855 thousand | all lists of three items with a token each, all hard dependencies and at most one soft one per item; and lists with shared tokens; with and without `canfail` | `RequiresMet`, `SoftDepsAwaited`, `FailureStops`, `ReturnTruthful` |
| `fetch` | 205 thousand | two threads, one of them for fetches; fetches of the same and of different files, a check, two hosts | `OneWriter`, `NothingLeft`, `RequestsServed`; refinement of `FetchService` |
| `curl` | 426 thousand | two origins, URLs that are not parsed, redirects, a libcurl that may crash at a change of origin, timers of none and five seconds; all four commands with all their options, any number one after the other | a fetch without an error was given the whole body and lost at most what `fclose` did (`SuccessIsWhole`), the progress display is started, updated and finished in this order until the transfer is taken down (`ProgressOrdered`), a handle that may crash is not used while every URL is parsed and nothing redirected (`OneOrigin`), a cancelled fetch ends (`CancelEnds`) |
| `build` | 236 thousand | three commands, two targets, variants {} and +x (one after the other, with images as archives or as directories) or +x and +y (side by side), two Portfiles, `-o` and `-f` | `RecordedIsDone`, `HonouredIsMine`, `InstalledIsWhole` |
| `trace` | 300 thousand | two targets, two processes with three threads, two calls that go through a link or overwrite a descriptor, two connections, files of a dependency and of another port | a process acts on the answer to its own question, which is that of its session (`AnswersRight`); what is let through and hidden is what the file map says of each hop (`VerdictsRight`); calls and sessions end (`NothingHangs`) |
| `system` | 359 thousand | two calls, with and without callbacks, pipe and sandbox; a shell and `sandbox-exec` that are protected, and a script; one failure, kill or interrupt; one update | `RunsWhole`, `NeverStale`, `ResultTrue`, `CallEnds` |
| `filemap` | 399 thousand | two writers and a reader, four paths that differ in case, are prefixes of each other or end in a slash, three edits, one failed call or crash; no file (or an empty one), and two that are no filemaps, at the start | every process finds in its map what was set and unset (`TreeIsMap`; the tree is a map of paths, `TreeAssumption`), the file is whole (`SavedIsWhole`), no update is lost (`NoLostUpdate`) |
| `daemondo` | 304 thousand | the options startup items give: four pid styles, with and without stop and restart commands and pid file; three processes, two signals, one event | `OneDaemon`, `NothingAfterTerm`, `DeathNoticed`, `TermEnds` |

Bounds. PortImage: conflicts, replacement and the old version need three
entries and two paths, a renamed file a third; the second fault is there to
hit an error clause; a second forced activation finds a backup in its way, a third
one a backup of the second.
RegistryApi: what goes wrong takes one process whose calls meet one change by
another or one failure; seven updates include those that rebuild tables and those
that change the journal. Dlist: a cycle, a soft dependency on an item of the cycle
and a bystander are three items. FetchThread: two fetches of one file, cancelled
and asked for again, compete for one slot and a second thread that a ping may
take. Curl: one command leaves something on the handle and the next meets it; the
number of commands is not bounded. BuildState: one command leaves something
behind, a second does something else, a third relies on it; `MaxPortfile` 2
because a checksum is only compared for equality. Trace: a fork, an exec and a
second thread need two processes and three threads, a stale answer needs a second
session; a child that mixes its answers with its parent's would take a call before the
fork and one each after it, three, which is left to the theorem. SystemCmd: one process makes a copy while another checks for it and a
third, the tool, runs it; the second call meets the child of the first;
`MaxFaults` 1 counts failures, kills and interrupts together, `MaxUpdates` 1 those
of the system and of MacPorts; one line and a pipe of one line fill the pipe.
FilemapDb: the second writer meets what the first left. Daemondo: the daemon, a
stop or restart command and a second daemon are three processes.

`CHECK_DEADLOCK FALSE` stands where the system may stop: an evaluated list, a
fetch service nobody calls, commands and processes that have all ended, a daemondo
that has exited.

## Fairness

* PortImage: `WF_vars(Step)`: an operation that is under way goes on. New
  operations, faults and files of no port are never forced.
* Dlist: `WF_evalVars(EvalNext)`: the evaluation is a loop without waiting; handlers
  return.
* FetchThread: weak fairness of the main thread's current procedure, of the
  management thread and of each worker; transfers end, because curl.c sets
  timeouts (688-702). Calls are not forced: `RequestsServed` holds even if the
  callers never ask for an answer.
* Curl: `WF_vars(Thread)`: the command's own thread goes on, and a wait returns
  when its timeout has passed; libcurl, the server and the kernel are not forced
  to anything. `CancelEnds` holds because `timer_callback` limits every wait to a
  second; without the limit (its mutant) it fails. It does not speak of getsize,
  which never serves events.
* BuildState: `WF_vars(Step(c))` for each command: it goes on until it ends,
  its tools end too, and a command that waits for the lock gets it when it is
  free for good. Crashes, edits and new commands are never forced.
* Trace: weak fairness of the server's thread and of the one that runs targets;
  and traced processes as a whole go on if they always can, which is the least
  that scheduling gives. `NothingHangs` excludes (`Cut`) that a process ends in the
  middle of a message while a child has inherited its connection: the server waits
  for the rest of it.
* SystemCmd: the process goes on (`WF_vars(SystemCmd)`), each child does, and
  each tool ends.
* Daemondo: `WF_vars(Main)`. The daemon is not forced to anything: `DeathNoticed`
  and `TermEnds` are about what daemondo does.

## Differences

Where code and documentation differ, found while modelling. `registry_update` is a
run: a registry two versions old is opened with the first update done only,
because the loop of `update_db` ends after one (cregistry/sql.c 314). The others
are described with the fault, the bound or the scenario that shows them, which the
runs leave out, or as the exception that a property has to make.

* portimage.tcl 690: the suffix of a backup is the time in whole seconds, and the file
  is moved by `file rename -force` (790, 800) without a look at what is there. A second
  forced activation in the same second, with a file of the first one in its way, moves
  it over the backup the first has made, and what was there is gone; the comment at
  770 says "we move any existing files to a backup file". `UserFilesSurvive` fails with
  `SameSecond = TRUE`, with no fault at all, and so does `Consistent`.
* portimage.tcl 936: a signal handled between COMMIT and the end of the outer `try`
  runs the error clause, which moves the backups over the files just activated; the
  comment at 932 relies on a rollback that no longer happens. Fault kind `late`:
  `UserFilesSurvive` fails, since the file of no port is moved back over the active
  one and deleted when the port is deactivated.
* portimage.tcl 386: a file whose attributes cannot be set is in place but not in
  the list of files to roll back (comment at 328). `Consistent` fails with `attrs`
  in `Faults`.
* portimage.tcl 383: with `portimage_mode archive`, activation moves the files of an
  image that is a directory, the only copy there is (comment at 955).
  `ImageSurvives` fails with `Mode = "archive"` and an entry not in `ArchiveOf`.
* portimage.tcl 346: the place a startup item is renamed to is not checked; a file
  of no port there is taken for the port's own (comment at 345). `Consistent` fails
  with `ItemImage`, `ItemRenames` and a user's file at the new place.
* macports_dlist.tcl 265: an item is deferred as long as a listed one could meet its soft
  dependency. The comment at 240 says of deferred items that they "will eventually be
  returned if there are no alternatives", but two that use each other's tokens are
  never returned: the evaluation ends with both in the list, though all they require is
  met. `ReturnTruthful` has to accept such items (`Stuck`).
* mport_fetch_thread.tcl 557: cancel reaches the worker of a finished request,
  which may run another one by then, and that is given up (comment at 524).
* portfetch_run.tcl 509: a port that may not use the main mirror waits for the
  mirror's ping (comment at 504); with a site whose `wait` is not in `ping`,
  the call that waits never returns.
* portutil.tcl 1405: a Portfile edited during a build; the command discards its
  work, goes on with the Portfile it has loaded and records the rest under the
  checksum of the new one, which a later command honours. `HonouredIsMine` fails in a
  scenario with `edits` "any".
* portarchivefetch_run.tcl 213: with `portimage_mode directory` a directory of the image's
  name in `software/` counts as an existing archive, and 366-371 record all targets up
  to destroot with nothing in `incoming/verified`; the state file is to hold "name of
  completed targets" (portutil.tcl 1380). An install that ended before it registered the
  port has left such a directory (portarchive_run.tcl 136); every later one then finds
  no archive (portinstall_run.tcl 236) and no destroot (69-71) and fails until the
  directory is removed by hand. `RecordedIsDone` counts the directory (`dirs`) as what
  stands for the targets, and `InstalledIsWhole` accepts a port that was copied over it.
* registry.c 271: the file of a new registry exists from ATTACH and the journal pragma on
  (259-268, sql.c 137), its tables from the COMMIT of `create_tables` (sql.c 242), which
  is to be called "upon an uninitialized database" (sql.c 117). A process that stops
  between leaves a file, and `reg_attach` takes whatever exists for a registry (242):
  every later process fails at the query of the version (`UpdateFails`), and so does
  one that attaches it at the same time. `VersionIsSchema` is about files with tables.
* tracelib.c 867: a violation that a process has reported in full before it ended is
  dropped with its connection, because the end of the file is looked at first;
  darwintrace.c 652 takes a report to be delivered when it is written.
* darwintrace.c 379: a child of fork is recognised by the process number, of which
  there is one per process, while connections belong to threads. When a thread that
  the child has just started makes the child's first traced call, it sets the
  number, and the thread that forked takes the connection it has inherited for its
  own (comment at 368: "thus re-open all sockets"). `AnswersRight` fails with
  `EarlyThreads = TRUE` and `MaxCalls = 4`.
* darwintrace.c 620: a signal handler that makes a traced call while its thread waits
  for an answer writes and reads on the same connection. `VerdictsRight` fails with
  `Depth = 2` and `MaxCalls = 3`: the handler of a thread that waits for the file map
  goes on without one.
* daemondo/main.c 405: a daemon that is gone before it is registered with the kernel
  queue, and is no child in daemondo's process group, is never noticed (`DeathNoticed`
  excepts it).
* daemondo/main.c 456: Stop waits by `wait4` for a process that is not a child
  (its pid was read from a file), which returns at once, and Restart starts a second
  daemon while the first still runs (comments at 475 and 630). `OneDaemon` is about
  children for this reason.
* curl.c 322: `cleanup_handle_if_needed` compares the URLs of this and of the last command
  only when `curl_url_set` took both (327). It refuses one without a scheme, which the
  transfer itself completes; then neither this command nor the next is compared, and the
  multi handle goes from one scheme or host to another. A redirect (653) takes it there
  without a comparison, too. The comment at 301-303 says that this "can cause a crash".
  `OneOrigin` excepts both (`strayed`).
* curl.c 965: the result of `fclose` is ignored, so that a fetch whose last bytes stay in
  stdio's buffer on a full disk returns without an error. `SuccessIsWhole` excepts a file
  that was cut there.
* curl.c 991: when a fetch is given up while its transfer runs (cancelled, 837-841, by a
  signal, 887-891, or by an error of the wait), the display has been told to finish (921)
  before `curl_multi_remove_handle` has libcurl end the transfer with a last call of the
  progress function: an update after the finish, of data whose scope (403) has ended.
  port.tcl 5014 says that start comes "before any number of update calls, followed by one
  call to finish". `ProgressOrdered` excepts this call (`shown` is "late").
* curl.c 830: when the first call of libcurl fails, the command returns with its
  callbacks installed on a structure of the returned function, and its kernel queue
  open; the comment at 897 says they are removed because that structure is not
  persistent.
* curl.c 849: `select` overwrites the sets that `socket_callback` filled, and after a
  timeout no socket is watched; builds with kqueue, all of macOS, do not meet it.
* curl.c 1578: getsize links the variable that cancels it, but never serves the
  events that could set it.
* sip_copy_proc.c 600: the comment speaks of the ctime of the library, the code
  takes its mtime (545), which a package may set to the time it was built. The
  times set on a copy are cut to microseconds (728), so that a program with a finer
  time is copied again at every start.
* sip_copy_proc.c 159, 230: `copy_needed` says that no copy is needed when a program
  cannot be opened or has no status, where the comment at 125-127 speaks of an error: the
  protected program is then started as it is, and outside the trace. `RunsWhole` is about
  programs that were examined (`seen`).
* system.c 524: an error of `getline` ends the loop like the end of the file, `ferror` is
  not asked, and `read_failed` stays 0, so that the command's own end decides the result;
  the comment at 597 counts a normal exit and that "reading from the pipe didn't fail".
  A call may succeed with output unread (the exception in `ResultTrue`).
* system.c 574: `wait` may take a child that an earlier call left behind when a
  callback ended it; the later call then fails although its command did not. 673:
  a descriptor is closed that `fclose` has closed before. An interrupt while the
  command ends with 0 is not reported. When the pipe cannot be opened for reading
  it stays open, and a command that fills it never ends (the exception in
  `CallEnds`).
* filemap.c 720: the byte after the common part is compared as a signed char, 1800:
  a save that failed to write clears the dirty flag, and the comment of
  `FreeFilemapInternalRep` says that the file is saved, which it is not. The comment
  in receipt_flat.tcl before `open_file_map` expects a second open map to deadlock,
  which POSIX locks of one process do not.

<a id="build-limits"></a>
The scenarios of `build` exclude four things that break the build or its properties:

* a crash between moving a fetched archive and deleting the state file
  (portinstall_run.tcl 238-241): all targets stay recorded without an archive,
  and a partial destroot from before is archived and installed
  (`InstalledIsWhole` fails in a scenario with `cut`);
* two builds side by side that start in an empty work directory. `open_statefile` reads
  and compares the file, and discards the directory, before it takes the lock
  (portutil.tcl 1418-1472 before 1478): a second command that comes between the version
  and the checksum line of the first (1491) finds a version 2 file without a checksum,
  discards the directory under the first, and creates and locks a file of its own; both
  run targets, although ChangeLog 1809 has "more locking to avoid TOCTOU errors when
  running multiple port(1) instances". What the lock alone guarantees, that commands
  with the same file do not run targets at once, is no property here;
* clean beside a build: it takes no lock;
* builds without variants beside builds with some, from a file with neither
  variants nor targets: check_variants lets both in.

## Proofs

Checked by TLAPS, for any values of the constants that satisfy the ASSUMEs:

| theorem | says |
|---|---|
| `PortImageProofs!TypeCorrect` | `Spec => []TypeOK` |
| `PortImageProofs!OwnersUnique` | `Spec => []NoFileOwnedTwice` |
| `PortImageProofs!InactivePortsOwnNothing` | `Spec => []InactiveOwnsNothing` |
| `PortImageProofs!OneVersionActive` | `Spec => []OneActive` |
| `PortImageProofs!Refinement` | `Spec => ActivePortsSpec` |
| `PortImageProofs!ImagesSurvive` | `Spec => []ImageSurvives`, if `OneMode`: in mode `archive` no image is a directory |
| `PortImageProofs!UserFilesSafe` | `Spec => []UserFilesSurvive`, if `Undisturbed`: nobody creates files during an operation, no signal of the kind `late`, no startup item goes where a file of no port may be, forced activations are a second or more apart |
| `PortImageProofs!RegistryIsDisk` | `Spec => []Consistent`, if `Plain`: `Undisturbed`, and the only faults are errors of forward steps |
| `PortImageProofs!FailedActivationsAreClean` | `Spec /\ []~force => AbortIsClean`, if `Plain`, `OneMode` and `Unrenamed`: an activation that fails leaves every other port as it was, as long as no activation is forced |
| `TargetProofs!RequiresMetHolds`, `FailureStopsHolds`, `RunOnceHolds`, `MetByGoodHolds`, `SoftDepsAwaitedHolds`, `ReturnTruthfulHolds` | the named properties, for lists of any length |
| `PextlibProofs!SuccessIsWholeHolds`, `ProgressOrderedHolds`, `OneOriginHolds` | the named properties, for any origins, timers and either polling |
| `PextlibProofs!FileInvariant` | `FileSpec => []FileInv`, for any processes, owners, edits and faults, and any tree that is a map of paths |
| `PextlibProofs!TreesAreMaps`, `SavesAreWhole`, `UpdatesAreKept` | `TreeIsMap`, `SavedIsWhole`, `NoLostUpdate`, likewise |
| `SystemProofs!RunsWholeHolds`, `NeverStaleHolds`, `ResultTrueHolds` | the named properties, for any number of calls, programs, failures and updates |
| `FetchThreadProofs!FetchInvariant` | `Spec => []FetchInv`: every request is in one place, and the threads agree where |
| `FetchThreadProofs!FetchOneWriter`, `FetchNothingLeft` | `OneWriter`, `NothingLeft`, for any callers, files and limits |
| `FetchThreadProofs!FetchRefines` | `Spec => ServiceSpec`: the threads implement `FetchService` |
| `RegistryApiProofs!VersionIsSchemaHolds` | `Spec => []VersionIsSchema`: where there are tables, the version says what their schema is; for any processes and ids and any databases of a release at the start |
| `RegistryApiProofs!NoDanglingHolds`, `RolledBackHolds` | `NoDangling`, and the action property `RolledBackStayValid` |
| `TargetProofs!BuildInvariant` | `Spec => []BuildInv`, for any number of commands with calm scenarios |
| `TargetProofs!BuildRecordedIsDone`, `BuildHonouredIsMine`, `BuildInstalledIsWhole` | the named properties, under the same hypothesis |
| `TraceProofs!TraceInvariant` | `Spec => []TraceInv`, for any processes, threads, connections, sessions, calls, links and file map, if `OneCallAtATime` |
| `TraceProofs!AnswersAreRight`, `VerdictsAreRight` | `AnswersRight`, `VerdictsRight`, under the same hypothesis |
| `DaemondoProofs!OneDaemonHolds`, `NothingAfterTermHolds` | the named properties, for any options and any number of processes, signals and events |

PortImage. None of the invariants is inductive: at `Commit` the registry becomes
whatever the transaction holds, so the invariant must say what it holds.
`IInv` relates the two: `Pending` says that in the transaction no
location is claimed twice, all rows of the new port are active and other ports'
rows are as committed or were in the way and yielded. For the row of `Register`
this needs `ForcedOK`: the rows to be moved were in the way when they were noted,
or are inactive by now because a replaced port was deactivated meanwhile.
`OneActive` needs `OldsOK`: another version is active only while it waits to be
deactivated; and `DeaOK`, `ReplacedOK`: what is deactivated is active until its
commit, so that every commit is a step of `ActivePorts`. The proof has a lemma
per action (`...Step`), which `NextInv` combines; `Refinement` has a lemma per
commit (`CommitActivates`, `ReactivateActivates`, `CommitDeactivates`).

Three theorems about the files have hypotheses on the constants, and each part of
them excludes a case where the code really breaks the property (see
[Differences](#differences)). `OneMode`: mode `archive` moves the files of an image
that is a directory. `Undisturbed`: a file that appears between the scan and the
rename is overwritten by `rename -force`; after a `late` signal the error clause
works against what is committed; a file where a startup item goes is not looked
for; two forced activations in one second share the places of their backups. `Plain`:
a file whose attributes cannot be set is not rolled back, files deleted before a failure
stay deleted, and a failing commit, a signal or a crash leaves what has been moved. The instances of the runs satisfy these hypotheses:
`image_io` all three and `Unrenamed`, `image_faults` the first two.

`UserFilesSurvive` needs that no port, committed or in the transaction, claims the
file (`Unclaimed`), and, since claims on backups come later than the backups, that
a suffix not handed out yet is used by nobody (`SuffixFree`): this is why two forced
activations must not share a second (`~SameSecond` in `Undisturbed`). `Consistent` speaks of idle states only;
`Agreement` extends it to all others. What `Was` at a location before this activation
moved a file aside or put one there agrees with the committed registry (`Agrees`);
this is what the error clause restores. What is moved aside is what was in the way
of ports that are not replaced, with a row noted for each (`MovedKnown`), so that the
rows the transaction moves are those whose files moved; and at each step of the
transaction the disk is what it says, but for the files still to come
(`WriteKnown`), so that its commit leaves agreement behind.

`AbortIsClean` compares the end of an operation with its beginning, so `Cleanly` says
at every point what became of each port of another name: it is as it was found, or it
is inactive and among those the error clause will activate again (`OthersOK`,
`Yielded`). The error clause stops at the first activation that fails, so the proof must
show that none does (`CanBeReactivated`, `ReactivateErrorClean`): what is where the port's
files go would belong to a port that was active when the operation began, as this one
was, and two ports cannot have owned the location then (`NothingInTheWay`). The
hypotheses again exclude cases where it fails. `[]~force`: after a forced activation
the rows of a port may be at backup paths, and a port that is activated again goes where
its image says (`InPlace`). `Unrenamed`: its startup items go where its own target says
now, which may be elsewhere than before. `image_io` also checks forced activations, in
one instance.

Dlist. The invariant relates the status dictionary and the list to the histories:
a token is "met" only if a good item provides it, a good item has left the list,
one that ran and is still listed is in hand or the one given up on, and without
`canfail` a failed item means the end. Without the second and third parts a
handler might run twice, or an item supply its own token. For `ReturnTruthful` every
item is accounted for (`Accounted`), and the selector must find an item whenever one is
eligible: among the items left, a finite list, one is smallest in the order it
selects by, since the natural numbers are well founded; the token counts are numbers
because tokens are finite (`TokensAssumption`).

Curl. Success only says something of the transfer if the handle is set to this
command's URL and options and to no others: `OptionsOwn` says so of every point
where libcurl may be called, `WroteBody` relates what was received to what the
handle is set to, and `OriginKept` the last URL to the one the handle was used with, as
long as it has not strayed. `LibcurlKeeps` is the lemma that nothing libcurl or the
server does touches the first. `Display` relates what the progress callback was told to
the polling structure and the step of the command, and `LibcurlShows` says that calls of
libcurl keep it.

SystemCmd. A copy is whole when it gets its name, so the invariant follows the
temporary file: `FileOk` says how far it has come at each step of `lazy_copy`, and
that its version lies between the time taken before and the program's version
now; `JobOk` that a process about to exec a copy has one in the folder, which
nobody removes; `TargetOk` that whatever has a name there is whole and no older
than its time says. `NeverStale` follows since a time that equals the program's
current version bounds the copy's version from both sides. For `ResultTrue`,
`Drained` says that a call waits for its child with all output read unless
reading failed, and `ExitKnown` that an ended child has one of three statuses. The
steps of children are treated together (`KidsKeep`): whatever they do, a child
that was waited for stays as it is, and only a child whose call reads adds to its
pipe.

Daemondo. `OneDaemon` needs to know whose the only child is at every step that is
left (`KidsKnown`): the process that is waited for or registered, or else the
daemon, and nobody's when `Start` comes next; that what the kernel queue reports
has ended (`ReportsTrue`); and which lists of steps there are (`StepsType`,
`PidsKnown`). `NothingAfterTerm` needs `OnlyStops`: SIGTERM leaves `Stop` and its
wait, and neither a callback in the mode of the wait nor the main loop adds to it.
`Passive` is the lemma for all steps that only take processes away.

FetchThread. `FetchInv` follows a request through the threads: `OnePlace` says that
it is queued, or at one worker, or its answer is on the way, or none of these, and
that the main thread's view (`At`) agrees; `OnceThere` that its identifier is in a
queue or an inbox at most once; `TidInOrder` that the `_tid` variable of a request
names a worker that has it, or had it until an answer not read yet. `OneState` says
what each worker is doing, and `FilesKnown` that a file in `active_files` is that of
a fetch somewhere between its queue and its worker's last write. `NothingLeft` and
`OneWriter` are read off this. For the refinement each action either leaves every
`At` alone (`Stay`) or takes one request one step on (`Goes`); that the service's
limit holds when a fetch starts follows from the counts, because the map from the
running fetches to their workers is an injection.

RegistryApi. `InitialAssumption` says that the databases at the start are of some
release: their version describes their schema. `VersionIsSchema` is not inductive,
because a commit makes the database whatever the transaction's view is. `DbInv` says
that every view is `Good` (its version describes it) or, between the statements of
an update that change the schema and the one that sets the version, `Half` (the next
version describes it), and which statements are left in which transaction
(`QueueOK`). That an update leads from the schema of one version to that of the next
is `SchemaStep`; that a new file has the schema of the last is `CreatedIsCurrent`,
computed through the thirteen updates. For the entries `RegInv` says that slots lead
to objects of their ids (`ObjsKnown`), that nothing leads to a freed one (`Alive`),
and that what waits on the list keeps its command's name (`Listed`). The last is
what `NoDangling` rests on: with the name, no query gives a deleted entry a second
command, so that freeing the list frees what nothing leads to. `Remembered` (what
was in hand when a write began is in hand or on the list) is what `RolledBackStayValid` needs.
`SetToSeqOnto` and `AllocateKeeps` are the lemmas on new objects.

BuildState. The hypothesis of its theorems is that every scenario is `Calm`: the
command is alone in the work directory, edits come only before or after it, and it
is not killed between `file rename` of the archive and the removal of the state
file; or it builds beside others, from a directory where a build was begun, with no
edit, no flag and with some variants. What is excluded are the four cases above
under [Differences](#differences), each of which breaks a theorem. `Here` says that
whoever is past `Lock` holds the lock of the current work directory; `BuildInv`
then relates the lines of the state file to the work in the directory (a line is
written after its work is done, for the Portfile whose checksum is in the file), the
archives and images to the work they were made of, and what a command has loaded
and compared to what is there while it goes on.

Trace. Neither property is inductive: that an answer is right says nothing of the
cache it is taken from, and a verdict is the sum of many steps. `TraceInv` has a part
for the clients and one for the server.

* Who may use a connection: `Holds` and `Separate` say that what a thread knows of is
  open in its process and made by it, unless the process has inherited it (`Own`
  tells the two apart), that no two threads of a process know the same one, and that
  a process that has inherited has one thread. This is the comment of
  `__darwintrace_setup` made precise, and what `OneCallAtATime` is for: both cases it
  excludes, calls from signal handlers and threads started before the child's first
  traced call, are listed under [Differences](#differences) with the property they
  break. The rest of a process's threads, forks, execs and exits are as in the runs.
* What is on it: `Orderly` and `InLine` say that messages are written one after the
  other in two parts, that only the last one wants an answer and nothing follows it,
  and that what is unread, or answered, is what the thread waits for (`Sent`,
  `Awaits`). Connections that others still hold, after an exec or a fork, stay
  orderly whatever becomes of the thread.
* Whose answer it is: `Settled` says that connections that are not closed are of the
  current session, so that an answer made now is one of theirs; `CacheOK` that the
  cache holds right answers only and is empty between sessions; `Books` that the
  list of peers is what is connected.
* What has been decided: `Judged` says that while a call goes on, everything before
  the current path may be seen, and of the current path all hops but those `Ahead`;
  a call that is refused has met a hop that may not. `Question` relates what is asked
  or reported to the hop it is about. The step along a link is `ReachesStep`: what can
  be reached in n links is the path and what its target reaches in n - 1.

`AnswersRight` and `VerdictsRight` are read off this when an answer is in flight and
when a call acts. `Stepped` is the lemma for steps within a call, `ServerUnmoved` says
that they leave the server right, `Deaths` is for processes that end in whatever way,
and `LookupRight`, `Handled` are for the answers.

FilemapDb. The tree's operators are recursive, so they are constants of the module and
what it needs of them is `TreeAssumption`. A file may hold anything at the start that
`TreeLoad` refuses, or a tree. `TreeAssumption` holds of paths whose names are ASCII; a
byte of 128 or more after a name that is one too breaks it in the code (filemap.c 720).
`FileInv` is about each process: `MapOk`, only a map that may be written is edited or
saved; `LockOk`, a process has the lock its map needs from the load to the close, for
itself alone if it is to write; `Derived`, what it has loaded is of the current version,
and a tree holds what it should; `Written`, what is in the temporary file followed by
what is still to be written is the image of the tree. `FileOk` says that of the file:
none of the properties is inductive without it and the lock. `FileKept` is the lemma for
steps that leave the file alone: what the others rely on is kept, because the temporary
file changes only under the write lock. `OnlyMapChanges`, `ChangeKeeps`, `AdoptKeeps`
and `DropKeeps` are for the kinds of steps in one process; `SaveRenameStep` is the one
that changes the file, when nobody else has any lock.

What the properties do not reach. `RolledBackStayValid` is about writes that the process
itself rolls back; after a rollback by SQLite the deleted entries are freed, against
the comment at registry2.0/entry.c 129-130. `CancelEnds` needs that every wait has a limit, not that it
is one second. The answer `#`, which the
server gives when the registry cannot be read (tracelib.c 627, 663), and the error exits of
its loop (784-841, 852-911) are not in the model.

Only model-checked: liveness (`RequestsServed`, `CancelEnds`, `NothingHangs`,
`CallEnds`, `DeathNoticed`, `TermEnds`), which TLAPS cannot prove under fairness;
`AbortIsClean` where activations are forced; that `PathTree`
satisfies `TreeAssumption`, since its operators are recursive and what they compute for
every tree needs induction over trees, which the provers at hand cannot do.

## What is not modelled

`PROJECT.json` lists each component with the reason. In short: phases that run
external tools or only report; conversions and parsing (port expressions,
Mach-O, SQL text, archive formats, `strsed`); single calls of the system that
pextlib offers to Tcl; index generation and selfupdate, which are sequences with
no state but files; vendored code. Inside the modelled components: trace mode has
no set-id programs, resource forks or volfs paths; the sandbox profile of
portsandbox.tcl is left to the operating system; the registry's metadata table,
vacuum and checkpoint change no answer; the child of xinstall's `strip` that goes
on as a second interpreter when its `execlp` fails (xinstall.c) is in no model.

## Plan

Done, in this order: FileMap, ActivePorts and PortImage with their proofs; Dlist;
FetchThread; BuildState; then the C code below them: Trace, RegistryApi, Daemondo,
FilemapDb, Curl, SystemCmd; the proofs of Curl, SystemCmd and Daemondo, then those
of FetchThread and BuildState; then what PortImage and Dlist promise about files and
results; then the proofs of RegistryApi, those of Trace, and those of FilemapDb.

Next modules:

1. `PortFetch`: jobs of a port over `FetchService` (start, skip because another
   port fetches the file, wait, synchronous fetch, clean-up, checksum); the
   skipped distfile that its other port never delivers.
2. `RegistryLock`: nested locks of `port` and `mportexec` with their early
   returns, two processes; every lock is released, no one waits for ever.
3. `dlist_append_dependents` and uninstallation with dependents; version
   comparison (`vercomp.c`) against a reference definition over bounded inputs.
4. The composition of RegistryApi and PortImage: the transaction of an activation
   as calls of the registry.

Abstract specifications worth adding: a build as one atomic function of Portfile
and variants, implemented by BuildState's commands; a database that is updated in
one step, implemented by `update_db`.

Next theorems: `AbortIsClean` for forced activations whose owners were never moved
aside before; `TreeAssumption` of `PathTree`, with a prover that does induction over trees.
