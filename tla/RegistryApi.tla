---------------------------- MODULE RegistryApi ----------------------------
(***************************************************************************)
(* Processes that use the registry through registry2.0 (registry.c,        *)
(* entry.c, entryobj.c, snapshot.c, util.c) and cregistry (registry.c,     *)
(* sql.c, entry.c): opening and updating the database, transactions around *)
(* scripts, and the entries a process has in hand, which are objects in a  *)
(* hash table by id, each with a Tcl command.                              *)
(*                                                                         *)
(* SQLite is modelled from outside: one writer at a time, a reader's view  *)
(* fixed from its first statement on, and a statement or COMMIT that fails *)
(* may end the transaction.  BUSY is waited for, except where the view has *)
(* gone stale (the extended code is not the one the loops test).           *)
(***************************************************************************)
EXTENDS RegistryTables

CONSTANTS
    Procs,
    Initial,      \* the databases there may be at the start, none or of a release
    MaxOpens,     \* bound: how often a process opens the registry
    MaxCalls,     \* bound: calls of a process, over all its lives
    MaxEdits,     \* bound: writing methods of entries, and snapshots
    MaxObjs,      \* bound: entry objects of a process
    MaxId,        \* bound: ids of ports and snapshots
    MaxFaults     \* bound: statements that fail

ASSUME InitialAssumption == \A t \in Initial : IsTable(t, MaxId) /\ VersionShown(t)
ASSUME BoundsAssumption ==
    /\ MaxOpens \in [Procs -> Nat] /\ MaxCalls \in [Procs -> Nat]
    /\ MaxEdits \in Nat /\ MaxObjs \in Nat /\ MaxId \in Nat
    /\ MaxFaults \in Nat

VARIABLES
    db,       \* what is committed
    tx,       \* SQLite's transaction of each process: none, read or write
    view,     \* what the process sees in its transaction
    at,       \* where a process is: out, create, tables, begin, migrate or open
    queue,    \* the statements left of an update
    reg,      \* reg_registry and what hangs on it
    opens, calls, edits, faults

vars == <<db, tx, view, at, queue, reg, opens, calls, edits, faults>>
budget == <<opens, calls, edits, faults>>

(* status: the flags reg_transacting (read) and reg_can_write (write).     *)
(* script: the body being evaluated of registry::read or registry::write.  *)
(* objs: the ids of all reg_entry allocated; proc: those with the name of  *)
(* a command; freed: those freed; slots: the hash table open_entries;      *)
(* cmds: the objects that have a command; list: those on the list          *)
(* registry::deleted, whose order makes no difference.                     *)
(* before, ended: the commands at the start of the script and not closed   *)
(* since, and how the last script ended: history.                          *)
Fresh == [status |-> "none", script |-> "none", objs |-> <<>>, proc |-> {},
          freed |-> {}, slots |-> <<>>, cmds |-> {}, list |-> {},
          before |-> {}, ended |-> "none"]

Init ==
    /\ db \in Initial
    /\ tx = [p \in Procs |-> "none"]
    /\ view = [p \in Procs |-> NoFile]
    /\ at = [p \in Procs |-> "out"]
    /\ queue = [p \in Procs |-> <<>>]
    /\ reg = [p \in Procs |-> Fresh]
    /\ opens = MaxOpens
    /\ calls = MaxCalls
    /\ edits = MaxEdits
    /\ faults = MaxFaults

-----------------------------------------------------------------------------
(* SQLite.                                                                 *)

Seen(p) == IF tx[p] = "none" THEN db ELSE view[p]
Others(p) == Procs \ {p}
Stale(p) == tx[p] = "read" /\ view[p] # db

\* Not BUSY: without a write-ahead log a commit waits for every reader.
CanWrite(p) ==
    \/ tx[p] = "write"
    \/ /\ \A q \in Others(p) : tx[q] # "write"
       /\ tx[p] = "none" /\ ~db.wal => \A q \in Others(p) : tx[q] = "none"
CanCommit(p) ==
    tx[p] = "write" /\ ~db.wal => \A q \in Others(p) : tx[q] = "none"

\* A statement of p that leaves t.
Store(p, t) ==
    IF tx[p] = "none" THEN db' = t /\ UNCHANGED <<tx, view>>
    ELSE /\ tx' = [tx EXCEPT ![p] = "write"]
         /\ view' = [view EXCEPT ![p] = t]
         /\ UNCHANGED db

EndTransaction(p) ==
    /\ tx' = [tx EXCEPT ![p] = "none"]
    /\ view' = [view EXCEPT ![p] = NoFile]
Commit(p) ==
    /\ CanCommit(p)
    /\ db' = IF tx[p] = "write" THEN view[p] ELSE db
    /\ EndTransaction(p)
Rollback(p) == EndTransaction(p) /\ UNCHANGED db

Fault ==
    /\ faults > 0
    /\ faults' = faults - 1
    /\ UNCHANGED edits
NoFault == UNCHANGED <<edits, faults>>

-----------------------------------------------------------------------------
(* Opening: reg_attach, create_tables, update_db.                          *)

\* The process ends, by itself or not: its transaction goes with it.
Exit(p) ==
    /\ Rollback(p)
    /\ at' = [at EXCEPT ![p] = "out"]
    /\ queue' = [queue EXCEPT ![p] = <<>>]
    /\ reg' = [reg EXCEPT ![p] = Fresh]

Die(p) ==
    /\ at[p] # "out" \/ reg[p] # Fresh
    /\ Exit(p)
    /\ UNCHANGED budget

reg_attach(p) ==
    /\ at[p] = "out" /\ opens[p] > 0 /\ tx[p] = "none"
    /\ opens' = [opens EXCEPT ![p] = @ - 1]
    /\ at' = [at EXCEPT ![p] = IF db.exists THEN "begin" ELSE "create"]
    /\ UNCHANGED <<db, tx, view, queue, reg, calls, edits, faults>>

\* ATTACH and the PRAGMAs, which need no transaction.
CreateFile(p) ==
    /\ at[p] = "create"
    /\ db' = IF db.exists THEN db ELSE EmptyFile
    /\ at' = [at EXCEPT ![p] = "tables"]
    /\ UNCHANGED <<tx, view, queue, reg, budget>>

\* BEGIN to COMMIT; of two processes that found no file one fails here.
CreateTables(p) ==
    /\ at[p] = "tables" /\ CanWrite(p)
    /\ IF db.tables THEN Exit(p)
       ELSE /\ db' = create_tables
            /\ at' = [at EXCEPT ![p] = "begin"]
            /\ UNCHANGED <<tx, view, queue, reg>>
    /\ UNCHANGED budget

\* Mutant: the version is set after the commit.
QueriesMutCommitFirst(version) ==
    IF version \in ToWal THEN <<"change", "commit", "version", "wal">>
    ELSE <<"change", "commit", "version">>

\* The queries of an update, in groups.  A transaction is open.
Queries(version) ==
    IF version \in ToWal THEN <<"change", "version", "commit", "wal">>
    ELSE <<"change", "version", "commit">>

\* The query of the version fails in a file without tables, and the command ends.
UpdateFails(p) ==
    /\ at[p] = "begin" /\ ~db.tables
    /\ Exit(p)
    /\ UNCHANGED budget

\* BEGIN and the query of the version, which fixes the view.
UpdateBegin(p) ==
    /\ at[p] = "begin" /\ db.tables
    /\ IF db.version = Current
       THEN /\ at' = [at EXCEPT ![p] = "open"]
            /\ UNCHANGED <<tx, view, queue>>
       ELSE /\ at' = [at EXCEPT ![p] = "migrate"]
            /\ tx' = [tx EXCEPT ![p] = "read"]
            /\ view' = [view EXCEPT ![p] = db]
            /\ queue' = [queue EXCEPT ![p] = Queries(db.version + 1)]
    /\ UNCHANGED <<db, reg, budget>>

Statement(p, t) == CanWrite(p) /\ ~Stale(p) /\ Store(p, t)

\* The next of the queries.  After the last the loop is entered again with
\* the query of the version in place of BEGIN, whose row ends it.
Migrate(p) ==
    LET query == Head(queue[p]) IN
    /\ at[p] = "migrate" /\ queue[p] # <<>>
    /\ \/ query = "change" /\ Statement(p, Change(Seen(p)))
       \/ query = "version" /\ Statement(p, SetVersion(Seen(p)))
       \/ query = "commit" /\ Commit(p)
       \/ query = "wal" /\ Statement(p, [Seen(p) EXCEPT !.wal = TRUE])
    /\ queue' = [queue EXCEPT ![p] = Tail(@)]
    /\ at' = [at EXCEPT ![p] = IF Len(queue[p]) = 1 THEN "open" ELSE @]
    /\ UNCHANGED <<reg, budget>>

\* A query that fails, which one does that finds its view overtaken:
\* rollback_db, and the command ends.
MigrateFails(p) ==
    /\ at[p] = "migrate"
    /\ \/ Stale(p) /\ CanWrite(p) /\ NoFault
       \/ Fault
    /\ Exit(p)
    /\ UNCHANGED <<opens, calls>>

-----------------------------------------------------------------------------
(* Entries in hand.                                                        *)

\* reg_entry_create, reg_stmt_to_entry and entry_to_obj: a new object for each
\* of the ids, with a command; it takes the slot of its id, whatever is there.
Allocate(r, ids) ==
    LET order == SetToSeq(ids)
        old == Len(r.objs)
        new == old + 1 .. old + Len(order)
    IN  [r EXCEPT !.objs = [o \in 1 .. old + Len(order) |->
                               IF o \in new THEN order[o - old] ELSE @[o]],
                  !.slots = [id \in DOMAIN @ \cup ids |->
                               IF id \in ids THEN CHOOSE o \in new : order[o - old] = id
                               ELSE @[id]],
                  !.proc = @ \cup new,
                  !.cmds = @ \cup new]

\* A command for each of the objects that has no name of one.
entry_to_obj(r, os) ==
    [r EXCEPT !.proc = @ \cup os, !.cmds = @ \cup (os \ r.proc)]

\* delete_entry, the deleteProc of the commands of objects.
DeleteCommands(r, os) ==
    [r EXCEPT !.cmds = @ \ os, !.proc = @ \ (os \cap r.cmds)]

\* Mutant: the slot is left to what is freed.
reg_entry_freeMutKeepSlot(r, os) == [r EXCEPT !.freed = @ \cup os]

\* The slots of the ids go, whatever is in them.
reg_entry_free(r, os) ==
    [r EXCEPT !.freed = @ \cup os,
              !.slots = Restricted(@, {id \in DOMAIN @ : \A o \in os : r.objs[o] # id})]

\* Tcl_FindHashEntry finds nothing to delete: the process crashes.
FreeCrashes(r, o) == r.objs[o] \notin DOMAIN r.slots

\* delete_entry_list, restore_entry_list
delete_entry_list(r) == [reg_entry_free(r, r.list) EXCEPT !.list = {}]
ListCrashes(r) ==
    \E o \in r.list :
        FreeCrashes(r, o) \/ \E other \in r.list \ {o} : r.objs[other] = r.objs[o]
restore_entry_list(r) == [r EXCEPT !.cmds = @ \cup r.list, !.list = {}]

-----------------------------------------------------------------------------
(* Calls of a process that has the registry open.                          *)

Call(p) ==
    /\ at[p] = "open" /\ calls[p] > 0
    /\ calls' = [calls EXCEPT ![p] = @ - 1]
    /\ UNCHANGED <<queue, opens>>
Hold(p, r) ==
    reg' = [reg EXCEPT ![p] = [r EXCEPT !.ended = "none"]] /\ UNCHANGED at
Settle(p, r) == reg' = [reg EXCEPT ![p] = r] /\ UNCHANGED at
Room(r) == Len(r.objs) <= MaxObjs

Ended(r, how) == [r EXCEPT !.script = "none", !.ended = how, !.before = {}]

\* registry::entry create
EntryCreate(p, name) ==
    LET t == reg_entry_create(Seen(p), name)
        r == Allocate(reg[p], {NextId(Seen(p).ports)})
    IN  /\ Call(p)
        /\ CanCreate(Seen(p), name) /\ NextId(Seen(p).ports) <= MaxId /\ Room(r)
        /\ Statement(p, t)
        /\ Hold(p, r)
        /\ NoFault

\* registry::entry delete: in a write the object goes on the list, anywhere
\* else it is freed; its command goes without delete_entry being called.
EntryDelete(p, o) ==
    LET r == reg[p]
        id == r.objs[o]
        gone == [r EXCEPT !.cmds = @ \ {o}]
    IN  /\ Call(p)
        /\ o \in r.cmds /\ CanDelete(Seen(p), id)
        /\ Statement(p, reg_entry_delete(Seen(p), id))
        /\ IF r.script = "write"
           THEN Hold(p, [gone EXCEPT !.list = @ \cup {o}])
           ELSE /\ ~FreeCrashes(r, o)
                /\ Hold(p, [reg_entry_free(gone, {o}) EXCEPT !.before = @ \ {o}])
        /\ NoFault

DeleteCrashes(p, o) ==
    LET r == reg[p] IN
    /\ Call(p)
    /\ o \in r.cmds /\ CanDelete(Seen(p), r.objs[o]) /\ r.script # "write"
    /\ FreeCrashes(r, o) /\ CanWrite(p) /\ ~Stale(p)
    /\ db' = IF tx[p] = "none" THEN reg_entry_delete(db, r.objs[o]) ELSE db
    /\ EndTransaction(p)
    /\ at' = [at EXCEPT ![p] = "out"]
    /\ reg' = [reg EXCEPT ![p] = Fresh]
    /\ NoFault

\* Objects and commands for the rows a query returns: those in the slots of
\* their ids, and new ones for the others.
list_entry_to_obj(r, ids) ==
    Allocate(entry_to_obj(r, {r.slots[id] : id \in ids \cap DOMAIN r.slots}),
             ids \ DOMAIN r.slots)
Returned(p, ids) ==
    LET r == list_entry_to_obj(reg[p], ids) IN
    /\ Call(p)
    /\ Room(r) /\ Hold(p, r)
    /\ UNCHANGED <<db, tx, view>> /\ NoFault

entry_open(p, name) == Returned(p, reg_entry_open(Seen(p), name))
entry_search(p, names, states) ==
    Returned(p, reg_entry_search(Seen(p), names, states))
entry_imaged(p, name) == Returned(p, reg_entry_imaged(Seen(p), name))
entry_installed(p) == Returned(p, reg_entry_installed(Seen(p)))
entry_owner(p, path) == Returned(p, reg_entry_owner(Seen(p), path))
entry_obj_dependents(p, o) ==
    Returned(p, reg_entry_dependents(Seen(p), reg[p].objs[o]))
entry_obj_dependencies(p, o) ==
    Returned(p, reg_entry_dependencies(Seen(p), reg[p].objs[o]))

\* registry::entry close
EntryClose(p, o) ==
    /\ Call(p)
    /\ o \in reg[p].cmds
    /\ Hold(p, [DeleteCommands(reg[p], {o}) EXCEPT !.before = @ \ {o}])
    /\ UNCHANGED <<db, tx, view>> /\ NoFault

\* A method of an entry, or a snapshot, that writes t.
Edit(p, t) ==
    /\ Call(p)
    /\ edits > 0 /\ edits' = edits - 1
    /\ Statement(p, t)
    /\ Hold(p, reg[p])
    /\ UNCHANGED faults

entry_obj_prop(p, o, state) ==
    Edit(p, reg_entry_propset(Seen(p), reg[p].objs[o], state))
entry_obj_filemap(p, o, path) ==
    LET t == Seen(p)
        id == reg[p].objs[o]
    IN  \/ CanMap(t, id) /\ Edit(p, reg_entry_map(t, id, path))
        \/ CanUnmap(t, id, path) /\ Edit(p, reg_entry_unmap(t, id, path))
        \/ /\ CanDeactivate(t, id, path)
           /\ Edit(p, reg_entry_deactivate(t, id, path))
entry_obj_activate(p, o, path) ==
    LET id == reg[p].objs[o] IN
    /\ CanActivate(Seen(p), id, path)
    /\ Edit(p, reg_entry_activate(Seen(p), id, path))
entry_obj_depends(p, o, name) ==
    LET id == reg[p].objs[o] IN
    CanMap(Seen(p), id) /\ Edit(p, reg_entry_depends(Seen(p), id, name))
entry_obj_add_portgroup(p, o, group) ==
    LET id == reg[p].objs[o] IN
    /\ CanMap(Seen(p), id) /\ Has(Seen(p), {"portgroups"})
    /\ Edit(p, reg_entry_addgroup(Seen(p), id, group))

\* registry::snapshot create, which is called in a write.
registry_snapshot_create(p) ==
    LET t == Seen(p)
        s == NextId(t.snapshots)
    IN  /\ reg[p].script = "write" /\ s <= MaxId
        /\ Has(t, {"snapshots", "snapshot_ports"})
        /\ Edit(p, snapshot_store_files(
                        snapshot_store_ports(reg_snapshot_create(t), s), s))

-----------------------------------------------------------------------------
(* registry::read and registry::write around a script.                     *)

Begin(p, status) ==
    /\ Call(p)
    /\ reg[p].status = "none" /\ reg[p].script = "none" /\ tx[p] = "none"
    /\ tx' = [tx EXCEPT ![p] = status]
    /\ view' = [view EXCEPT ![p] = db]
    /\ Hold(p, [reg[p] EXCEPT !.status = status, !.script = status,
                              !.before = reg[p].cmds])
    /\ UNCHANGED db /\ NoFault
reg_start_read(p) == Begin(p, "read")
reg_start_write(p) ==
    (\A q \in Others(p) : tx[q] # "write") /\ Begin(p, "write")

\* reg_end: neither statement succeeds when SQLite has ended the transaction
\* by itself, and COMMIT may fail, ending it or not.
reg_commit(p) == tx[p] # "none" /\ Commit(p) /\ NoFault
reg_rollback(p) == tx[p] # "none" /\ Rollback(p) /\ NoFault
EndFails(p) ==
    \/ tx[p] = "none" /\ UNCHANGED <<db, tx, view>> /\ NoFault
    \/ /\ tx[p] = "write" /\ Fault /\ UNCHANGED db
       /\ EndTransaction(p) \/ UNCHANGED <<tx, view>>

\* What delete_entry_list leaves, unless it crashes: then the process is gone
\* with its transaction, if that is still open.
DropList(p, r) ==
    IF ListCrashes(r)
    THEN at' = [at EXCEPT ![p] = "out"] /\ reg' = [reg EXCEPT ![p] = Fresh]
    ELSE Settle(p, delete_entry_list(r))

Closed(p, how) == Ended([reg[p] EXCEPT !.status = "none"], how)

registry_read(p) ==
    /\ Call(p)
    /\ reg[p].script = "read"
    /\ \/ reg_commit(p) /\ Settle(p, Closed(p, "commit"))
       \/ reg_rollback(p) /\ Settle(p, Closed(p, "rollback"))
       \/ EndFails(p) /\ Settle(p, Ended(reg[p], "failed"))

\* Mutant: a break or an error drops the entries on the list.
registry_writeMutNoRestore(p) ==
    /\ Call(p)
    /\ reg[p].script = "write"
    /\ \/ reg_commit(p) /\ DropList(p, Closed(p, "commit"))
       \/ reg_rollback(p) /\ DropList(p, Closed(p, "rollback"))
       \/ EndFails(p) /\ DropList(p, Ended(reg[p], "failed"))

\* The script ends well, breaks or fails; deleting the assoc data frees what
\* is left on the list.
registry_write(p) ==
    /\ Call(p)
    /\ reg[p].script = "write"
    /\ \/ reg_commit(p) /\ DropList(p, Closed(p, "commit"))
       \/ /\ reg_rollback(p)
          /\ Settle(p, restore_entry_list(Closed(p, "rollback")))
       \/ EndFails(p) /\ (ListCrashes(reg[p]) => tx'[p] = "none")
             /\ DropList(p, Ended(reg[p], "failed"))

\* A statement fails for want of space, and SQLite rolls back.
AutoRollback(p) ==
    /\ at[p] = "open" /\ tx[p] = "write" /\ Fault
    /\ Rollback(p)
    /\ UNCHANGED <<at, queue, reg, opens, calls>>

\* The commands of the entries in the table go, and the entries unless the
\* database is in a transaction and cannot be detached.
reg_all_open_entries(r) == {r.slots[id] : id \in DOMAIN r.slots}
registry_tcl_detach(r) == DeleteCommands(r, reg_all_open_entries(r))
reg_detach(r) ==
    [r EXCEPT !.slots = <<>>, !.freed = @ \cup reg_all_open_entries(r)]

registry_close(p) ==
    LET r == registry_tcl_detach(reg[p]) IN
    /\ at[p] = "open" /\ reg[p].script = "none"
    /\ \/ /\ tx[p] = "none"
          /\ reg' = [reg EXCEPT ![p] = reg_detach(r)]
          /\ at' = [at EXCEPT ![p] = "out"]
       \/ /\ tx[p] # "none" /\ r # reg[p]
          /\ reg' = [reg EXCEPT ![p] = r]
          /\ UNCHANGED at
    /\ UNCHANGED <<db, tx, view, queue, budget>>

-----------------------------------------------------------------------------
Opening(p) ==
    \/ reg_attach(p) \/ CreateFile(p) \/ CreateTables(p)
    \/ UpdateFails(p) \/ UpdateBegin(p) \/ Migrate(p)
    \/ MigrateFails(p) \/ Die(p)

\* Calls that return entries.
Query(p) ==
    \/ \E name \in Names : entry_open(p, name) \/ entry_imaged(p, name)
    \/ \E state \in States : entry_search(p, Names, {state})
    \/ entry_installed(p)
    \/ \E path \in Paths : entry_owner(p, path)
    \/ \E o \in reg[p].cmds :
           entry_obj_dependents(p, o) \/ entry_obj_dependencies(p, o)

\* Calls that write.
Write(p) ==
    \/ \E name \in Names : EntryCreate(p, name)
    \/ \E o \in reg[p].cmds :
           \/ EntryDelete(p, o) \/ DeleteCrashes(p, o)
           \/ \E state \in States : entry_obj_prop(p, o, state)
           \/ \E path \in Paths :
                  entry_obj_filemap(p, o, path) \/ entry_obj_activate(p, o, path)
           \/ \E name \in Names : entry_obj_depends(p, o, name)
           \/ \E group \in Groups : entry_obj_add_portgroup(p, o, group)
    \/ registry_snapshot_create(p)

Transaction(p) ==
    \/ reg_start_read(p) \/ reg_start_write(p)
    \/ registry_read(p) \/ registry_write(p)
    \/ AutoRollback(p) \/ registry_close(p)

Next ==
    \E p \in Procs :
        \/ Opening(p) \/ Query(p) \/ Write(p) \/ Transaction(p)
        \/ \E o \in reg[p].cmds : EntryClose(p, o)

Spec == Init /\ [][Next]_vars

-----------------------------------------------------------------------------
\* The version in the metadata is the version of the schema, the columns'
\* contents with it, and a new file has either no tables or all of the schema
\* that updates lead to, however many processes create and update at once and
\* wherever they stop.
VersionIsSchema == VersionShown(db)

\* No command, no slot of the hash table and no place on the list of deleted
\* entries leads to an object that has been freed.
NoDangling ==
    \A p \in Procs :
        LET r == reg[p] IN
        (r.cmds \cup reg_all_open_entries(r) \cup r.list) \cap r.freed = {}

\* An entry that was in hand when a write began is in hand, the same one, when
\* the write has been rolled back, whatever the script deleted.
RolledBackStayValid ==
    [][\A p \in Procs :
        /\ reg[p].script = "write" /\ reg'[p].script = "none"
        /\ reg'[p].ended = "rollback"
        => \A o \in reg[p].before :
            /\ o \in reg'[p].cmds \ reg'[p].freed
            /\ reg'[p].objs[o] = reg[p].objs[o]
            /\ o \in reg'[p].proc <=> o \in reg[p].proc]_vars

\* A registry that has been opened has the current schema.
OpenIsCurrent ==
    [][\A p \in Procs :
        at[p] # "open" /\ at'[p] = "open" => db'.version = Current]_vars
=============================================================================
