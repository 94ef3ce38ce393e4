--------------------------- MODULE RegistryTables ---------------------------
(***************************************************************************)
(* The registry's database as a value: its schema with the versions it is  *)
(* updated through (cregistry/sql.c), its tables, and what the statements  *)
(* of cregistry/entry.c, portgroup.c, snapshot.c and registry.c do to them *)
(* and ask of them.  Columns no answer depends on are left out: a port is  *)
(* its name and state, a file its path and whether it is active.           *)
(***************************************************************************)
EXTENDS Naturals, FiniteSets, FiniteSetsExt, SequencesExt

CONSTANTS
    Names,      \* names of ports
    Paths,      \* paths of files
    Groups      \* port groups

States == {"none", "imaged", "installed"}

-----------------------------------------------------------------------------
(* The schema is the set of what its versions differ in: tables, indices,  *)
(* columns and constraints.  An update adds some, and loses those of the   *)
(* tables it makes anew.                                                   *)

\* What DROP TABLE takes along.
OfPorts == {"url", "port_name", "port_state"}
OfFiles == {"mtime", "file_port", "file_path", "file_actual", "file_binary",
            "file_actual_nocase"}
OfDeps == {"dep_id", "dep_name"}
OfGroups == {"portgroup_id", "portgroup_open"}

Update(version, lost, added) ==
    [version |-> version, lost |-> lost, added |-> added]

Base == {"url", "mtime", "negated_variants", "port_name", "port_state",
         "file_port", "file_path", "file_actual", "dep_name"}

version_1_1_queries == Update("1.100", {}, {"binary", "file_binary"})
version_1_2_queries == Update("1.200", {}, {"portgroups"})
version_1_201_queries == Update("1.201", {"file_binary"}, {})
RebuiltPorts == Update("1.202", OfPorts, {"port_name", "port_state"})
RebuiltFiles ==
    Update("1.202", OfFiles, {"file_port", "file_path", "file_actual"})
version_1_202_queries ==
    Update("1.202", RebuiltPorts.lost \cup RebuiltFiles.lost,
           RebuiltPorts.added \cup RebuiltFiles.added
               \cup OfGroups \cup {"dep_id"})
version_1_203_queries == Update("1.203", {}, {"file_actual_nocase"})
version_1_204_queries == Update("1.204", {}, {"cxx_stdlib"})
version_1_205_queries == Update("1.205", {}, {})
version_1_210_queries ==
    Update("1.210", {"negated_variants"}, {"requested_variants"})
version_1_211_queries == Update("1.211", {}, {})
version_1_212_queries == Update("1.212", {}, {"snapshots", "snapshot_ports"})
version_1_213_queries ==
    Update("1.213", {}, {"snapshot_files", "snapshot_file_path"})
version_1_214_queries ==
    Update("1.214", OfFiles \cup OfDeps \cup OfGroups,
           {"cascade", "file_port", "file_path", "file_actual",
            "file_actual_nocase", "dep_id", "dep_name", "portgroup_id",
            "portgroup_open"})
version_1_215_queries == Update("1.215", {}, {"snapshot_file_id"})

Updates ==
    <<version_1_1_queries, version_1_2_queries, version_1_201_queries,
      version_1_202_queries, version_1_203_queries, version_1_204_queries,
      version_1_205_queries, version_1_210_queries, version_1_211_queries,
      version_1_212_queries, version_1_213_queries, version_1_214_queries,
      version_1_215_queries>>
Current == Len(Updates)

\* After these two the journal is made a write-ahead log.
ToWal == {7, 9}

\* The update that joins variants and negated variants in a column.
ToRequested == 8

Apply(schema, update) == (schema \ update.lost) \cup update.added

\* The schema of a version, a number of updates: what the first one had or an
\* update added, and no later update has lost.
Added(update) == IF update = 0 THEN Base ELSE Updates[update].added
Lost(later) == UNION {Updates[update].lost : update \in later}
Schema(version) ==
    UNION {Added(update) \ Lost(update + 1 .. version) : update \in 0 .. version}

\* What create_tables makes of a new file.
Created ==
    {"binary", "requested_variants", "cxx_stdlib", "cascade", "portgroups",
     "snapshots", "snapshot_ports", "snapshot_files"}
    \cup {"port_name", "port_state", "file_port", "file_path", "file_actual",
          "file_actual_nocase", "snapshot_file_path", "snapshot_file_id"}
    \cup OfDeps \cup OfGroups

-----------------------------------------------------------------------------
(* The tables.                                                             *)

NoFile == [exists |-> FALSE, tables |-> FALSE, version |-> 0, schema |-> {}, wal |-> FALSE,
           joined |-> 0, ports |-> <<>>, files |-> {}, deps |-> {},
           groups |-> {}, snapshots |-> <<>>]

\* What ATTACH and the PRAGMA of the journal make of no file.
EmptyFile == [NoFile EXCEPT !.exists = TRUE, !.wal = TRUE]
create_tables ==
    [EmptyFile EXCEPT !.tables = TRUE, !.version = Current, !.schema = Created,
                      !.joined = 1]

\* A registry left by an older release, with these ports and files.
Older(version, ports, files) ==
    [create_tables EXCEPT
        !.version = version, !.schema = Schema(version), !.ports = ports,
        !.files = files,
        !.wal = \E v \in ToWal : v <= version,
        !.joined = IF version >= ToRequested THEN 1 ELSE 0]

\* The version stands for the schema and for what the columns contain.
VersionShown(t) ==
    t.tables =>
        /\ t.schema = Schema(t.version)
        /\ t.joined = IF t.version >= ToRequested THEN 1 ELSE 0

\* A database of some release, with ids up to a bound.
IsTable(t, maxId) ==
    /\ DOMAIN t = DOMAIN NoFile
    /\ t.version \in 0 .. Current
    /\ DOMAIN t.ports \subseteq 1 .. maxId
    /\ \A r \in t.files \cup t.deps : r.id \in 1 .. maxId

\* The statements of an update before the one that sets the version: the
\* schema, and the requested variants, which the join would double if it
\* were done twice.
Change(t) ==
    [t EXCEPT !.schema = Apply(@, Updates[t.version + 1]),
              !.joined = IF t.version + 1 = ToRequested THEN @ + 1 ELSE @]
SetVersion(t) == [t EXCEPT !.version = @ + 1]

\* INTEGER PRIMARY KEY without AUTOINCREMENT: one more than the largest there
\* is, which may have been some other row's before.
NextId(table) == Max(DOMAIN table \cup {0}) + 1

Restricted(f, S) == [x \in S |-> f[x]]
Extended(f, x, y) ==
    [z \in DOMAIN f \cup {x} |-> IF z = x THEN y ELSE f[z]]
Has(t, parts) == parts \subseteq t.schema

-----------------------------------------------------------------------------
(* Statements that write: whether they succeed, and what they leave.       *)

\* Rows that refer to a port.
Referring(t, id) == {r \in t.files \cup t.deps \cup t.groups : r.id = id}

\* The constraint deletes what refers to the port; before it had the clause
\* it refuses the deletion.
CanDelete(t, id) ==
    /\ id \in DOMAIN t.ports
    /\ Has(t, {"cascade"}) \/ Referring(t, id) = {}
reg_entry_delete(t, id) ==
    [t EXCEPT !.ports = Restricted(@, DOMAIN @ \ {id}),
              !.files = @ \ Referring(t, id),
              !.deps = @ \ Referring(t, id),
              !.groups = @ \ Referring(t, id)]

CanCreate(t, name) == \A id \in DOMAIN t.ports : t.ports[id].name # name
reg_entry_create(t, name) ==
    [t EXCEPT !.ports =
        Extended(@, NextId(@), [name |-> name, state |-> "none"])]

Row(id, key, value) == [id |-> id, key |-> key, value |-> value]
OwnFile(t, id, path) == {r \in t.files : r.id = id /\ r.key = path}
Active(t, path) == {r \in t.files : r.key = path /\ r.value = "active"}

reg_entry_propset(t, id, state) ==
    IF id \in DOMAIN t.ports THEN [t EXCEPT !.ports[id].state = state] ELSE t
CanMap(t, id) == id \in DOMAIN t.ports
CanUnmap(t, id, path) == Has(t, {"file_path"}) /\ OwnFile(t, id, path) # {}
CanActivate(t, id, path) == CanUnmap(t, id, path) /\ Active(t, path) = {}
CanDeactivate(t, id, path) ==
    /\ Has(t, {"file_actual"})
    /\ \E r \in OwnFile(t, id, path) : r.value # "mapped"

reg_entry_map(t, id, path) ==
    [t EXCEPT !.files = @ \cup {Row(id, path, "mapped")}]
reg_entry_unmap(t, id, path) ==
    [t EXCEPT !.files = @ \ OwnFile(t, id, path)]
reg_entry_activate(t, id, path) ==
    [t EXCEPT !.files =
        (@ \ OwnFile(t, id, path)) \cup {Row(id, path, "active")}]
reg_entry_deactivate(t, id, path) ==
    [t EXCEPT !.files =
        (@ \ OwnFile(t, id, path)) \cup {Row(id, path, "inactive")}]
reg_entry_depends(t, id, name) ==
    [t EXCEPT !.deps = @ \cup {Row(id, name, "dep")}]
reg_entry_addgroup(t, id, group) ==
    [t EXCEPT !.groups = @ \cup {Row(id, group, "group")}]

\* The ports that are installed, and their files where the schema has the
\* table for them; the snapshot itself is returned whichever of them fails.
reg_snapshot_create(t) ==
    [t EXCEPT !.snapshots =
        Extended(@, NextId(@), [ports |-> {}, files |-> {}])]
snapshot_store_ports(t, s) ==
    [t EXCEPT !.snapshots[s].ports =
        {t.ports[id].name : id \in {i \in DOMAIN t.ports :
                                        t.ports[i].state = "installed"}}]
snapshot_store_files(t, s) ==
    [t EXCEPT !.snapshots[s].files =
        {r.key : r \in {f \in t.files :
            /\ Has(t, {"snapshot_files"})
            /\ t.ports[f.id].state = "installed"
            /\ t.ports[f.id].name \in t.snapshots[s].ports}}]

-----------------------------------------------------------------------------
(* Queries: the ids of the entries they return.                            *)

Named(t, name) == {id \in DOMAIN t.ports : t.ports[id].name = name}
InState(t, states) == {id \in DOMAIN t.ports : t.ports[id].state \in states}

reg_entry_open(t, name) == IF Has(t, {"port_name"}) THEN Named(t, name) ELSE {}
reg_entry_search(t, names, states) ==
    {id \in InState(t, states) : t.ports[id].name \in names}
reg_entry_imaged(t, name) ==
    Named(t, name) \cap InState(t, {"imaged", "installed"})
reg_entry_installed(t) == InState(t, {"installed"})
reg_entry_owner(t, path) ==
    IF Has(t, {"file_actual", "file_actual_nocase"})
    THEN {r.id : r \in Active(t, path)} ELSE {}
reg_entry_dependents(t, id) ==
    {r.id : r \in {d \in t.deps : id \in Named(t, d.key)}}
reg_entry_dependencies(t, id) ==
    UNION {Named(t, d.key) : d \in {r \in t.deps : r.id = id}}
=============================================================================
