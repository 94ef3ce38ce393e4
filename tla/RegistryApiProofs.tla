------------------------- MODULE RegistryApiProofs -------------------------
(***************************************************************************)
(* What the processes that use the registry keep true, for any number of   *)
(* them, any databases at the start and any failing statements: the        *)
(* version describes the schema, nothing in hand leads to a freed entry,   *)
(* and a rolled-back write leaves the entries it found.  The invariant has *)
(* a part for the database and one for the objects of each process.        *)
(***************************************************************************)
EXTENDS RegistryApi, TLAPS, FiniteSetTheorems, SequenceTheorems

-----------------------------------------------------------------------------
(* Schemas.                                                                *)

\* The schema of a version is that of the one before with the update applied.
LEMMA SchemaStep ==
    ASSUME NEW v \in Nat
    PROVE  Schema(v + 1) = Apply(Schema(v), Updates[v + 1])
<1> DEFINE L(u, w) == Lost(u + 1 .. w)
<1> HIDE DEF Updates, Base
<1>1. \A u \in 0 .. v : L(u, v + 1) = L(u, v) \cup Updates[v + 1].lost
  <2> TAKE u \in 0 .. v
  <2>1. u + 1 .. v + 1 = (u + 1 .. v) \cup {v + 1}
    OBVIOUS
  <2> QED BY <2>1 DEF Lost
<1>2. L(v + 1, v + 1) = {}
  <2>1. (v + 1) + 1 .. v + 1 = {}
    OBVIOUS
  <2> QED BY <2>1 DEF Lost
<1>3. 0 .. v + 1 = (0 .. v) \cup {v + 1}
  OBVIOUS
<1>4. Added(v + 1) = Updates[v + 1].added
  BY DEF Added
<1>5. Schema(v) = UNION {Added(u) \ L(u, v) : u \in 0 .. v}
  BY DEF Schema
<1>6. Schema(v + 1) = UNION {Added(u) \ L(u, v + 1) : u \in 0 .. v + 1}
  BY DEF Schema
<1> HIDE DEF L
<1>7. Schema(v + 1) =
        (UNION {Added(u) \ L(u, v + 1) : u \in 0 .. v}) \cup (Added(v + 1) \ L(v + 1, v + 1))
  BY <1>3, <1>6
<1>8. (UNION {Added(u) \ L(u, v + 1) : u \in 0 .. v}) = Schema(v) \ Updates[v + 1].lost
  BY <1>1, <1>5
<1> QED BY <1>2, <1>4, <1>7, <1>8 DEF Apply

\* A new file has the schema that the updates lead to.
LEMMA CreatedIsCurrent == Created = Schema(Current)
<1> DEFINE S(v) == Schema(v)
           L(v) == Updates[v].lost
           A(v) == Updates[v].added
<1>2. S(0) = Base
  <2>1. 0 + 1 .. 0 = {} /\ 0 .. 0 = {0}
    OBVIOUS
  <2> QED BY <2>1 DEF Schema, Added, Lost
<1>3. /\ S(1) = (S(0) \ L(1)) \cup A(1) /\ S(2) = (S(1) \ L(2)) \cup A(2)
      /\ S(3) = (S(2) \ L(3)) \cup A(3) /\ S(4) = (S(3) \ L(4)) \cup A(4)
      /\ S(5) = (S(4) \ L(5)) \cup A(5) /\ S(6) = (S(5) \ L(6)) \cup A(6)
      /\ S(7) = (S(6) \ L(7)) \cup A(7) /\ S(8) = (S(7) \ L(8)) \cup A(8)
      /\ S(9) = (S(8) \ L(9)) \cup A(9) /\ S(10) = (S(9) \ L(10)) \cup A(10)
      /\ S(11) = (S(10) \ L(11)) \cup A(11) /\ S(12) = (S(11) \ L(12)) \cup A(12)
      /\ S(13) = (S(12) \ L(13)) \cup A(13)
  <2>1. \A v \in 0 .. 12 : S(v + 1) = (S(v) \ L(v + 1)) \cup A(v + 1)
    BY SchemaStep DEF Apply
  <2> HIDE DEF S, L, A
  <2>2. /\ S(0 + 1) = (S(0) \ L(0 + 1)) \cup A(0 + 1) /\ S(1 + 1) = (S(1) \ L(1 + 1)) \cup A(1 + 1)
        /\ S(2 + 1) = (S(2) \ L(2 + 1)) \cup A(2 + 1) /\ S(3 + 1) = (S(3) \ L(3 + 1)) \cup A(3 + 1)
        /\ S(4 + 1) = (S(4) \ L(4 + 1)) \cup A(4 + 1) /\ S(5 + 1) = (S(5) \ L(5 + 1)) \cup A(5 + 1)
        /\ S(6 + 1) = (S(6) \ L(6 + 1)) \cup A(6 + 1) /\ S(7 + 1) = (S(7) \ L(7 + 1)) \cup A(7 + 1)
        /\ S(8 + 1) = (S(8) \ L(8 + 1)) \cup A(8 + 1) /\ S(9 + 1) = (S(9) \ L(9 + 1)) \cup A(9 + 1)
        /\ S(10 + 1) = (S(10) \ L(10 + 1)) \cup A(10 + 1) /\ S(11 + 1) = (S(11) \ L(11 + 1)) \cup A(11 + 1)
        /\ S(12 + 1) = (S(12) \ L(12 + 1)) \cup A(12 + 1)
    BY <2>1
  <2> QED BY <2>2
<1>4. /\ L(1) = {} /\ A(1) = {"binary", "file_binary"}
      /\ L(2) = {} /\ A(2) = {"portgroups"}
      /\ L(3) = {"file_binary"} /\ A(3) = {}
      /\ L(4) = OfPorts \cup OfFiles
      /\ A(4) = {"port_name", "port_state", "file_port", "file_path", "file_actual", "dep_id"} \cup OfGroups
      /\ L(5) = {} /\ A(5) = {"file_actual_nocase"}
      /\ L(6) = {} /\ A(6) = {"cxx_stdlib"}
      /\ L(7) = {} /\ A(7) = {}
  BY DEF Updates, Update, version_1_1_queries, version_1_2_queries, version_1_201_queries,
         version_1_202_queries, RebuiltPorts, RebuiltFiles, version_1_203_queries,
         version_1_204_queries, version_1_205_queries
<1>5. /\ L(8) = {"negated_variants"} /\ A(8) = {"requested_variants"}
      /\ L(9) = {} /\ A(9) = {}
      /\ L(10) = {} /\ A(10) = {"snapshots", "snapshot_ports"}
      /\ L(11) = {} /\ A(11) = {"snapshot_files", "snapshot_file_path"}
      /\ L(12) = OfFiles \cup OfDeps \cup OfGroups
      /\ A(12) = {"cascade", "file_port", "file_path", "file_actual", "file_actual_nocase"}
                    \cup OfDeps \cup OfGroups
      /\ L(13) = {} /\ A(13) = {"snapshot_file_id"}
  BY DEF Updates, Update, version_1_210_queries, version_1_211_queries, version_1_212_queries,
         version_1_213_queries, version_1_214_queries, version_1_215_queries, OfDeps, OfGroups
<1> HIDE DEF S, L, A
<1>6. \A x : x \in S(13) <=> x \in Created
  BY <1>2, <1>3, <1>4, <1>5 DEF Created, OfPorts, OfFiles, OfDeps, OfGroups, Base
<1>7. Current = 13
  BY DEF Current, Updates
<1> QED BY <1>6, <1>7 DEF S

-----------------------------------------------------------------------------
(* The database.                                                           *)

\* Something to read: a table whose version describes it, or, while an update
\* has changed it and not yet its version, one whose next version does.
Good(t) == IsTable(t, MaxId) /\ VersionShown(t)
Half(t) ==
    /\ IsTable(t, MaxId) /\ t.version < Current
    /\ t.tables =>
          /\ t.schema = Schema(t.version + 1)
          /\ t.joined = IF t.version + 1 >= ToRequested THEN 1 ELSE 0

\* What is left of an update, and the transaction it needs.
AllLeft == {<<"change", "version", "commit">>, <<"change", "version", "commit", "wal">>}
VersionLeft == {<<"version", "commit">>, <<"version", "commit", "wal">>}
CommitLeft == {<<"commit">>, <<"commit", "wal">>}
QueueOK(p) ==
    \/ queue[p] \in AllLeft /\ tx[p] = "read" /\ view[p].version < Current
    \/ queue[p] \in VersionLeft \cup CommitLeft /\ tx[p] = "write"
    \/ queue[p] = <<"wal">> /\ tx[p] = "none"

\* The schema of a process's transaction is ahead of its version.
Halfway(p) == at[p] = "migrate" /\ queue[p] \in VersionLeft

OfProcs(f) == f = [p \in Procs |-> f[p]]
DbInv ==
    /\ Good(db)
    /\ OfProcs(tx) /\ OfProcs(view) /\ OfProcs(at) /\ OfProcs(queue)
    /\ \A p \in Procs :
          /\ tx[p] \in {"none", "read", "write"}
          /\ tx[p] # "none" => IF Halfway(p) THEN Half(view[p]) ELSE Good(view[p])
          /\ at[p] = "migrate" => QueueOK(p)

\* What a statement that changes no schema must leave alone.
SameSchema(t, u) ==
    /\ DOMAIN u = DOMAIN t /\ u.tables = t.tables /\ u.version = t.version
    /\ u.schema = t.schema /\ u.joined = t.joined
    /\ DOMAIN u.ports \subseteq 1 .. MaxId
    /\ \A r \in u.files \cup u.deps : r.id \in 1 .. MaxId

\* Then what was good is good.
LEMMA GoodFrame == ASSUME NEW t, NEW u, Good(t), SameSchema(t, u) PROVE Good(u)
BY DEF Good, SameSchema, IsTable, VersionShown

\* A set of numbers up to a bound that is not empty has a largest: the bound
\* less the smallest distance from it.
Below == {p \in Nat \X Nat : p[1] < p[2]}
LEMMA LargestExists ==
    ASSUME NEW n \in Nat, NEW S, S \subseteq 0 .. n, S # {}
    PROVE  \E x \in S : \A y \in S : x >= y
<1> DEFINE Gaps == {n - x : x \in S}
<1>1. IsWellFoundedOn(Below, Nat)
  BY NatLessThanWellFounded DEF OpToRel, Below
<1>2. Gaps \subseteq Nat /\ Gaps # {}
  <2>1. \A x \in 0 .. n : n - x \in Nat
    OBVIOUS
  <2> QED BY <2>1
<1>3. PICK g \in Gaps : \A h \in Gaps : <<h, g>> \notin Below
  <2> HIDE DEF Below, Gaps
  <2> QED BY ONLY <1>1, <1>2, WFMin
<1>4. PICK x \in S : g = n - x
  OBVIOUS
<1>5. ASSUME NEW y \in S PROVE x >= y
  <2>1. <<n - y, g>> \in Nat \X Nat /\ n - y \in Gaps
    BY <1>2
  <2>2. ~ (<<n - y, g>>[1] < <<n - y, g>>[2])
    BY <1>3, <2>1 DEF Below
  <2> QED BY <1>4, <2>2
<1> QED BY <1>5

\* An id that is given out is one more than the largest, and within the bound.
LEMMA NextIdType ==
    ASSUME NEW t, IsTable(t, MaxId), NextId(t.ports) <= MaxId
    PROVE  NextId(t.ports) \in 1 .. MaxId
<1> DEFINE S == DOMAIN t.ports \cup {0}
<1>1. S \subseteq 0 .. MaxId /\ MaxId \in Nat /\ S # {}
  BY BoundsAssumption DEF IsTable
<1>2. \E x \in S : \A y \in S : x >= y
  <2> HIDE DEF S
  <2> QED BY <1>1, LargestExists
<1>3. Max(S) \in S
  BY <1>2 DEF Max
<1> QED BY <1>1, <1>3 DEF NextId

\* The statements on ports and files change no schema.
LEMMA StatementsGood ==
    ASSUME NEW t, Good(t), NEW id, NEW state, NEW path, NEW name, NEW group
    PROVE  /\ Good(reg_entry_delete(t, id))
           /\ Good(reg_entry_propset(t, id, state))
           /\ CanMap(t, id) => Good(reg_entry_map(t, id, path)) /\ Good(reg_entry_depends(t, id, name))
           /\ Good(reg_entry_unmap(t, id, path))
           /\ CanActivate(t, id, path) => Good(reg_entry_activate(t, id, path))
           /\ CanDeactivate(t, id, path) => Good(reg_entry_deactivate(t, id, path))
           /\ Good(reg_entry_addgroup(t, id, group))
<1> USE DEF Good, IsTable, SameSchema
<1>0. DOMAIN t = {"exists", "tables", "version", "schema", "wal", "joined", "ports", "files", "deps",
                  "groups", "snapshots"}
  BY DEF NoFile
<1>1. Good(reg_entry_delete(t, id))
  <2>1. SameSchema(t, reg_entry_delete(t, id))
    BY <1>0 DEF reg_entry_delete, Restricted
  <2> QED BY <2>1, GoodFrame
<1>2. Good(reg_entry_propset(t, id, state))
  <2>1. SameSchema(t, reg_entry_propset(t, id, state))
    BY <1>0 DEF reg_entry_propset
  <2> QED BY <2>1, GoodFrame
<1>3. ASSUME CanMap(t, id)
      PROVE  Good(reg_entry_map(t, id, path)) /\ Good(reg_entry_depends(t, id, name))
  <2>1. id \in 1 .. MaxId
    BY <1>3 DEF CanMap
  <2>2. SameSchema(t, reg_entry_map(t, id, path)) /\ SameSchema(t, reg_entry_depends(t, id, name))
    BY <1>0, <2>1 DEF reg_entry_map, reg_entry_depends, Row
  <2> QED BY <2>2, GoodFrame
<1>4. Good(reg_entry_unmap(t, id, path))
  <2>1. SameSchema(t, reg_entry_unmap(t, id, path))
    BY <1>0 DEF reg_entry_unmap
  <2> QED BY <2>1, GoodFrame
<1>5. (\E r \in OwnFile(t, id, path) : TRUE) => id \in 1 .. MaxId
  BY DEF OwnFile
<1>6. ASSUME CanActivate(t, id, path) PROVE Good(reg_entry_activate(t, id, path))
  <2>1. id \in 1 .. MaxId
    BY <1>5, <1>6 DEF CanActivate, CanUnmap
  <2>2. SameSchema(t, reg_entry_activate(t, id, path))
    BY <1>0, <2>1 DEF reg_entry_activate, Row
  <2> QED BY <2>2, GoodFrame
<1>7. ASSUME CanDeactivate(t, id, path) PROVE Good(reg_entry_deactivate(t, id, path))
  <2>1. id \in 1 .. MaxId
    BY <1>5, <1>7 DEF CanDeactivate
  <2>2. SameSchema(t, reg_entry_deactivate(t, id, path))
    BY <1>0, <2>1 DEF reg_entry_deactivate, Row
  <2> QED BY <2>2, GoodFrame
<1>8. Good(reg_entry_addgroup(t, id, group))
  <2>1. SameSchema(t, reg_entry_addgroup(t, id, group))
    BY <1>0 DEF reg_entry_addgroup
  <2> QED BY <2>1, GoodFrame
<1> QED BY <1>1, <1>2, <1>3, <1>4, <1>6, <1>7, <1>8

\* A new entry changes no schema either.
LEMMA CreateGood ==
    ASSUME NEW t, Good(t), NextId(t.ports) <= MaxId, NEW name
    PROVE  Good(reg_entry_create(t, name))
<1>1. NextId(t.ports) \in 1 .. MaxId
  BY NextIdType DEF Good
<1>2. SameSchema(t, reg_entry_create(t, name))
  BY <1>1 DEF reg_entry_create, Extended, SameSchema, Good, IsTable, NoFile
<1> QED BY <1>2, GoodFrame

\* A snapshot is of a table apart.
LEMMA SnapshotGood ==
    ASSUME NEW t, Good(t), NEW s
    PROVE  Good(snapshot_store_files(snapshot_store_ports(reg_snapshot_create(t), s), s))
<1> DEFINE u == reg_snapshot_create(t)
           v == snapshot_store_ports(u, s)
           w == snapshot_store_files(v, s)
<1>1. SameSchema(t, u)
  BY DEF reg_snapshot_create, SameSchema, Good, IsTable, NoFile
<1>2. SameSchema(u, v)
  BY <1>1 DEF snapshot_store_ports, SameSchema, Good, IsTable, NoFile
<1>3. SameSchema(v, w)
  BY <1>1, <1>2 DEF snapshot_store_files, SameSchema, Good, IsTable, NoFile
<1> QED BY <1>1, <1>2, <1>3, GoodFrame

\* What a process sees is good, except halfway through an update.
LEMMA SeenGood ==
    ASSUME DbInv, NEW p \in Procs, ~ Halfway(p) PROVE Good(Seen(p))
BY DEF DbInv, Seen

\* A step of one process: the others' transactions are as they were.
Alone(p) ==
    /\ OfProcs(tx') /\ OfProcs(view') /\ OfProcs(at') /\ OfProcs(queue')
    /\ \A o \in Procs \ {p} : /\ tx'[o] = tx[o] /\ view'[o] = view[o]
                              /\ at'[o] = at[o] /\ queue'[o] = queue[o]

\* What it must show of itself.
LEMMA OneMoves ==
    ASSUME DbInv, NEW p \in Procs, Alone(p), Good(db'),
           tx'[p] \in {"none", "read", "write"},
           tx'[p] # "none" => IF Halfway(p)' THEN Half(view'[p]) ELSE Good(view'[p]),
           at'[p] = "migrate" => QueueOK(p)'
    PROVE  DbInv'
<1>1. \A o \in Procs \ {p} : (QueueOK(o) <=> QueueOK(o)') /\ (Halfway(o) <=> Halfway(o)')
  BY DEF Alone, QueueOK, Halfway
<1>2. \A o \in Procs :
        /\ tx'[o] \in {"none", "read", "write"}
        /\ tx'[o] # "none" => IF Halfway(o)' THEN Half(view'[o]) ELSE Good(view'[o])
        /\ at'[o] = "migrate" => QueueOK(o)'
  BY <1>1 DEF Alone, DbInv
<1> QED BY <1>2 DEF Alone, DbInv, OfProcs

\* A statement of a process that is not updating.
LEMMA StoreKeeps ==
    ASSUME DbInv, NEW p \in Procs, at[p] # "migrate", NEW t, Good(t), Store(p, t),
           UNCHANGED <<at, queue>>
    PROVE  DbInv'
<1>1. Alone(p) /\ at'[p] = at[p] /\ ~ Halfway(p)'
  BY DEF Alone, Store, DbInv, OfProcs, Halfway
<1>2. CASE tx[p] = "none"
  <2>1. tx'[p] = "none" /\ db' = t
    BY <1>2 DEF Store, DbInv, OfProcs
  <2> QED BY <1>1, <2>1, OneMoves
<1>3. CASE tx[p] # "none"
  <2>1. tx'[p] = "write" /\ view'[p] = t /\ Good(db')
    BY <1>3 DEF Store, DbInv, OfProcs
  <2> QED BY <1>1, <2>1, OneMoves
<1> QED BY <1>2, <1>3

\* A process that is not updating, or stops, ends its transaction.
LEMMA EndKeeps ==
    ASSUME DbInv, NEW p \in Procs, NEW l, NEW q, l # "migrate", EndTransaction(p), Good(db'),
           at' = [at EXCEPT ![p] = l], queue' = [queue EXCEPT ![p] = q]
    PROVE  DbInv'
<1>1. Alone(p) /\ tx'[p] = "none" /\ at'[p] = l
  BY DEF Alone, EndTransaction, DbInv, OfProcs
<1> QED BY <1>1, OneMoves

\* A step that leaves the database and all transactions alone.
LEMMA DbFrame ==
    ASSUME DbInv, UNCHANGED <<db, tx, view, at, queue>> PROVE DbInv'
BY DEF DbInv, OfProcs, QueueOK, Halfway

\* The steps that open the registry.
LEMMA AttachKeeps ==
    ASSUME DbInv, NEW p \in Procs,
           reg_attach(p) \/ CreateFile(p) \/ CreateTables(p) \/ UpdateFails(p) \/ Die(p)
    PROVE  DbInv'
<1>1. Exit(p) => DbInv'
  BY EndKeeps DEF Exit, Rollback, DbInv
<1>2. CASE reg_attach(p)
  <2>1. Alone(p) /\ at'[p] # "migrate" /\ ~ Halfway(p)' /\ tx'[p] = "none" /\ Good(db')
    BY <1>2 DEF reg_attach, Alone, DbInv, OfProcs, Halfway
  <2> QED BY <2>1, OneMoves
<1>3. CASE CreateTables(p) /\ ~ Exit(p)
  <2>1. Good(create_tables)
    BY CreatedIsCurrent
       DEF create_tables, EmptyFile, NoFile, Good, IsTable, VersionShown, Current, Updates,
           ToRequested
  <2>2. /\ Alone(p) /\ at'[p] = "begin" /\ ~ Halfway(p) /\ ~ Halfway(p)' /\ db' = create_tables
        /\ tx'[p] = tx[p] /\ view'[p] = view[p]
    BY <1>3 DEF CreateTables, Alone, Halfway, DbInv, OfProcs
  <2> QED BY <2>1, <2>2, OneMoves DEF DbInv
<1>4. CASE CreateFile(p)
  <2>1. Good(EmptyFile)
    BY DEF EmptyFile, NoFile, Good, IsTable, VersionShown, Current, Updates
  <2>2. /\ Alone(p) /\ at'[p] = "tables" /\ ~ Halfway(p) /\ ~ Halfway(p)'
        /\ db' = db \/ db' = EmptyFile
        /\ tx'[p] = tx[p] /\ view'[p] = view[p]
    BY <1>4 DEF CreateFile, Alone, Halfway, DbInv, OfProcs
  <2> QED BY <2>1, <2>2, OneMoves DEF DbInv
<1> QED BY <1>1, <1>2, <1>3, <1>4 DEF Die, UpdateFails

\* The statements of an update, up to the one that sets the version, and that one.
LEMMA ChangeHalf == ASSUME NEW t, Good(t), t.version < Current PROVE Half(Change(t))
<1>1. t.version \in Nat /\ t.version + 1 \in Nat
  BY DEF Good, IsTable, Current, Updates
<1>2. Schema(t.version + 1) = Apply(Schema(t.version), Updates[t.version + 1])
  BY <1>1, SchemaStep
<1> HIDE DEF Updates, Current
<1> QED BY <1>1, <1>2 DEF Good, Half, Change, IsTable, VersionShown, NoFile, ToRequested

LEMMA SetVersionGood == ASSUME NEW t, Half(t) PROVE Good(SetVersion(t))
<1>1. t.version \in 0 .. Current /\ Current \in Nat
  BY DEF Half, IsTable, Current, Updates
<1> QED BY <1>1 DEF Good, Half, SetVersion, IsTable, VersionShown, NoFile

\* What is left after the next of the queries.
LEMMA Tails ==
    /\ \A q \in AllLeft : Tail(q) \in VersionLeft /\ Len(q) # 1
    /\ \A q \in VersionLeft : Tail(q) \in CommitLeft /\ Len(q) # 1
    /\ \A q \in CommitLeft : Tail(q) = <<"wal">> \/ Len(q) = 1
    /\ Len(<<"wal">>) = 1
<1>1. ASSUME NEW a, NEW b PROVE Tail(<<a, b>>) = <<b>> /\ Len(<<a, b>>) = 2
  OBVIOUS
<1>2. ASSUME NEW a, NEW b, NEW c PROVE Tail(<<a, b, c>>) = <<b, c>> /\ Len(<<a, b, c>>) = 3
  OBVIOUS
<1>3. ASSUME NEW a, NEW b, NEW c, NEW d
      PROVE  Tail(<<a, b, c, d>>) = <<b, c, d>> /\ Len(<<a, b, c, d>>) = 4
  OBVIOUS
<1>4. \A a : Len(<<a>>) = 1
  OBVIOUS
<1> QED BY <1>1, <1>2, <1>3, <1>4 DEF AllLeft, VersionLeft, CommitLeft

\* The steps of an update.
LEMMA MigrateKeeps ==
    ASSUME DbInv, NEW p \in Procs, UpdateBegin(p) \/ Migrate(p) \/ MigrateFails(p) PROVE DbInv'
<1>0. /\ Good(db) /\ (tx[p] # "none" => IF Halfway(p) THEN Half(view[p]) ELSE Good(view[p]))
      /\ tx[p] \in {"none", "read", "write"} /\ (at[p] = "migrate" => QueueOK(p))
  BY DEF DbInv
<1>1. CASE MigrateFails(p)
  BY <1>1, EndKeeps DEF MigrateFails, Exit, Rollback, DbInv
<1>2. CASE UpdateBegin(p)
  <2>1. CASE db.version = Current
    <3>1. Alone(p) /\ at'[p] = "open" /\ ~ Halfway(p) /\ ~ Halfway(p)' /\ UNCHANGED <<db, tx, view>>
      BY <1>2, <2>1 DEF UpdateBegin, Alone, Halfway, DbInv, OfProcs
    <3> QED BY <1>0, <3>1, OneMoves
  <2>2. CASE db.version # Current
    <3>1. db.version < Current
      BY <1>0, <2>2 DEF Good, IsTable, Current, Updates
    <3>2. Queries(db.version + 1) \in AllLeft
      BY DEF Queries, AllLeft
    <3>3. /\ at'[p] = "migrate" /\ tx'[p] = "read" /\ view'[p] = db /\ db' = db
          /\ queue'[p] = Queries(db.version + 1) /\ Alone(p)
      BY <1>2, <2>2 DEF UpdateBegin, Alone, DbInv, OfProcs
    <3>4. QueueOK(p)' /\ ~ Halfway(p)'
      BY <3>1, <3>2, <3>3 DEF QueueOK, Halfway, AllLeft, VersionLeft
    <3> QED BY <1>0, <3>3, <3>4, OneMoves
  <2> QED BY <2>1, <2>2
<1>3. CASE Migrate(p)
  <2>0. /\ at[p] = "migrate" /\ QueueOK(p) /\ queue'[p] = Tail(queue[p])
        /\ at'[p] = IF Len(queue[p]) = 1 THEN "open" ELSE "migrate"
    BY <1>0, <1>3 DEF Migrate, DbInv, OfProcs
  <2>1. CASE Head(queue[p]) = "change"
    <3>1. queue[p] \in AllLeft /\ tx[p] = "read" /\ view[p].version < Current
      BY <2>0, <2>1 DEF QueueOK, VersionLeft, CommitLeft
    <3>2. queue'[p] \in VersionLeft /\ at'[p] = "migrate"
      BY <2>0, <3>1, Tails
    <3>3. Good(view[p]) /\ Seen(p) = view[p]
      BY <1>0, <3>1 DEF Halfway, AllLeft, VersionLeft, Seen
    <3>4. Half(Change(view[p]))
      BY <3>1, <3>3, ChangeHalf
    <3>5. Alone(p) /\ tx'[p] = "write" /\ view'[p] = Change(view[p]) /\ db' = db
      BY <1>3, <2>1, <3>1, <3>3 DEF Migrate, Statement, Store, Alone, DbInv, OfProcs
    <3>6. QueueOK(p)' /\ Halfway(p)'
      BY <3>2, <3>5 DEF QueueOK, Halfway
    <3> QED BY <1>0, <3>4, <3>5, <3>6, OneMoves
  <2>2. CASE Head(queue[p]) = "version"
    <3>1. queue[p] \in VersionLeft /\ tx[p] = "write"
      BY <2>0, <2>2 DEF QueueOK, AllLeft, CommitLeft
    <3>2. queue'[p] \in CommitLeft /\ at'[p] = "migrate"
      BY <2>0, <3>1, Tails
    <3>3. Half(view[p]) /\ Seen(p) = view[p]
      BY <1>0, <2>0, <3>1 DEF Halfway, Seen
    <3>4. Good(SetVersion(view[p]))
      BY <3>3, SetVersionGood
    <3>5. Alone(p) /\ tx'[p] = "write" /\ view'[p] = SetVersion(view[p]) /\ db' = db
      BY <1>3, <2>2, <3>1, <3>3 DEF Migrate, Statement, Store, Alone, DbInv, OfProcs
    <3>6. QueueOK(p)' /\ ~ Halfway(p)'
      BY <3>2, <3>5 DEF QueueOK, Halfway, CommitLeft, VersionLeft
    <3> QED BY <1>0, <3>4, <3>5, <3>6, OneMoves
  <2>3. CASE Head(queue[p]) = "commit"
    <3>1. queue[p] \in CommitLeft /\ tx[p] = "write"
      BY <2>0, <2>3 DEF QueueOK, AllLeft, VersionLeft
    <3>2. queue'[p] = <<"wal">> \/ at'[p] = "open"
      BY <2>0, <3>1, Tails
    <3>3. Good(view[p])
      BY <1>0, <3>1 DEF Halfway, CommitLeft, VersionLeft
    <3>4. Alone(p) /\ tx'[p] = "none" /\ db' = view[p]
      BY <1>3, <2>3, <3>1 DEF Migrate, Commit, EndTransaction, Alone, DbInv, OfProcs
    <3>5. at'[p] = "migrate" => QueueOK(p)'
      BY <3>2, <3>4 DEF QueueOK
    <3> QED BY <3>3, <3>4, <3>5, OneMoves
  <2>4. CASE Head(queue[p]) = "wal"
    <3>1. queue[p] = <<"wal">> /\ tx[p] = "none"
      BY <2>0, <2>4 DEF QueueOK, AllLeft, VersionLeft, CommitLeft
    <3>2. at'[p] = "open"
      BY <2>0, <3>1
    <3>3. Alone(p) /\ tx'[p] = "none" /\ db' = [db EXCEPT !.wal = TRUE]
      BY <1>3, <2>4, <3>1 DEF Migrate, Statement, Store, Seen, Alone, DbInv, OfProcs
    <3>4. Good(db')
      BY <1>0, <3>3 DEF Good, IsTable, VersionShown, NoFile
    <3> QED BY <3>2, <3>3, <3>4, OneMoves
  <2> QED BY <1>3, <2>1, <2>2, <2>3, <2>4 DEF Migrate
<1> QED BY <1>1, <1>2, <1>3

\* A method that writes what is good again.
LEMMA EditKeeps ==
    ASSUME DbInv, NEW p \in Procs, NEW t, Good(t), Edit(p, t) PROVE DbInv'
BY StoreKeeps DEF Edit, Call, Statement, Hold

\* The calls that write entries.
LEMMA WritesKeep ==
    ASSUME DbInv, NEW p \in Procs, NEW o, NEW name, NEW path, NEW state, NEW group,
           \/ EntryCreate(p, name) \/ EntryDelete(p, o) \/ DeleteCrashes(p, o)
           \/ entry_obj_prop(p, o, state) \/ entry_obj_filemap(p, o, path)
           \/ entry_obj_activate(p, o, path) \/ entry_obj_depends(p, o, name)
           \/ entry_obj_add_portgroup(p, o, group) \/ registry_snapshot_create(p)
    PROVE  DbInv'
<1> DEFINE t == Seen(p)
           id == reg[p].objs[o]
<1>1. at[p] = "open" /\ UNCHANGED queue
  BY DEF EntryCreate, EntryDelete, DeleteCrashes, entry_obj_prop, entry_obj_filemap,
         entry_obj_activate, entry_obj_depends, entry_obj_add_portgroup,
         registry_snapshot_create, Edit, Call
<1>2. Good(t) /\ Good(db) /\ OfProcs(queue)
  BY <1>1, SeenGood DEF Halfway, DbInv
<1>3. CASE EntryCreate(p, name)
  BY <1>1, <1>2, <1>3, StoreKeeps, CreateGood DEF EntryCreate, Statement, Hold
<1>4. CASE EntryDelete(p, o)
  <2>1. Store(p, reg_entry_delete(t, id)) /\ UNCHANGED at
    BY <1>4 DEF EntryDelete, Statement, Hold
  <2> QED BY <1>1, <1>2, <2>1, StatementsGood, StoreKeeps
<1>5. CASE DeleteCrashes(p, o)
  <2>1. Good(db')
    BY <1>2, <1>5, StatementsGood DEF DeleteCrashes
  <2> QED BY <1>1, <1>2, <1>5, <2>1, EndKeeps DEF DeleteCrashes, OfProcs
<1>6. CASE entry_obj_prop(p, o, state)
  BY <1>2, <1>6, StatementsGood, EditKeeps DEF entry_obj_prop
<1>7. CASE entry_obj_filemap(p, o, path)
  BY <1>2, <1>7, StatementsGood, EditKeeps DEF entry_obj_filemap
<1>8. CASE entry_obj_activate(p, o, path)
  BY <1>2, <1>8, StatementsGood, EditKeeps DEF entry_obj_activate
<1>9. CASE entry_obj_depends(p, o, name)
  BY <1>2, <1>9, StatementsGood, EditKeeps DEF entry_obj_depends
<1>10. CASE entry_obj_add_portgroup(p, o, group)
  BY <1>2, <1>10, StatementsGood, EditKeeps DEF entry_obj_add_portgroup
<1>11. CASE registry_snapshot_create(p)
  BY <1>2, <1>11, SnapshotGood, EditKeeps DEF registry_snapshot_create
<1> QED BY <1>3, <1>4, <1>5, <1>6, <1>7, <1>8, <1>9, <1>10, <1>11

\* The calls that begin and end transactions, and what ends them otherwise.
LEMMA TransactionsKeep ==
    ASSUME DbInv, NEW p \in Procs,
           \/ reg_start_read(p) \/ reg_start_write(p) \/ registry_read(p) \/ registry_write(p)
           \/ AutoRollback(p) \/ registry_close(p)
    PROVE  DbInv'
<1>1. at[p] = "open" /\ ~ Halfway(p) /\ UNCHANGED queue
  BY DEF reg_start_read, reg_start_write, Begin, registry_read, registry_write, AutoRollback,
         registry_close, Call, Halfway
<1>2. Good(db) /\ (tx[p] # "none" => Good(view[p])) /\ tx[p] \in {"none", "read", "write"}
  BY <1>1 DEF DbInv
<1>3. CASE reg_start_read(p) \/ reg_start_write(p)
  <2>1. Alone(p) /\ at'[p] = "open" /\ db' = db /\ view'[p] = db /\ tx'[p] \in {"read", "write"}
    BY <1>1, <1>3 DEF reg_start_read, reg_start_write, Begin, Hold, Alone, DbInv, OfProcs
  <2> QED BY <1>2, <2>1, OneMoves DEF Halfway
<1>4. CASE registry_read(p) \/ registry_write(p)
  <2>1. /\ reg_commit(p) \/ reg_rollback(p) \/ EndFails(p)
        /\ UNCHANGED at \/ at' = [at EXCEPT ![p] = "out"]
    BY <1>4 DEF registry_read, registry_write, Settle, DropList
  <2>2. EndTransaction(p) \/ UNCHANGED <<tx, view>>
    BY <2>1 DEF reg_commit, reg_rollback, EndFails, Commit, Rollback
  <2>3. Good(db')
    BY <1>2, <2>1 DEF reg_commit, reg_rollback, EndFails, Commit, Rollback
  <2>4. CASE EndTransaction(p)
    <3>1. \E l : l # "migrate" /\ at' = [at EXCEPT ![p] = l]
      BY <1>1, <2>1 DEF DbInv, OfProcs
    <3>2. queue' = [queue EXCEPT ![p] = queue[p]]
      BY <1>1 DEF DbInv, OfProcs
    <3> QED BY <2>3, <2>4, <3>1, <3>2, EndKeeps
  <2>5. CASE UNCHANGED <<tx, view>>
    <3>1. Alone(p) /\ at'[p] # "migrate" /\ ~ Halfway(p)' /\ tx'[p] = tx[p] /\ view'[p] = view[p]
      BY <1>1, <2>1, <2>5 DEF Alone, DbInv, OfProcs, Halfway
    <3> QED BY <1>2, <2>3, <3>1, OneMoves
  <2> QED BY <2>2, <2>4, <2>5
<1>5. CASE AutoRollback(p)
  BY <1>1, <1>2, <1>5, EndKeeps DEF AutoRollback, Rollback, DbInv, OfProcs
<1>6. CASE registry_close(p)
  <2>1. Alone(p) /\ at'[p] # "migrate" /\ ~ Halfway(p)' /\ UNCHANGED <<db, tx, view>>
    BY <1>1, <1>6 DEF registry_close, Alone, DbInv, OfProcs, Halfway
  <2> QED BY <1>2, <2>1, OneMoves
<1> QED BY <1>3, <1>4, <1>5, <1>6

\* A call that only reads.
LEMMA ReturnedKeeps == ASSUME DbInv, NEW p \in Procs, NEW ids, Returned(p, ids) PROVE DbInv'
BY DbFrame DEF Returned, Call, Hold

\* Every step keeps the database and the transactions good.
LEMMA NextDb == ASSUME DbInv, [Next]_vars PROVE DbInv'
<1>1. CASE UNCHANGED vars
  BY <1>1, DbFrame DEF vars
<1>2. CASE Next
  <2>1. ASSUME NEW p \in Procs, Opening(p) PROVE DbInv'
    BY <2>1, AttachKeeps, MigrateKeeps DEF Opening
  <2>2. ASSUME NEW p \in Procs, Query(p) \/ \E o \in reg[p].cmds : EntryClose(p, o) PROVE DbInv'
    BY <2>2, ReturnedKeeps, DbFrame
       DEF Query, entry_open, entry_imaged, entry_search, entry_installed, entry_owner,
           entry_obj_dependents, entry_obj_dependencies, EntryClose, Call, Hold
  <2>3. ASSUME NEW p \in Procs, Write(p) PROVE DbInv'
    BY <2>3, WritesKeep DEF Write
  <2>4. ASSUME NEW p \in Procs, Transaction(p) PROVE DbInv'
    BY <2>4, TransactionsKeep DEF Transaction
  <2> QED BY <1>2, <2>1, <2>2, <2>3, <2>4 DEF Next
<1> QED BY <1>1, <1>2

\* At the start nobody has opened anything.
LEMMA InitDb == Init => DbInv
BY InitialAssumption DEF Init, DbInv, Good, OfProcs

\* The version in the metadata is the version of the schema wherever there are
\* tables, however many processes create and update at once and wherever they stop.
THEOREM VersionIsSchemaHolds == Spec => []VersionIsSchema
<1>1. DbInv => VersionIsSchema
  BY DEF DbInv, Good, VersionIsSchema
<1> QED BY <1>1, InitDb, NextDb, PTL DEF Spec

-----------------------------------------------------------------------------
(* Entries in hand.                                                        *)

\* Objects are numbered; what leads to one leads to one there is, and a slot
\* to one of its id.
ObjsKnown(r) ==
    /\ DOMAIN r = DOMAIN Fresh
    /\ r.objs \in Seq(Nat)
    /\ r.proc \cup r.freed \cup r.cmds \cup r.list \cup r.before \subseteq 1 .. Len(r.objs)
    /\ \A id \in DOMAIN r.slots :
          r.slots[id] \in 1 .. Len(r.objs) /\ r.objs[r.slots[id]] = id

\* What leads to an object does not lead to a freed one.
Alive(r) == (r.cmds \cup reg_all_open_entries(r) \cup r.list) \cap r.freed = {}

\* What is on the list keeps the name of its command, which is gone; and the
\* list is empty outside of a write.
Listed(r) ==
    /\ r.cmds \cup r.list \subseteq r.proc /\ r.cmds \cap r.list = {}
    /\ r.script # "write" => r.list = {}

\* What was in hand when a write began and was not closed is in hand or listed.
Remembered(r) == r.script = "write" => r.before \subseteq r.cmds \cup r.list

RegInv(r) == ObjsKnown(r) /\ Alive(r) /\ Listed(r) /\ Remembered(r)

\* A finite set as a sequence has each of its elements once.
LEMMA SetToSeqOnto ==
    ASSUME NEW S, IsFiniteSet(S)
    PROVE  /\ SetToSeq(S) \in Seq(S)
           /\ \A x \in S : \E i \in 1 .. Len(SetToSeq(S)) : SetToSeq(S)[i] = x
<1> DEFINE n == Cardinality(S)
           f == SetToSeq(S)
<1>1. n \in Nat /\ ExistsBijection(1 .. n, S)
  BY FS_CardinalityType
<1>2. \E g \in [1 .. n -> S] : IsInjective(g)
  BY <1>1 DEF ExistsBijection, Bijection, Injection, IsInjective
<1>3. f \in [1 .. n -> S] /\ IsInjective(f)
  BY <1>2 DEF SetToSeq
<1> HIDE DEF n, f
<1>4. f \in Seq(S) /\ Len(f) = n
  BY <1>1, <1>3
<1>5. f \in Surjection(1 .. n, S)
  <2>1. f \in Injection(1 .. n, S)
    BY <1>3 DEF Injection
  <2>2. Cardinality(1 .. n) = n
    BY <1>1, FS_Interval
  <2> QED BY <2>1, <2>2, FS_Injection DEF n
<1> QED BY <1>4, <1>5 DEF f, Surjection

\* New objects have new numbers, and their slots lead to them.
LEMMA AllocateKeeps ==
    ASSUME NEW r, RegInv(r), NEW ids, IsFiniteSet(ids), ids \subseteq Nat
    PROVE  /\ RegInv(Allocate(r, ids))
           /\ r.cmds \subseteq Allocate(r, ids).cmds
           /\ Allocate(r, ids).before = r.before /\ Allocate(r, ids).list = r.list
<1> DEFINE order == SetToSeq(ids)
           old == Len(r.objs)
           last == old + Len(order)
           new == old + 1 .. last
           a == Allocate(r, ids)
<1>1. order \in Seq(ids) /\ \A id \in ids : \E i \in 1 .. Len(order) : order[i] = id
  BY SetToSeqOnto
<1>2. old \in Nat /\ Len(order) \in Nat /\ last \in Nat
  BY <1>1, LenProperties DEF RegInv, ObjsKnown
<1>3. \A o \in new : o - old \in 1 .. Len(order) /\ order[o - old] \in ids
  BY <1>1, <1>2, ElementOfSeq
<1>4. a.objs = [o \in 1 .. last |-> IF o \in new THEN order[o - old] ELSE r.objs[o]]
      /\ a.slots = [id \in DOMAIN r.slots \cup ids |->
                      IF id \in ids THEN CHOOSE o \in new : order[o - old] = id ELSE r.slots[id]]
      /\ a.proc = r.proc \cup new /\ a.cmds = r.cmds \cup new
      /\ a.freed = r.freed /\ a.list = r.list /\ a.before = r.before /\ a.script = r.script
      /\ DOMAIN a = DOMAIN r
  BY DEF Allocate, RegInv, ObjsKnown, Fresh
<1> HIDE DEF order, a
<1>5. a.objs \in Seq(Nat) /\ Len(a.objs) = last
  <2>1. \A o \in 1 .. last : o \notin new => o \in 1 .. old /\ r.objs[o] \in Nat
    BY <1>2, ElementOfSeq DEF RegInv, ObjsKnown
  <2>2. a.objs \in [1 .. last -> Nat]
    BY <1>3, <1>4, <2>1
  <2> QED BY <1>2, <2>2
<1>6. \A id \in ids : a.slots[id] \in new /\ order[a.slots[id] - old] = id
  <2> TAKE id \in ids
  <2>1. PICK i \in 1 .. Len(order) : order[i] = id
    BY <1>1
  <2>2. old + i \in new /\ (old + i) - old = i
    BY <1>2
  <2>3. \E o \in new : order[o - old] = id
    BY <2>1, <2>2
  <2>4. a.slots[id] = CHOOSE o \in new : order[o - old] = id
    BY <1>4
  <2> QED BY <2>3, <2>4
<1>7. ObjsKnown(a)
  <2>1. /\ new \subseteq 1 .. last /\ 1 .. old \subseteq 1 .. last
        /\ \A o \in 1 .. old : a.objs[o] = r.objs[o]
        /\ \A o \in new : a.objs[o] = order[o - old]
    BY <1>2, <1>4
  <2>2. a.proc \cup a.freed \cup a.cmds \cup a.list \cup a.before \subseteq 1 .. last
    BY <1>4, <2>1 DEF RegInv, ObjsKnown
  <2>3. ASSUME NEW id \in DOMAIN a.slots
        PROVE  a.slots[id] \in 1 .. last /\ a.objs[a.slots[id]] = id
    <3>1. CASE id \in ids
      BY <1>6, <2>1, <3>1
    <3>2. CASE id \notin ids
      <4>1. id \in DOMAIN r.slots /\ a.slots[id] = r.slots[id]
        BY <1>4, <3>2
      <4> QED BY <2>1, <4>1 DEF RegInv, ObjsKnown
    <3> QED BY <3>1, <3>2
  <2> QED BY <1>4, <1>5, <2>2, <2>3 DEF RegInv, ObjsKnown
<1>8. Alive(a)
  <2>1. new \cap r.freed = {}
    BY <1>2 DEF RegInv, ObjsKnown
  <2>2. reg_all_open_entries(a) \subseteq new \cup reg_all_open_entries(r)
    <3>1. DOMAIN a.slots = DOMAIN r.slots \cup ids
          /\ \A id \in DOMAIN r.slots \ ids : a.slots[id] = r.slots[id]
      BY <1>4
    <3> QED BY <1>6, <3>1 DEF reg_all_open_entries
  <2> QED BY <1>4, <2>1, <2>2 DEF RegInv, Alive
<1>9. Listed(a) /\ Remembered(a)
  BY <1>2, <1>4 DEF RegInv, ObjsKnown, Listed, Remembered
<1> QED BY <1>4, <1>7, <1>8, <1>9 DEF a, RegInv

\* A command for what is in a slot.
LEMMA ToObjKeeps ==
    ASSUME NEW r, RegInv(r), NEW os, os \subseteq reg_all_open_entries(r)
    PROVE  RegInv(entry_to_obj(r, os))
<1> DEFINE a == entry_to_obj(r, os)
<1>1. /\ a.proc = r.proc \cup os /\ a.cmds = r.cmds \cup (os \ r.proc) /\ a.slots = r.slots
      /\ a.freed = r.freed /\ a.list = r.list /\ a.before = r.before /\ a.script = r.script
      /\ DOMAIN a = DOMAIN r /\ a.objs = r.objs
  BY DEF entry_to_obj, RegInv, ObjsKnown, Fresh
<1> HIDE DEF a
<1>2. ObjsKnown(a) /\ Alive(a)
  BY <1>1 DEF RegInv, ObjsKnown, Alive, reg_all_open_entries
<1>3. Listed(a) /\ Remembered(a)
  BY <1>1 DEF RegInv, Listed, Remembered
<1> QED BY <1>2, <1>3 DEF a, RegInv

\* What queries return gets commands.
LEMMA ListToObjKeeps ==
    ASSUME NEW r, RegInv(r), NEW ids, IsFiniteSet(ids), ids \subseteq Nat
    PROVE  RegInv(list_entry_to_obj(r, ids))
<1> DEFINE os == {r.slots[id] : id \in ids \cap DOMAIN r.slots}
<1>1. RegInv(entry_to_obj(r, os))
  BY ToObjKeeps DEF reg_all_open_entries
<1>2. IsFiniteSet(ids \ DOMAIN r.slots) /\ ids \ DOMAIN r.slots \subseteq Nat
  BY FS_Subset
<1> QED BY <1>1, <1>2, AllocateKeeps DEF list_entry_to_obj

\* A rolled-back write leaves what it found.
Restored(r, s) ==
    r.script = "write" /\ s.script = "none" /\ s.ended = "rollback" =>
        \A o \in r.before :
            /\ o \in s.cmds \ s.freed /\ s.objs[o] = r.objs[o]
            /\ o \in s.proc <=> o \in r.proc

ObjInv == OfProcs(reg) /\ \A p \in Procs : RegInv(reg[p])

\* What a step of one process does to its objects.
Handles(p) ==
    /\ reg' = [reg EXCEPT ![p] = reg'[p]]
    /\ RegInv(reg'[p]) /\ Restored(reg[p], reg'[p])

\* A process that has opened nothing has nothing.
LEMMA FreshInv == RegInv(Fresh) /\ \A r : Restored(r, Fresh)
BY EmptySeq
   DEF Fresh, RegInv, ObjsKnown, Alive, Listed, Remembered, reg_all_open_entries, Restored

\* How the last script ended is history only.
LEMMA HoldHandles ==
    ASSUME ObjInv, NEW p \in Procs, NEW r, RegInv(r), Hold(p, r) PROVE Handles(p)
<1> DEFINE h == [r EXCEPT !.ended = "none"]
<1>1. reg'[p] = h /\ reg' = [reg EXCEPT ![p] = h]
  BY DEF Hold, ObjInv, OfProcs
<1>2. /\ h.ended = "none" /\ h.objs = r.objs /\ h.proc = r.proc /\ h.freed = r.freed
      /\ h.slots = r.slots /\ h.cmds = r.cmds /\ h.list = r.list /\ h.before = r.before
      /\ h.script = r.script /\ DOMAIN h = DOMAIN r
  BY DEF RegInv, ObjsKnown, Fresh
<1> HIDE DEF h
<1>3. RegInv(h)
  BY <1>2 DEF RegInv, ObjsKnown, Alive, Listed, Remembered, reg_all_open_entries
<1> QED BY <1>1, <1>2, <1>3 DEF Handles, Restored

\* Steps that open the registry leave what is in hand, or the process ends.
LEMMA OpeningHandles == ASSUME ObjInv, NEW p \in Procs, Opening(p) PROVE UNCHANGED reg \/ Handles(p)
<1>1. UNCHANGED reg \/ Exit(p)
  BY DEF Opening, reg_attach, CreateFile, CreateTables, UpdateFails, UpdateBegin, Migrate,
         MigrateFails, Die
<1>2. ASSUME Exit(p) PROVE Handles(p)
  BY <1>2, FreshInv DEF Exit, Handles, ObjInv, OfProcs
<1> QED BY <1>1, <1>2

\* The ids that queries return.
LEMMA IdsBounded ==
    ASSUME NEW t, Good(t), NEW name, NEW names, NEW states, NEW path, NEW id,
           NEW ids \in {reg_entry_open(t, name), reg_entry_search(t, names, states),
                        reg_entry_imaged(t, name), reg_entry_installed(t),
                        reg_entry_owner(t, path), reg_entry_dependents(t, id),
                        reg_entry_dependencies(t, id)}
    PROVE  IsFiniteSet(ids) /\ ids \subseteq Nat
<1>1. \A n : Named(t, n) \subseteq 1 .. MaxId
  BY DEF Named, Good, IsTable
<1>2. ids \subseteq 1 .. MaxId
  BY <1>1 DEF Good, IsTable, reg_entry_open, reg_entry_search, reg_entry_imaged,
              reg_entry_installed, reg_entry_owner, reg_entry_dependents,
              reg_entry_dependencies, InState, Active
<1>3. IsFiniteSet(1 .. MaxId)
  BY BoundsAssumption, FS_Interval
<1>4. IsFiniteSet(ids)
  BY <1>2, <1>3, FS_Subset
<1> QED BY <1>2, <1>4

\* The calls that return entries.
LEMMA QueryHandles == ASSUME DbInv, ObjInv, NEW p \in Procs, Query(p) PROVE Handles(p)
<1> DEFINE t == Seen(p)
           Ok(ids) == IsFiniteSet(ids) /\ ids \subseteq Nat
<1>1. PICK ids : Returned(p, ids) /\ Ok(ids)
  <2>1. Query(p) => at[p] = "open"
    BY DEF Query, entry_open, entry_imaged, entry_search, entry_installed, entry_owner,
           entry_obj_dependents, entry_obj_dependencies, Returned, Call
  <2>2. Good(t)
    BY <2>1, SeenGood DEF Halfway
  <2>3. ASSUME NEW name, NEW names, NEW states, NEW path, NEW id
        PROVE  /\ Ok(reg_entry_open(t, name)) /\ Ok(reg_entry_search(t, names, states))
               /\ Ok(reg_entry_imaged(t, name)) /\ Ok(reg_entry_installed(t))
               /\ Ok(reg_entry_owner(t, path)) /\ Ok(reg_entry_dependents(t, id))
               /\ Ok(reg_entry_dependencies(t, id))
    <3> HIDE DEF t
    <3> DEFINE returned == {reg_entry_open(t, name), reg_entry_search(t, names, states),
                            reg_entry_imaged(t, name), reg_entry_installed(t),
                            reg_entry_owner(t, path), reg_entry_dependents(t, id),
                            reg_entry_dependencies(t, id)}
    <3>1. \A ids \in returned : Ok(ids)
      BY <2>2, IdsBounded
    <3> QED BY <3>1
  <2> HIDE DEF Ok
  <2> QED BY <2>3
          DEF Query, entry_open, entry_imaged, entry_search, entry_installed, entry_owner,
              entry_obj_dependents, entry_obj_dependencies
<1>2. RegInv(list_entry_to_obj(reg[p], ids))
  BY <1>1, ListToObjKeeps DEF ObjInv
<1> QED BY <1>1, <1>2, HoldHandles DEF Returned

\* Closing an entry.
LEMMA CloseHandles ==
    ASSUME ObjInv, NEW p \in Procs, NEW o \in reg[p].cmds, EntryClose(p, o) PROVE Handles(p)
<1> DEFINE r == reg[p]
           c == [DeleteCommands(r, {o}) EXCEPT !.before = @ \ {o}]
<1>1. RegInv(r)
  BY DEF ObjInv
<1>2. /\ c.cmds = r.cmds \ {o} /\ c.proc = r.proc \ {o} /\ c.before = r.before \ {o}
      /\ c.objs = r.objs /\ c.freed = r.freed /\ c.slots = r.slots /\ c.list = r.list
      /\ c.script = r.script /\ DOMAIN c = DOMAIN r
  BY <1>1 DEF DeleteCommands, RegInv, ObjsKnown, Fresh
<1> HIDE DEF c
<1>3. RegInv(c)
  BY <1>1, <1>2 DEF RegInv, ObjsKnown, Alive, Listed, Remembered, reg_all_open_entries
<1> QED BY <1>3, HoldHandles DEF EntryClose, c

\* Freeing what is in hand through nothing else.
LEMMA FreeKeeps ==
    ASSUME NEW r, ObjsKnown(r), NEW os
    PROVE  LET f == reg_entry_free(r, os)
           IN  /\ f.objs = r.objs /\ f.cmds = r.cmds /\ f.list = r.list /\ f.proc = r.proc
               /\ f.before = r.before /\ f.script = r.script /\ f.freed = r.freed \cup os
               /\ DOMAIN f = DOMAIN r /\ DOMAIN f.slots \subseteq DOMAIN r.slots
               /\ \A id \in DOMAIN f.slots : f.slots[id] = r.slots[id] /\ f.slots[id] \notin os
BY DEF reg_entry_free, Restricted, ObjsKnown, Fresh

\* The calls that write.
LEMMA WriteHandles == ASSUME DbInv, ObjInv, NEW p \in Procs, Write(p) PROVE Handles(p)
<1> DEFINE r == reg[p]
<1>1. RegInv(r)
  BY DEF ObjInv
<1>2. ASSUME NEW t, Edit(p, t) PROVE Handles(p)
  BY <1>1, <1>2, HoldHandles DEF Edit
<1>3. ASSUME NEW name \in Names, EntryCreate(p, name) PROVE Handles(p)
  <2> DEFINE id == NextId(Seen(p).ports)
  <2>1. Good(Seen(p)) /\ id <= MaxId
    BY <1>3, SeenGood DEF EntryCreate, Call, Halfway
  <2>2. id \in Nat
    BY <2>1, NextIdType DEF Good
  <2>3. IsFiniteSet({id}) /\ {id} \subseteq Nat
    BY <2>2, FS_Singleton
  <2>4. RegInv(Allocate(r, {id}))
    BY <1>1, <2>3, AllocateKeeps
  <2> QED BY <1>3, <2>4, HoldHandles DEF EntryCreate
<1>4. ASSUME NEW o \in r.cmds, EntryDelete(p, o) PROVE Handles(p)
  <2> DEFINE gone == [r EXCEPT !.cmds = @ \ {o}]
  <2>1. /\ gone.cmds = r.cmds \ {o} /\ gone.proc = r.proc /\ gone.before = r.before
        /\ gone.objs = r.objs /\ gone.freed = r.freed /\ gone.slots = r.slots
        /\ gone.list = r.list /\ gone.script = r.script /\ DOMAIN gone = DOMAIN r
    BY <1>1 DEF RegInv, ObjsKnown, Fresh
  <2> HIDE DEF gone
  <2>2. CASE r.script = "write"
    <3> DEFINE l == [gone EXCEPT !.list = @ \cup {o}]
    <3>1. /\ l.cmds = r.cmds \ {o} /\ l.proc = r.proc /\ l.before = r.before
          /\ l.objs = r.objs /\ l.freed = r.freed /\ l.slots = r.slots
          /\ l.list = r.list \cup {o} /\ l.script = r.script /\ DOMAIN l = DOMAIN r
      BY <1>1, <2>1 DEF RegInv, ObjsKnown, Fresh
    <3> HIDE DEF l
    <3>2. RegInv(l)
      BY <1>1, <2>2, <3>1 DEF RegInv, ObjsKnown, Alive, Listed, Remembered, reg_all_open_entries
    <3> QED BY <1>4, <2>2, <3>2, HoldHandles DEF EntryDelete, l, gone
  <2>3. CASE r.script # "write"
    <3> DEFINE f == reg_entry_free(gone, {o})
               l == [f EXCEPT !.before = @ \ {o}]
    <3>1. ObjsKnown(gone)
      BY <1>1, <2>1 DEF RegInv, ObjsKnown
    <3>3. /\ f.objs = r.objs /\ f.cmds = r.cmds \ {o} /\ f.list = r.list /\ f.proc = r.proc
          /\ f.before = r.before /\ f.script = r.script /\ f.freed = r.freed \cup {o}
          /\ DOMAIN f = DOMAIN r /\ DOMAIN f.slots \subseteq DOMAIN r.slots
          /\ \A id \in DOMAIN f.slots : f.slots[id] = r.slots[id] /\ f.slots[id] # o
      BY <2>1, <3>1, FreeKeeps
    <3> HIDE DEF f
    <3>4. /\ l.objs = r.objs /\ l.cmds = r.cmds \ {o} /\ l.list = r.list /\ l.proc = r.proc
          /\ l.before = r.before \ {o} /\ l.script = r.script /\ l.freed = r.freed \cup {o}
          /\ DOMAIN l = DOMAIN r /\ l.slots = f.slots
      BY <1>1, <3>3 DEF RegInv, ObjsKnown, Fresh
    <3> HIDE DEF l
    <3>5. RegInv(l)
      BY <1>1, <2>3, <3>3, <3>4
         DEF RegInv, ObjsKnown, Alive, Listed, Remembered, reg_all_open_entries
    <3> QED BY <1>4, <2>3, <3>5, HoldHandles DEF EntryDelete, l, f, gone
  <2> QED BY <2>2, <2>3
<1>5. ASSUME NEW o, DeleteCrashes(p, o) PROVE Handles(p)
  BY <1>5, FreshInv DEF DeleteCrashes, Handles, ObjInv, OfProcs
<1> QED BY <1>2, <1>3, <1>4, <1>5
        DEF Write, entry_obj_prop, entry_obj_filemap, entry_obj_activate, entry_obj_depends,
            entry_obj_add_portgroup, registry_snapshot_create

\* The end of a script changes nothing in hand.
LEMMA EndedFields ==
    ASSUME NEW r, RegInv(r), NEW how,
           NEW e \in {Ended(r, how), Ended([r EXCEPT !.status = "none"], how)}
    PROVE  /\ e.objs = r.objs /\ e.proc = r.proc /\ e.freed = r.freed /\ e.slots = r.slots
           /\ e.cmds = r.cmds /\ e.list = r.list /\ e.before = {} /\ e.script = "none"
           /\ e.ended = how /\ DOMAIN e = DOMAIN r
BY DEF Ended, RegInv, ObjsKnown, Fresh

\* What is on the list is in hand through nothing else, and can be freed.
LEMMA DropKeeps ==
    ASSUME NEW r, RegInv(r), NEW how,
           NEW e \in {Ended(r, how), Ended([r EXCEPT !.status = "none"], how)}
    PROVE  RegInv(delete_entry_list(e)) /\ delete_entry_list(e).ended = how
<1> DEFINE f == reg_entry_free(e, e.list)
           d == delete_entry_list(e)
<1>1. /\ e.objs = r.objs /\ e.proc = r.proc /\ e.freed = r.freed /\ e.slots = r.slots
      /\ e.cmds = r.cmds /\ e.list = r.list /\ e.before = {} /\ e.script = "none"
      /\ e.ended = how /\ DOMAIN e = DOMAIN r
  BY EndedFields
<1>2. ObjsKnown(e)
  BY <1>1 DEF RegInv, ObjsKnown
<1>3. /\ f.objs = r.objs /\ f.cmds = r.cmds /\ f.proc = r.proc /\ f.before = {}
      /\ f.script = "none" /\ f.freed = r.freed \cup r.list /\ DOMAIN f = DOMAIN r
      /\ DOMAIN f.slots \subseteq DOMAIN r.slots
      /\ \A id \in DOMAIN f.slots : f.slots[id] = r.slots[id] /\ f.slots[id] \notin r.list
  BY <1>1, <1>2, FreeKeeps
<1>4. f.ended = how
  BY <1>1, <1>2 DEF reg_entry_free, ObjsKnown, Fresh
<1>5. d = [f EXCEPT !.list = {}]
  BY DEF delete_entry_list
<1> HIDE DEF f, d
<1>6. /\ d.objs = f.objs /\ d.proc = f.proc /\ d.freed = f.freed /\ d.slots = f.slots
      /\ d.cmds = f.cmds /\ d.list = {} /\ d.before = f.before /\ d.script = f.script
      /\ d.ended = f.ended /\ DOMAIN d = DOMAIN f
  BY <1>3, <1>5 DEF RegInv, ObjsKnown, Fresh
<1>7. ObjsKnown(d)
  BY <1>3, <1>6 DEF RegInv, ObjsKnown
<1>8. Alive(d)
  BY <1>3, <1>6 DEF RegInv, Alive, Listed, reg_all_open_entries
<1>9. Listed(d) /\ Remembered(d)
  BY <1>3, <1>6 DEF RegInv, Listed, Remembered
<1> QED BY <1>4, <1>6, <1>7, <1>8, <1>9 DEF d, RegInv

\* A rolled-back write gives what is on the list its command again.
LEMMA RestoreKeeps ==
    ASSUME NEW r, RegInv(r), r.script = "write",
           NEW e, e = Ended([r EXCEPT !.status = "none"], "rollback")
    PROVE  RegInv(restore_entry_list(e)) /\ Restored(r, restore_entry_list(e))
<1> DEFINE d == restore_entry_list(e)
<1>1. /\ e.objs = r.objs /\ e.proc = r.proc /\ e.freed = r.freed /\ e.slots = r.slots
      /\ e.cmds = r.cmds /\ e.list = r.list /\ e.before = {} /\ e.script = "none"
      /\ e.ended = "rollback" /\ DOMAIN e = DOMAIN r
  BY EndedFields
<1>2. /\ d.objs = r.objs /\ d.proc = r.proc /\ d.freed = r.freed /\ d.slots = r.slots
      /\ d.cmds = r.cmds \cup r.list /\ d.list = {} /\ d.before = {} /\ d.script = "none"
      /\ DOMAIN d = DOMAIN r
  BY <1>1 DEF restore_entry_list, RegInv, ObjsKnown, Fresh
<1> HIDE DEF d
<1>3. RegInv(d)
  BY <1>2 DEF RegInv, ObjsKnown, Alive, Listed, Remembered, reg_all_open_entries
<1>4. Restored(r, d)
  BY <1>2 DEF RegInv, Alive, Remembered, Restored
<1> QED BY <1>3, <1>4 DEF d

\* Closing the registry takes the commands of what is in the table, and then
\* what is in the table.
LEMMA DetachKeeps ==
    ASSUME NEW r, RegInv(r), r.script = "none"
    PROVE  RegInv(registry_tcl_detach(r)) /\ RegInv(reg_detach(registry_tcl_detach(r)))
<1> DEFINE S == reg_all_open_entries(r)
           c == registry_tcl_detach(r)
           d == reg_detach(c)
<1>1. /\ c.cmds = r.cmds \ S /\ c.proc = r.proc \ (S \cap r.cmds) /\ c.objs = r.objs
      /\ c.freed = r.freed /\ c.slots = r.slots /\ c.list = r.list /\ c.before = r.before
      /\ c.script = "none" /\ DOMAIN c = DOMAIN r
  BY DEF registry_tcl_detach, DeleteCommands, RegInv, ObjsKnown, Fresh
<1>2. S \subseteq 1 .. Len(r.objs) /\ reg_all_open_entries(c) = S
  BY <1>1 DEF RegInv, ObjsKnown, reg_all_open_entries
<1> HIDE DEF S, c
<1>3. RegInv(c)
  <2>1. ObjsKnown(c)
    BY <1>1 DEF RegInv, ObjsKnown
  <2>2. Alive(c) /\ Listed(c) /\ Remembered(c)
    BY <1>1, <1>2 DEF S, RegInv, Alive, Listed, Remembered
  <2> QED BY <2>1, <2>2 DEF RegInv
<1>4. /\ d.cmds = c.cmds /\ d.proc = c.proc /\ d.objs = c.objs
      /\ d.freed = c.freed \cup S /\ d.slots = <<>> /\ d.list = c.list
      /\ d.before = c.before /\ d.script = "none" /\ DOMAIN d = DOMAIN r
  BY <1>1, <1>2, <1>3 DEF reg_detach, RegInv, ObjsKnown, Fresh
<1> HIDE DEF d
<1>5. DOMAIN d.slots = {} /\ reg_all_open_entries(d) = {}
  BY <1>4 DEF reg_all_open_entries
<1>6. d.list = {}
  BY <1>1, <1>4 DEF RegInv, Listed
<1>7. ObjsKnown(d)
  BY <1>1, <1>2, <1>3, <1>4, <1>5 DEF RegInv, ObjsKnown
<1>8. Alive(d)
  BY <1>1, <1>3, <1>4, <1>5, <1>6 DEF RegInv, Alive
<1>9. Listed(d) /\ Remembered(d)
  BY <1>3, <1>4, <1>6 DEF RegInv, Listed, Remembered
<1> QED BY <1>3, <1>7, <1>8, <1>9 DEF c, d, RegInv

\* A settled registry is kept.
LEMMA SettleHandles ==
    ASSUME ObjInv, NEW p \in Procs, NEW r, RegInv(r), Restored(reg[p], r),
           reg' = [reg EXCEPT ![p] = r]
    PROVE  Handles(p)
BY DEF Handles, ObjInv, OfProcs

\* Transactions, and closing the registry.
LEMMA TransactionHandles ==
    ASSUME ObjInv, NEW p \in Procs, Transaction(p) PROVE UNCHANGED reg \/ Handles(p)
<1> DEFINE r == reg[p]
<1>1. RegInv(r)
  BY DEF ObjInv
<1>2. ASSUME NEW status \in {"read", "write"}, Begin(p, status) PROVE Handles(p)
  <2> DEFINE b == [r EXCEPT !.status = status, !.script = status, !.before = r.cmds]
  <2>1. /\ b.objs = r.objs /\ b.proc = r.proc /\ b.freed = r.freed /\ b.slots = r.slots
        /\ b.cmds = r.cmds /\ b.list = r.list /\ b.before = r.cmds /\ b.script = status
        /\ DOMAIN b = DOMAIN r
    BY <1>1 DEF RegInv, ObjsKnown, Fresh
  <2>2. r.list = {} /\ Hold(p, b)
    BY <1>1, <1>2 DEF Begin, RegInv, Listed
  <2> HIDE DEF b
  <2>3. RegInv(b)
    BY <1>1, <2>1, <2>2
       DEF RegInv, ObjsKnown, Alive, Listed, Remembered, reg_all_open_entries
  <2> QED BY <2>2, <2>3, HoldHandles
<1>3. ASSUME registry_read(p) PROVE Handles(p)
  <2>1. PICK how, e : /\ e \in {Ended(r, how), Ended([r EXCEPT !.status = "none"], how)}
                      /\ reg' = [reg EXCEPT ![p] = e]
    BY <1>3 DEF registry_read, Settle, Closed
  <2>2. /\ e.objs = r.objs /\ e.proc = r.proc /\ e.freed = r.freed /\ e.slots = r.slots
        /\ e.cmds = r.cmds /\ e.list = r.list /\ e.before = {} /\ e.script = "none"
        /\ DOMAIN e = DOMAIN r
    BY <1>1, <2>1, EndedFields
  <2>3. r.script = "read"
    BY <1>3 DEF registry_read
  <2>4. RegInv(e) /\ Restored(r, e)
    BY <1>1, <2>2, <2>3
       DEF RegInv, ObjsKnown, Alive, Listed, Remembered, reg_all_open_entries, Restored
  <2> QED BY <2>1, <2>4, SettleHandles
<1>4. ASSUME registry_write(p) PROVE Handles(p)
  <2>1. ASSUME NEW how \in {"commit", "failed"},
               NEW e \in {Ended(r, how), Ended([r EXCEPT !.status = "none"], how)},
               DropList(p, e)
        PROVE  Handles(p)
    <3>1. RegInv(delete_entry_list(e)) /\ delete_entry_list(e).ended = how
      BY <1>1, DropKeeps
    <3>2. Restored(r, delete_entry_list(e))
      BY <3>1 DEF Restored
    <3> QED BY <2>1, <3>1, <3>2, FreshInv, SettleHandles DEF DropList, Settle
  <2>2. ASSUME Settle(p, restore_entry_list(Closed(p, "rollback"))) PROVE Handles(p)
    <3>1. r.script = "write"
      BY <1>4 DEF registry_write
    <3> DEFINE e == Closed(p, "rollback")
    <3>2. RegInv(restore_entry_list(e)) /\ Restored(r, restore_entry_list(e))
      BY <1>1, <3>1, RestoreKeeps DEF Closed
    <3> QED BY <2>2, <3>2, SettleHandles DEF Settle
  <2> QED BY <1>4, <2>1, <2>2 DEF registry_write, Closed
<1>5. ASSUME registry_close(p) PROVE Handles(p)
  <2>1. r.script = "none"
    BY <1>5 DEF registry_close
  <2>2. \A s : Restored(r, s)
    BY <2>1 DEF Restored
  <2>3. RegInv(registry_tcl_detach(r)) /\ RegInv(reg_detach(registry_tcl_detach(r)))
    BY <1>1, <2>1, DetachKeeps
  <2> QED BY <1>5, <2>2, <2>3, SettleHandles DEF registry_close
<1> QED BY <1>2, <1>3, <1>4, <1>5
        DEF Transaction, reg_start_read, reg_start_write, AutoRollback

\* A step leaves every process's objects as they were, or handles those of one.
LEMMA NextObj ==
    ASSUME DbInv, ObjInv, [Next]_vars
    PROVE  ObjInv' /\ \A p \in Procs : reg'[p] = reg[p] \/ Restored(reg[p], reg'[p])
<1>1. CASE UNCHANGED reg
  BY <1>1 DEF ObjInv, OfProcs
<1>2. ASSUME NEW p \in Procs, Handles(p)
      PROVE  ObjInv' /\ \A q \in Procs : reg'[q] = reg[q] \/ Restored(reg[q], reg'[q])
  <2>1. \A q \in Procs \ {p} : reg'[q] = reg[q]
    BY <1>2 DEF Handles, ObjInv, OfProcs
  <2>2. OfProcs(reg')
    BY <1>2 DEF Handles, ObjInv, OfProcs
  <2> QED BY <1>2, <2>1, <2>2 DEF Handles, ObjInv
<1>3. UNCHANGED reg \/ \E p \in Procs : Handles(p)
  BY OpeningHandles, QueryHandles, WriteHandles, TransactionHandles, CloseHandles
     DEF Next, vars
<1> QED BY <1>1, <1>2, <1>3

\* At the start nothing is in hand.
LEMMA InitObj == Init => ObjInv
BY FreshInv DEF Init, ObjInv, OfProcs

\* No command, no slot of the hash table and no place on the list of deleted
\* entries leads to an object that has been freed.
THEOREM NoDanglingHolds == Spec => []NoDangling
<1>1. ObjInv => NoDangling
  BY DEF ObjInv, RegInv, Alive, NoDangling
<1>2. ASSUME DbInv, ObjInv, [Next]_vars PROVE DbInv' /\ ObjInv'
  BY <1>2, NextDb, NextObj
<1> QED BY <1>1, <1>2, InitDb, InitObj, PTL DEF Spec

\* An entry that was in hand when a write began is in hand, the same one, when
\* the write has been rolled back.
THEOREM RolledBackHolds == Spec => RolledBackStayValid
<1>1. ASSUME DbInv, ObjInv, [Next]_vars PROVE DbInv' /\ ObjInv'
  BY <1>1, NextDb, NextObj
<1>2. ASSUME DbInv, ObjInv, [Next]_vars
      PROVE  [\A p \in Procs :
                /\ reg[p].script = "write" /\ reg'[p].script = "none"
                /\ reg'[p].ended = "rollback"
                => \A o \in reg[p].before :
                    /\ o \in reg'[p].cmds \ reg'[p].freed
                    /\ reg'[p].objs[o] = reg[p].objs[o]
                    /\ o \in reg'[p].proc <=> o \in reg[p].proc]_vars
  BY <1>2, NextObj DEF Restored
<1> QED BY <1>1, <1>2, InitDb, InitObj, PTL DEF Spec, RolledBackStayValid
=============================================================================
