----------------------------- MODULE PortImage -----------------------------
(***************************************************************************)
(* Activation and deactivation of port images (registry2.0/portimage.tcl): *)
(* the files of an image are put in place on disk and recorded in the      *)
(* registry, conflicting files are moved aside when forced, ports this one *)
(* replaces are deactivated, and all of it is undone when something fails. *)
(* One process works at a time (port.tcl holds the registry lock around    *)
(* these actions); it can be interrupted by errors, by SIGINT and SIGTERM, *)
(* and by a crash.                                                         *)
(***************************************************************************)
EXTENDS FileMap, FiniteSets

CONSTANTS
    PortOf,      \* entry -> name of its port
    ReplacedBy,  \* pairs <<entry, port>>: the entry's port is replaced_by port
    Rename,      \* entry -> (path -> path): where its own activate target puts
                 \* its files (portactivate_rename_files)
    Mode,        \* portimage_mode
    ArchiveOf,   \* entries whose image is an archive to begin with
    UserPaths,   \* paths where files that belong to no port may be
    Race,        \* may such files appear while an operation is in progress?
    SameSecond,  \* may forced activations follow each other within a second?
    Faults,      \* what may go wrong: a subset of FaultKinds
    MaxFaults,   \* bound on the number of faults in a behaviour
    None, User   \* contents of a location: no file, a file of no port

FaultKinds == {"io", "attrs", "delete", "commit", "signal", "late", "crash"}
Modes == {"archive", "directory", "directory_and_archive"}

ASSUME PortOfAssumption == DOMAIN PortOf = Entries
\* Only startup items are renamed, to places outside the image.
ASSUME RenameAssumption ==
    /\ Rename \in [Entries -> [Paths -> Paths]]
    /\ \A e \in Entries, p \in Paths : Rename[e][p] # p => Rename[e][p] \notin Image[e]
\* A port that is replaced does not replace another.
ASSUME ReplacedAssumption ==
    \A x, y \in ReplacedBy : x[2] # PortOf[y[1]]
ASSUME ModeAssumption == Mode \in Modes
ASSUME SetAssumption ==
    ArchiveOf \subseteq Entries /\ UserPaths \subseteq Paths /\ Faults \subseteq FaultKinds
ASSUME FaultAssumption == MaxFaults \in Nat /\ Race \in BOOLEAN /\ SameSecond \in BOOLEAN
ASSUME ContentAssumption == None \notin Entries /\ User \notin Entries /\ None # User

Content == Entries \cup {None, User}
KeepArchive == Mode # "directory"
KeepImagedir == Mode # "archive"

VARIABLES
    disk,       \* what is at every location
    db,         \* the registry as committed
    tx,         \* the registry as this process sees it (db outside a transaction)
    stuck,      \* reg_transacting is set although no transaction is in progress
    loc,        \* the location property: is the image an archive or a directory?
    arch,       \* entries whose archive exists
    dir,        \* entry -> the files in its image directory
    pc,         \* where the operation is; "idle" between operations
    act,        \* locals of activate and _activate_contents
    dea,        \* locals of deactivate and _deactivate_contents
    force,      \* namespace variable force
    clock,      \* the last backup suffix handed out
    faults,     \* number of faults so far
    users,      \* history: paths where a file of no port was created
    before,     \* history: disk and db when the operation began
    result      \* outcome of the last operation

vars == <<disk, db, tx, stuck, loc, arch, dir, pc, act, dea, force, clock,
          faults, users, before, result>>

\* Locals of the two procedures before they are set.  ent: the entry worked on;
\* ren: the rename list; stamp: baksuffix; olds: active versions still to
\* deactivate; xdir: files in the temporary extraction; scan: image files not
\* yet checked; moving, now: files being moved aside or put in place; backups,
\* forced (twice: owners recorded twice), replaced: backups,
\* reg_forced_renames, todeactivate; todo, files: ports and files still to work
\* on; renamed: the files put now are the renamed ones; rb, undo:
\* rollback_filelist, deactivate_this.
NoRename == [p \in Paths |-> p]
NoAct == [ent |-> None, ren |-> NoRename, stamp |-> 0, olds |-> {},
          xdir |-> {}, scan |-> {}, moving |-> {}, now |-> {}, backups |-> {},
          forced |-> {}, twice |-> {}, replaced |-> {}, todo |-> {},
          files |-> {}, renamed |-> FALSE, rb |-> {}, undo |-> FALSE]

\* try: 1 while the port's own deactivate target runs (registry::run_target),
\* whose failure is followed by a direct call, 2 in a direct call.
NoDea == [ent |-> None, files |-> {}, try |-> 2, ret |-> "idle"]

\* Nothing to remember between operations.
NoBefore == [disk |-> [l \in Locs |-> None], db |-> Fresh, ent |-> None]

-----------------------------------------------------------------------------
Init ==
    /\ \E P \in SUBSET UserPaths :
        /\ users = P
        /\ disk = [l \in Locs |-> IF l[2] = 0 /\ l[1] \in P THEN User ELSE None]
    /\ db = Fresh
    /\ tx = Fresh
    /\ stuck = FALSE
    /\ loc = [e \in Entries |-> IF e \in ArchiveOf THEN "archive" ELSE "directory"]
    /\ arch = ArchiveOf
    /\ dir = [e \in Entries |-> IF e \in ArchiveOf THEN {} ELSE Image[e]]
    /\ pc = "idle"
    /\ act = NoAct
    /\ dea = NoDea
    /\ force = FALSE
    /\ clock = 0
    /\ faults = 0
    /\ before = NoBefore
    /\ result = "none"

\* The operation is over, and its procedures' locals are gone.
End(r) ==
    /\ pc' = "idle"
    /\ act' = NoAct
    /\ dea' = NoDea
    /\ before' = NoBefore
    /\ result' = r

\* An error is raised.  Before the outer try it ends the operation; inside, the
\* transaction is rolled back and the on error clause runs.  Only an error
\* inside the innermost try sets deactivate_this.
InnerTry == {"register", "put", "append", "rename", "state"}
OuterTry == {"scan", "aside", "note", "replaced", "commit", "committed"} \cup InnerTry
\* Mutant: the transaction is not rolled back.
RaiseMutNoRollback(from) ==
    /\ tx' = tx
    /\ IF from \in OuterTry
       THEN /\ pc' = "undo"
            /\ act' = IF from \in InnerTry THEN [act EXCEPT !.undo = TRUE] ELSE act
            /\ dea' = NoDea
            /\ UNCHANGED <<before, result>>
       ELSE End("error")

Raise(from) ==
    /\ tx' = db
    /\ IF from \in OuterTry
       THEN /\ pc' = "undo"
            /\ act' = IF from \in InnerTry THEN [act EXCEPT !.undo = TRUE] ELSE act
            /\ dea' = NoDea
            /\ UNCHANGED <<before, result>>
       ELSE End("error")

Fault(kind) ==
    /\ kind \in Faults
    /\ faults < MaxFaults
    /\ faults' = faults + 1

-----------------------------------------------------------------------------
(* activate *)

\* The backup suffix is the time in whole seconds: an activation that uses one
\* gets a new one, or in the same second the last one again.
Stamps == {clock + 1} \cup (IF SameSecond /\ clock > 0 THEN {clock} ELSE {})

\* The entry is installed but not active, and its image exists.  A forced
\* activation sets the namespace variable force, which nothing resets.
StartActivate(e, asked) ==
    /\ pc = "idle" /\ ~ stuck
    /\ db.state[e] = "imaged"
    /\ loc[e] = "archive" => e \in arch
    /\ force' = (force \/ asked)
    /\ clock' \in (IF force' THEN Stamps ELSE {clock})
    /\ clock' <= MaxStamp
    /\ \E ren \in {Rename[e], NoRename} :
        act' = [NoAct EXCEPT !.ent = e, !.ren = ren,
                 !.stamp = IF force' THEN clock' ELSE 0,
                 !.olds = {o \in Entries : PortOf[o] = PortOf[e] /\ db.state[o] = "installed"}]
    /\ before' = [disk |-> disk, db |-> db, ent |-> e]
    /\ pc' = "olds"
    /\ result' = "none"
    /\ UNCHANGED <<disk, db, tx, stuck, loc, arch, dir, dea, faults, users>>

\* deactivate is called for an entry, with ports_nodepcheck, through the port's
\* own target or directly.
CallDeactivate(o) ==
    /\ \E t \in {1, 2} : dea' = [ent |-> o, files |-> {}, try |-> t, ret |-> pc]
    /\ pc' = "dbegin"

\* Another version of the port is active: deactivate it first.
DeactivateOld(o) ==
    /\ pc = "olds" /\ o \in act.olds
    /\ CallDeactivate(o)
    /\ act' = [act EXCEPT !.olds = @ \ {o}]
    /\ UNCHANGED <<disk, db, tx, stuck, loc, arch, dir, force, clock, faults,
                   users, before, result>>

-----------------------------------------------------------------------------
(* _activate_contents, up to the write transaction *)

Source == IF loc[act.ent] = "archive" THEN act.xdir ELSE dir[act.ent]

\* An archive is extracted to a temporary directory.
Extract ==
    /\ pc = "olds" /\ act.olds = {}
    /\ IF loc[act.ent] = "archive"
       THEN /\ act' = [act EXCEPT !.xdir = Image[act.ent], !.scan = Image[act.ent]]
            /\ pc' = IF KeepArchive THEN "scan" ELSE "convert"
       ELSE /\ act' = [act EXCEPT !.scan = Image[act.ent]]
            /\ pc' = "scan"
    /\ UNCHANGED <<disk, db, tx, stuck, loc, arch, dir, dea, force, clock, faults,
                   users, before, result>>

\* Without keep_archive the extracted directory becomes the image ...
SetLocation ==
    /\ pc = "convert"
    /\ loc' = [loc EXCEPT ![act.ent] = "directory"]
    /\ dir' = [dir EXCEPT ![act.ent] = act.xdir]
    /\ pc' = "drop"
    /\ UNCHANGED <<disk, db, tx, stuck, arch, act, dea, force, clock, faults,
                   users, before, result>>

\* ... and then the archive is deleted.
DropArchive ==
    /\ pc = "drop"
    /\ arch' = arch \ {act.ent}
    /\ pc' = "scan"
    /\ UNCHANGED <<disk, db, tx, stuck, loc, dir, act, dea, force, clock, faults,
                   users, before, result>>

\* _get_port_conflicts: the ports with an active file where one of this image
\* goes, and those of them this port replaces.
Conflicting == UNION {Owners(db, At(p)) : p \in Image[act.ent]}
Replaced == {o \in Conflicting : <<o, PortOf[act.ent]>> \in ReplacedBy}
ConflictsAllowed == force \/ Conflicting \subseteq Replaced
Exists(p) == disk[At(p)] # None
OwnedByReplaced(p) == Owners(db, At(p)) \cap Replaced # {}

\* Mutant: a forced activation leaves a file that is in the way where it is.
ScanFileMutTake(p) ==
    /\ pc = "scan" /\ p \in act.scan /\ p \in Source
    /\ Exists(p) => force \/ (ConflictsAllowed /\ OwnedByReplaced(p))
    /\ act' = [act EXCEPT !.scan = @ \ {p},
                          !.replaced = IF Exists(p) THEN Replaced ELSE @]
    /\ UNCHANGED <<disk, db, tx, stuck, loc, arch, dir, pc, dea, force, clock,
                   faults, users, before, result>>

\* Nothing is in the way of an image file, or only a file of a replaced port.
ScanFile(p) ==
    /\ pc = "scan" /\ p \in act.scan /\ p \in Source
    /\ Exists(p) => ConflictsAllowed /\ OwnedByReplaced(p)
    /\ act' = [act EXCEPT !.scan = @ \ {p},
                          !.replaced = IF Exists(p) THEN Replaced ELSE @]
    /\ UNCHANGED <<disk, db, tx, stuck, loc, arch, dir, pc, dea, force, clock,
                   faults, users, before, result>>

\* The active rows of an entry in conflict with this image, as reg_forced_renames
\* records them: the file as the image names it, and whether it is on disk.
ConflictRows(own, e) ==
    {f \in [own : {own}, img : Paths, moved : BOOLEAN] :
        \E p \in Image[e] : db.row[own][f.img] = At(p) /\ (f.moved <=> Exists(p))}

\* Forced: all files of the owner that are in conflict are moved aside, or the
\* one file that belongs to no port.
ForceFile(p) ==
    /\ pc = "scan" /\ p \in act.scan /\ p \in Source
    /\ Exists(p) /\ force /\ ~ OwnedByReplaced(p)
    /\ LET rows == UNION {ConflictRows(o, act.ent) : o \in Owners(db, At(p))}
       IN act' = [act EXCEPT !.scan = @ \ {p}, !.replaced = Replaced,
                    !.forced = @ \cup rows,
                    !.twice = @ \cup ({f.own : f \in act.forced} \cap {f.own : f \in rows}),
                    !.moving = IF rows = {} THEN {p}
                               ELSE {db.row[f.own][f.img][1] : f \in {g \in rows : g.moved}}]
    /\ pc' = "aside"
    /\ UNCHANGED <<disk, db, tx, stuck, loc, arch, dir, dea, force, clock, faults,
                   users, before, result>>

\* file rename -force of a file to its backup path
MoveAside(p) ==
    /\ pc = "aside" /\ p \in act.moving
    /\ disk' = [disk EXCEPT ![Backup(p, act.stamp)] = disk[At(p)], ![At(p)] = None]
    /\ act' = [act EXCEPT !.moving = @ \ {p}, !.now = {p}]
    /\ pc' = "note"
    /\ UNCHANGED <<db, tx, stuck, loc, arch, dir, dea, force, clock, faults,
                   users, before, result>>

\* lappend backups
NoteBackup ==
    /\ pc = "note"
    /\ act' = [act EXCEPT !.backups = @ \cup act.now, !.now = {}]
    /\ pc' = IF act.moving = {} THEN "scan" ELSE "aside"
    /\ UNCHANGED <<disk, db, tx, stuck, loc, arch, dir, dea, force, clock, faults,
                   users, before, result>>

\* The source file is missing, or a file is in the way that may not be moved.
ScanError(p) ==
    /\ pc = "scan" /\ p \in act.scan
    /\ \/ p \notin Source
       \/ Exists(p) /\ ~ force /\ ~ (ConflictsAllowed /\ OwnedByReplaced(p))
    /\ Raise("scan")
    /\ UNCHANGED <<disk, db, stuck, loc, arch, dir, force, clock, faults, users>>

ScanDone ==
    /\ pc = "scan" /\ act.scan = {}
    /\ act' = [act EXCEPT !.todo = act.replaced]
    /\ pc' = "replaced"
    /\ UNCHANGED <<disk, db, tx, stuck, loc, arch, dir, dea, force, clock, faults,
                   users, before, result>>

\* Ports replaced by this one are deactivated.
DeactivateReplaced(o) ==
    /\ pc = "replaced" /\ o \in act.todo
    /\ CallDeactivate(o)
    /\ act' = [act EXCEPT !.todo = @ \ {o}]
    /\ UNCHANGED <<disk, db, tx, stuck, loc, arch, dir, force, clock, faults,
                   users, before, result>>

-----------------------------------------------------------------------------
(* _activate_contents, the write transaction *)

\* The rows of forced owners, and what becomes of them: a file that was moved is
\* active at its backup path, one that was not there is inactive.
CanMove(r, rows, s) ==
    \A f \in rows :
        /\ r.row[f.own][f.img] = At(f.img)
        /\ f.moved => Owners(r, Backup(f.img, s)) = {}
MoveRows(r, rows, s) ==
    [r EXCEPT !.row = [o \in Entries |-> [q \in Paths |->
        IF [own |-> o, img |-> q, moved |-> TRUE] \in rows THEN Backup(q, s)
        ELSE IF [own |-> o, img |-> q, moved |-> FALSE] \in rows THEN Off
        ELSE r.row[o][q]]]]

ImageAt(e) == [q \in Image[e] |-> At(q)]   \* every file at its own path
AfterForced == MoveRows(tx, act.forced, act.stamp)
CanRegister ==
    /\ act.twice = {} /\ CanMove(tx, act.forced, act.stamp)
    /\ CanActivate(AfterForced, act.ent, ImageAt(act.ent))
Renamed(e, ren) == {q \in Image[e] : ren[q] # q}

Register ==
    /\ pc = "replaced" /\ act.todo = {}
    /\ ~ stuck /\ CanRegister
    /\ tx' = Activate(AfterForced, act.ent, ImageAt(act.ent))
    /\ act' = [act EXCEPT !.files = Image[act.ent] \ Renamed(act.ent, act.ren)]
    /\ pc' = "put"
    /\ UNCHANGED <<disk, db, stuck, loc, arch, dir, dea, force, clock, faults,
                   users, before, result>>

\* The transaction cannot be started, or the registry refuses the files.
RegisterError ==
    /\ pc = "replaced" /\ act.todo = {}
    /\ IF stuck THEN Raise("replaced") ELSE ~ CanRegister /\ Raise("register")
    /\ UNCHANGED <<disk, db, stuck, loc, arch, dir, force, clock, faults, users>>

\* _activate_files: each file is cloned, copied, or renamed out of the image ...
Dest(q) == IF act.renamed THEN act.ren[q] ELSE q
\* Mutant: files leave the image directory in the modes that keep it.
PutFileMutTakeFromImage(q) ==
    /\ pc = "put" /\ q \in act.files /\ ~ Exists(Dest(q))
    /\ disk' = [disk EXCEPT ![At(Dest(q))] = act.ent]
    /\ act' = [act EXCEPT !.files = @ \ {q}, !.now = {Dest(q)},
                 !.xdir = IF KeepImagedir THEN @ ELSE @ \ {q}]
    /\ dir' = IF loc[act.ent] = "archive" THEN dir
              ELSE [dir EXCEPT ![act.ent] = @ \ {q}]
    /\ pc' = "append"
    /\ UNCHANGED <<db, tx, stuck, loc, arch, dea, force, clock, faults, users,
                   before, result>>

PutFile(q) ==
    /\ pc = "put" /\ q \in act.files /\ ~ Exists(Dest(q))
    /\ disk' = [disk EXCEPT ![At(Dest(q))] = act.ent]
    /\ act' = [act EXCEPT !.files = @ \ {q}, !.now = {Dest(q)},
                 !.xdir = IF KeepImagedir THEN @ ELSE @ \ {q}]
    /\ dir' = IF KeepImagedir \/ loc[act.ent] = "archive" THEN dir
              ELSE [dir EXCEPT ![act.ent] = @ \ {q}]
    /\ pc' = "append"
    /\ UNCHANGED <<db, tx, stuck, loc, arch, dea, force, clock, faults, users,
                   before, result>>

\* ... and then appended to the rollback list.
AppendRollback ==
    /\ pc = "append"
    /\ act' = [act EXCEPT !.rb = @ \cup act.now, !.now = {}]
    /\ pc' = "put"
    /\ UNCHANGED <<disk, db, tx, stuck, loc, arch, dir, dea, force, clock, faults,
                   users, before, result>>

\* A file that already exists is taken to be this port's.
SkipFile(q) ==
    /\ pc = "put" /\ q \in act.files /\ Exists(Dest(q))
    /\ act' = [act EXCEPT !.files = @ \ {q}]
    /\ UNCHANGED <<disk, db, tx, stuck, loc, arch, dir, pc, dea, force, clock,
                   faults, users, before, result>>

\* After the other files, the renamed ones: first their rows, then the files.
StartRenamed ==
    /\ pc = "put" /\ act.files = {} /\ ~ act.renamed
    /\ act' = [act EXCEPT !.renamed = TRUE, !.files = Renamed(act.ent, act.ren),
                          !.todo = Renamed(act.ent, act.ren)]
    /\ pc' = "rename"
    /\ UNCHANGED <<disk, db, tx, stuck, loc, arch, dir, dea, force, clock, faults,
                   users, before, result>>

AsRenamed(q) == [x \in {q} |-> At(act.ren[x])]
\* Mutant: nobody checks whose the new place is.
RenameRowMutNoCheck(q) ==
    /\ pc = "rename" /\ q \in act.todo
    /\ LET without == Deactivate(tx, act.ent, {At(q)})
       IN /\ tx' = Activate(without, act.ent, AsRenamed(q))
          /\ act' = [act EXCEPT !.todo = @ \ {q}]
          /\ UNCHANGED <<pc, dea, before, result>>
    /\ UNCHANGED <<disk, db, stuck, loc, arch, dir, force, clock, faults, users>>

RenameRow(q) ==
    /\ pc = "rename" /\ q \in act.todo
    /\ LET without == Deactivate(tx, act.ent, {At(q)})
       IN IF CanActivate(without, act.ent, AsRenamed(q))
          THEN /\ tx' = Activate(without, act.ent, AsRenamed(q))
               /\ act' = [act EXCEPT !.todo = @ \ {q}]
               /\ UNCHANGED <<pc, dea, before, result>>
          ELSE Raise("rename")
    /\ UNCHANGED <<disk, db, stuck, loc, arch, dir, force, clock, faults, users>>

PutRenamed ==
    /\ pc = "rename" /\ act.todo = {}
    /\ pc' = "put"
    /\ UNCHANGED <<disk, db, tx, stuck, loc, arch, dir, act, dea, force, clock,
                   faults, users, before, result>>

\* Mutant: a state the registry does not know.
SetInstalledMutState ==
    /\ pc = "put" /\ act.files = {} /\ act.renamed
    /\ tx' = SetState(tx, act.ent, "active")
    /\ pc' = "commit"
    /\ UNCHANGED <<disk, db, stuck, loc, arch, dir, act, dea, force, clock,
                   faults, users, before, result>>

SetInstalled ==
    /\ pc = "put" /\ act.files = {} /\ act.renamed
    /\ tx' = SetState(tx, act.ent, "installed")
    /\ pc' = "commit"
    /\ UNCHANGED <<disk, db, stuck, loc, arch, dir, act, dea, force, clock,
                   faults, users, before, result>>

Commit ==
    /\ pc = "commit"
    /\ db' = tx
    /\ pc' = "committed"
    /\ UNCHANGED <<disk, tx, stuck, loc, arch, dir, act, dea, force, clock,
                   faults, users, before, result>>

Finish ==
    /\ pc = "committed"
    /\ End("ok")
    /\ UNCHANGED <<disk, db, tx, stuck, loc, arch, dir, force, clock, faults, users>>

-----------------------------------------------------------------------------
(* The on error clause of _activate_contents *)

\* If the failure came from inside the transaction, the files put in place are
\* deleted, ...
UndoFile(p) ==
    /\ pc = "undo" /\ act.undo /\ p \in act.rb
    /\ disk' = [disk EXCEPT ![At(p)] = None]
    /\ act' = [act EXCEPT !.rb = @ \ {p}]
    /\ UNCHANGED <<db, tx, stuck, loc, arch, dir, pc, dea, force, clock, faults,
                   users, before, result>>

\* Mutant: the files put in place stay.
UndoDoneMutLeaveFiles ==
    /\ pc = "undo"
    /\ pc' = "restore"
    /\ UNCHANGED <<disk, db, tx, stuck, loc, arch, dir, act, dea, force, clock,
                   faults, users, before, result>>

UndoDone ==
    /\ pc = "undo" /\ (act.undo => act.rb = {})
    /\ pc' = "restore"
    /\ UNCHANGED <<disk, db, tx, stuck, loc, arch, dir, act, dea, force, clock,
                   faults, users, before, result>>

\* ... the backups go back, over whatever is there now, ...
Restore(p) ==
    /\ pc = "restore" /\ p \in act.backups
    /\ disk' = [disk EXCEPT ![At(p)] = disk[Backup(p, act.stamp)],
                            ![Backup(p, act.stamp)] = None]
    /\ act' = [act EXCEPT !.backups = @ \ {p}]
    /\ UNCHANGED <<db, tx, stuck, loc, arch, dir, pc, dea, force, clock, faults,
                   users, before, result>>

\* Mutant: replaced ports stay inactive.
RestoreDoneMutNoReactivate ==
    /\ pc = "restore" /\ act.backups = {}
    /\ act' = [act EXCEPT !.todo = {}]
    /\ pc' = "reactivate"
    /\ UNCHANGED <<disk, db, tx, stuck, loc, arch, dir, dea, force, clock, faults,
                   users, before, result>>

RestoreDone ==
    /\ pc = "restore" /\ act.backups = {}
    /\ act' = [act EXCEPT !.todo = act.replaced]
    /\ pc' = "reactivate"
    /\ UNCHANGED <<disk, db, tx, stuck, loc, arch, dir, dea, force, clock, faults,
                   users, before, result>>

\* ... and the replaced ports that were deactivated are activated again.  These
\* activations are one step each, to the effect of the actions above; force may
\* still be set.
InTheWay(e) == {p \in Image[e] : Exists(p)}
NestedRows(e) == UNION {ConflictRows(o, e) : o \in UNION {Owners(db, At(p)) : p \in InTheWay(e)}}
NestedReg(e, s) == MoveRows(db, NestedRows(e), s)
NestedImage(e) == IF loc[e] = "archive" THEN Image[e] ELSE dir[e]
NestedStamps(e) == IF InTheWay(e) # {} THEN Stamps ELSE {clock}
CanReactivate(e, s) ==
    /\ ~ stuck /\ s <= MaxStamp
    /\ loc[e] = "archive" => e \in arch
    /\ NestedImage(e) = Image[e]
    /\ InTheWay(e) = {} \/ force
    /\ CanMove(db, NestedRows(e), s)
    /\ CanActivate(NestedReg(e, s), e, ImageAt(e))

\* Its files go where ren says.
PutAt(e, ren) == [q \in Image[e] |-> At(ren[q])]
NestedDisk(e, ren, s) ==
    LET cleared == [l \in Locs |->
            IF l[2] = 0 /\ l[1] \in InTheWay(e) THEN None
            ELSE IF l[2] = s /\ l[1] \in InTheWay(e) THEN disk[At(l[1])] ELSE disk[l]]
    IN [l \in Locs |-> IF cleared[l] = None /\ \E q \in Image[e] : l = At(ren[q])
                       THEN e ELSE cleared[l]]

Reactivate(e) ==
    /\ pc = "reactivate" /\ e \in act.todo /\ db.state[e] = "imaged"
    /\ clock' \in NestedStamps(e)
    /\ CanReactivate(e, clock')
    /\ \A o \in Entries : PortOf[o] = PortOf[e] => db.state[o] = "imaged"
    /\ \E ren \in {Rename[e], NoRename} :
        /\ CanActivate(NestedReg(e, clock'), e, PutAt(e, ren))
        /\ db' = SetState(Activate(NestedReg(e, clock'), e, PutAt(e, ren)), e, "installed")
        /\ disk' = NestedDisk(e, ren, clock')
    /\ tx' = db'
    /\ loc' = IF KeepArchive THEN loc ELSE [loc EXCEPT ![e] = "directory"]
    /\ arch' = IF KeepArchive THEN arch ELSE arch \ {e}
    /\ dir' = IF loc'[e] = "archive" THEN dir
              ELSE [dir EXCEPT ![e] = IF KeepImagedir THEN Image[e] ELSE {}]
    /\ act' = [act EXCEPT !.todo = @ \ {e}]
    /\ UNCHANGED <<stuck, pc, dea, force, faults, users, before, result>>

\* It was never deactivated.
StillActive(e) ==
    /\ pc = "reactivate" /\ e \in act.todo /\ db.state[e] = "installed"
    /\ act' = [act EXCEPT !.todo = @ \ {e}]
    /\ UNCHANGED <<disk, db, tx, stuck, loc, arch, dir, pc, dea, force, clock,
                   faults, users, before, result>>

\* An activation that fails leaves things as they were, but for backups of the
\* same second that its own replaced, and ends the clause.
Overwritten(e, s) == IF force /\ s = clock THEN InTheWay(e) ELSE {}
ReactivateError(e) ==
    /\ pc = "reactivate" /\ e \in act.todo /\ db.state[e] = "imaged"
    /\ \E s \in NestedStamps(e) :
        /\ \E L \in SUBSET Overwritten(e, s) :
            disk' = [l \in Locs |-> IF l[1] \in L /\ l[2] = s THEN None ELSE disk[l]]
        /\ \/ ~ CanReactivate(e, s)
           \/ \E o \in Entries : PortOf[o] = PortOf[e] /\ db.state[o] = "installed"
           \/ ~ CanActivate(NestedReg(e, s), e, PutAt(e, Rename[e]))
    /\ End("error")
    /\ UNCHANGED <<db, tx, stuck, loc, arch, dir, force, clock, faults, users>>

Rethrow ==
    /\ pc = "reactivate" /\ act.todo = {}
    /\ End("error")
    /\ UNCHANGED <<disk, db, tx, stuck, loc, arch, dir, force, clock, faults, users>>

-----------------------------------------------------------------------------
(* deactivate and _deactivate_contents; SIGINT and SIGTERM are blocked *)

\* The user deactivates an active port.  What depends on it may make the user
\* think again, which changes nothing.
StartDeactivate(e) ==
    /\ pc = "idle" /\ db.state[e] = "installed"
    /\ CallDeactivate(e)
    /\ before' = [disk |-> disk, db |-> db, ent |-> None]
    /\ result' = "none"
    /\ UNCHANGED <<disk, db, tx, stuck, loc, arch, dir, act, force, clock, faults, users>>

\* The error leaves the port's own target, which is followed by a direct call
\* unless the port is inactive by now, or it reaches the caller.
DeactivateRaise ==
    IF dea.try = 2 THEN Raise(dea.ret)
    ELSE /\ tx' = db
         /\ dea' = [dea EXCEPT !.files = {}, !.try = 2]
         /\ pc' = IF db.state[dea.ent] = "imaged" THEN "dend" ELSE "dbegin"
         /\ UNCHANGED <<act, before, result>>

DeactivateBegin ==
    /\ pc = "dbegin" /\ ~ stuck
    /\ tx' = Deactivate(tx, dea.ent, Files(tx, dea.ent))
    /\ dea' = [dea EXCEPT !.files = {l \in Files(tx, dea.ent) : disk[l] # None}]
    /\ pc' = "ddelete"
    /\ UNCHANGED <<disk, db, stuck, loc, arch, dir, act, force, clock, faults,
                   users, before, result>>

DeactivateStuck ==
    /\ pc = "dbegin" /\ stuck
    /\ DeactivateRaise
    /\ UNCHANGED <<disk, db, stuck, loc, arch, dir, force, clock, faults, users>>

\* _deactivate_files
DeleteFile(l) ==
    /\ pc = "ddelete" /\ l \in dea.files
    /\ disk' = [disk EXCEPT ![l] = None]
    /\ dea' = [dea EXCEPT !.files = @ \ {l}]
    /\ UNCHANGED <<db, tx, stuck, loc, arch, dir, pc, act, force, clock, faults,
                   users, before, result>>

DeactivateCommit ==
    /\ pc = "ddelete" /\ dea.files = {}
    /\ tx' = SetState(tx, dea.ent, "imaged")
    /\ db' = tx'
    /\ pc' = "dend"
    /\ UNCHANGED <<disk, stuck, loc, arch, dir, act, dea, force, clock, faults,
                   users, before, result>>

DeactivateEnd ==
    /\ pc = "dend"
    /\ IF dea.ret = "idle" THEN End("ok")
       ELSE /\ pc' = dea.ret
            /\ dea' = NoDea
            /\ UNCHANGED <<act, before, result>>
    /\ UNCHANGED <<disk, db, tx, stuck, loc, arch, dir, force, clock, faults, users>>

-----------------------------------------------------------------------------
(* What may go wrong *)

Deactivating == pc \in {"dbegin", "ddelete", "dend"}
RollingBack == pc \in {"undo", "restore", "reactivate"}

\* A forward step fails before it changed anything.
IoError ==
    /\ pc \in {"olds", "convert", "drop", "scan", "aside", "replaced", "put", "rename", "dbegin"}
    /\ pc = "olds" => act.olds = {}
    /\ Fault("io")
    /\ IF Deactivating THEN DeactivateRaise
       ELSE \/ Raise(pc)
            \/ pc = "replaced" /\ act.todo = {} /\ ~ stuck /\ Raise("register")
    /\ UNCHANGED <<disk, db, stuck, loc, arch, dir, force, clock, users>>

\* A file is in place, but its attributes or its time cannot be set.
AttributesError ==
    /\ pc = "append" /\ KeepImagedir
    /\ Fault("attrs")
    /\ Raise(pc)
    /\ UNCHANGED <<disk, db, stuck, loc, arch, dir, force, clock, users>>

\* A file cannot be deleted, or a backup not be moved back.
DeleteError ==
    /\ \/ pc = "ddelete" /\ dea.files # {} /\ DeactivateRaise
       \/ pc = "undo" /\ act.undo /\ act.rb # {} /\ Raise(pc)
       \/ pc = "restore" /\ act.backups # {} /\ Raise(pc)
    /\ Fault("delete")
    /\ UNCHANGED <<disk, db, stuck, loc, arch, dir, force, clock, users>>

\* COMMIT fails: the changes are gone, but reg_transacting stays set, so that
\* this process cannot start another transaction.
CommitError ==
    /\ \/ pc = "commit" /\ Raise(pc)
       \/ pc = "ddelete" /\ dea.files = {} /\ DeactivateRaise
    /\ Fault("commit")
    /\ stuck' = TRUE
    /\ UNCHANGED <<disk, db, loc, arch, dir, force, clock, users>>

\* SIGINT or SIGTERM is turned into an error between two commands; while it is
\* blocked it waits for the end of the block.  With the state recorded but not
\* yet committed the innermost try may or may not be over.  One that arrives
\* during the commit is a fault of its own kind: it is raised after it.
Signal ==
    /\ pc # "idle" /\ ~ RollingBack /\ pc # "ddelete"
    /\ Fault(IF pc = "committed" THEN "late" ELSE "signal")
    /\ IF Deactivating THEN DeactivateRaise
       ELSE \/ Raise(pc)
            \/ pc = "commit" /\ Raise("state")
            \/ pc = "replaced" /\ act.todo = {} /\ ~ stuck /\ Raise("register")
    /\ UNCHANGED <<disk, db, stuck, loc, arch, dir, force, clock, users>>

\* The process dies; sqlite discards the open transaction.
Crash ==
    /\ pc # "idle"
    /\ Fault("crash")
    /\ tx' = db
    /\ stuck' = FALSE
    /\ force' = FALSE
    /\ End("crash")
    /\ UNCHANGED <<disk, db, loc, arch, dir, clock, users>>

\* The next command runs in a new process.
NewProcess ==
    /\ pc = "idle" /\ (stuck \/ force)
    /\ stuck' = FALSE
    /\ force' = FALSE
    /\ UNCHANGED <<disk, db, tx, loc, arch, dir, pc, act, dea, clock, faults,
                   users, before, result>>

\* Someone creates a file no port has a claim to, where there is none.  During
\* an operation this happens between two of its steps on different files.
UserCreates(p) ==
    /\ p \in UserPaths \ users /\ ~ Exists(p) /\ Owners(db, At(p)) = {}
    /\ pc = "idle" \/ (Race /\ pc \notin {"aside", "note"})
    /\ disk' = [disk EXCEPT ![At(p)] = User]
    /\ users' = users \cup {p}
    /\ UNCHANGED <<db, tx, stuck, loc, arch, dir, pc, act, dea, force, clock,
                   faults, before, result>>

-----------------------------------------------------------------------------
ActivateStep ==
    \/ \E e \in Entries : DeactivateOld(e) \/ DeactivateReplaced(e)
    \/ Extract \/ SetLocation \/ DropArchive
    \/ \E p \in Paths : ScanFile(p) \/ ForceFile(p) \/ MoveAside(p) \/ ScanError(p)
    \/ NoteBackup \/ ScanDone
    \/ Register \/ RegisterError
    \/ \E p \in Paths : PutFile(p) \/ SkipFile(p) \/ RenameRow(p)
    \/ AppendRollback \/ StartRenamed \/ PutRenamed \/ SetInstalled
    \/ Commit \/ Finish

RollBackStep ==
    \/ \E p \in Paths : UndoFile(p) \/ Restore(p)
    \/ UndoDone \/ RestoreDone
    \/ \E e \in Entries : Reactivate(e) \/ StillActive(e) \/ ReactivateError(e)
    \/ Rethrow

DeactivateStep ==
    \/ DeactivateBegin \/ DeactivateStuck \/ DeactivateCommit \/ DeactivateEnd
    \/ \E l \in Locs : DeleteFile(l)

\* What the process does by itself once an operation has begun.
Step == ActivateStep \/ RollBackStep \/ DeactivateStep

Failure == IoError \/ AttributesError \/ DeleteError \/ CommitError \/ Signal \/ Crash

Start ==
    \/ \E e \in Entries, asked \in BOOLEAN : StartActivate(e, asked)
    \/ \E e \in Entries : StartDeactivate(e)
    \/ NewProcess

Next == Start \/ Step \/ Failure \/ \E p \in Paths : UserCreates(p)

\* An operation that has begun goes on; nothing forces one to begin.
Spec == Init /\ [][Next]_vars /\ WF_vars(Step)

-----------------------------------------------------------------------------
(* Properties *)

ForcedRows == [own : Entries, img : Paths, moved : BOOLEAN]
ActType == [ent : Entries \cup {None}, ren : [Paths -> Paths],
            stamp : 0..MaxStamp, olds : SUBSET Entries, xdir : SUBSET Paths,
            scan : SUBSET Paths, moving : SUBSET Paths, now : SUBSET Paths,
            backups : SUBSET Paths, forced : SUBSET ForcedRows, twice : SUBSET Entries,
            replaced : SUBSET Entries, todo : SUBSET (Entries \cup Paths),
            files : SUBSET Paths, renamed : BOOLEAN, rb : SUBSET Paths, undo : BOOLEAN]
DeaType == [ent : Entries \cup {None}, files : SUBSET Locs, try : {1, 2},
            ret : {"idle", "olds", "replaced"}]
BeforeType == [disk : [Locs -> Content], db : Registry, ent : Entries \cup {None}]
Results == {"none", "ok", "error", "crash"}
Pcs == {"idle", "olds", "convert", "drop", "scan", "aside", "note", "replaced",
        "put", "append", "rename", "commit", "committed", "undo", "restore",
        "reactivate", "dbegin", "ddelete", "dend"}

\* The state is well formed: what the code keeps in each of its variables and
\* locals, the registry's columns and the files on disk.
TypeOK ==
    /\ disk \in [Locs -> Content]
    /\ db \in Registry /\ tx \in Registry
    /\ stuck \in BOOLEAN /\ force \in BOOLEAN
    /\ loc \in [Entries -> {"archive", "directory"}]
    /\ arch \in SUBSET Entries
    /\ dir \in [Entries -> SUBSET Paths]
    /\ pc \in Pcs /\ act \in ActType /\ dea \in DeaType
    /\ clock \in 0..MaxStamp /\ faults \in 0..MaxFaults
    /\ users \in SUBSET UserPaths
    /\ before \in BeforeType /\ result \in Results

\* In the committed registry no file on disk is claimed twice, whatever is
\* forced aside, renamed, undone or interrupted: reg_entry_activate refuses a
\* location in use, and forced owners give theirs up in the same transaction.
NoFileOwnedTwice == OneOwner(db)

\* A port that is not recorded as active has no active files: the rows and the
\* state change in one transaction, and a rolled back one leaves neither.
InactiveOwnsNothing == ActiveRowsInstalled(db)

\* At most one version of a port is active: activate deactivates the others
\* first, and does not go on if that fails.
OneActive ==
    \A e1, e2 \in Entries :
        PortOf[e1] = PortOf[e2] /\ db.state[e1] = "installed" /\ db.state[e2] = "installed"
            => e1 = e2

\* Between operations the registry and the disk agree: a port's file is at a
\* location exactly if the registry says so.  Unless SameSecond: a backup that
\* is replaced may be a port's.
Consistent ==
    pc = "idle" => \A l \in Locs, e \in Entries : e \in Owners(db, l) <=> disk[l] = e

\* No operation destroys a file of no port: it stays where it is or is moved to
\* a backup path.  Unless SameSecond: a later forced activation may then move
\* another file to the same backup path, over the first.
UserFilesSurvive ==
    \A p \in users : \E s \in 0..MaxStamp : disk[<<p, s>>] = User

\* An inactive port can be activated again: its archive is there, or its image
\* directory is complete.
ImageSurvives ==
    pc = "idle" => \A e \in Entries : db.state[e] = "imaged" =>
        IF loc[e] = "archive" THEN e \in arch ELSE dir[e] = Image[e]

\* An activation that fails leaves every other port as it was: the same ports
\* active, their files in the same places.
AbortIsClean ==
    [][ (pc # "idle" /\ result' = "error" /\ before.ent # None) =>
            \A e \in Entries : PortOf[e] # PortOf[before.ent] =>
                /\ db'.state[e] = before.db.state[e]
                /\ \A l \in Locs : before.disk[l] = e <=> disk'[l] = e ]_vars

\* The committed registry only ever changes by whole activations and
\* deactivations, of one port at a time: errors, signals, failing commits and
\* crashes never leave a part of one behind.
Active == INSTANCE ActivePorts WITH reg <- db
ActivePortsSpec == Active!Spec
=============================================================================
