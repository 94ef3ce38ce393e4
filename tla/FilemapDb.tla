----------------------------- MODULE FilemapDb -----------------------------
(***************************************************************************)
(* Filemaps (pextlib1.0/filemap.c) in several processes: a tree in memory, *)
(* read from a database file under a lock on a second file and written     *)
(* back through a temporary file.  A process has one map open at a time,   *)
(* as the only client does (registry2.0/receipt_flat.tcl, open_file_map).  *)
(* Calls of one process on its tree are one step; opening waits for the    *)
(* lock, and a save is one step per node, each of which may fail or be the *)
(* last the process does.  The tree is given by its operators (PathTree).  *)
(***************************************************************************)
EXTENDS PathNames, SequencesExt

CONSTANTS
    Procs,
    Owners,       \* the processes that may write and create the files
    Paths, Values,
    InitFiles,    \* what the database may hold at the start, <<>> for no file
    MaxEdits,     \* bound: set and unset
    MaxFaults,    \* bound: failed calls of the system and ends of processes
    Trees,        \* the trees there may be
    EmptyTree,    \* the one of a new filemap
    Null,         \* a root that is a null pointer, after a failed revert
    TreeSet(_, _, _), \* root, path, value -> [root, err]
    TreeDelete(_, _), \* root, path -> [root, err]
    TreeGet(_, _),    \* root, path -> the value, or NoValue
    TreeList(_, _),   \* root, value -> the paths that have it
    TreeImage(_),     \* root -> the items of its file
    TreeLoad(_)       \* items -> [root, err]

ASSUME FilemapAssumption == Owners \subseteq Procs /\ NoValue \notin Values

VARIABLES
    db,           \* the items of the database file
    temp,         \* those of <database>.w
    lockFile,     \* whether <database>.lock exists
    lock,         \* the lock each process holds on it
    step,         \* where each process is
    map,          \* its filemap: [root, readonly, dirty, ram, out]
    edits, faults, \* counters of the bounds
    content,      \* history: what each map should hold, path by path
    saved,        \* history: what the last completed save held
    version,      \* history: completed saves
    base          \* history: the version each map is derived from

files == <<db, temp, lockFile>>
history == <<content, saved, version, base>>
fileVars == <<files, lock, step, map, edits, faults, history>>

NoMap ==
    [root |-> Null, readonly |-> FALSE, dirty |-> FALSE, ram |-> FALSE,
     out |-> <<>>]

\* The content of a map, path by path, whatever the case of the letters.
NoContent == [path \in {} |-> NoValue]
NormPaths == {Norm(path) : path \in Paths}
ContentOf(root) ==
    [q \in {q \in NormPaths : TreeGet(root, q) # NoValue} |-> TreeGet(root, q)]
With(old, path, value) ==
    [q \in DOMAIN old \cup {Norm(path)} |-> IF q = Norm(path) THEN value ELSE old[q]]
Without(old, path) == Restrict(old, {q \in DOMAIN old : ~IsPrefix(Norm(path), q)})

\* What the commands that only read answer of a tree.
FilemapGet(root, path) == TreeGet(root, path)
FilemapExists(root, path) == TreeGet(root, path) # NoValue
FilemapList(root, value) == TreeList(root, value)

\* They answer what an ordinary map of paths would, and list each path once.
Reads(root, old) ==
    /\ \A path \in Paths : path # <<>> /\ Last(path) # <<>> =>
        /\ FilemapExists(root, path) <=> Norm(path) \in DOMAIN old
        /\ FilemapExists(root, path) => FilemapGet(root, path) = old[Norm(path)]
    /\ \A value \in Values :
        LET paths == FilemapList(root, value)
            listed == [i \in DOMAIN paths |-> Norm(paths[i])]
        IN  IsInjective(listed) /\ ToSet(listed) = {q \in DOMAIN old : old[q] = value}

\* What a tree is to those who use it: a map of paths that an edit changes at its
\* path, or not at all, and that comes back from its file.
ASSUME TreeAssumption ==
    /\ EmptyTree \in Trees /\ Null \notin Trees /\ ContentOf(EmptyTree) = NoContent
    /\ \A root \in Trees :
        /\ TreeImage(root) \in Seq(Range(TreeImage(root)))
        /\ TreeLoad(TreeImage(root)) = [root |-> root, err |-> ""]
        /\ \A path \in Paths, value \in Values :
            LET set == TreeSet(root, path, value) IN
            /\ set.root \in Trees
            /\ ContentOf(set.root) = IF set.err = "" THEN With(ContentOf(root), path, value)
                                     ELSE ContentOf(root)
        /\ \A path \in Paths :
            LET unset == TreeDelete(root, path) IN
            unset.err # "crash" =>
                /\ unset.root \in Trees
                /\ ContentOf(unset.root) = IF unset.err = "" THEN Without(ContentOf(root), path)
                                           ELSE ContentOf(root)
        /\ Reads(root, ContentOf(root))
    /\ \A items \in InitFiles : TreeLoad(items).err = "" => TreeLoad(items).root \in Trees

FileInit ==
    /\ db \in InitFiles /\ temp = <<>> /\ lockFile = FALSE
    /\ lock = [p \in Procs |-> "none"]
    /\ step = [p \in Procs |-> "idle"]
    /\ map = [p \in Procs |-> NoMap]
    /\ edits = 0 /\ faults = 0
    /\ content = [p \in Procs |-> NoContent]
    /\ saved = IF TreeLoad(db).err = "" THEN ContentOf(TreeLoad(db).root)
               ELSE NoContent
    /\ version = 0 /\ base = [p \in Procs |-> 0]

SetStep(p, s) == step' = [step EXCEPT ![p] = s]
SetMap(p, m) == map' = [map EXCEPT ![p] = m]
SetLock(p, l) == lock' = [lock EXCEPT ![p] = l]
Fault == faults < MaxFaults /\ faults' = faults + 1

(* fcntl with F_SETLKW: a write lock excludes all others.                  *)
CanLock(p, l) ==
    \A q \in Procs \ {p} :
        lock[q] = "none" \/ (l = "read" /\ lock[q] = "read")

(* A process has no filemap, and may open one, or has one whose tree it    *)
(* can use.                                                                *)
Closed(p) == step[p] = "idle"
Open(p) == step[p] = "open"
Usable(p) == Open(p) /\ map[p].root # Null

FilemapIsReadOnly(p) == map[p].readonly

(* filemap open waits for a write lock or, with the readonly option or     *)
(* where the lock file cannot be written, for a read lock.                 *)
FilemapOpen(p, readonly) ==
    LET write == ~readonly /\ p \in Owners
    IN  /\ Closed(p)
        /\ p \in Owners \/ lockFile
        /\ lockFile' = TRUE
        /\ SetMap(p, [NoMap EXCEPT !.readonly = ~write])
        /\ SetStep(p, "lock")
        /\ UNCHANGED <<db, temp, lock, edits, faults, history>>

GetLockMutNoWait(p) ==
    /\ step[p] = "lock"
    /\ SetLock(p, IF map[p].readonly THEN "read" ELSE "write")
    /\ SetStep(p, "load")
    /\ UNCHANGED <<files, map, edits, faults, history>>

GetLock(p) ==
    LET l == IF FilemapIsReadOnly(p) THEN "read" ELSE "write"
    IN  /\ step[p] = "lock" /\ CanLock(p, l)
        /\ SetLock(p, l) /\ SetStep(p, "load")
        /\ UNCHANGED <<files, map, edits, faults, history>>

(* Load creates the file where it can.  An empty file and no file are one  *)
(* here, as they are for Load.                                             *)
CanRead(p) == db # <<>> \/ p \in Owners

Adopt(p, root) ==
    /\ SetMap(p, [map[p] EXCEPT !.root = root, !.dirty = FALSE])
    /\ content' = [content EXCEPT ![p] = saved]
    /\ base' = [base EXCEPT ![p] = version]
    /\ UNCHANGED <<saved, version>>

Drop(p) ==
    /\ SetMap(p, NoMap) /\ SetLock(p, "none") /\ SetStep(p, "idle")
    /\ content' = [content EXCEPT ![p] = NoContent]
    /\ base' = [base EXCEPT ![p] = 0]
    /\ UNCHANGED <<saved, version>>

LoadMap(p) ==
    /\ step[p] = "load"
    /\ IF CanRead(p) /\ TreeLoad(db).err = ""
       THEN Adopt(p, TreeLoad(db).root) /\ SetStep(p, "open") /\ UNCHANGED lock
       ELSE Drop(p)
    /\ UNCHANGED <<files, edits, faults>>

(* The database cannot be opened or read: the lock is closed.              *)
LoadFails(p) ==
    /\ step[p] = "load" /\ Fault
    /\ Drop(p)
    /\ UNCHANGED <<files, edits>>

FilemapCreate(p) ==
    /\ Closed(p)
    /\ SetMap(p, [NoMap EXCEPT !.root = EmptyTree, !.ram = TRUE])
    /\ SetStep(p, "open")
    /\ UNCHANGED <<files, lock, edits, faults, history>>

(* What set and unset make of the abstract content.  A crash ends the      *)
(* process.                                                                *)
Change(p, result, new) ==
    /\ edits' = edits + 1
    /\ IF result.err = "crash" THEN Drop(p)
       ELSE /\ SetMap(p, [map[p] EXCEPT !.root = result.root, !.dirty = TRUE])
            /\ content' = [content EXCEPT
                    ![p] = IF result.err = "" THEN new ELSE @]
            /\ UNCHANGED <<lock, step, saved, version, base>>
    /\ UNCHANGED <<files, faults>>

FilemapSet(p, path, value) ==
    /\ Usable(p) /\ edits < MaxEdits /\ ~FilemapIsReadOnly(p)
    /\ Change(p, TreeSet(map[p].root, path, value), With(content[p], path, value))

FilemapUnset(p, path) ==
    /\ Usable(p) /\ edits < MaxEdits /\ ~FilemapIsReadOnly(p)
    /\ Change(p, TreeDelete(map[p].root, path), Without(content[p], path))

(* Any call on a tree that is a null pointer ends the process.             *)
NullDeref(p) ==
    /\ Open(p) /\ map[p].root = Null
    /\ Drop(p)
    /\ UNCHANGED <<files, edits, faults>>

(* revert frees the tree first, and leaves a null pointer when the file    *)
(* cannot be read.                                                         *)
FilemapRevert(p) ==
    /\ Open(p) /\ ~map[p].ram
    /\ Adopt(p, TreeLoad(db).root)
    /\ UNCHANGED <<files, lock, step, edits, faults>>

\* Mutant: a failed read leaves an empty tree.
RevertFailsMutEmpty(p) ==
    /\ Open(p) /\ ~map[p].ram /\ Fault
    /\ SetMap(p, [map[p] EXCEPT !.root = EmptyTree, !.dirty = FALSE])
    /\ UNCHANGED <<files, lock, step, edits, history>>

RevertFails(p) ==
    /\ Open(p) /\ ~map[p].ram /\ Fault
    /\ SetMap(p, [map[p] EXCEPT !.root = Null, !.dirty = FALSE])
    /\ UNCHANGED <<files, lock, step, edits, history>>

(* save and close: Save opens the temporary file, empty, writes it node by *)
(* node and renames it.                                                    *)
SaveStarts(p, then) ==
    /\ temp' = <<>>
    /\ SetMap(p, [map[p] EXCEPT !.out = TreeImage(map[p].root)])
    /\ SetStep(p, then)
    /\ UNCHANGED <<db, lockFile, lock, edits, faults, history>>

FilemapSave(p) ==
    /\ Usable(p) /\ ~map[p].ram /\ map[p].dirty
    /\ SaveStarts(p, "save")

FilemapClose(p) ==
    IF map[p].dirty /\ ~map[p].ram
    THEN Usable(p) /\ SaveStarts(p, "close")
    ELSE Open(p) /\ Drop(p) /\ UNCHANGED <<files, edits, faults>>

Saving(p) == step[p] \in {"save", "close"}

SaveWrite(p) ==
    /\ Saving(p) /\ map[p].out # <<>>
    /\ temp' = Append(temp, Head(map[p].out))
    /\ SetMap(p, [map[p] EXCEPT !.out = Tail(@)])
    /\ UNCHANGED <<db, lockFile, lock, step, edits, faults, history>>

(* What save and close do when Save returns: save is no longer dirty, and  *)
(* close unsets the variable, with an error or without.                    *)
AfterSave(p, done) ==
    IF step[p] = "close"
    THEN /\ SetMap(p, NoMap) /\ SetLock(p, "none") /\ SetStep(p, "idle")
         /\ content' = [content EXCEPT ![p] = NoContent]
         /\ base' = [base EXCEPT ![p] = 0]
    ELSE /\ SetMap(p, [map[p] EXCEPT !.dirty = FALSE, !.out = <<>>])
         /\ SetStep(p, "open")
         /\ base' = [base EXCEPT ![p] = IF done THEN version' ELSE @]
         /\ UNCHANGED <<lock, content>>

SaveRename(p) ==
    /\ Saving(p) /\ map[p].out = <<>>
    /\ db' = temp /\ temp' = <<>>
    /\ saved' = content[p] /\ version' = version + 1
    /\ AfterSave(p, TRUE)
    /\ UNCHANGED <<lockFile, edits, faults>>

SaveFailsMutRenames(p) ==
    /\ Saving(p) /\ Fault
    /\ db' = temp /\ temp' = <<>>
    /\ AfterSave(p, FALSE)
    /\ UNCHANGED <<lockFile, edits, saved, version>>

SaveFails(p) ==
    /\ Saving(p) /\ Fault
    /\ AfterSave(p, FALSE)
    /\ UNCHANGED <<files, edits, saved, version>>

(* The process ends, at any step; the system closes the lock.              *)
Crash(p) ==
    /\ ~Closed(p) /\ Fault
    /\ Drop(p)
    /\ UNCHANGED <<files, edits>>

Call(p) ==
    \/ \E readonly \in BOOLEAN : FilemapOpen(p, readonly)
    \/ FilemapCreate(p)
    \/ \E path \in Paths, value \in Values : FilemapSet(p, path, value)
    \/ \E path \in Paths : FilemapUnset(p, path)
    \/ FilemapRevert(p) \/ RevertFails(p)
    \/ FilemapSave(p) \/ FilemapClose(p)
    \/ NullDeref(p)

Within(p) ==
    \/ GetLock(p) \/ LoadMap(p) \/ LoadFails(p)
    \/ SaveWrite(p) \/ SaveRename(p) \/ SaveFails(p)

FileNext == \E p \in Procs : Call(p) \/ Within(p) \/ Crash(p)

FileSpec == FileInit /\ [][FileNext]_fileVars

\* Whatever was set and unset, in whatever order, with or without errors, and
\* read back from the file, get finds on every path what an ordinary map of
\* paths would hold, and list finds each of them once.
TreeIsMap == \A p \in Procs : Usable(p) => Reads(map[p].root, content[p])

\* The database file can be read at every moment and holds what the last
\* completed save wrote, whatever saves failed or were cut short, unless it
\* was no filemap to begin with.
SavedIsWhole ==
    IF TreeLoad(db).err = "" THEN ContentOf(TreeLoad(db).root) = saved
    ELSE db \in InitFiles /\ version = 0

\* No save overwrites one it has not read: a map that can be written is
\* derived from what the file holds.
NoLostUpdate ==
    \A p \in Procs :
        Open(p) \/ Saving(p) => map[p].ram \/ base[p] = version
=============================================================================
