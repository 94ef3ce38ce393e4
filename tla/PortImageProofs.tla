-------------------------- MODULE PortImageProofs --------------------------
(***************************************************************************)
(* What activation and deactivation keep true for any ports, images,       *)
(* renames, modes and faults: the registry names one owner for every file  *)
(* on disk, inactive ports own nothing, one version of a port is active,   *)
(* and the committed registry changes as ActivePorts says.  Then what they *)
(* keep true of files: images survive, files of no port survive, the       *)
(* registry agrees with the disk, and an activation that fails leaves      *)
(* other ports as they were.  One lemma for each action, or group of       *)
(* actions, shows that it keeps the inductive invariant.                   *)
(***************************************************************************)
EXTENDS PortImage, TLAPS

-----------------------------------------------------------------------------
(* What the registry's operations on files return and preserve.             *)

\* A location is not the empty value.
LEMMA AtNotOff == \A p : At(p) # Off
BY DEF At, Off

\* reg_entry_activate changes the rows it is given, of its entry, and no other.
LEMMA ActivateRow ==
    ASSUME NEW r \in Registry, NEW e \in Entries, NEW m, NEW o \in Entries, NEW q \in Paths
    PROVE  Activate(r, e, m).row[o][q] = IF o = e /\ q \in DOMAIN m THEN m[q] ELSE r.row[o][q]
BY DEF Activate, Registry

\* It leaves a registry, and the states as they were.
LEMMA ActivateRegistry ==
    ASSUME NEW r \in Registry, NEW e \in Entries, NEW m,
           \A q \in DOMAIN m : m[q] \in Locs
    PROVE  Activate(r, e, m) \in Registry /\ Activate(r, e, m).state = r.state
BY DEF Activate, Registry

\* reg_entry_deactivate empties the rows of its entry that are at one of the locations.
LEMMA DeactivateRow ==
    ASSUME NEW r \in Registry, NEW e \in Entries, NEW L, NEW o \in Entries, NEW q \in Paths
    PROVE  Deactivate(r, e, L).row[o][q] =
               IF o = e /\ r.row[e][q] \in L THEN Off ELSE r.row[o][q]
BY DEF Deactivate, Registry

\* It leaves a registry, and the states as they were.
LEMMA DeactivateRegistry ==
    ASSUME NEW r \in Registry, NEW e \in Entries, NEW L
    PROVE  Deactivate(r, e, L) \in Registry /\ Deactivate(r, e, L).state = r.state
BY DEF Deactivate, Registry

\* Setting the state changes no row.
LEMMA SetStateRegistry ==
    ASSUME NEW r \in Registry, NEW e \in Entries, NEW s \in {"imaged", "installed"}
    PROVE  /\ SetState(r, e, s) \in Registry
           /\ SetState(r, e, s).row = r.row
           /\ SetState(r, e, s).state = [r.state EXCEPT ![e] = s]
BY DEF SetState, Registry

\* Deactivating all files of an entry leaves it without any.
LEMMA FilesOff ==
    ASSUME NEW r \in Registry, NEW e \in Entries, NEW q \in Paths
    PROVE  Deactivate(r, e, Files(r, e)).row[e][q] = Off
BY DeactivateRow DEF Files

\* Because it refuses a location in use, every location keeps at most one owner.
LEMMA ActivateOneOwner ==
    ASSUME NEW r \in Registry, NEW e \in Entries, NEW m, OneOwner(r), CanActivate(r, e, m)
    PROVE  OneOwner(Activate(r, e, m))
<1>1. SUFFICES ASSUME NEW a \in Entries, NEW b \in Entries, NEW p \in Paths, NEW q \in Paths,
                      Activate(r, e, m).row[a][p] = Activate(r, e, m).row[b][q],
                      Activate(r, e, m).row[a][p] # Off
               PROVE  a = b /\ p = q
  BY DEF OneOwner
<1>2. CASE a = e /\ p \in DOMAIN m
  BY <1>1, <1>2, ActivateRow DEF CanActivate, Owners
<1>3. CASE b = e /\ q \in DOMAIN m
  BY <1>1, <1>3, ActivateRow DEF CanActivate, Owners
<1>4. CASE ~ (a = e /\ p \in DOMAIN m) /\ ~ (b = e /\ q \in DOMAIN m)
  BY <1>1, <1>4, ActivateRow DEF OneOwner
<1> QED BY <1>2, <1>3, <1>4

\* Emptied rows own nothing, so every location keeps at most one owner.
LEMMA DeactivateOneOwner ==
    ASSUME NEW r \in Registry, NEW e \in Entries, NEW L, OneOwner(r)
    PROVE  OneOwner(Deactivate(r, e, L))
<1>1. SUFFICES ASSUME NEW a \in Entries, NEW b \in Entries, NEW p \in Paths, NEW q \in Paths,
                      Deactivate(r, e, L).row[a][p] = Deactivate(r, e, L).row[b][q],
                      Deactivate(r, e, L).row[a][p] # Off
               PROVE  a = b /\ p = q
  BY DEF OneOwner
<1> QED BY <1>1, DeactivateRow DEF OneOwner

-----------------------------------------------------------------------------
(* The inductive invariant.                                                 *)

DeaPcs == {"dbegin", "ddelete", "dend"}
WritePcs == {"put", "append", "rename", "commit"}     \* in the transaction
BeforeWrite ==
    \/ pc \in {"olds", "convert", "drop", "scan", "aside", "note", "replaced"}
    \/ pc \in DeaPcs /\ dea.ret # "idle"
Forward == BeforeWrite \/ pc \in WritePcs             \* an activation is under way
AtOlds == pc = "olds" \/ (pc \in DeaPcs /\ dea.ret = "olds")
AtReplaced == pc = "replaced" \/ (pc \in DeaPcs /\ dea.ret = "replaced")

\* What is committed.
DbOK == OneOwner(db) /\ ActiveRowsInstalled(db) /\ OneActive

\* The port being activated is inactive until the commit, and a forced
\* activation has a backup suffix.
EntOK == Forward =>
    /\ act.ent \in Entries /\ db.state[act.ent] = "imaged"
    /\ force => act.stamp > 0

\* Another version of it is active only as long as it is waiting to be
\* deactivated or being deactivated.
OldsOK ==
    /\ Forward => \A o \in Entries :
        PortOf[o] = PortOf[act.ent] /\ db.state[o] = "installed" =>
            \/ AtOlds /\ o \in act.olds
            \/ pc \in {"dbegin", "ddelete"} /\ dea.ret = "olds" /\ o = dea.ent
    /\ AtOlds => \A o \in act.olds : o \in Entries /\ db.state[o] = "installed"

\* So are the ports that this one replaces.
ReplacedOK ==
    /\ pc \in {"scan", "aside", "note"} =>
        \A o \in act.replaced : o \in Entries /\ db.state[o] = "installed"
    /\ pc \in {"olds", "convert", "drop"} => act.replaced = {}
    /\ pc \in DeaPcs /\ dea.ret = "olds" => act.replaced = {}
    /\ AtReplaced => \A o \in act.todo : o \in Entries /\ db.state[o] = "installed"

\* What is being deactivated is active until its commit.
DeaOK ==
    /\ pc \in DeaPcs => dea.ent \in Entries
    /\ pc = "dend" => db.state[dea.ent] = "imaged"
    /\ pc \in {"dbegin", "ddelete"} =>
        /\ db.state[dea.ent] = "installed"
        /\ dea.ret = "olds" => dea.ent \notin act.olds
        /\ dea.ret = "replaced" => dea.ent \notin act.todo

\* The rows to be moved are in the way of the image, or inactive by now.
ForcedOK == BeforeWrite => \A f \in act.forced :
    /\ \/ db.row[f.own][f.img] = Off
       \/ \E p \in Image[act.ent] : db.row[f.own][f.img] = At(p)
    /\ act.stamp > 0

\* What the registry looks like, seen from inside the transaction.
Yields(o, q) ==
    \/ tx.row[o][q] = db.row[o][q]
    \/ \E p \in Image[act.ent] :
        /\ db.row[o][q] = At(p)
        /\ tx.row[o][q] = Off \/ \E s \in 1..MaxStamp : tx.row[o][q] = Backup(p, s)
Pending ==
    /\ OneOwner(tx)
    /\ \A q \in Paths : IF q \in Image[act.ent] THEN \E p \in Paths : tx.row[act.ent][q] = At(p)
                                                ELSE tx.row[act.ent][q] = Off
    /\ \A o \in Entries \ {act.ent}, q \in Paths : Yields(o, q)
    /\ pc \in {"put", "append"} /\ ~ act.renamed =>
        \A q \in Image[act.ent] : tx.row[act.ent][q] = At(q)
    /\ pc = "rename" => /\ act.renamed
                        /\ \A q \in act.todo : q \in Image[act.ent]
                              /\ tx.row[act.ent][q] = At(q)
TxOK ==
    /\ pc \notin WritePcs \cup {"ddelete"} => tx = db
    /\ pc = "ddelete" => tx = Deactivate(db, dea.ent, Files(db, dea.ent))
    /\ pc \in {"put", "append", "rename"} => tx.state = db.state /\ Pending
    /\ pc = "commit" => tx.state = [db.state EXCEPT ![act.ent] = "installed"] /\ Pending

\* The inductive invariant.
StateOK == DbOK /\ EntOK /\ OldsOK /\ ReplacedOK /\ DeaOK /\ ForcedOK /\ TxOK
IInv == TypeOK /\ StateOK

\* The part of the state that errors and ends change.
LocalsOK == /\ pc \in Pcs /\ act \in ActType /\ dea \in DeaType
            /\ before \in BeforeType /\ result \in Results
\* The locals the invariant speaks of.
Kept == <<act.ent, act.stamp, act.olds, act.forced, act.replaced, act.todo, act.renamed>>

-----------------------------------------------------------------------------
(* Types *)

\* What images, renames and paths are made of.
LEMMA Constants ==
    /\ \A e \in Entries : Image[e] \in SUBSET Paths
    /\ \A e \in Entries : Rename[e] \in [Paths -> Paths]
    /\ \A p \in Paths : At(p) \in Locs
    /\ \A p \in Paths, s \in 0..MaxStamp : Backup(p, s) \in Locs
BY ImageAssumption, RenameAssumption, StampAssumption DEF At, Backup, Locs
\* A fresh registry is one.
LEMMA FreshType == Fresh \in Registry
BY DEF Fresh, Registry

\* Locals that are not set are typed, ...
LEMMA NoActType == NoAct \in ActType
BY StampAssumption DEF ActType, NoAct, NoRename

\* ... those of a deactivation too, ...
LEMMA NoDeaType == NoDea \in DeaType
BY DEF DeaType, NoDea

\* ... and what is remembered between operations.
LEMMA NoBeforeType == NoBefore \in BeforeType
BY FreshType DEF NoBefore, BeforeType, Content

\* The end of an operation leaves typed locals.
LEMMA EndType ==
    ASSUME NEW r \in Results, End(r) PROVE LocalsOK'
BY NoActType, NoDeaType, NoBeforeType DEF End, LocalsOK, Pcs

\* An error leaves a registry and typed locals.
LEMMA RaiseType ==
    ASSUME TypeOK, NEW from, Raise(from) PROVE tx' \in Registry /\ LocalsOK'
<1>1. tx' \in Registry
  BY DEF Raise, TypeOK
<1>2. CASE from \in OuterTry
  <2>1. act' = IF from \in InnerTry THEN [act EXCEPT !.undo = TRUE] ELSE act
    BY <1>2 DEF Raise
  <2>2. act' \in ActType
    BY <2>1 DEF TypeOK, ActType
  <2> QED BY <1>1, <1>2, <2>2, NoDeaType DEF Raise, LocalsOK, Pcs, TypeOK
<1>3. CASE from \notin OuterTry
  BY <1>1, <1>3, EndType DEF Raise, Results
<1> QED BY <1>2, <1>3

\* So does one in a deactivation, whether it is tried again or not.
LEMMA DeactivateRaiseType ==
    ASSUME TypeOK, DeactivateRaise PROVE tx' \in Registry /\ LocalsOK'
<1>1. CASE dea.try = 2
  BY <1>1, RaiseType DEF DeactivateRaise
<1>2. CASE dea.try # 2
  <2>1. dea' = [dea EXCEPT !.files = {}, !.try = 2] /\ pc' \in {"dend", "dbegin"}
    BY <1>2 DEF DeactivateRaise
  <2>2. dea' \in DeaType
    BY <2>1 DEF TypeOK, DeaType
  <2> QED BY <1>2, <2>1, <2>2 DEF DeactivateRaise, TypeOK, LocalsOK, Pcs
<1> QED BY <1>1, <1>2

\* The call of deactivate sets typed locals.
LEMMA CallType ==
    ASSUME NEW o \in Entries, CallDeactivate(o), pc \in {"idle", "olds", "replaced"}
    PROVE  pc' \in Pcs /\ dea' \in DeaType
BY DEF CallDeactivate, Pcs, DeaType

\* What a forced activation adds to its locals is typed.
LEMMA ActForce ==
    ASSUME act \in ActType, NEW S, NEW X \in SUBSET Entries,
         NEW F \in SUBSET ForcedRows,
           NEW T \in SUBSET Entries, NEW M \in SUBSET Paths
    PROVE  [act EXCEPT !.scan = @ \ S, !.replaced = X, !.forced = @ \cup F,
                       !.twice = @ \cup T, !.moving = M] \in ActType
BY DEF ActType

-----------------------------------------------------------------------------
(* The rows of forced owners *)

\* MoveRows changes the rows it is given: to the backup path, or to none.
LEMMA MoveRow ==
    ASSUME NEW r \in Registry, NEW F, NEW s, NEW o \in Entries, NEW q \in Paths
    PROVE  MoveRows(r, F, s).row[o][q] =
              IF [own |-> o, img |-> q, moved |-> TRUE] \in F THEN Backup(q, s)
              ELSE IF [own |-> o, img |-> q, moved |-> FALSE] \in F THEN Off
              ELSE r.row[o][q]
BY DEF MoveRows, Registry

\* It leaves a registry, and the states as they were.
LEMMA MoveRegistry ==
    ASSUME NEW r \in Registry, NEW F, NEW s \in 0..MaxStamp
    PROVE  MoveRows(r, F, s) \in Registry /\ MoveRows(r, F, s).state = r.state
<1>1. \A q \in Paths : Backup(q, s) \in Locs
  BY DEF Backup, Locs
<1> QED BY <1>1 DEF MoveRows, Registry

\* If the backup paths are free, every location keeps at most one owner.
LEMMA MoveOneOwner ==
    ASSUME NEW r \in Registry, NEW F, NEW s, OneOwner(r), CanMove(r, F, s)
    PROVE  OneOwner(MoveRows(r, F, s))
<1> DEFINE mv(o, q) == [own |-> o, img |-> q, moved |-> TRUE] \in F
           off(o, q) == [own |-> o, img |-> q, moved |-> FALSE] \in F
<1>1. SUFFICES ASSUME NEW a \in Entries, NEW b \in Entries, NEW p \in Paths,
     NEW q \in Paths,
                      MoveRows(r, F, s).row[a][p] = MoveRows(r, F, s).row[b][q],
                      MoveRows(r, F, s).row[a][p] # Off
               PROVE  a = b /\ p = q
  BY DEF OneOwner
<1>2. \A o \in Entries, x \in Paths :
        mv(o, x) => r.row[o][x] = At(x) /\ Owners(r, Backup(x, s)) = {}
  BY DEF CanMove
<1>m. \A o \in Entries, x \in Paths :
        MoveRows(r, F, s).row[o][x] =
            IF mv(o, x) THEN Backup(x, s) ELSE IF off(o,
                 x) THEN Off ELSE r.row[o][x]
  BY DEF MoveRows, Registry
<1> HIDE DEF mv, off
<1>3. ~ off(a, p) \/ mv(a, p)
  BY <1>1, <1>m
<1>4. ~ off(b, q) \/ mv(b, q)
  BY <1>1, <1>m
<1>5. CASE mv(a, p) /\ mv(b, q)
  <2>1. Backup(p, s) = Backup(q, s)
    BY <1>1, <1>5, <1>m
  <2>2. p = q
    BY <2>1 DEF Backup
  <2>3. r.row[a][p] = At(p) /\ r.row[b][p] = At(p) /\ At(p) # Off
    BY <1>2, <1>5, <2>2, AtNotOff
  <2> QED BY <2>2, <2>3 DEF OneOwner
<1>6. CASE mv(a, p) /\ ~ mv(b, q)
  <2>1. r.row[b][q] = Backup(p, s)
    BY <1>1, <1>4, <1>6, <1>m
  <2>2. b \in Owners(r, Backup(p, s))
    BY <2>1 DEF Owners
  <2> QED BY <1>2, <1>6, <2>2
<1>7. CASE ~ mv(a, p) /\ mv(b, q)
  <2>1. r.row[a][p] = Backup(q, s)
    BY <1>1, <1>3, <1>7, <1>m
  <2>2. a \in Owners(r, Backup(q, s))
    BY <2>1 DEF Owners
  <2> QED BY <1>2, <1>7, <2>2
<1>8. CASE ~ mv(a, p) /\ ~ mv(b, q)
  BY <1>1, <1>3, <1>4, <1>8, <1>m DEF OneOwner
<1> QED BY <1>5, <1>6, <1>7, <1>8

\* The owner of a path is active.
LEMMA OwnersInstalled ==
    ASSUME NEW r \in Registry, ActiveRowsInstalled(r), NEW p, NEW o \in Owners(r,
         At(p))
    PROVE  o \in Entries /\ r.state[o] = "installed"
<1>1. PICK q \in Paths : r.row[o][q] = At(p)
  BY DEF Owners
<1>2. At(p) \in Files(r, o)
  BY <1>1, AtNotOff DEF Files
<1> QED BY <1>2 DEF ActiveRowsInstalled, Owners

\* So are the ports that the new one replaces.
LEMMA ReplacedInstalled ==
    ASSUME IInv, NEW o \in Replaced PROVE o \in Entries /\ db.state[o] = "installed"
BY OwnersInstalled DEF Replaced, Conflicting, IInv, StateOK, DbOK, TypeOK

\* A reactivation moves only rows that are in the way of its image.
LEMMA ConflictMoves ==
    ASSUME IInv, NEW e \in Entries, NEW s \in 0..MaxStamp, NEW o \in Entries,
         NEW q \in Paths,
           CanMove(db, NestedRows(e), s),
           NestedReg(e, s).row[o][q] # db.row[o][q]
    PROVE  /\ q \in Image[e] /\ db.row[o][q] = At(q)
           /\ NestedReg(e, s).row[o][q] \in {Off, Backup(q, s)}
<1> DEFINE t(b) == [own |-> o, img |-> q, moved |-> b]
<1>1. NestedReg(e, s).row[o][q] = IF t(TRUE) \in NestedRows(e) THEN Backup(q, s)
                                  ELSE IF t(FALSE) \in NestedRows(e) THEN Off ELSE db.row[o][q]
  BY MoveRow DEF NestedReg, IInv, TypeOK
<1>2. \A b \in BOOLEAN : t(b).own = o /\ t(b).img = q
  OBVIOUS
<1> HIDE DEF t
<1>3. PICK f \in NestedRows(e) : f.own = o /\ f.img = q
  BY <1>1, <1>2
<1>4. db.row[o][q] = At(q)
  BY <1>3 DEF CanMove
<1>5. PICK p \in Image[e] : db.row[o][q] = At(p)
  BY <1>3 DEF NestedRows, ConflictRows
<1>6. p = q
  BY <1>4, <1>5 DEF At
<1> QED BY <1>1, <1>4, <1>5, <1>6

-----------------------------------------------------------------------------
(* Steps that end, fail or advance *)

\* The committed registry is as it was.
LEMMA DbSame == ASSUME IInv, UNCHANGED db PROVE DbOK'
BY DEF IInv, StateOK, DbOK, OneActive

\* Between operations and in the error clause the invariant only speaks of what
\* is committed.
LEMMA Outside ==
    ASSUME DbOK', tx' = db', pc' \in {"idle", "committed", "undo", "restore", "reactivate"}
    PROVE  StateOK'
<1>1. (~ Forward /\ ~ BeforeWrite /\ ~ AtOlds /\ ~ AtReplaced)'
  BY DEF Forward, BeforeWrite, AtOlds, AtReplaced, WritePcs, DeaPcs
<1> QED BY <1>1 DEF StateOK, EntOK, OldsOK, ReplacedOK, DeaOK, ForcedOK, TxOK, DeaPcs,
      WritePcs

\* The end of an operation that leaves nothing pending keeps the invariant.
LEMMA EndInv ==
    ASSUME IInv, NEW r, End(r), UNCHANGED db, tx' = db PROVE StateOK'
BY DbSame, Outside DEF End

\* An error keeps it: the transaction is gone.
LEMMA RaiseInv ==
    ASSUME IInv, NEW from, Raise(from), UNCHANGED db PROVE StateOK'
BY DbSame, Outside, EndInv DEF Raise

\* One in a deactivation keeps it, too: the port is as active as it was.

LEMMA DeactivateRaiseInv ==
    ASSUME IInv, pc \in DeaPcs, DeactivateRaise, UNCHANGED <<db,
         force>> PROVE StateOK'
<1>1. CASE dea.try = 2
  BY <1>1, RaiseInv DEF DeactivateRaise
<1>2. CASE dea.try # 2
  <2>1. DbOK' /\ act' = act /\ tx' = db
    BY <1>2 DEF DeactivateRaise, IInv, StateOK, DbOK, OneActive
  <2>2. dea'.ent = dea.ent /\ dea'.ret = dea.ret
    BY <1>2 DEF DeactivateRaise, IInv, TypeOK, DeaType
  <2>3. pc' = IF db.state[dea.ent] = "imaged" THEN "dend" ELSE "dbegin"
    BY <1>2 DEF DeactivateRaise
  <2>4. EntOK'
    BY <2>1, <2>2, <2>3
         DEF IInv, StateOK, EntOK, Forward, BeforeWrite, WritePcs, DeaPcs
  <2>5. dea.ent \in Entries /\ db.state[dea.ent] \in {"imaged", "installed"}
    BY DEF IInv, StateOK, DeaOK, TypeOK, Registry
  <2>6. OldsOK'
    BY <2>1, <2>2, <2>3, <2>5
         DEF IInv, StateOK, OldsOK, Forward, BeforeWrite, WritePcs, DeaPcs, AtOlds
  <2>7. ReplacedOK'
    BY <2>1, <2>2, <2>3 DEF IInv, StateOK, ReplacedOK, DeaPcs, AtReplaced
  <2>8. DeaOK'
    BY <2>1, <2>2, <2>3, <2>5 DEF IInv, StateOK, DeaOK, DeaPcs
  <2>9. ForcedOK'
    BY <2>1, <2>2, <2>3 DEF IInv, StateOK, ForcedOK, BeforeWrite, DeaPcs
  <2>10. TxOK'
    BY <2>1, <2>3 DEF TxOK, WritePcs
  <2> QED BY <2>1, <2>4, <2>6, <2>7, <2>8, <2>9, <2>10 DEF StateOK
<1> QED BY <1>1, <1>2

\* A step that leaves the registry and these locals alone keeps the invariant
\* as long as it stays in its part of the operation.
LEMMA Frame ==
    ASSUME IInv, UNCHANGED <<db, tx, force, Kept>>, dea'.ent = dea.ent, dea'.ret = dea.ret,
           \/ pc' = pc
           \/ pc = "convert" /\ pc' = "drop"
           \/ pc \in {"drop", "scan", "aside", "note"} /\ pc' \in {"scan", "aside", "note"}
           \/ {pc, pc'} \subseteq {"put", "append"}
    PROVE  StateOK'
<1>1. DbOK'
  BY DbSame
<1>2. EntOK' /\ OldsOK'
  BY DEF IInv, StateOK, EntOK, OldsOK, Forward, BeforeWrite, WritePcs, DeaPcs, AtOlds, Kept
<1>3. ReplacedOK' /\ DeaOK' /\ ForcedOK'
  BY DEF IInv, StateOK, ReplacedOK, DeaOK, ForcedOK, BeforeWrite, DeaPcs, AtReplaced, Kept
<1>4. TxOK'
  BY DEF IInv, StateOK, TxOK, Pending, Yields, WritePcs, DeaPcs, Kept
<1> QED BY <1>1, <1>2, <1>3, <1>4 DEF StateOK

-----------------------------------------------------------------------------
(* Start *)

\* An activation starts with the port inactive, nothing set aside, and every
\* active version of the port waiting to be deactivated.
LEMMA StartActivateStep ==
    ASSUME IInv, NEW e \in Entries, NEW asked \in BOOLEAN, StartActivate(e, asked)
    PROVE  IInv'
<1>1. TypeOK'
  <2>1. force' \in BOOLEAN /\ clock' \in 0..MaxStamp
    BY StampAssumption DEF StartActivate, Stamps, IInv, TypeOK
  <2>2. PICK ren \in {Rename[e], NoRename} :
          act' = [NoAct EXCEPT !.ent = e, !.ren = ren,
                   !.stamp = IF force' THEN clock' ELSE 0,
                   !.olds = {o \in Entries : PortOf[o] = PortOf[e]
                         /\ db.state[o] = "installed"}]
    BY DEF StartActivate
  <2>3. ren \in [Paths -> Paths] /\ (IF force' THEN clock' ELSE 0) \in 0..MaxStamp
    BY <2>1, Constants, StampAssumption DEF NoRename
  <2>4. act' \in ActType
    BY <2>2, <2>3, NoActType DEF ActType
  <2>5. before' \in BeforeType
    BY DEF StartActivate, BeforeType, IInv, TypeOK
  <2> QED BY <2>1, <2>4, <2>5 DEF StartActivate, IInv, TypeOK, Pcs, Results
<1>2. StateOK'
  <2>1. /\ TypeOK /\ pc = "idle" /\ pc' = "olds" /\ UNCHANGED <<db, tx, dea>>
        /\ db.state[e] = "imaged" /\ tx = db
    BY DEF StartActivate, IInv, StateOK, TxOK, WritePcs
  <2>2. /\ act'.ent = e /\ act'.stamp = (IF force' THEN clock' ELSE 0)
        /\ act'.forced = {} /\ act'.replaced = {}
        /\ act'.olds = {o \in Entries : PortOf[o] = PortOf[e] /\ db.state[o] = "installed"}
    BY DEF StartActivate, NoAct
  <2>3. EntOK'
    <3>1. force' => clock' > 0
      BY <2>1 DEF StartActivate, Stamps, TypeOK
    <3> QED BY <2>1, <2>2, <3>1 DEF EntOK
  <2>4. OldsOK'
    BY <2>1, <2>2 DEF OldsOK, AtOlds, DeaPcs
  <2>5. ReplacedOK' /\ DeaOK' /\ ForcedOK' /\ TxOK'
    BY <2>1, <2>2 DEF ReplacedOK, DeaOK, ForcedOK, TxOK, AtReplaced, DeaPcs, WritePcs
  <2> QED BY <2>1, <2>3, <2>4, <2>5, DbSame DEF StateOK
<1> QED BY <1>1, <1>2 DEF IInv

\* A deactivation starts on a port recorded as active.
LEMMA StartDeactivateStep == ASSUME IInv, NEW e \in Entries, StartDeactivate(e) PROVE IInv'
<1>1. TypeOK'
  <2>1. pc' \in Pcs /\ dea' \in DeaType /\ before' \in BeforeType
    BY CallType DEF StartDeactivate, BeforeType, IInv, TypeOK
  <2> QED BY <2>1 DEF StartDeactivate, IInv, TypeOK, Results
<1>2. StateOK'
  <2>1. /\ pc = "idle" /\ pc' = "dbegin" /\ dea'.ent = e /\ dea'.ret = "idle"
        /\ UNCHANGED <<db, tx>> /\ db.state[e] = "installed"
    BY DEF StartDeactivate, CallDeactivate
  <2>2. (~ Forward /\ ~ BeforeWrite /\ ~ AtOlds /\ ~ AtReplaced)'
    BY <2>1 DEF Forward, BeforeWrite, AtOlds, AtReplaced, WritePcs, DeaPcs
  <2> QED BY <2>1, <2>2, DbSame
          DEF StateOK, EntOK, OldsOK, ReplacedOK, DeaOK, ForcedOK, TxOK, DeaPcs, WritePcs,
                IInv
<1> QED BY <1>1, <1>2 DEF IInv

\* A new process sees the committed registry.
LEMMA NewProcessStep == ASSUME IInv, NewProcess PROVE IInv'
<1>1. TypeOK'
  BY DEF NewProcess, IInv, TypeOK
<1>2. StateOK'
  BY DbSame, Outside DEF NewProcess, IInv, StateOK, TxOK, WritePcs
<1> QED BY <1>1, <1>2 DEF IInv

-----------------------------------------------------------------------------
(* ActivateStep *)

\* The version to deactivate leaves the list of those waiting, and is the one
\* being deactivated.
LEMMA DeactivateOldStep == ASSUME IInv, NEW e \in Entries, DeactivateOld(e) PROVE IInv'
<1>1. TypeOK'
  <2>1. pc' \in Pcs /\ dea' \in DeaType
    BY CallType DEF DeactivateOld
  <2>2. act' \in ActType
    BY DEF DeactivateOld, IInv, TypeOK, ActType
  <2> QED BY <2>1, <2>2 DEF DeactivateOld, IInv, TypeOK
<1>2. StateOK'
  <2>1. /\ act'.ent = act.ent /\ act'.stamp = act.stamp /\ act'.forced = act.forced
        /\ act'.replaced = act.replaced /\ act'.todo = act.todo
              /\ act'.olds = act.olds \ {e}
    BY DEF DeactivateOld, IInv, TypeOK, ActType
  <2>2. /\ pc = "olds" /\ pc' = "dbegin" /\ dea'.ent = e /\ dea'.ret = "olds"
        /\ e \in act.olds
        /\ UNCHANGED <<db, tx, force>>
    BY DEF DeactivateOld, CallDeactivate
  <2>3. EntOK' /\ OldsOK'
    BY <2>1, <2>2 DEF IInv, StateOK, EntOK, OldsOK, Forward, BeforeWrite, WritePcs, DeaPcs,
          AtOlds
  <2>4. ReplacedOK' /\ ForcedOK' /\ TxOK'
    BY <2>1, <2>2 DEF IInv, StateOK, ReplacedOK, ForcedOK, TxOK, BeforeWrite, DeaPcs,
          WritePcs, AtReplaced
  <2>5. DeaOK'
    BY <2>1, <2>2 DEF IInv, StateOK, DeaOK, DeaPcs, OldsOK, AtOlds
  <2> QED BY <2>2, <2>3, <2>4, <2>5, DbSame DEF StateOK
<1> QED BY <1>1, <1>2 DEF IInv

\* A replaced port leaves todeactivate, and is the one being deactivated.
LEMMA DeactivateReplacedStep ==
    ASSUME IInv, NEW e \in Entries, DeactivateReplaced(e)
    PROVE  IInv'
<1>1. TypeOK'
  <2>1. pc' \in Pcs /\ dea' \in DeaType
    BY CallType DEF DeactivateReplaced
  <2>2. act' \in ActType
    BY DEF DeactivateReplaced, IInv, TypeOK, ActType
  <2> QED BY <2>1, <2>2 DEF DeactivateReplaced, IInv, TypeOK
<1>2. StateOK'
  <2>1. /\ act'.ent = act.ent /\ act'.stamp = act.stamp /\ act'.forced = act.forced
        /\ act'.replaced = act.replaced /\ act'.olds = act.olds
              /\ act'.todo = act.todo \ {e}
    BY DEF DeactivateReplaced, IInv, TypeOK, ActType
  <2>2. /\ pc = "replaced" /\ pc' = "dbegin" /\ dea'.ent = e /\ dea'.ret = "replaced"
        /\ e \in act.todo
        /\ UNCHANGED <<db, tx, force>>
    BY DEF DeactivateReplaced, CallDeactivate
  <2>3. EntOK' /\ OldsOK'
    BY <2>1, <2>2 DEF IInv, StateOK, EntOK, OldsOK, Forward, BeforeWrite, WritePcs, DeaPcs,
          AtOlds
  <2>4. ReplacedOK' /\ ForcedOK' /\ TxOK'
    BY <2>1, <2>2 DEF IInv, StateOK, ReplacedOK, ForcedOK, TxOK, BeforeWrite, DeaPcs,
          WritePcs, AtReplaced
  <2>5. DeaOK'
    BY <2>1, <2>2 DEF IInv, StateOK, DeaOK, DeaPcs, ReplacedOK, AtReplaced
  <2> QED BY <2>2, <2>3, <2>4, <2>5, DbSame DEF StateOK
<1> QED BY <1>1, <1>2 DEF IInv

\* An archive is extracted once no other version is active: no file and no row
\* changes.
LEMMA ExtractStep == ASSUME IInv, Extract PROVE IInv'
<1>1. TypeOK'
  <2>1. act.ent \in Entries /\ Image[act.ent] \in SUBSET Paths
    BY Constants DEF Extract, IInv, StateOK, EntOK, Forward, BeforeWrite, WritePcs
  <2>2. \/ act' = [act EXCEPT !.xdir = Image[act.ent], !.scan = Image[act.ent]]
        \/ act' = [act EXCEPT !.scan = Image[act.ent]]
    BY DEF Extract
  <2>3. act' \in ActType /\ pc' \in Pcs
    BY <2>1, <2>2 DEF Extract, IInv, TypeOK, ActType, Pcs
  <2> QED BY <2>3 DEF Extract, IInv, TypeOK
<1>2. StateOK'
  <2>1. UNCHANGED Kept
    BY DEF Extract, Kept, IInv, TypeOK, ActType
  <2>2. EntOK' /\ OldsOK'
    BY <2>1 DEF Extract, IInv, StateOK, EntOK, OldsOK, Forward, BeforeWrite, WritePcs,
          DeaPcs, AtOlds, Kept
  <2>3. ReplacedOK' /\ DeaOK' /\ ForcedOK' /\ TxOK'
    BY <2>1 DEF Extract, IInv, StateOK, ReplacedOK, DeaOK, ForcedOK, TxOK, BeforeWrite,
          DeaPcs, WritePcs,
                AtReplaced, Kept
  <2> QED BY <2>2, <2>3, DbSame DEF Extract, StateOK
<1> QED BY <1>1, <1>2 DEF IInv

\* The extracted directory becomes the image.
LEMMA SetLocationStep == ASSUME IInv, SetLocation PROVE IInv'
<1>1. TypeOK'
  <2>1. act.ent \in Entries /\ Image[act.ent] \in SUBSET Paths
    BY Constants DEF SetLocation, IInv, StateOK, EntOK, Forward, BeforeWrite, WritePcs
  <2>2. loc' \in [Entries -> {"archive", "directory"}] /\ dir' \in [Entries -> SUBSET Paths]
    BY <2>1 DEF SetLocation, IInv, TypeOK, ActType
  <2> QED BY <2>2 DEF SetLocation, IInv, TypeOK, Pcs
<1>2. StateOK'
  BY Frame DEF SetLocation, Kept
<1> QED BY <1>1, <1>2 DEF IInv

\* The archive is deleted.
LEMMA DropArchiveStep == ASSUME IInv, DropArchive PROVE IInv'
<1>1. TypeOK'
  BY DEF DropArchive, IInv, TypeOK, Pcs
<1>2. StateOK'
  BY Frame DEF DropArchive, Kept
<1> QED BY <1>1, <1>2 DEF IInv

\* The ports found to be replaced own active files, so they are active.
LEMMA ScanFileStep == ASSUME IInv, NEW p \in Paths, ScanFile(p) PROVE IInv'
<1>1. TypeOK'
  <2>1. Replaced \in SUBSET Entries
    BY DEF Replaced, Conflicting, Owners
  <2>2. act' \in ActType
    BY <2>1 DEF ScanFile, IInv, TypeOK, ActType
  <2> QED BY <2>2 DEF ScanFile, IInv, TypeOK
<1>2. StateOK'
  <2>1. /\ act'.ent = act.ent /\ act'.stamp = act.stamp /\ act'.olds = act.olds
        /\ act'.forced = act.forced /\ act'.replaced \in {act.replaced, Replaced}
    BY DEF ScanFile, IInv, TypeOK, ActType
  <2>2. ReplacedOK'
    BY <2>1, ReplacedInstalled DEF ScanFile, IInv, StateOK, ReplacedOK, DeaPcs, AtReplaced
  <2>3. EntOK' /\ OldsOK'
    BY <2>1 DEF ScanFile, IInv, StateOK, EntOK, OldsOK, Forward, BeforeWrite, WritePcs,
          DeaPcs, AtOlds
  <2>4. DeaOK' /\ ForcedOK' /\ TxOK'
    BY <2>1 DEF ScanFile, IInv, StateOK, DeaOK, ForcedOK, TxOK, BeforeWrite, DeaPcs,
          WritePcs
  <2> QED BY <2>2, <2>3, <2>4, DbSame DEF ScanFile, StateOK
<1> QED BY <1>1, <1>2 DEF IInv

\* The rows recorded to be moved are in the way of the image, and there is a
\* backup suffix.
LEMMA ForceFileStep == ASSUME IInv, NEW p \in Paths, ForceFile(p) PROVE IInv'
<1>1. TypeOK'
  <2>1. act.ent \in Entries /\ Image[act.ent] \in SUBSET Paths
    BY Constants DEF ForceFile, IInv, StateOK, EntOK, Forward, BeforeWrite, WritePcs
  <2>2. Replaced \in SUBSET Entries
    BY DEF Replaced, Conflicting, Owners
  <2> DEFINE rows == UNION {ConflictRows(o, act.ent) : o \in Owners(db, At(p))}
             again == {f.own : f \in act.forced} \cap {f.own : f \in rows}
             files == IF rows = {} THEN {p} ELSE {db.row[f.own][f.img][1] : f \in {g \in rows : g.moved}}
  <2>3. rows \in SUBSET ForcedRows
    BY DEF ConflictRows, ForcedRows, Owners
  <2>4. again \in SUBSET Entries
    BY <2>3 DEF ForcedRows
  <2>5. files \in SUBSET Paths
    BY <2>1 DEF ConflictRows, At
  <2>6. act' = [act EXCEPT !.scan = @ \ {p}, !.replaced = Replaced, !.forced = @ \cup rows,
                           !.twice = @ \cup again, !.moving = files]
    BY DEF ForceFile
  <2>7. act' \in ActType
    <3> HIDE DEF rows, again, files
    <3> QED BY <2>2, <2>3, <2>4, <2>5, <2>6, ActForce DEF IInv, TypeOK
  <2> QED BY <2>7 DEF ForceFile, IInv, TypeOK, Pcs
<1>2. StateOK'
  <2> DEFINE rows == UNION {ConflictRows(o, act.ent) : o \in Owners(db, At(p))}
  <2>1. /\ act'.ent = act.ent /\ act'.stamp = act.stamp /\ act'.olds = act.olds
        /\ act'.forced = act.forced \cup rows /\ act'.replaced = Replaced
    BY DEF ForceFile, IInv, TypeOK, ActType
  <2>2. ReplacedOK'
    BY <2>1, ReplacedInstalled DEF ForceFile, IInv, StateOK, ReplacedOK, DeaPcs, AtReplaced
  <2>3. EntOK' /\ OldsOK'
    BY <2>1 DEF ForceFile, IInv, StateOK, EntOK, OldsOK, Forward, BeforeWrite, WritePcs,
          DeaPcs, AtOlds
  <2>4. \A f \in rows : \E x \in Image[act.ent] : db.row[f.own][f.img] = At(x)
    BY DEF ConflictRows
  <2>5. act.stamp > 0 /\ BeforeWrite
    BY DEF ForceFile, IInv, StateOK, EntOK, Forward, BeforeWrite
  <2>6. ForcedOK'
    BY <2>1, <2>4, <2>5 DEF ForceFile, IInv, StateOK, ForcedOK
  <2>7. DeaOK' /\ TxOK'
    BY <2>1 DEF ForceFile, IInv, StateOK, DeaOK, TxOK, DeaPcs, WritePcs
  <2> QED BY <2>2, <2>3, <2>6, <2>7, DbSame DEF ForceFile, StateOK
<1> QED BY <1>1, <1>2 DEF IInv

\* A file goes to its backup path, and its row stays for now.
LEMMA MoveAsideStep == ASSUME IInv, NEW p \in Paths, MoveAside(p) PROVE IInv'
<1>1. TypeOK'
  <2>1. act.stamp \in 0..MaxStamp /\ disk[At(p)] \in Content
    BY Constants DEF IInv, TypeOK, ActType
  <2>2. disk' \in [Locs -> Content]
    BY <2>1, Constants DEF MoveAside, IInv, TypeOK, Content
  <2>3. act' \in ActType
    BY DEF MoveAside, IInv, TypeOK, ActType
  <2> QED BY <2>2, <2>3 DEF MoveAside, IInv, TypeOK, Pcs
<1>2. StateOK'
  <2>1. UNCHANGED Kept
    BY DEF MoveAside, Kept, IInv, TypeOK, ActType
  <2> QED BY <2>1, Frame DEF MoveAside
<1> QED BY <1>1, <1>2 DEF IInv

\* The backup is remembered.
LEMMA NoteBackupStep == ASSUME IInv, NoteBackup PROVE IInv'
<1>1. TypeOK'
  <2>1. act' \in ActType /\ pc' \in Pcs
    BY DEF NoteBackup, IInv, TypeOK, ActType, Pcs
  <2> QED BY <2>1 DEF NoteBackup, IInv, TypeOK
<1>2. StateOK'
  <2>1. UNCHANGED Kept
    BY DEF NoteBackup, Kept, IInv, TypeOK, ActType
  <2> QED BY <2>1, Frame DEF NoteBackup
<1> QED BY <1>1, <1>2 DEF IInv

\* A file that is missing or in the way ends the scan with an error.
LEMMA ScanErrorStep == ASSUME IInv, NEW p \in Paths, ScanError(p) PROVE IInv'
<1>1. TypeOK'
  BY RaiseType DEF ScanError, IInv, TypeOK, LocalsOK
<1>2. StateOK'
  BY RaiseInv DEF ScanError
<1> QED BY <1>1, <1>2 DEF IInv

\* The replaced ports, all of them active, wait to be deactivated.
LEMMA ScanDoneStep == ASSUME IInv, ScanDone PROVE IInv'
<1>1. TypeOK'
  <2>1. act' \in ActType /\ pc' \in Pcs
    BY DEF ScanDone, IInv, TypeOK, ActType, Pcs
  <2> QED BY <2>1 DEF ScanDone, IInv, TypeOK
<1>2. StateOK'
  <2>1. /\ act'.ent = act.ent /\ act'.stamp = act.stamp /\ act'.olds = act.olds
        /\ act'.forced = act.forced /\ act'.todo = act.replaced
    BY DEF ScanDone, IInv, TypeOK, ActType
  <2>2. EntOK' /\ OldsOK'
    BY <2>1 DEF ScanDone, IInv, StateOK, EntOK, OldsOK, Forward, BeforeWrite, WritePcs,
          DeaPcs, AtOlds
  <2>3. ReplacedOK' /\ DeaOK' /\ ForcedOK' /\ TxOK'
    BY <2>1 DEF ScanDone, IInv, StateOK, ReplacedOK, DeaOK, ForcedOK, TxOK, BeforeWrite,
          DeaPcs, WritePcs, AtReplaced
  <2> QED BY <2>2, <2>3, DbSame DEF ScanDone, StateOK
<1> QED BY <1>1, <1>2 DEF IInv

\* Forced rows are moved and the image is activated: inside the transaction
\* there is still one owner for every location, and other ports only yield what
\* is in the way.
LEMMA RegisterStep == ASSUME IInv, Register PROVE IInv'
<1>1. TypeOK'
  <2>1. act.ent \in Entries /\ Image[act.ent] \in SUBSET Paths
    BY Constants DEF Register, IInv, StateOK, EntOK, Forward, BeforeWrite, WritePcs
  <2>2. AfterForced \in Registry
    BY MoveRegistry DEF AfterForced, IInv, TypeOK, ActType
  <2>3. \A q \in DOMAIN ImageAt(act.ent) : ImageAt(act.ent)[q] \in Locs
    BY <2>1, Constants DEF ImageAt
  <2>4. tx' \in Registry
    BY <2>1, <2>2, <2>3, ActivateRegistry DEF Register
  <2>5. act' \in ActType
    BY <2>1 DEF Register, Renamed, IInv, TypeOK, ActType
  <2> QED BY <2>4, <2>5 DEF Register, IInv, TypeOK, Pcs
<1>2. StateOK'
  <2>0. TypeOK /\ tx = db /\ pc = "replaced" /\ UNCHANGED <<db, dea>> /\ pc' = "put"
        /\ act.ent \in Entries /\ CanRegister /\ BeforeWrite
           /\ tx' = Activate(AfterForced, act.ent, ImageAt(act.ent))
                 /\ db.state[act.ent] = "imaged"
    BY DEF Register, IInv, StateOK, TxOK, EntOK, Forward, BeforeWrite, WritePcs
  <2>1. act'.ent = act.ent /\ act.stamp \in 0..MaxStamp
    BY <2>0 DEF Register, TypeOK, ActType
  <2>2. AfterForced \in Registry /\ AfterForced.state = db.state /\ OneOwner(AfterForced)
    BY <2>0, <2>1, MoveRegistry, MoveOneOwner
          DEF AfterForced, CanRegister, IInv, StateOK, DbOK, TypeOK
  <2>3. \A q \in DOMAIN ImageAt(act.ent) : ImageAt(act.ent)[q] \in Locs
    BY <2>0, Constants DEF ImageAt
  <2>4. tx'.state = db.state /\ OneOwner(tx')
    BY <2>0, <2>2, <2>3, ActivateRegistry, ActivateOneOwner DEF CanRegister
  <2>5. \A o \in Entries, q \in Paths : tx'.row[o][q] =
           IF o = act.ent /\ q \in Image[act.ent] THEN At(q) ELSE AfterForced.row[o][q]
    BY <2>0, <2>2, ActivateRow DEF ImageAt
  <2>6. \A o \in Entries, q \in Paths :
           \/ AfterForced.row[o][q] = db.row[o][q]
           \/ \E p \in Image[act.ent] :
                /\ db.row[o][q] = At(p)
                /\ AfterForced.row[o][q] = Off \/ \E s \in 1..MaxStamp : AfterForced.row[o][q] = Backup(p, s)
    <3>1. SUFFICES ASSUME NEW o \in Entries, NEW q \in Paths,
          AfterForced.row[o][q] # db.row[o][q]
                   PROVE  \E p \in Image[act.ent] :
                     /\ db.row[o][q] = At(p)
                     /\ AfterForced.row[o][q] = Off \/ \E s \in 1..MaxStamp : AfterForced.row[o][q] = Backup(p, s)
      OBVIOUS
    <3>2. PICK f \in act.forced : f.own = o /\ f.img = q
            /\ AfterForced.row[o][q] \in {Off, Backup(q, act.stamp)}
      <4> DEFINE t(b) == [own |-> o, img |-> q, moved |-> b]
      <4>1. AfterForced.row[o][q] = IF t(TRUE) \in act.forced THEN Backup(q, act.stamp)
                                    ELSE IF t(FALSE) \in act.forced THEN Off ELSE tx.row[o][q]
        BY <2>0, MoveRow DEF AfterForced, TypeOK
      <4>2. \A b \in BOOLEAN : t(b).own = o /\ t(b).img = q
        OBVIOUS
      <4> HIDE DEF t
      <4>3. CASE t(TRUE) \in act.forced
        BY <4>1, <4>2, <4>3
      <4>4. CASE t(TRUE) \notin act.forced
        BY <4>1, <4>2, <4>4, <3>1, <2>0
      <4> QED BY <4>3, <4>4
    <3>3. db.row[o][q] = At(q)
      BY <3>2, <2>0 DEF CanRegister, CanMove
    <3>4. PICK p \in Image[act.ent] : db.row[o][q] = At(p)
      BY <3>2, <3>3, <2>0, AtNotOff DEF IInv, StateOK, ForcedOK
    <3>5. p = q
      BY <3>3, <3>4 DEF At
    <3>6. act.stamp \in 1..MaxStamp
      BY <3>2, <2>0, <2>1, StampAssumption DEF IInv, StateOK, ForcedOK
    <3> QED BY <3>2, <3>4, <3>5, <3>6
  <2>7. \A q \in Paths : q \notin Image[act.ent] => tx'.row[act.ent][q] = Off
    <3>1. SUFFICES ASSUME NEW q \in Paths,
          q \notin Image[act.ent] PROVE tx'.row[act.ent][q] = Off
      OBVIOUS
    <3>2. db.row[act.ent][q] = Off
      BY <2>0 DEF IInv, StateOK, DbOK, ActiveRowsInstalled, Files
    <3> QED BY <3>1, <3>2, <2>0, <2>5, <2>6, AtNotOff
  <2>8. Pending'
    BY <2>0, <2>1, <2>4, <2>5, <2>6, <2>7, Constants DEF Pending, Yields
  <2>9. TxOK'
    BY <2>0, <2>4, <2>8 DEF TxOK, WritePcs
  <2>10. EntOK' /\ OldsOK' /\ ReplacedOK' /\ DeaOK' /\ ForcedOK'
    <3>1. UNCHANGED <<db, force>> /\ act'.stamp = act.stamp /\ act'.olds = act.olds
      BY <2>0 DEF Register, TypeOK, ActType
    <3> QED BY <3>1, <2>0, <2>1 DEF IInv, StateOK, EntOK, OldsOK, ReplacedOK, DeaOK,
          ForcedOK, Forward,
                BeforeWrite, WritePcs, DeaPcs, AtOlds, AtReplaced
  <2> QED BY <2>0, <2>9, <2>10, DbSame DEF StateOK
<1> QED BY <1>1, <1>2 DEF IInv

\* When the registry refuses, the transaction is rolled back.
LEMMA RegisterErrorStep == ASSUME IInv, RegisterError PROVE IInv'
<1>1. TypeOK'
  BY RaiseType DEF RegisterError, IInv, TypeOK, LocalsOK
<1>2. StateOK'
  BY RaiseInv DEF RegisterError
<1> QED BY <1>1, <1>2 DEF IInv

\* A file is put in place; its row is active already, inside the transaction.
LEMMA PutFileStep == ASSUME IInv, NEW p \in Paths, PutFile(p) PROVE IInv'
<1>1. TypeOK'
  <2>1. act.ent \in Entries /\ Image[act.ent] \in SUBSET Paths
    BY Constants DEF PutFile, IInv, StateOK, EntOK, Forward, BeforeWrite, WritePcs
  <2>2. Dest(p) \in Paths
    BY DEF Dest, IInv, TypeOK, ActType
  <2>3. disk' \in [Locs -> Content] /\ dir' \in [Entries -> SUBSET Paths]
    BY <2>1, <2>2, Constants DEF PutFile, IInv, TypeOK, Content
  <2>4. act' \in ActType
    BY <2>2 DEF PutFile, IInv, TypeOK, ActType
  <2> QED BY <2>3, <2>4 DEF PutFile, IInv, TypeOK, Pcs
<1>2. StateOK'
  <2>1. UNCHANGED Kept
    BY DEF PutFile, Kept, IInv, TypeOK, ActType
  <2> QED BY <2>1, Frame DEF PutFile
<1> QED BY <1>1, <1>2 DEF IInv

\* The file is remembered for the rollback.
LEMMA AppendRollbackStep == ASSUME IInv, AppendRollback PROVE IInv'
<1>1. TypeOK'
  <2>1. act' \in ActType /\ pc' \in Pcs
    BY DEF AppendRollback, IInv, TypeOK, ActType, Pcs
  <2> QED BY <2>1 DEF AppendRollback, IInv, TypeOK
<1>2. StateOK'
  <2>1. UNCHANGED Kept
    BY DEF AppendRollback, Kept, IInv, TypeOK, ActType
  <2> QED BY <2>1, Frame DEF AppendRollback
<1> QED BY <1>1, <1>2 DEF IInv

\* A file that exists is left alone.
LEMMA SkipFileStep == ASSUME IInv, NEW p \in Paths, SkipFile(p) PROVE IInv'
<1>1. TypeOK'
  <2>1. act' \in ActType /\ pc' \in Pcs
    BY DEF SkipFile, IInv, TypeOK, ActType, Pcs
  <2> QED BY <2>1 DEF SkipFile, IInv, TypeOK
<1>2. StateOK'
  <2>1. UNCHANGED Kept
    BY DEF SkipFile, Kept, IInv, TypeOK, ActType
  <2> QED BY <2>1, Frame DEF SkipFile
<1> QED BY <1>1, <1>2 DEF IInv

\* The files to be renamed are active at their own paths when their turn comes.
LEMMA StartRenamedStep == ASSUME IInv, StartRenamed PROVE IInv'
<1>1. TypeOK'
  <2>1. act.ent \in Entries /\ Image[act.ent] \in SUBSET Paths
    BY Constants DEF StartRenamed, IInv, StateOK, EntOK, Forward, BeforeWrite, WritePcs
  <2>2. Renamed(act.ent, act.ren) \in SUBSET Paths
    BY <2>1 DEF Renamed
  <2>3. act' \in ActType
    BY <2>2 DEF StartRenamed, IInv, TypeOK, ActType
  <2> QED BY <2>3 DEF StartRenamed, IInv, TypeOK, Pcs
<1>2. StateOK'
  <2>1. /\ TypeOK /\ TxOK /\ pc = "put" /\ ~ act.renamed /\ pc' = "rename"
        /\ UNCHANGED <<tx, db, dea, force>>
    BY DEF StartRenamed, IInv, StateOK
  <2>2. /\ act'.ent = act.ent /\ act'.stamp = act.stamp /\ act'.olds = act.olds
        /\ act'.renamed /\ act'.todo = Renamed(act.ent, act.ren)
    BY <2>1 DEF StartRenamed, TypeOK, ActType
  <2>3. Pending'
    BY <2>1, <2>2 DEF TxOK, Pending, Yields, Renamed
  <2>4. EntOK' /\ OldsOK' /\ ReplacedOK' /\ DeaOK' /\ ForcedOK'
    BY <2>1, <2>2 DEF IInv, StateOK, EntOK, OldsOK, ReplacedOK, DeaOK, ForcedOK, Forward,
                  BeforeWrite, WritePcs, DeaPcs, AtOlds, AtReplaced
  <2>5. TxOK'
    BY <2>1, <2>3 DEF TxOK, WritePcs
  <2> QED BY <2>1, <2>4, <2>5, DbSame DEF StateOK
<1> QED BY <1>1, <1>2 DEF IInv

\* A renamed file gives up its own path and gets a place nobody owns, or the
\* transaction is rolled back.
LEMMA RenameRowStep == ASSUME IInv, NEW p \in Paths, RenameRow(p) PROVE IInv'
<1>1. TypeOK'
  <2> DEFINE without == Deactivate(tx, act.ent, {At(p)})
  <2>1. act.ent \in Entries
    BY DEF RenameRow, IInv, StateOK, EntOK, Forward, BeforeWrite, WritePcs
  <2>2. CASE CanActivate(without, act.ent, AsRenamed(p))
    <3>1. without \in Registry
      BY <2>1, DeactivateRegistry DEF IInv, TypeOK
    <3>2. \A q \in DOMAIN AsRenamed(p) : AsRenamed(p)[q] \in Locs
      BY Constants DEF AsRenamed, IInv, TypeOK, ActType
    <3>3. tx' \in Registry
      BY <2>1, <2>2, <3>1, <3>2, ActivateRegistry DEF RenameRow
    <3>4. act' \in ActType
      BY <2>2 DEF RenameRow, IInv, TypeOK, ActType
    <3> QED BY <2>2, <3>3, <3>4 DEF RenameRow, IInv, TypeOK
  <2>3. CASE ~ CanActivate(without, act.ent, AsRenamed(p))
    BY <2>3, RaiseType DEF RenameRow, IInv, TypeOK, LocalsOK
  <2> QED BY <2>2, <2>3
<1>2. StateOK'
  <2> DEFINE without == Deactivate(tx, act.ent, {At(p)})
  <2>0. TypeOK /\ TxOK /\ pc = "rename" /\ p \in act.todo /\ UNCHANGED <<db, force>>
        /\ act.ent \in Entries /\ Pending /\ tx.state = db.state
    BY DEF RenameRow, IInv, StateOK, TxOK, EntOK, Forward, WritePcs
  <2>1. CASE ~ CanActivate(without, act.ent, AsRenamed(p))
    BY <2>0, <2>1, RaiseInv DEF RenameRow
  <2>2. CASE CanActivate(without, act.ent, AsRenamed(p))
    <3>1. tx' = Activate(without, act.ent, AsRenamed(p)) /\ UNCHANGED <<pc, dea>>
          /\ act' = [act EXCEPT !.todo = @ \ {p}]
      BY <2>2 DEF RenameRow
    <3>2. act'.ent = act.ent /\ act'.stamp = act.stamp /\ act'.forced = act.forced
          /\ act'.olds = act.olds /\ act'.replaced = act.replaced
          /\ act'.renamed = act.renamed /\ act'.todo = act.todo \ {p}
      BY <2>0, <3>1 DEF TypeOK, ActType
    <3>3. without \in Registry /\ without.state = db.state /\ OneOwner(without)
      BY <2>0, DeactivateRegistry, DeactivateOneOwner DEF TypeOK, Pending
    <3>4. \A q \in DOMAIN AsRenamed(p) : AsRenamed(p)[q] \in Locs
      BY <2>0, Constants DEF AsRenamed, TypeOK, ActType
    <3>5. tx'.state = db.state /\ OneOwner(tx')
      BY <2>0, <2>2, <3>1, <3>3, <3>4, ActivateRegistry, ActivateOneOwner
    <3>6. \A o \in Entries, q \in Paths : tx'.row[o][q] =
           IF o = act.ent /\ q = p THEN At(act.ren[p]) ELSE IF o = act.ent
                 /\ tx.row[o][q] = At(p) THEN Off ELSE tx.row[o][q]
      BY <2>0, <3>1, <3>3, ActivateRow, DeactivateRow DEF AsRenamed, TypeOK
    <3>7. p \in Image[act.ent] /\ tx.row[act.ent][p] = At(p)
      BY <2>0 DEF Pending
    <3>8. \A o \in Entries, q \in Paths : tx'.row[o][q] =
           IF o = act.ent /\ q = p THEN At(act.ren[p]) ELSE tx.row[o][q]
      BY <2>0, <3>6, <3>7, AtNotOff DEF Pending, OneOwner
    <3>9. act.ren[p] \in Paths
      BY <2>0 DEF TypeOK, ActType
    <3>10. Pending'
      <4>1. (\A q \in Paths : IF q \in Image[act.ent] THEN \E x \in Paths : tx.row[act.ent][q] = At(x)
                                                      ELSE tx.row[act.ent][q] = Off)'
        BY <2>0, <3>2, <3>7, <3>8, <3>9 DEF Pending
      <4>2. (\A o \in Entries \ {act.ent}, q \in Paths : Yields(o, q))'
        BY <2>0, <3>2, <3>8 DEF Pending, Yields
      <4>3. (pc = "rename" => /\ act.renamed
                             /\ \A q \in act.todo : q \in Image[act.ent]
                                   /\ tx.row[act.ent][q] = At(q))'
        <5>1. act.renamed /\ \A q \in act.todo : q \in Image[act.ent] /\ q \in Paths
              /\ tx.row[act.ent][q] = At(q)
          BY <2>0, Constants DEF Pending
        <5> QED BY <2>0, <3>2, <3>8, <5>1
      <4> QED BY <2>0, <3>1, <3>5, <4>1, <4>2, <4>3 DEF Pending
    <3>11. TxOK'
      BY <2>0, <3>1, <3>5, <3>10 DEF TxOK, WritePcs
    <3>12. DbOK'
      BY <2>0 DEF IInv, StateOK, DbOK, OneActive
    <3>13. EntOK' /\ OldsOK'
      BY <2>0, <3>1, <3>2 DEF IInv, StateOK, EntOK, OldsOK, Forward, BeforeWrite, WritePcs,
            DeaPcs, AtOlds
    <3>14. ReplacedOK' /\ DeaOK' /\ ForcedOK'
      BY <2>0, <3>1, <3>2 DEF IInv, StateOK, ReplacedOK, DeaOK, ForcedOK, BeforeWrite,
            DeaPcs, AtReplaced
    <3> QED BY <3>11, <3>12, <3>13, <3>14 DEF StateOK
  <2> QED BY <2>1, <2>2
<1> QED BY <1>1, <1>2 DEF IInv

\* Once their rows are renamed the files are put in place.
LEMMA PutRenamedStep == ASSUME IInv, PutRenamed PROVE IInv'
<1>1. TypeOK'
  BY DEF PutRenamed, IInv, TypeOK, Pcs
<1>2. StateOK'
  <2>1. /\ TypeOK /\ TxOK /\ pc = "rename" /\ pc' = "put"
        /\ UNCHANGED <<tx, db, dea, act, force>>
    BY DEF PutRenamed, IInv, StateOK
  <2>2. Pending'
    BY <2>1 DEF TxOK, Pending, Yields
  <2>3. EntOK' /\ OldsOK' /\ ReplacedOK' /\ DeaOK' /\ ForcedOK'
    BY <2>1 DEF IInv, StateOK, EntOK, OldsOK, ReplacedOK, DeaOK, ForcedOK, Forward,
                BeforeWrite, WritePcs, DeaPcs, AtOlds, AtReplaced
  <2>4. TxOK'
    BY <2>1, <2>2 DEF TxOK, WritePcs
  <2> QED BY <2>1, <2>3, <2>4, DbSame DEF StateOK
<1> QED BY <1>1, <1>2 DEF IInv

\* The port is recorded as active inside the transaction.
LEMMA SetInstalledStep == ASSUME IInv, SetInstalled PROVE IInv'
<1>1. TypeOK'
  <2>1. act.ent \in Entries /\ Image[act.ent] \in SUBSET Paths
    BY Constants DEF SetInstalled, IInv, StateOK, EntOK, Forward, BeforeWrite, WritePcs
  <2>2. tx' \in Registry
    BY <2>1 DEF SetInstalled, SetState, Registry, IInv, TypeOK
  <2> QED BY <2>2 DEF SetInstalled, IInv, TypeOK, Pcs
<1>2. StateOK'
  <2>1. /\ TypeOK /\ TxOK /\ pc = "put" /\ pc' = "commit"
        /\ UNCHANGED <<db, dea, act, force>> /\ tx' = SetState(tx, act.ent, "installed")
    BY DEF SetInstalled, IInv, StateOK
  <2>2. tx'.row = tx.row /\ tx'.state = [db.state EXCEPT ![act.ent] = "installed"]
    BY <2>1 DEF SetState, TxOK, TypeOK, Registry
  <2>3. Pending'
    BY <2>1, <2>2 DEF TxOK, Pending, Yields, OneOwner
  <2>4. EntOK' /\ OldsOK' /\ ReplacedOK' /\ DeaOK' /\ ForcedOK'
    BY <2>1 DEF IInv, StateOK, EntOK, OldsOK, ReplacedOK, DeaOK, ForcedOK, Forward,
                BeforeWrite, WritePcs, DeaPcs, AtOlds, AtReplaced
  <2>5. TxOK'
    BY <2>1, <2>2, <2>3 DEF TxOK, WritePcs
  <2> QED BY <2>1, <2>4, <2>5, DbSame DEF StateOK
<1> QED BY <1>1, <1>2 DEF IInv

\* What is committed has one owner for every location, only active ports own
\* files, and the port has no other active version.
LEMMA CommitStep == ASSUME IInv, Commit PROVE IInv'
<1>1. TypeOK'
  BY DEF Commit, IInv, TypeOK, Pcs
<1>2. StateOK'
  <2>1. /\ TypeOK /\ TxOK /\ pc = "commit" /\ db' = tx /\ tx' = tx /\ pc' = "committed"
        /\ act.ent \in Entries /\ Forward /\ ~ AtOlds
    BY DEF Commit, IInv, StateOK, EntOK, Forward, WritePcs, AtOlds, DeaPcs
  <2>2. tx.state = [db.state EXCEPT ![act.ent] = "installed"] /\ Pending
    BY <2>1 DEF TxOK
  <2>3. OneOwner(db')
    BY <2>1, <2>2 DEF Pending
  <2>4. ActiveRowsInstalled(db')
    <3>1. SUFFICES ASSUME NEW e \in Entries, Files(tx, e) # {}, e # act.ent
                   PROVE  db.state[e] = "installed"
      BY <2>1, <2>2 DEF ActiveRowsInstalled, TypeOK, Registry
    <3>2. PICK q \in Paths : tx.row[e][q] # Off
      BY <3>1 DEF Files
    <3>3. db.row[e][q] # Off
      BY <3>1, <3>2, <2>2, AtNotOff DEF Pending, Yields
    <3> QED BY <3>3 DEF IInv, StateOK, DbOK, ActiveRowsInstalled, Files
  <2>5. OneActive'
    BY <2>1, <2>2 DEF OneActive, IInv, StateOK, DbOK, OldsOK, TypeOK, Registry
  <2> QED BY <2>1, <2>3, <2>4, <2>5, Outside DEF DbOK
<1> QED BY <1>1, <1>2 DEF IInv

\* The operation ends with nothing pending.
LEMMA FinishStep == ASSUME IInv, Finish PROVE IInv'
<1>1. TypeOK'
  BY EndType DEF Finish, Results, IInv, TypeOK, LocalsOK
<1>2. StateOK'
  BY EndInv DEF Finish, IInv, StateOK, TxOK, WritePcs
<1> QED BY <1>1, <1>2 DEF IInv

-----------------------------------------------------------------------------
(* RollBackStep *)

\* A file put in place is deleted; the rows are those committed.
LEMMA UndoFileStep == ASSUME IInv, NEW p \in Paths, UndoFile(p) PROVE IInv'
<1>1. TypeOK'
  <2>1. disk' \in [Locs -> Content]
    BY Constants DEF UndoFile, IInv, TypeOK, Content
  <2>2. act' \in ActType
    BY DEF UndoFile, IInv, TypeOK, ActType
  <2> QED BY <2>1, <2>2 DEF UndoFile, IInv, TypeOK
<1>2. StateOK'
  BY DbSame, Outside DEF UndoFile, IInv, StateOK, TxOK, WritePcs
<1> QED BY <1>1, <1>2 DEF IInv

\* All files put in place are gone.
LEMMA UndoDoneStep == ASSUME IInv, UndoDone PROVE IInv'
<1>1. TypeOK'
  BY DEF UndoDone, IInv, TypeOK, Pcs
<1>2. StateOK'
  BY DbSame, Outside DEF UndoDone, IInv, StateOK, TxOK, WritePcs
<1> QED BY <1>1, <1>2 DEF IInv

\* A backup goes back; the rows are those committed.
LEMMA RestoreStep == ASSUME IInv, NEW p \in Paths, Restore(p) PROVE IInv'
<1>1. TypeOK'
  <2>1. act.stamp \in 0..MaxStamp
    BY DEF IInv, TypeOK, ActType
  <2>2. disk[Backup(p, act.stamp)] \in Content
    BY <2>1, Constants DEF IInv, TypeOK
  <2>3. disk' \in [Locs -> Content]
    BY <2>1, <2>2, Constants DEF Restore, IInv, TypeOK, Content
  <2>4. act' \in ActType
    BY DEF Restore, IInv, TypeOK, ActType
  <2> QED BY <2>3, <2>4 DEF Restore, IInv, TypeOK
<1>2. StateOK'
  BY DbSame, Outside DEF Restore, IInv, StateOK, TxOK, WritePcs
<1> QED BY <1>1, <1>2 DEF IInv

\* The ports that were deactivated wait to be activated again.
LEMMA RestoreDoneStep == ASSUME IInv, RestoreDone PROVE IInv'
<1>1. TypeOK'
  <2>1. act' \in ActType /\ pc' \in Pcs
    BY DEF RestoreDone, IInv, TypeOK, ActType, Pcs
  <2> QED BY <2>1 DEF RestoreDone, IInv, TypeOK
<1>2. StateOK'
  BY DbSame, Outside DEF RestoreDone, IInv, StateOK, TxOK, WritePcs
<1> QED BY <1>1, <1>2 DEF IInv

\* An activation of a replaced port gives it all its files, at places nobody
\* owns, and takes from other ports only what is in the way.
LEMMA Reactivated ==
    ASSUME IInv, NEW e \in Entries, Reactivate(e)
    PROVE  /\ db' \in Registry /\ clock' \in 0..MaxStamp
           /\ db'.state = [db.state EXCEPT ![e] = "installed"] /\ OneOwner(db')
           /\ \A q \in Paths : IF q \in Image[e] THEN \E p \in Paths : db'.row[e][q] = At(p)
                                                 ELSE db'.row[e][q] = Off
           /\ \A o \in Entries, q \in Paths :
                o # e /\ db'.row[o][q] # db.row[o][q] =>
                    /\ q \in Image[e] /\ db.row[o][q] = At(q)
                    /\ db'.row[o][q] = Off \/ \E s \in 1..MaxStamp : db'.row[o][q] = Backup(q, s)
<1>1. TypeOK /\ db.state[e] = "imaged"
  BY DEF Reactivate, IInv
<1>2. PICK ren \in {Rename[e], NoRename} :
        /\ CanActivate(NestedReg(e, clock'), e, PutAt(e, ren))
        /\ db' = SetState(Activate(NestedReg(e, clock'), e, PutAt(e, ren)), e, "installed")
  BY DEF Reactivate
<1>3. clock' \in 0..MaxStamp /\ CanMove(db, NestedRows(e), clock')
      /\ clock' \in NestedStamps(e)
  BY <1>1, StampAssumption DEF Reactivate, CanReactivate, NestedStamps, Stamps, TypeOK
<1> DEFINE n == NestedReg(e, clock')
           a == Activate(n, e, PutAt(e, ren))
<1>4. n \in Registry /\ n.state = db.state /\ OneOwner(n)
  BY <1>1, <1>3, MoveRegistry, MoveOneOwner DEF NestedReg, IInv, StateOK, DbOK, TypeOK
<1>5. ren \in [Paths -> Paths]
  BY <1>2, Constants DEF NoRename
<1>6. \A q \in DOMAIN PutAt(e, ren) : PutAt(e, ren)[q] \in Locs
  BY <1>5, Constants DEF PutAt
<1>7. a \in Registry /\ a.state = db.state /\ OneOwner(a)
  BY <1>2, <1>4, <1>6, ActivateRegistry, ActivateOneOwner
<1>8. \A o \in Entries, q \in Paths : n.row[o][q] # db.row[o][q] =>
        /\ q \in Image[e] /\ db.row[o][q] = At(q)
        /\ n.row[o][q] = Off \/ \E s \in 1..MaxStamp : n.row[o][q] = Backup(q, s)
  <2>1. SUFFICES ASSUME NEW o \in Entries, NEW q \in Paths, n.row[o][q] # db.row[o][q]
                 PROVE  /\ q \in Image[e] /\ db.row[o][q] = At(q)
                        /\ n.row[o][q] = Off \/ \E s \in 1..MaxStamp : n.row[o][q] = Backup(q, s)
    OBVIOUS
  <2>2. q \in Image[e] /\ db.row[o][q] = At(q) /\ n.row[o][q] \in {Off, Backup(q, clock')}
    BY <2>1, <1>3, ConflictMoves
  <2>3. NestedRows(e) # {}
    <3> SUFFICES ASSUME NestedRows(e) = {} PROVE FALSE
      OBVIOUS
    <3>1. n.row[o][q] = db.row[o][q]
      BY <1>1 DEF NestedReg, MoveRows, Registry, TypeOK
    <3> QED BY <3>1, <2>1
  <2>4. InTheWay(e) # {}
    BY <2>3 DEF NestedRows
  <2>5. clock' \in 1..MaxStamp
    BY <2>4, <1>3, <1>1, StampAssumption DEF NestedStamps, Stamps, TypeOK
  <2> QED BY <2>2, <2>5
<1>9. \A o \in Entries, q \in Paths :
        a.row[o][q] = IF o = e /\ q \in Image[e] THEN At(ren[q]) ELSE n.row[o][q]
  BY <1>4, ActivateRow DEF PutAt
<1> HIDE DEF n
<1> HIDE DEF a
<1>10. db' = SetState(a, e, "installed")
  BY <1>2 DEF a, n
<1>11. db' \in Registry /\ db'.row = a.row
      /\ db'.state = [db.state EXCEPT ![e] = "installed"]
  BY <1>7, <1>10 DEF SetState, Registry
<1>12. OneOwner(db')
  BY <1>7, <1>11 DEF OneOwner
<1>13. \A q \in Paths : IF q \in Image[e] THEN \E p \in Paths : db'.row[e][q] = At(p)
                                          ELSE db'.row[e][q] = Off
  <2>1. SUFFICES ASSUME NEW q \in Paths
                 PROVE  IF q \in Image[e] THEN \E p \in Paths : db'.row[e][q] = At(p)
                                          ELSE db'.row[e][q] = Off
    OBVIOUS
  <2>2. db.row[e][q] = Off
    BY <1>1 DEF IInv, StateOK, DbOK, ActiveRowsInstalled, Files
  <2>3. q \notin Image[e] => n.row[e][q] = Off
    BY <1>8, <2>2
  <2> QED BY <2>3, <1>5, <1>9, <1>11
<1> QED BY <1>3, <1>8, <1>9, <1>11, <1>12, <1>13

\* A replaced port becomes active again: what is committed has one owner for
\* every location and no other version of it is active.
LEMMA ReactivateStep == ASSUME IInv, NEW e \in Entries, Reactivate(e) PROVE IInv'
<1>1. TypeOK'
  <2>1. PICK ren \in {Rename[e], NoRename} : disk' = NestedDisk(e, ren, clock')
    BY DEF Reactivate
  <2>2. \A l \in Locs : At(l[1]) \in Locs
    BY Constants DEF Locs
  <2>3. disk' \in [Locs -> Content]
    BY <2>1, <2>2 DEF NestedDisk, IInv, TypeOK, Content
  <2>4. act' \in ActType
    BY DEF Reactivate, IInv, TypeOK, ActType
  <2>5. loc' \in [Entries -> {"archive", "directory"}] /\ dir' \in [Entries -> SUBSET Paths]
    BY Constants DEF Reactivate, IInv, TypeOK
  <2> QED BY <2>3, <2>4, <2>5, Reactivated DEF Reactivate, IInv, TypeOK
<1>2. StateOK'
  <2>1. /\ TypeOK /\ pc' = "reactivate" /\ tx' = db' /\ db.state[e] = "imaged"
        /\ \A o \in Entries : PortOf[o] = PortOf[e] => db.state[o] = "imaged"
        /\ db'.state = [db.state EXCEPT ![e] = "installed"] /\ OneOwner(db')
    BY Reactivated DEF Reactivate, IInv
  <2>2. ActiveRowsInstalled(db')
    <3>1. SUFFICES ASSUME NEW o \in Entries, Files(db', o) # {}, o # e
                   PROVE  db.state[o] = "installed"
      BY <2>1 DEF ActiveRowsInstalled, TypeOK, Registry
    <3>2. PICK q \in Paths : db'.row[o][q] # Off
      BY <3>1 DEF Files
    <3>3. db'.row[o][q] # db.row[o][q] => db.row[o][q] = At(q)
      <4>1. \A x \in Entries, y \in Paths :
              x # e /\ db'.row[x][y] # db.row[x][y] =>
                  /\ y \in Image[e] /\ db.row[x][y] = At(y)
                  /\ db'.row[x][y] = Off \/ \E s \in 1..MaxStamp : db'.row[x][y] = Backup(y, s)
        BY Reactivated
      <4> QED BY <3>1, <4>1
    <3>4. db.row[o][q] # Off
      BY <3>2, <3>3, AtNotOff
    <3> QED BY <3>4 DEF IInv, StateOK, DbOK, ActiveRowsInstalled, Files
  <2>3. OneActive'
    BY <2>1 DEF OneActive, IInv, StateOK, DbOK, TypeOK, Registry
  <2> QED BY <2>1, <2>2, <2>3, Outside DEF DbOK
<1> QED BY <1>1, <1>2 DEF IInv

\* A port that was not deactivated needs nothing.
LEMMA StillActiveStep == ASSUME IInv, NEW e \in Entries, StillActive(e) PROVE IInv'
<1>1. TypeOK'
  <2>1. act' \in ActType
    BY DEF StillActive, IInv, TypeOK, ActType
  <2> QED BY <2>1 DEF StillActive, IInv, TypeOK
<1>2. StateOK'
  BY DbSame, Outside DEF StillActive, IInv, StateOK, TxOK, WritePcs
<1> QED BY <1>1, <1>2 DEF IInv

\* A reactivation that fails ends the clause.
LEMMA ReactivateErrorStep == ASSUME IInv, NEW e \in Entries, ReactivateError(e) PROVE IInv'
<1>3. disk' \in [Locs -> Content]
  BY DEF ReactivateError, IInv, TypeOK, Content
<1>1. TypeOK'
  BY <1>3, EndType DEF ReactivateError, Results, IInv, TypeOK, LocalsOK
<1>2. StateOK'
  BY EndInv DEF ReactivateError, IInv, StateOK, TxOK, WritePcs
<1> QED BY <1>1, <1>2 DEF IInv

\* The error goes to the caller.
LEMMA RethrowStep == ASSUME IInv, Rethrow PROVE IInv'
<1>1. TypeOK'
  BY EndType DEF Rethrow, Results, IInv, TypeOK, LocalsOK
<1>2. StateOK'
  BY EndInv DEF Rethrow, IInv, StateOK, TxOK, WritePcs
<1> QED BY <1>1, <1>2 DEF IInv

-----------------------------------------------------------------------------
(* DeactivateStep *)

\* All rows of the port become inactive inside the transaction.
LEMMA DeactivateBeginStep == ASSUME IInv, DeactivateBegin PROVE IInv'
<1>1. TypeOK'
  <2>1. dea.ent \in Entries
    BY DEF DeactivateBegin, IInv, StateOK, DeaOK, DeaPcs
  <2>2. tx' \in Registry
    BY <2>1, DeactivateRegistry DEF DeactivateBegin, IInv, TypeOK
  <2>3. Files(tx, dea.ent) \in SUBSET Locs
    BY <2>1 DEF Files, IInv, TypeOK, Registry
  <2>4. dea' \in DeaType
    BY <2>3 DEF DeactivateBegin, IInv, TypeOK, DeaType
  <2> QED BY <2>2, <2>4 DEF DeactivateBegin, IInv, TypeOK, Pcs
<1>2. StateOK'
  <2>1. /\ TypeOK /\ tx = db /\ tx' = Deactivate(db, dea.ent, Files(db, dea.ent))
        /\ pc = "dbegin" /\ pc' = "ddelete" /\ UNCHANGED <<db, act, force>>
    BY DEF DeactivateBegin, IInv, StateOK, TxOK, WritePcs
  <2>2. dea'.ent = dea.ent /\ dea'.ret = dea.ret
    BY <2>1 DEF DeactivateBegin, TypeOK, DeaType
  <2>3. EntOK' /\ OldsOK'
    BY <2>1, <2>2 DEF IInv, StateOK, EntOK, OldsOK, Forward, BeforeWrite, WritePcs, DeaPcs,
          AtOlds
  <2>4. ReplacedOK' /\ DeaOK' /\ ForcedOK' /\ TxOK'
    BY <2>1, <2>2 DEF IInv, StateOK, ReplacedOK, DeaOK, ForcedOK, TxOK, BeforeWrite,
          WritePcs, DeaPcs, AtReplaced
  <2> QED BY <2>1, <2>3, <2>4, DbSame DEF StateOK
<1> QED BY <1>1, <1>2 DEF IInv

\* A transaction that cannot be started leaves the registry as it is.
LEMMA DeactivateStuckStep == ASSUME IInv, DeactivateStuck PROVE IInv'
<1>1. TypeOK'
  BY DeactivateRaiseType DEF DeactivateStuck, IInv, TypeOK, LocalsOK
<1>2. StateOK'
  BY DeactivateRaiseInv DEF DeactivateStuck, DeaPcs
<1> QED BY <1>1, <1>2 DEF IInv

\* A file is deleted; its row is inactive already, inside the transaction.
LEMMA DeleteFileStep == ASSUME IInv, NEW l \in Locs, DeleteFile(l) PROVE IInv'
<1>1. TypeOK'
  <2>1. disk' \in [Locs -> Content] /\ dea' \in DeaType
    BY DEF DeleteFile, IInv, TypeOK, Content, DeaType
  <2> QED BY <2>1 DEF DeleteFile, IInv, TypeOK
<1>2. StateOK'
  <2>1. dea'.ent = dea.ent /\ dea'.ret = dea.ret
    BY DEF DeleteFile, IInv, TypeOK, DeaType
  <2> QED BY <2>1, Frame DEF DeleteFile, Kept
<1> QED BY <1>1, <1>2 DEF IInv

\* The commit of a deactivation empties the rows of one port, which was active.
LEMMA Deactivated ==
    ASSUME IInv, DeactivateCommit
    PROVE  /\ dea.ent \in Entries /\ db.state[dea.ent] = "installed"
           /\ db' \in Registry /\ db'.state = [db.state EXCEPT ![dea.ent] = "imaged"]
           /\ \A o \in Entries, q \in Paths :
                db'.row[o][q] = IF o = dea.ent THEN Off ELSE db.row[o][q]
<1>1. TypeOK /\ TxOK /\ pc = "ddelete" /\ dea.ent \in Entries
      /\ db.state[dea.ent] = "installed"
  BY DEF DeactivateCommit, IInv, StateOK, DeaOK, DeaPcs
<1> DEFINE d == Deactivate(db, dea.ent, Files(db, dea.ent))
<1>2. d \in Registry /\ d.state = db.state
  BY <1>1, DeactivateRegistry DEF TypeOK
<1>3. db' = SetState(d, dea.ent, "imaged")
  BY <1>1 DEF DeactivateCommit, TxOK
<1>4. \A o \in Entries,
      q \in Paths : d.row[o][q] = IF o = dea.ent THEN Off ELSE db.row[o][q]
  BY <1>1, DeactivateRow, FilesOff DEF TypeOK
<1> HIDE DEF d
<1>5. db' \in Registry /\ db'.state = [db.state EXCEPT ![dea.ent] = "imaged"]
      /\ db'.row = d.row
  BY <1>1, <1>2, <1>3 DEF SetState, Registry
<1> QED BY <1>1, <1>4, <1>5

\* What is committed has no rows of the port, which is inactive; a port being
\* activated meanwhile is a different one.
LEMMA DeactivateCommitStep == ASSUME IInv, DeactivateCommit PROVE IInv'
<1>1. TypeOK'
  BY Deactivated DEF DeactivateCommit, IInv, TypeOK, Pcs
<1>2. StateOK'
  <2>1. /\ TypeOK /\ pc = "ddelete" /\ pc' = "dend" /\ UNCHANGED <<act, dea, force>>
        /\ tx' = db'
        /\ dea.ent \in Entries /\ db.state[dea.ent] = "installed"
        /\ db'.state = [db.state EXCEPT ![dea.ent] = "imaged"]
    BY Deactivated DEF DeactivateCommit, IInv
  <2>2. \A o \in Entries,
        q \in Paths : db'.row[o][q] = IF o = dea.ent THEN Off ELSE db.row[o][q]
    BY Deactivated
  <2>3. DbOK'
    <3>1. OneOwner(db')
      BY <2>2 DEF OneOwner, IInv, StateOK, DbOK
    <3>2. ActiveRowsInstalled(db')
      <4>1. SUFFICES ASSUME NEW o \in Entries, Files(db', o) # {}
                     PROVE  o # dea.ent /\ db.state[o] = "installed"
        BY <2>1 DEF ActiveRowsInstalled, TypeOK, Registry
      <4>2. PICK q \in Paths : db'.row[o][q] # Off
        BY <4>1 DEF Files
      <4> QED BY <4>2, <2>2 DEF ActiveRowsInstalled, Files, IInv, StateOK, DbOK
    <3>3. OneActive'
      BY <2>1 DEF OneActive, IInv, StateOK, DbOK, TypeOK, Registry
    <3> QED BY <3>1, <3>2, <3>3 DEF DbOK
  <2>4. EntOK'
    BY <2>1 DEF EntOK, IInv, StateOK, Forward, BeforeWrite, DeaPcs, WritePcs, TypeOK,
          Registry
  <2>5. OldsOK'
    BY <2>1 DEF OldsOK, DeaOK, IInv, StateOK, Forward, BeforeWrite, DeaPcs, WritePcs,
          AtOlds, TypeOK, Registry
  <2>6. ReplacedOK'
    BY <2>1 DEF ReplacedOK, DeaOK, IInv, StateOK, DeaPcs, AtReplaced, TypeOK, Registry
  <2>7. DeaOK' /\ TxOK'
    BY <2>1 DEF DeaOK, TxOK, DeaPcs, WritePcs, TypeOK, Registry
  <2>8. ForcedOK'
    <3>1. SUFFICES ASSUME BeforeWrite, NEW f \in act.forced
                   PROVE  /\ \/ db'.row[f.own][f.img] = Off
                             \/ \E p \in Image[act.ent] : db'.row[f.own][f.img] = At(p)
                          /\ act.stamp > 0
      BY <2>1 DEF ForcedOK, BeforeWrite, DeaPcs
    <3>2. f.own \in Entries /\ f.img \in Paths
      BY <2>1 DEF TypeOK, ActType, ForcedRows
    <3> QED BY <3>1, <3>2, <2>2 DEF IInv, StateOK, ForcedOK
  <2> QED BY <2>3, <2>4, <2>5, <2>6, <2>7, <2>8 DEF StateOK
<1> QED BY <1>1, <1>2 DEF IInv

\* The caller goes on, with one active port less.
LEMMA DeactivateEndStep == ASSUME IInv, DeactivateEnd PROVE IInv'
<1>1. TypeOK'
  <2>1. CASE dea.ret = "idle"
    BY <2>1, EndType DEF DeactivateEnd, Results, LocalsOK, IInv, TypeOK
  <2>2. CASE dea.ret # "idle"
    BY <2>2, NoDeaType DEF DeactivateEnd, IInv, TypeOK, DeaType, Pcs
  <2> QED BY <2>1, <2>2
<1>2. StateOK'
  <2>1. TypeOK /\ pc = "dend" /\ UNCHANGED <<db, tx, force>> /\ tx = db
    BY DEF DeactivateEnd, IInv, StateOK, TxOK, WritePcs
  <2>2. CASE dea.ret = "idle"
    BY <2>1, <2>2, EndInv DEF DeactivateEnd
  <2>3. CASE dea.ret # "idle"
    <3>1. pc' = dea.ret /\ pc' \in {"olds", "replaced"} /\ act' = act
      BY <2>1, <2>3 DEF DeactivateEnd, TypeOK, DeaType
    <3>2. EntOK' /\ OldsOK'
      BY <2>1, <3>1 DEF IInv, StateOK, EntOK, OldsOK, Forward, BeforeWrite, WritePcs,
            DeaPcs, AtOlds
    <3>3. ReplacedOK' /\ DeaOK' /\ ForcedOK' /\ TxOK'
      BY <2>1, <3>1 DEF IInv, StateOK, ReplacedOK, DeaOK, ForcedOK, TxOK, BeforeWrite,
            WritePcs, DeaPcs, AtReplaced
    <3> QED BY <2>1, <3>2, <3>3, DbSame DEF StateOK
  <2> QED BY <2>2, <2>3
<1> QED BY <1>1, <1>2 DEF IInv

-----------------------------------------------------------------------------
(* Failure, and users *)

\* An error in a forward step leaves what is committed and drops the
\* transaction, ...
LEMMA IoErrorStep == ASSUME IInv, IoError PROVE IInv'
<1>1. TypeOK'
  <2>1. faults' \in 0..MaxFaults
    BY FaultAssumption DEF IoError, Fault, IInv, TypeOK
  <2>2. tx' \in Registry /\ LocalsOK'
    BY RaiseType, DeactivateRaiseType DEF IoError, IInv
  <2> QED BY <2>1, <2>2 DEF IoError, LocalsOK, IInv, TypeOK
<1>2. StateOK'
  BY RaiseInv, DeactivateRaiseInv DEF IoError, Deactivating, DeaPcs
<1> QED BY <1>1, <1>2 DEF IInv

\* ... so does one after a file was put in place, ...
LEMMA AttributesErrorStep == ASSUME IInv, AttributesError PROVE IInv'
<1>1. TypeOK'
  <2>1. faults' \in 0..MaxFaults
    BY FaultAssumption DEF AttributesError, Fault, IInv, TypeOK
  <2>2. tx' \in Registry /\ LocalsOK'
    BY RaiseType, DeactivateRaiseType DEF AttributesError, IInv
  <2> QED BY <2>1, <2>2 DEF AttributesError, LocalsOK, IInv, TypeOK
<1>2. StateOK'
  BY RaiseInv, DeactivateRaiseInv DEF AttributesError, Deactivating, DeaPcs
<1> QED BY <1>1, <1>2 DEF IInv

\* ... one in a deletion, ...
LEMMA DeleteErrorStep == ASSUME IInv, DeleteError PROVE IInv'
<1>1. TypeOK'
  <2>1. faults' \in 0..MaxFaults
    BY FaultAssumption DEF DeleteError, Fault, IInv, TypeOK
  <2>2. tx' \in Registry /\ LocalsOK'
    BY RaiseType, DeactivateRaiseType DEF DeleteError, IInv
  <2> QED BY <2>1, <2>2 DEF DeleteError, LocalsOK, IInv, TypeOK
<1>2. StateOK'
  BY RaiseInv, DeactivateRaiseInv DEF DeleteError, Deactivating, DeaPcs
<1> QED BY <1>1, <1>2 DEF IInv

\* ... one of the commit itself, ...
LEMMA CommitErrorStep == ASSUME IInv, CommitError PROVE IInv'
<1>1. TypeOK'
  <2>1. faults' \in 0..MaxFaults
    BY FaultAssumption DEF CommitError, Fault, IInv, TypeOK
  <2>2. tx' \in Registry /\ LocalsOK'
    BY RaiseType, DeactivateRaiseType DEF CommitError, IInv
  <2> QED BY <2>1, <2>2 DEF CommitError, LocalsOK, IInv, TypeOK
<1>2. StateOK'
  BY RaiseInv, DeactivateRaiseInv DEF CommitError, Deactivating, DeaPcs
<1> QED BY <1>1, <1>2 DEF IInv

\* ... and a signal.
LEMMA SignalStep == ASSUME IInv, Signal PROVE IInv'
<1>1. TypeOK'
  <2>1. faults' \in 0..MaxFaults
    BY FaultAssumption DEF Signal, Fault, IInv, TypeOK
  <2>2. tx' \in Registry /\ LocalsOK'
    BY RaiseType, DeactivateRaiseType DEF Signal, IInv
  <2> QED BY <2>1, <2>2 DEF Signal, LocalsOK, IInv, TypeOK
<1>2. StateOK'
  BY RaiseInv, DeactivateRaiseInv DEF Signal, Deactivating, DeaPcs
<1> QED BY <1>1, <1>2 DEF IInv

\* A crash leaves what is committed.
LEMMA CrashStep == ASSUME IInv, Crash PROVE IInv'
<1>1. TypeOK'
  <2>1. faults' \in 0..MaxFaults
    BY FaultAssumption DEF Crash, Fault, IInv, TypeOK
  <2> QED BY <2>1, EndType DEF Crash, Results, LocalsOK, IInv, TypeOK
<1>2. StateOK'
  BY EndInv DEF Crash
<1> QED BY <1>1, <1>2 DEF IInv

\* A file that belongs to no port has no row.
LEMMA UserCreatesStep == ASSUME IInv, NEW p \in Paths, UserCreates(p) PROVE IInv'
<1>1. TypeOK'
  <2>1. disk' \in [Locs -> Content]
    BY Constants DEF UserCreates, IInv, TypeOK, Content
  <2> QED BY <2>1 DEF UserCreates, IInv, TypeOK
<1>2. StateOK'
  BY Frame DEF UserCreates, Kept
<1> QED BY <1>1, <1>2 DEF IInv

-----------------------------------------------------------------------------
(* The invariant *)

\* Nothing is active in a fresh registry.
LEMMA InitInv == ASSUME Init PROVE IInv
<1>1. TypeOK
  <2>1. disk \in [Locs -> Content] /\ users \in SUBSET UserPaths
    BY DEF Init, Content
  <2>2. dir \in [Entries -> SUBSET Paths]
    <3>1. \A e \in Entries : (IF e \in ArchiveOf THEN {} ELSE Image[e]) \in SUBSET Paths
      BY Constants
    <3> QED BY <3>1 DEF Init
  <2>3. loc \in [Entries -> {"archive", "directory"}]
    BY DEF Init
  <2>4. arch \in SUBSET Entries /\ clock \in 0..MaxStamp /\ faults \in 0..MaxFaults
    BY SetAssumption, StampAssumption, FaultAssumption DEF Init
  <2>5. stuck \in BOOLEAN /\ force \in BOOLEAN /\ pc \in Pcs /\ result \in Results
    BY DEF Init, Pcs, Results
  <2>6. db \in Registry /\ tx \in Registry
    BY FreshType DEF Init
  <2>7. act \in ActType /\ dea \in DeaType /\ before \in BeforeType
    BY NoActType, NoDeaType, NoBeforeType DEF Init
  <2> QED BY <2>1, <2>2, <2>3, <2>4, <2>5, <2>6, <2>7 DEF TypeOK
<1>2. DbOK
  BY DEF Init, Fresh, DbOK, OneOwner, ActiveRowsInstalled, Files, OneActive
<1>3. ~ Forward /\ ~ BeforeWrite /\ ~ AtOlds /\ ~ AtReplaced /\ pc = "idle" /\ tx = db
  BY DEF Init, Forward, BeforeWrite, AtOlds, AtReplaced, WritePcs, DeaPcs
<1> QED BY <1>1, <1>2, <1>3
        DEF IInv, StateOK, EntOK, OldsOK, ReplacedOK, DeaOK, ForcedOK, TxOK, DeaPcs,
              WritePcs

\* Every step keeps the invariant.
LEMMA NextInv == ASSUME IInv, [Next]_vars PROVE IInv'
<1>1. CASE ActivateStep
  BY <1>1, DeactivateOldStep, DeactivateReplacedStep, ExtractStep, SetLocationStep,
     DropArchiveStep, ScanFileStep, ForceFileStep, MoveAsideStep, ScanErrorStep,
     NoteBackupStep, ScanDoneStep, RegisterStep, RegisterErrorStep, PutFileStep,
     SkipFileStep, RenameRowStep, AppendRollbackStep, StartRenamedStep,
     PutRenamedStep, SetInstalledStep, CommitStep, FinishStep DEF ActivateStep
<1>2. CASE RollBackStep
  BY <1>2, UndoFileStep, RestoreStep, UndoDoneStep, RestoreDoneStep, ReactivateStep,
     StillActiveStep, ReactivateErrorStep, RethrowStep DEF RollBackStep
<1>3. CASE DeactivateStep
  BY <1>3, DeactivateBeginStep, DeactivateStuckStep, DeactivateCommitStep,
     DeactivateEndStep, DeleteFileStep DEF DeactivateStep
<1>4. CASE Failure
  BY <1>4, IoErrorStep, AttributesErrorStep, DeleteErrorStep, CommitErrorStep, SignalStep,
     CrashStep DEF Failure
<1>5. CASE Start
  BY <1>5, StartActivateStep, StartDeactivateStep, NewProcessStep DEF Start
<1>6. CASE \E p \in Paths : UserCreates(p)
  BY <1>6, UserCreatesStep
<1>7. CASE UNCHANGED vars
  <2>1. TypeOK'
    BY <1>7 DEF vars, IInv, TypeOK
  <2>2. StateOK'
    BY <1>7, Frame DEF vars, Kept
  <2> QED BY <2>1, <2>2 DEF IInv
<1> QED BY <1>1, <1>2, <1>3, <1>4, <1>5, <1>6, <1>7 DEF Next, Step

\* In every behaviour of activation and deactivation, whatever fails, the
\* inductive invariant holds.
THEOREM Invariance == Spec => []IInv
<1>1. Init => IInv
  BY InitInv
<1>2. IInv /\ [Next]_vars => IInv'
  BY NextInv
<1> QED BY <1>1, <1>2, PTL DEF Spec

\* Every variable and local of the procedures has the values it is meant to have.
THEOREM TypeCorrect == Spec => []TypeOK
<1>1. IInv => TypeOK
  BY DEF IInv
<1> QED BY <1>1, Invariance, PTL

\* The committed registry never has two owners for one file on disk, for any
\* images, renames, forced activations and failures.
THEOREM OwnersUnique == Spec => []NoFileOwnedTwice
<1>1. IInv => NoFileOwnedTwice
  BY DEF IInv, StateOK, DbOK, NoFileOwnedTwice
<1> QED BY <1>1, Invariance, PTL

\* A port that is not recorded as active has no active files.
THEOREM InactivePortsOwnNothing == Spec => []InactiveOwnsNothing
<1>1. IInv => InactiveOwnsNothing
  BY DEF IInv, StateOK, DbOK, InactiveOwnsNothing
<1> QED BY <1>1, Invariance, PTL

\* No two versions of a port are ever recorded as active.
THEOREM OneVersionActive == Spec => []OneActive
<1>1. IInv => OneActive
  BY DEF IInv, StateOK, DbOK
<1> QED BY <1>1, Invariance, PTL

-----------------------------------------------------------------------------
(* Refinement *)

\* The commit of an activation is an activation of ActivePorts.
LEMMA CommitActivates == ASSUME IInv, Commit PROVE Active!ActivatePort(act.ent)
<1>1. TypeOK /\ TxOK /\ pc = "commit" /\ db' = tx /\ act.ent \in Entries /\ Forward
      /\ ~ AtOlds
  BY DEF Commit, IInv, StateOK, EntOK, Forward, WritePcs, AtOlds, DeaPcs
<1>2. db'.state = [db.state EXCEPT ![act.ent] = "installed"] /\ Pending
  BY <1>1 DEF TxOK
<1>3. \A o \in Entries : PortOf[o] = PortOf[act.ent] => db.state[o] = "imaged"
  BY <1>1 DEF IInv, StateOK, OldsOK, TypeOK, Registry
<1>4. \A q \in Paths : IF q \in Image[act.ent]
                       THEN \E p \in Paths : db'.row[act.ent][q] = Active!At(p)
                       ELSE db'.row[act.ent][q] = Active!Off
  BY <1>1, <1>2 DEF Pending, At, Off, Active!At, Active!Off
<1>5. \A o \in Entries \ {act.ent}, q \in Paths : Active!KeepsOrYields(act.ent, o, q)
  BY <1>1, <1>2 DEF Pending, Yields, At, Off, Backup,
                    Active!KeepsOrYields, Active!At, Active!Off, Active!Backup
<1>6. Active!OneOwner(db')
  BY <1>1, <1>2 DEF Pending, OneOwner, Off, Active!OneOwner, Active!Off
<1> QED BY <1>2, <1>3, <1>4, <1>5, <1>6 DEF Active!ActivatePort

\* So is the reactivation of a replaced port.
LEMMA ReactivateActivates ==
    ASSUME IInv, NEW e \in Entries, Reactivate(e) PROVE Active!ActivatePort(e)
<1>1. \A o \in Entries : PortOf[o] = PortOf[e] => db.state[o] = "imaged"
  BY DEF Reactivate
<1>2. \A q \in Paths : IF q \in Image[e] THEN \E p \in Paths : db'.row[e][q] = Active!At(p)
                                         ELSE db'.row[e][q] = Active!Off
  BY Reactivated DEF At, Off, Active!At, Active!Off
<1>3. \A o \in Entries \ {e}, q \in Paths : Active!KeepsOrYields(e, o, q)
  <2>1. \A o \in Entries, q \in Paths :
          o # e /\ db'.row[o][q] # db.row[o][q] =>
              /\ q \in Image[e] /\ db.row[o][q] = At(q)
              /\ db'.row[o][q] = Off \/ \E s \in 1..MaxStamp : db'.row[o][q] = Backup(q, s)
    BY Reactivated
  <2> QED BY <2>1 DEF At, Off, Backup, Active!KeepsOrYields, Active!At, Active!Off,
        Active!Backup
<1>4. Active!OneOwner(db')
  BY Reactivated DEF OneOwner, Off, Active!OneOwner, Active!Off
<1>5. db'.state = [db.state EXCEPT ![e] = "installed"]
  BY Reactivated
<1> QED BY <1>1, <1>2, <1>3, <1>4, <1>5 DEF Active!ActivatePort

\* The commit of a deactivation is a deactivation of ActivePorts.
LEMMA CommitDeactivates ==
    ASSUME IInv, DeactivateCommit PROVE Active!DeactivatePort(dea.ent)
BY Deactivated DEF Active!DeactivatePort, Active!Off, Off

\* No other step changes what is committed.
LEMMA OthersKeep ==
    ASSUME [Next]_vars, ~ Commit, ~ DeactivateCommit, \A e \in Entries : ~ Reactivate(e)
    PROVE  UNCHANGED db
<1>1. CASE ActivateStep
  BY <1>1 DEF ActivateStep, DeactivateOld, DeactivateReplaced, Extract, SetLocation,
        DropArchive, ScanFile, ForceFile, MoveAside, ScanError, NoteBackup, ScanDone,
        Register, RegisterError, PutFile, SkipFile, RenameRow, AppendRollback,
        StartRenamed, PutRenamed, SetInstalled, Finish
<1>2. CASE RollBackStep
  BY <1>2 DEF RollBackStep, UndoFile, Restore, UndoDone, RestoreDone, StillActive,
        ReactivateError, Rethrow
<1>3. CASE DeactivateStep
  BY <1>3 DEF DeactivateStep, DeactivateBegin, DeactivateStuck, DeactivateEnd, DeleteFile
<1>4. CASE Failure
  BY <1>4 DEF Failure, IoError, AttributesError, DeleteError, CommitError, Signal, Crash
<1>5. CASE Start \/ \E p \in Paths : UserCreates(p)
  BY <1>5 DEF Start, StartActivate, StartDeactivate, NewProcess, UserCreates
<1> QED BY <1>1, <1>2, <1>3, <1>4, <1>5 DEF Next, Step, vars

\* Activation and deactivation as the code does them, with every error, signal
\* and crash, change the committed registry only as ActivePorts allows.
THEOREM Refinement == Spec => ActivePortsSpec
<1>1. Init => Active!Init
  BY DEF Init, Active!Init, Fresh, Active!Fresh, Off, Active!Off
<1>2. IInv /\ [Next]_vars => [Active!Next]_db
  <2> SUFFICES ASSUME IInv, [Next]_vars PROVE [Active!Next]_db
    OBVIOUS
  <2>1. CASE Commit
    <3>1. act.ent \in Entries
      BY <2>1 DEF Commit, IInv, StateOK, EntOK, Forward, WritePcs
    <3> QED BY <2>1, <3>1, CommitActivates DEF Active!Next
  <2>2. CASE DeactivateCommit
    BY <2>2, CommitDeactivates, Deactivated DEF Active!Next
  <2>3. CASE \E e \in Entries : Reactivate(e)
    BY <2>3, ReactivateActivates DEF Active!Next
  <2>4. CASE ~ Commit /\ ~ DeactivateCommit /\ \A e \in Entries : ~ Reactivate(e)
    BY <2>4, OthersKeep
  <2> QED BY <2>1, <2>2, <2>3, <2>4
<1> QED BY <1>1, <1>2, Invariance, PTL DEF Spec, ActivePortsSpec, Active!Spec

-----------------------------------------------------------------------------
(* Images survive                                                           *)

\* Where portimage_mode has always been what it is: archives are turned into
\* directories or kept, and only "archive" takes files out of an extraction.
OneMode == Mode = "archive" => ArchiveOf = Entries

\* Every image is there, even that of the port being activated, and a directory
\* that becomes an image is complete.
ImagesOK ==
    /\ \A e \in Entries : IF loc[e] = "archive" THEN e \in arch ELSE dir[e] = Image[e]
    /\ Mode = "archive" => \A e \in Entries : loc[e] = "archive"
    /\ pc \in {"convert", "drop"} => Mode = "directory"
    /\ pc = "convert" => act.xdir = Image[act.ent]
    /\ pc = "drop" => loc[act.ent] = "directory"

\* Every image is there to begin with.
LEMMA InitImages == ASSUME OneMode, Init PROVE ImagesOK
BY Constants DEF OneMode, Init, ImagesOK

\* A step that touches no image and does not enter the conversion keeps them.
LEMMA ImagesFrame ==
    ASSUME ImagesOK, UNCHANGED <<loc, arch, dir>>,
           pc' \notin {"convert", "drop"} \/ UNCHANGED <<pc, act>>
    PROVE  ImagesOK'
BY DEF ImagesOK

\* An error leads to the error clause, back to idle, or on with deactivation.
LEMMA RaiseLeaves ==
    ASSUME NEW from, Raise(from) PROVE pc' \in {"undo", "idle"}
BY DEF Raise, End

\* So does one in a deactivation.
LEMMA DeactivateRaiseLeaves ==
    ASSUME DeactivateRaise PROVE pc' \in {"undo", "idle", "dend", "dbegin"}
BY RaiseLeaves DEF DeactivateRaise

\* The steps of an activation.
LEMMA ActivateImages ==
    ASSUME IInv, ImagesOK, ActivateStep PROVE ImagesOK'
<1>e. BeforeWrite => act.ent \in Entries
  BY DEF IInv, StateOK, EntOK, Forward
<1>1. CASE \E e \in Entries : DeactivateOld(e) \/ DeactivateReplaced(e)
  BY <1>1, ImagesFrame DEF DeactivateOld, DeactivateReplaced, CallDeactivate
<1>2. CASE Extract
  <2>1. act.ent \in Entries
    BY <1>2, <1>e DEF Extract, BeforeWrite
  <2>2. CASE pc' = "convert"
    <3>1. act'.xdir = Image[act.ent] /\ act'.ent = act.ent /\ Mode = "directory"
      BY <1>2, <2>2, ModeAssumption DEF Extract, IInv, TypeOK, ActType, KeepArchive
    <3> QED BY <1>2, <2>1, <2>2, <3>1 DEF Extract, ImagesOK
  <2>3. CASE pc' = "scan"
    BY <1>2, <2>3, ImagesFrame DEF Extract
  <2> QED BY <1>2, <2>2, <2>3 DEF Extract
<1>3. CASE SetLocation
  <2>1. act.ent \in Entries
    BY <1>3, <1>e DEF SetLocation, BeforeWrite
  <2> QED BY <1>3, <2>1 DEF SetLocation, ImagesOK, IInv, TypeOK
<1>4. CASE DropArchive
  <2>1. act.ent \in Entries
    BY <1>4, <1>e DEF DropArchive, BeforeWrite
  <2> QED BY <1>4, <2>1 DEF DropArchive, ImagesOK
<1>5. CASE \E p \in Paths : PutFile(p)
  <2>1. KeepImagedir \/ loc[act.ent] = "archive"
    BY <1>5, ModeAssumption DEF PutFile, ImagesOK, KeepImagedir, IInv, StateOK, EntOK, Forward, WritePcs
  <2> QED BY <1>5, <2>1, ImagesFrame DEF PutFile
<1>6. CASE \E p \in Paths : ScanFile(p) \/ ForceFile(p) \/ MoveAside(p) \/ SkipFile(p)
  BY <1>6, ImagesFrame DEF ScanFile, ForceFile, MoveAside, SkipFile
<1>7. CASE \E p \in Paths : ScanError(p) \/ RenameRow(p)
  BY <1>7, RaiseLeaves, ImagesFrame DEF ScanError, RenameRow
<1>8. CASE NoteBackup \/ ScanDone \/ Register \/ RegisterError
  BY <1>8, RaiseLeaves, ImagesFrame DEF NoteBackup, ScanDone, Register, RegisterError
<1>9. CASE AppendRollback \/ StartRenamed \/ PutRenamed \/ SetInstalled \/ Commit \/ Finish
  BY <1>9, ImagesFrame
     DEF AppendRollback, StartRenamed, PutRenamed, SetInstalled, Commit, Finish, End
<1> QED BY <1>1, <1>2, <1>3, <1>4, <1>5, <1>6, <1>7, <1>8, <1>9 DEF ActivateStep

\* The steps of the error clause: a reactivation converts an archive at once.
LEMMA RollBackImages ==
    ASSUME IInv, ImagesOK, RollBackStep PROVE ImagesOK'
<1>1. CASE \E e \in Entries : Reactivate(e)
  <2>1. PICK e \in Entries : Reactivate(e)
    BY <1>1
  <2>2. CASE KeepArchive
    <3>1. loc' = loc /\ arch' = arch /\ pc' = "reactivate"
          /\ dir' = IF loc[e] = "archive" THEN dir
                    ELSE [dir EXCEPT ![e] = IF KeepImagedir THEN Image[e] ELSE {}]
      BY <2>1, <2>2 DEF Reactivate
    <3>2. loc[e] # "archive" => KeepImagedir
      BY ModeAssumption DEF ImagesOK, KeepImagedir, Modes
    <3> QED BY <3>1, <3>2 DEF ImagesOK, IInv, TypeOK
  <2>3. CASE ~ KeepArchive
    <3>1. Mode = "directory" /\ KeepImagedir
      BY <2>3 DEF KeepArchive, KeepImagedir
    <3>2. /\ loc' = [loc EXCEPT ![e] = "directory"] /\ arch' = arch \ {e}
          /\ dir' = [dir EXCEPT ![e] = Image[e]] /\ pc' = "reactivate"
      BY <2>1, <2>3, <3>1 DEF Reactivate, IInv, TypeOK
    <3> QED BY <3>1, <3>2 DEF ImagesOK, IInv, TypeOK
  <2> QED BY <2>2, <2>3
<1>2. CASE \E p \in Paths : UndoFile(p) \/ Restore(p)
  BY <1>2, ImagesFrame DEF UndoFile, Restore
<1>3. CASE UndoDone \/ RestoreDone \/ Rethrow \/ \E e \in Entries : StillActive(e) \/ ReactivateError(e)
  BY <1>3, ImagesFrame DEF UndoDone, RestoreDone, Rethrow, StillActive, ReactivateError, End
<1> QED BY <1>1, <1>2, <1>3 DEF RollBackStep

\* No other step touches an image.
LEMMA OtherImages ==
    ASSUME IInv, ImagesOK, DeactivateStep \/ Failure \/ Start \/ \E p \in Paths : UserCreates(p)
    PROVE  ImagesOK'
<1>1. CASE DeactivateStep
  BY <1>1, DeactivateRaiseLeaves, ImagesFrame
     DEF DeactivateStep, DeactivateBegin, DeactivateStuck, DeactivateCommit, DeactivateEnd,
         DeleteFile, End, IInv, TypeOK, DeaType
<1>2. CASE IoError \/ AttributesError \/ DeleteError
  BY <1>2, RaiseLeaves, DeactivateRaiseLeaves, ImagesFrame DEF IoError, AttributesError, DeleteError
<1>3. CASE CommitError \/ Signal \/ Crash
  BY <1>3, RaiseLeaves, DeactivateRaiseLeaves, ImagesFrame DEF CommitError, Signal, Crash, End
<1>4. CASE Start \/ \E p \in Paths : UserCreates(p)
  BY <1>4, ImagesFrame DEF Start, StartActivate, StartDeactivate, CallDeactivate, NewProcess, UserCreates
<1> QED BY <1>1, <1>2, <1>3, <1>4 DEF Failure

\* Every step keeps the images.
LEMMA NextImages == ASSUME IInv, ImagesOK, [Next]_vars PROVE ImagesOK'
<1>1. UNCHANGED vars => ImagesOK'
  BY ImagesFrame DEF vars
<1> QED BY <1>1, ActivateImages, RollBackImages, OtherImages DEF Next, Step

\* An inactive port can be activated again, whatever failed before and in any
\* mode, as long as the mode does not change to "archive" with directories left.
THEOREM ImagesSurvive == ASSUME OneMode PROVE Spec => []ImageSurvives
<1>1. Init => ImagesOK
  BY InitImages
<1>2. IInv /\ ImagesOK /\ [Next]_vars => ImagesOK'
  BY NextImages
<1>3. ImagesOK => ImageSurvives
  BY DEF ImagesOK, ImageSurvives
<1> QED BY <1>1, <1>2, <1>3, Invariance, PTL DEF Spec

-----------------------------------------------------------------------------
(* Files of no port survive                                                 *)

\* Nobody creates files while an operation is under way, forced activations are
\* a second or more apart, no signal arrives during the commit, and files are
\* renamed only to places that belong to ports.
Undisturbed ==
    /\ ~ Race /\ ~ SameSecond /\ "late" \notin Faults
    /\ \A e \in Entries, p \in Paths : Rename[e][p] # p => Rename[e][p] \notin UserPaths

\* An activation is under way or being undone.
InOp == Forward \/ pc \in {"undo", "restore"}

\* No port claims a file of no port.
Unclaimed(r) == \A l \in Locs : disk[l] = User => Owners(r, l) = {}

\* Backup suffixes not handed out yet are not in use.
SuffixFree(r) == \A s \in 0..MaxStamp : s > clock =>
    \A p \in Paths : disk[Backup(p, s)] # User /\ Owners(r, Backup(p, s)) = {}

\* What holds of the files of no port at any time.
FilesOK ==
    /\ \A l \in Locs : disk[l] = User => l[1] \in UserPaths
    /\ Unclaimed(db) /\ Unclaimed(tx)
    /\ SuffixFree(db) /\ SuffixFree(tx)
    /\ UserFilesSurvive

\* What was moved aside was not claimed where it was, and what is put in place
\* of it is no such file.
AsideOK == InOp =>
    /\ act.stamp <= clock
    /\ act.ren \in {Rename[act.ent], NoRename}
    /\ pc \in {"aside", "note"} \/ act.backups # {} => act.stamp > 0
    /\ act.stamp > 0 => \A p \in Paths :
          disk[Backup(p, act.stamp)] = User => Owners(db, At(p)) = {}
    /\ \A p \in act.backups : disk[At(p)] # User
    /\ pc \in {"note", "append"} => \A p \in act.now : disk[At(p)] # User
    /\ pc # "restore" => \A p \in act.rb : disk[At(p)] # User

\* While conflicts are looked for: nothing is moved twice, and where the scan is
\* over there is no such file any more.
ScanOK == BeforeWrite =>
    /\ act.stamp > 0 => \A p \in Paths :
          /\ Owners(db, Backup(p, act.stamp)) = {}
          /\ disk[Backup(p, act.stamp)] = User => disk[At(p)] = None
    /\ pc \notin {"aside", "note"} => act.moving = {}
    /\ \A p \in act.moving : Exists(p)
    /\ ~ AtOlds => \A p \in Image[act.ent] \ (act.scan \cup act.moving) : disk[At(p)] # User
    /\ AtReplaced => act.scan = {}

\* What is deleted is claimed by the port that is deactivated.
DeletesOK == pc = "ddelete" => \A l \in dea.files : disk[l] # User

UserSafe == FilesOK /\ AsideOK /\ ScanOK /\ DeletesOK

\* A step that neither moves nor makes nor destroys a file of no port.
SameUser == \A l \in Locs : disk'[l] = User <=> disk[l] = User

\* Files of no port are where they were, as long as no port claims more.
LEMMA FilesFrame ==
    ASSUME IInv, FilesOK, SameUser, UNCHANGED <<clock, users>>,
           \A l \in Locs : Owners(db', l) \subseteq Owners(db, l) \cup Owners(tx, l),
           \A l \in Locs : Owners(tx', l) \subseteq Owners(db, l) \cup Owners(tx, l)
    PROVE  FilesOK'
<1>1. Unclaimed(db)' /\ Unclaimed(tx)'
  BY DEF FilesOK, Unclaimed, SameUser
<1>2. \A s \in 0..MaxStamp, p \in Paths : Backup(p, s) \in Locs
  BY Constants
<1>3. SuffixFree(db)'
  BY <1>2 DEF FilesOK, SuffixFree, SameUser
<1>4. SuffixFree(tx)'
  BY <1>2 DEF FilesOK, SuffixFree, SameUser
<1>5. UserFilesSurvive'
  <2>1. \A u \in users, s \in 0..MaxStamp : <<u, s>> \in Locs
    BY SetAssumption DEF Locs, IInv, TypeOK
  <2> QED BY <2>1 DEF FilesOK, UserFilesSurvive, SameUser
<1> QED BY <1>1, <1>3, <1>4, <1>5 DEF FilesOK, SameUser

\* In particular when nothing happens to the registry.
LEMMA FilesQuiet ==
    ASSUME IInv, FilesOK, UNCHANGED <<disk, clock, users, db>>, tx' \in {tx, db}
    PROVE  FilesOK'
BY FilesFrame DEF SameUser

\* What was moved aside stays so while these locals do.
LEMMA AsideFrame ==
    ASSUME IInv, AsideOK, SameUser, UNCHANGED clock,
           \A l \in Locs : Owners(db', l) \subseteq Owners(db, l),
           InOp' => /\ InOp
                    /\ act'.ent = act.ent /\ act'.stamp = act.stamp /\ act'.ren = act.ren
                    /\ act'.backups \subseteq act.backups /\ act'.rb \subseteq act.rb,
           pc' \in {"aside", "note"} => act.stamp > 0,
           pc' \in {"note", "append"} => pc' = pc /\ act'.now = act.now,
           InOp' /\ pc = "restore" => pc' = "restore"
    PROVE  AsideOK'
<1>1. \A p \in Paths : At(p) \in Locs
  BY Constants
<1>2. SUFFICES ASSUME InOp' PROVE AsideOK'
  BY DEF AsideOK
<1>3. act'.stamp > 0 => \A p \in Paths :
          disk'[Backup(p, act'.stamp)] = User => Owners(db', At(p)) = {}
  <2>1. \A p \in Paths : Backup(p, act.stamp) \in Locs
    BY Constants DEF IInv, TypeOK, ActType
  <2> QED BY <1>1, <1>2, <2>1 DEF AsideOK, SameUser
<1>4. \A p \in act.backups \cup act.rb \cup act.now : At(p) \in Locs
  BY <1>1 DEF IInv, TypeOK, ActType
<1>5. (\A p \in act.backups : disk[At(p)] # User) => \A p \in act'.backups : disk'[At(p)] # User
  BY <1>2, <1>4 DEF SameUser
<1>6. pc' \in {"note", "append"} => \A p \in act'.now : disk'[At(p)] # User
  BY <1>2, <1>4 DEF SameUser, AsideOK
<1>7. pc' # "restore" => \A p \in act'.rb : disk'[At(p)] # User
  BY <1>2, <1>4 DEF SameUser, AsideOK
<1> QED BY <1>2, <1>3, <1>5, <1>6, <1>7 DEF AsideOK

\* So does what the scan has found.
LEMMA ScanFrame ==
    ASSUME IInv, ScanOK, SameUser,
           \A l \in Locs : disk[l] = None => disk'[l] = None,
           disk' = disk \/ act.moving = {},
           \A l \in Locs : Owners(db', l) \subseteq Owners(db, l),
           BeforeWrite' =>
              /\ BeforeWrite
              /\ act'.ent = act.ent /\ act'.stamp = act.stamp
              /\ act'.scan = act.scan /\ act'.moving = act.moving
              /\ AtOlds => AtOlds'
              /\ AtReplaced' => AtReplaced
              /\ pc \in {"aside", "note"} => pc' \in {"aside", "note"}
    PROVE  ScanOK'
<1>1. SUFFICES ASSUME BeforeWrite' PROVE ScanOK'
  BY DEF ScanOK
<1>2. \A p \in Paths : Backup(p, act.stamp) \in Locs
  BY Constants DEF IInv, TypeOK, ActType
<1>4. \A p \in Paths : At(p) \in Locs
  BY Constants
<1>3. act'.stamp > 0 => \A p \in Paths :
          /\ Owners(db', Backup(p, act'.stamp)) = {}
          /\ disk'[Backup(p, act'.stamp)] = User => disk'[At(p)] = None
  BY <1>1, <1>2, <1>4 DEF ScanOK, SameUser
<1>5. ~ AtOlds => \A p \in Image[act.ent] : disk'[At(p)] = User <=> disk[At(p)] = User
  BY <1>1, <1>4, Constants DEF SameUser, IInv, StateOK, EntOK, Forward
<1>6. \A p \in act.moving : Exists(p)'
  BY <1>1 DEF ScanOK, Exists
<1> QED BY <1>1, <1>3, <1>5, <1>6 DEF ScanOK

\* Outside an activation only the first part matters.
LEMMA OutsideSafe ==
    ASSUME FilesOK', pc' \in {"idle", "committed", "reactivate"} PROVE UserSafe'
BY DEF UserSafe, AsideOK, ScanOK, DeletesOK, InOp, Forward, BeforeWrite, WritePcs, DeaPcs

\* An error in an activation.
LEMMA RaiseSafe ==
    ASSUME IInv, UserSafe, NEW from, Raise(from), UNCHANGED <<disk, db, clock, users>>,
           from \in OuterTry => InOp /\ pc # "restore"
    PROVE  UserSafe'
<1>1. FilesOK'
  BY FilesQuiet DEF Raise, UserSafe
<1>2. CASE from \notin OuterTry
  BY <1>1, <1>2, OutsideSafe DEF Raise, End
<1>3. CASE from \in OuterTry
  <2>1. /\ pc' = "undo" /\ act'.ent = act.ent /\ act'.stamp = act.stamp /\ act'.ren = act.ren
        /\ act'.backups = act.backups /\ act'.rb = act.rb
    BY <1>3 DEF Raise, IInv, TypeOK, ActType
  <2>2. AsideOK'
    BY <1>3, <2>1, AsideFrame DEF SameUser, UserSafe
  <2> QED BY <1>1, <2>1, <2>2 DEF UserSafe, ScanOK, DeletesOK, BeforeWrite, DeaPcs
<1> QED BY <1>2, <1>3

\* An error in a deactivation.
LEMMA DeactivateRaiseSafe ==
    ASSUME IInv, UserSafe, pc \in DeaPcs, DeactivateRaise, UNCHANGED <<disk, db, clock, users>>
    PROVE  UserSafe'
<1>1. CASE dea.try = 2
  <2>1. dea.ret \in OuterTry => InOp /\ pc # "restore"
    BY DEF OuterTry, InnerTry, InOp, Forward, BeforeWrite, IInv, DeaPcs
  <2> QED BY <1>1, <2>1, RaiseSafe DEF DeactivateRaise
<1>2. CASE dea.try # 2
  <2>1. /\ pc' \in {"dend", "dbegin"} /\ act' = act /\ dea'.ret = dea.ret /\ tx' = db
    BY <1>2 DEF DeactivateRaise, IInv, TypeOK, DeaType
  <2>2. FilesOK'
    BY <2>1, FilesQuiet DEF UserSafe
  <2>3. AsideOK'
    BY <2>1, AsideFrame DEF SameUser, UserSafe, InOp, Forward, BeforeWrite, WritePcs, DeaPcs
  <2>4. ScanOK'
    BY <2>1, ScanFrame DEF SameUser, UserSafe, BeforeWrite, DeaPcs, AtOlds, AtReplaced
  <2> QED BY <2>1, <2>2, <2>3, <2>4 DEF UserSafe, DeletesOK
<1> QED BY <1>1, <1>2

-----------------------------------------------------------------------------
(* Start and the first deactivations *)

\* A new operation has a suffix of its own.
LEMMA StartActivateSafe ==
    ASSUME IInv, Undisturbed, UserSafe, NEW e \in Entries, NEW asked \in BOOLEAN, StartActivate(e, asked)
    PROVE  UserSafe'
<1>1. /\ UNCHANGED <<disk, db, tx, users>> /\ pc' = "olds" /\ clock' \in {clock, clock + 1}
      /\ clock \in Nat /\ tx = db /\ (force' => clock' = clock + 1)
  BY StampAssumption DEF StartActivate, Stamps, Undisturbed, IInv, TypeOK, StateOK, TxOK, WritePcs
<1>2. /\ act'.ent = e /\ act'.stamp = (IF force' THEN clock' ELSE 0) /\ act'.moving = {}
      /\ act'.backups = {} /\ act'.rb = {} /\ act'.ren \in {Rename[e], NoRename}
  BY DEF StartActivate, NoAct
<1>3. FilesOK'
  <2>1. \A s \in 0..MaxStamp : s > clock' => s > clock
    BY <1>1
  <2>2. SuffixFree(db)' /\ SuffixFree(tx)'
    BY <1>1, <2>1 DEF UserSafe, FilesOK, SuffixFree
  <2> QED BY <1>1, <2>2 DEF UserSafe, FilesOK, Unclaimed, UserFilesSurvive
<1>4. act'.stamp > 0 => act'.stamp \in 0..MaxStamp /\ act'.stamp > clock
  BY <1>1, <1>2, StampAssumption DEF StartActivate
<1>5. act'.stamp > 0 => \A p \in Paths :
         disk[Backup(p, act'.stamp)] # User /\ Owners(db, Backup(p, act'.stamp)) = {}
  BY <1>4 DEF UserSafe, FilesOK, SuffixFree
<1>6. AsideOK'
  BY <1>1, <1>2, <1>5 DEF AsideOK
<1>7. ScanOK'
  BY <1>1, <1>2, <1>5 DEF ScanOK, AtOlds, AtReplaced, DeaPcs
<1> QED BY <1>1, <1>3, <1>6, <1>7 DEF UserSafe, DeletesOK

\* The other ways to begin.
LEMMA StartSafe ==
    ASSUME IInv, Undisturbed, UserSafe, Start PROVE UserSafe'
<1>1. CASE \E e \in Entries : StartDeactivate(e)
  <2>1. UNCHANGED <<disk, db, tx, clock, users>> /\ pc' = "dbegin" /\ dea'.ret = "idle"
    BY <1>1 DEF StartDeactivate, CallDeactivate
  <2>2. FilesOK'
    BY <2>1, FilesQuiet DEF UserSafe
  <2> QED BY <2>1, <2>2
        DEF UserSafe, AsideOK, ScanOK, DeletesOK, InOp, Forward, BeforeWrite, WritePcs, DeaPcs
<1>2. CASE NewProcess
  BY <1>2, FilesQuiet, OutsideSafe DEF NewProcess, UserSafe
<1> QED BY <1>1, <1>2, StartActivateSafe DEF Start

\* A deactivation is called in an activation.
LEMMA CallSafe ==
    ASSUME IInv, UserSafe, NEW e \in Entries, DeactivateOld(e) \/ DeactivateReplaced(e)
    PROVE  UserSafe'
<1>1. /\ UNCHANGED <<disk, db, tx, clock, users>> /\ pc' = "dbegin" /\ dea'.ret = pc
      /\ pc \in {"olds", "replaced"}
  BY DEF DeactivateOld, DeactivateReplaced, CallDeactivate
<1>2. /\ act'.ent = act.ent /\ act'.stamp = act.stamp /\ act'.moving = act.moving
      /\ act'.scan = act.scan /\ act'.ren = act.ren
      /\ act'.backups = act.backups /\ act'.rb = act.rb
  BY DEF DeactivateOld, DeactivateReplaced, IInv, TypeOK, ActType
<1>3. FilesOK'
  BY <1>1, FilesQuiet DEF UserSafe
<1>4. AsideOK'
  BY <1>1, <1>2, AsideFrame DEF SameUser, UserSafe, InOp, Forward, BeforeWrite, WritePcs, DeaPcs
<1>5. ScanOK'
  BY <1>1, <1>2, ScanFrame DEF SameUser, UserSafe, BeforeWrite, DeaPcs, AtOlds, AtReplaced
<1> QED BY <1>1, <1>3, <1>4, <1>5 DEF UserSafe, DeletesOK

-----------------------------------------------------------------------------
(* The scan *)

\* Steps that change none of these.
LEMMA ConvertSafe ==
    ASSUME IInv, UserSafe, Extract \/ SetLocation \/ DropArchive PROVE UserSafe'
<1>1. /\ UNCHANGED <<disk, db, tx, clock, users>> /\ pc \in {"olds", "convert", "drop"}
      /\ pc' \in {"convert", "drop", "scan"} /\ pc' # pc
  BY DEF Extract, SetLocation, DropArchive
<1>2. /\ act'.ent = act.ent /\ act'.stamp = act.stamp /\ act'.moving = act.moving
      /\ act'.ren = act.ren /\ act'.backups = act.backups /\ act'.rb = act.rb
      /\ act'.scan = IF pc = "olds" THEN Image[act.ent] ELSE act.scan
  <2>1. CASE Extract
    BY <2>1 DEF Extract, IInv, TypeOK, ActType
  <2>2. CASE SetLocation \/ DropArchive
    BY <2>2 DEF SetLocation, DropArchive
  <2> QED BY <2>1, <2>2
<1>3. FilesOK'
  BY <1>1, FilesQuiet DEF UserSafe
<1>4. AsideOK'
  BY <1>1, <1>2, AsideFrame DEF SameUser, UserSafe, InOp, Forward, BeforeWrite, WritePcs, DeaPcs
<1>5. ScanOK'
  <2>1. CASE pc = "olds"
    BY <1>1, <1>2, <2>1
       DEF UserSafe, ScanOK, Exists, BeforeWrite, DeaPcs, AtOlds, AtReplaced
  <2>2. CASE pc # "olds"
    BY <1>1, <1>2, <2>2, ScanFrame DEF SameUser, UserSafe, BeforeWrite, DeaPcs, AtOlds, AtReplaced
  <2> QED BY <2>1, <2>2
<1> QED BY <1>1, <1>3, <1>4, <1>5 DEF UserSafe, DeletesOK

\* A file of this image with nothing in the way, or only what a replaced port
\* claims.
LEMMA ScanFileSafe ==
    ASSUME IInv, UserSafe, NEW p \in Paths, ScanFile(p) PROVE UserSafe'
<1>1. UNCHANGED <<disk, db, tx, clock, users, pc, dea>> /\ pc = "scan"
  BY DEF ScanFile
<1>2. /\ act'.ent = act.ent /\ act'.stamp = act.stamp /\ act'.moving = act.moving
      /\ act'.ren = act.ren /\ act'.backups = act.backups /\ act'.rb = act.rb
      /\ act'.scan = act.scan \ {p}
  BY DEF ScanFile, IInv, TypeOK, ActType
<1>3. FilesOK'
  BY <1>1, FilesQuiet DEF UserSafe
<1>4. AsideOK'
  BY <1>1, <1>2, AsideFrame DEF SameUser, UserSafe, InOp, Forward, BeforeWrite, WritePcs, DeaPcs
<1>5. disk[At(p)] # User
  <2>1. CASE Exists(p)
    BY <2>1, Constants DEF ScanFile, OwnedByReplaced, UserSafe, FilesOK, Unclaimed
  <2>2. CASE ~ Exists(p)
    BY <2>2, ContentAssumption DEF Exists
  <2> QED BY <2>1, <2>2
<1>6. ScanOK'
  BY <1>1, <1>2, <1>5 DEF UserSafe, ScanOK, Exists, BeforeWrite, DeaPcs, AtOlds, AtReplaced
<1> QED BY <1>1, <1>3, <1>4, <1>6 DEF UserSafe, DeletesOK

\* What is to be moved aside is on disk; a file of no port is all that is moved
\* for its path.
LEMMA ForceFileSafe ==
    ASSUME IInv, UserSafe, NEW p \in Paths, ForceFile(p) PROVE UserSafe'
<1> DEFINE rows == UNION {ConflictRows(o, act.ent) : o \in Owners(db, At(p))}
           moving == IF rows = {} THEN {p}
                     ELSE {db.row[f.own][f.img][1] : f \in {g \in rows : g.moved}}
<1>1. /\ UNCHANGED <<disk, db, tx, clock, users, dea>> /\ pc = "scan" /\ pc' = "aside"
      /\ Exists(p) /\ force /\ p \in act.scan
  BY DEF ForceFile
<1>2. /\ act'.ent = act.ent /\ act'.stamp = act.stamp /\ act'.ren = act.ren
      /\ act'.backups = act.backups /\ act'.rb = act.rb
      /\ act'.scan = act.scan \ {p} /\ act'.moving = moving
  BY DEF ForceFile, IInv, TypeOK, ActType
<1>3. FilesOK'
  BY <1>1, FilesQuiet DEF UserSafe
<1>4. act.stamp > 0 /\ act.ent \in Entries
  BY <1>1 DEF IInv, StateOK, EntOK, Forward, BeforeWrite
<1>5. AsideOK'
  BY <1>1, <1>2, <1>4, AsideFrame DEF SameUser, UserSafe, InOp, Forward, BeforeWrite, WritePcs, DeaPcs
<1>6. \A x \in moving : Exists(x)
  <2>1. ASSUME NEW f \in rows, f.moved PROVE Exists(db.row[f.own][f.img][1])
    BY <2>1 DEF ConflictRows, At
  <2> QED BY <1>1, <2>1
<1>7. rows # {} => disk[At(p)] # User
  BY Constants DEF UserSafe, FilesOK, Unclaimed
<1>8. rows = {} => p \in moving
  OBVIOUS
<1> HIDE DEF rows, moving
<1>9. act.moving = {}
  BY <1>1 DEF UserSafe, ScanOK, BeforeWrite
<1>10. ScanOK'
  BY <1>1, <1>2, <1>6, <1>7, <1>8, <1>9
     DEF UserSafe, ScanOK, Exists, BeforeWrite, DeaPcs, AtOlds, AtReplaced
<1> QED BY <1>1, <1>3, <1>5, <1>10 DEF UserSafe, DeletesOK

\* A location is its path and its stamp.
LEMMA LocParts ==
    /\ \A p, q, s, t : Backup(p, s) = Backup(q, t) <=> p = q /\ s = t
    /\ \A p, q, s : Backup(p, s) = At(q) <=> p = q /\ s = 0
    /\ \A p, q : At(p) = At(q) <=> p = q
    /\ \A p, s : Backup(p, s)[1] = p /\ At(p)[1] = p
BY DEF Backup, At

\* Nothing is overwritten at the backup path, and the file is there afterwards.
LEMMA MoveAsideSafe ==
    ASSUME IInv, UserSafe, NEW p \in Paths, MoveAside(p) PROVE UserSafe'
<1>1. /\ UNCHANGED <<db, tx, clock, users, dea>> /\ pc = "aside" /\ pc' = "note"
      /\ p \in act.moving /\ tx = db
      /\ disk' = [disk EXCEPT ![Backup(p, act.stamp)] = disk[At(p)], ![At(p)] = None]
  BY DEF MoveAside, IInv, StateOK, TxOK, WritePcs
<1>2. /\ act'.ent = act.ent /\ act'.stamp = act.stamp /\ act'.ren = act.ren
      /\ act'.backups = act.backups /\ act'.rb = act.rb
      /\ act'.scan = act.scan /\ act'.moving = act.moving \ {p} /\ act'.now = {p}
  BY DEF MoveAside, IInv, TypeOK, ActType
<1>3. /\ BeforeWrite /\ InOp /\ act.stamp > 0 /\ act.stamp \in 0..MaxStamp /\ act.stamp <= clock
      /\ clock \in 0..MaxStamp /\ act.ent \in Entries /\ ~ AtOlds /\ ~ AtReplaced
  BY <1>1 DEF UserSafe, AsideOK, BeforeWrite, InOp, Forward, IInv, TypeOK, ActType, StateOK, EntOK,
              AtOlds, AtReplaced, DeaPcs
<1>4. /\ Backup(p, act.stamp) \in Locs /\ At(p) \in Locs /\ Backup(p, act.stamp) # At(p)
      /\ disk \in [Locs -> Content]
  BY <1>3, Constants, LocParts DEF IInv, TypeOK
<1>5. \A l \in Locs : disk'[l] = IF l = At(p) THEN None
                                 ELSE IF l = Backup(p, act.stamp) THEN disk[At(p)] ELSE disk[l]
  BY <1>1, <1>4
<1>6. disk[At(p)] # None /\ disk[Backup(p, act.stamp)] # User /\ None # User
  BY <1>1, <1>3, ContentAssumption DEF UserSafe, ScanOK, Exists
<1>7. \A q \in Paths, s \in 0..MaxStamp : Backup(q, s) \in Locs /\ At(q) \in Locs
  BY Constants
<1>8. Owners(db, Backup(p, act.stamp)) = {}
  BY <1>3 DEF UserSafe, ScanOK
<1>9. FilesOK'
  <2>1. \A l \in Locs : disk'[l] = User => l[1] \in UserPaths
    BY <1>5, <1>6, <1>4, LocParts DEF UserSafe, FilesOK
  <2>2. Unclaimed(db)' /\ Unclaimed(tx)'
    BY <1>1, <1>5, <1>6, <1>8 DEF UserSafe, FilesOK, Unclaimed
  <2>3. \A s \in 0..MaxStamp : s > clock => \A q \in Paths : disk'[Backup(q, s)] # User
    <3> TAKE s \in 0..MaxStamp
    <3> HAVE s > clock
    <3> TAKE q \in Paths
    <3>1. s # act.stamp /\ s # 0 /\ Backup(q, s) \in Locs
      BY <1>3, <1>7
    <3>2. Backup(q, s) # At(p) /\ Backup(q, s) # Backup(p, act.stamp)
      BY <3>1, LocParts
    <3> QED BY <3>1, <3>2, <1>5 DEF UserSafe, FilesOK, SuffixFree
  <2>4. SuffixFree(db)' /\ SuffixFree(tx)'
    BY <1>1, <2>3 DEF UserSafe, FilesOK, SuffixFree
  <2>5. UserFilesSurvive'
    <3>1. SUFFICES ASSUME NEW u \in users PROVE \E s \in 0..MaxStamp : disk'[<<u, s>>] = User
      BY <1>1 DEF UserFilesSurvive
    <3>2. PICK s \in 0..MaxStamp : disk[<<u, s>>] = User
      BY DEF UserSafe, FilesOK, UserFilesSurvive
    <3>3. <<u, s>> = Backup(u, s) /\ u \in Paths
      BY SetAssumption DEF Backup, IInv, TypeOK
    <3>4. CASE u = p /\ s = 0
      <4>1. Backup(u, s) = At(p)
        BY <3>4, LocParts
      <4>2. disk'[Backup(p, act.stamp)] = User
        BY <1>4, <1>5, <3>2, <3>3, <4>1
      <4> QED BY <4>2, <3>4, <1>3 DEF Backup
    <3>5. CASE ~ (u = p /\ s = 0)
      <4>1. Backup(u, s) # At(p) /\ Backup(u, s) # Backup(p, act.stamp) /\ Backup(u, s) \in Locs
        BY <3>2, <3>3, <3>5, <1>6, <1>7, LocParts
      <4> QED BY <4>1, <1>5, <3>2, <3>3
    <3> QED BY <3>4, <3>5
  <2> QED BY <2>1, <2>2, <2>4, <2>5 DEF FilesOK
<1>10. \A q \in Paths : /\ disk'[Backup(q, act.stamp)] = IF q = p THEN disk[At(p)] ELSE disk[Backup(q, act.stamp)]
                        /\ disk'[At(q)] = IF q = p THEN None ELSE disk[At(q)]
  BY <1>3, <1>4, <1>5, <1>7, LocParts
<1>11. disk[At(p)] = User => Owners(db, At(p)) = {}
  BY <1>4 DEF UserSafe, FilesOK, Unclaimed
<1>12. AsideOK'
  <2>1. act.backups \in SUBSET Paths /\ act.rb \in SUBSET Paths
    BY DEF IInv, TypeOK, ActType
  <2>2. \A q \in Paths : disk'[Backup(q, act.stamp)] = User => Owners(db, At(q)) = {}
    BY <1>3, <1>10, <1>11 DEF UserSafe, AsideOK
  <2>3. \A q \in act.backups \cup act.rb : disk'[At(q)] # User
    BY <1>1, <1>3, <1>6, <1>10, <2>1 DEF UserSafe, AsideOK
  <2>4. disk'[At(p)] # User
    BY <1>4, <1>5, <1>6
  <2>5. act.ren \in {Rename[act.ent], NoRename}
    BY <1>3 DEF UserSafe, AsideOK
  <2> QED BY <1>1, <1>2, <1>3, <2>2, <2>3, <2>4, <2>5 DEF AsideOK
<1>13. ScanOK'
  <2>1. act.moving \in SUBSET Paths /\ Image[act.ent] \in SUBSET Paths
    BY <1>3, Constants DEF IInv, TypeOK, ActType
  <2>2. ~ AtReplaced' /\ ~ AtOlds'
    BY <1>1 DEF AtReplaced, AtOlds, DeaPcs
  <2>3. \A q \in Paths : disk'[Backup(q, act.stamp)] = User => disk'[At(q)] = None
    BY <1>3, <1>10 DEF UserSafe, ScanOK
  <2>4. \A q \in act.moving \ {p} : disk'[At(q)] # None
    BY <1>1, <1>3, <1>10, <2>1 DEF UserSafe, ScanOK, Exists
  <2>5. \A q \in Image[act.ent] \ (act.scan \cup (act.moving \ {p})) : disk'[At(q)] # User
    BY <1>3, <1>6, <1>10, <2>1 DEF UserSafe, ScanOK
  <2>6. \A q \in Paths : Owners(db, Backup(q, act.stamp)) = {}
    BY <1>3 DEF UserSafe, ScanOK
  <2> QED BY <1>1, <1>2, <2>2, <2>3, <2>4, <2>5, <2>6 DEF ScanOK, Exists
<1> QED BY <1>1, <1>9, <1>12, <1>13 DEF UserSafe, DeletesOK

\* The backup is remembered, or the scan is over.
LEMMA ScanGoesOn ==
    ASSUME IInv, UserSafe, NoteBackup \/ ScanDone PROVE UserSafe'
<1>1. /\ UNCHANGED <<disk, db, tx, clock, users, dea>> /\ pc \in {"note", "scan"}
      /\ pc' \in {"scan", "aside", "replaced"}
  BY DEF NoteBackup, ScanDone
<1>2. /\ act'.ent = act.ent /\ act'.stamp = act.stamp /\ act'.ren = act.ren
      /\ act'.rb = act.rb /\ act'.scan = act.scan /\ act'.moving = act.moving
      /\ act'.backups = IF pc = "note" THEN act.backups \cup act.now ELSE act.backups
  BY DEF NoteBackup, ScanDone, IInv, TypeOK, ActType
<1>3. FilesOK'
  BY <1>1, FilesQuiet DEF UserSafe
<1>4. AsideOK'
  <2>1. InOp /\ pc # "restore" /\ (pc' = "aside" => pc = "note")
    BY <1>1 DEF InOp, Forward, BeforeWrite, NoteBackup, ScanDone
  <2> QED BY <1>1, <1>2, <2>1 DEF UserSafe, AsideOK
<1>5. ScanOK'
  <2>1. /\ pc' \notin {"aside", "note"} => act.moving = {}
        /\ pc' = "replaced" => act.scan = {}
    BY <1>1 DEF NoteBackup, ScanDone, UserSafe, ScanOK, BeforeWrite
  <2>2. BeforeWrite /\ ~ AtOlds /\ (AtReplaced' => pc' = "replaced")
    BY <1>1 DEF BeforeWrite, AtOlds, AtReplaced, DeaPcs
  <2> QED BY <1>1, <1>2, <2>1, <2>2 DEF UserSafe, ScanOK, Exists
<1> QED BY <1>1, <1>3, <1>4, <1>5 DEF UserSafe, DeletesOK

-----------------------------------------------------------------------------
(* The transaction *)

\* No location is the empty value.
LEMMA OffNoLoc == Off \notin Locs
BY DEF Off, Locs

\* A registry whose rows are as they were, empty, or at suffixes handed out and
\* places without a file of no port, claims no such file.
LEMMA NewClaims ==
    ASSUME IInv, FilesOK, NEW r, NEW k \in 0..MaxStamp, k <= clock,
           \A o \in Entries, q \in Paths :
              \/ r.row[o][q] \in {Off, tx.row[o][q]}
              \/ \E p \in Paths, s \in {0, k} :
                    r.row[o][q] = Backup(p, s) /\ disk[Backup(p, s)] # User
    PROVE  Unclaimed(r) /\ SuffixFree(r)
<1>1. ASSUME NEW l \in Locs, disk[l] = User PROVE Owners(r, l) = {}
  <2>1. SUFFICES ASSUME NEW o \in Entries, NEW q \in Paths, r.row[o][q] = l PROVE FALSE
    BY DEF Owners
  <2>2. tx.row[o][q] = l
    BY <1>1, <2>1, OffNoLoc
  <2> QED BY <1>1, <2>2 DEF FilesOK, Unclaimed, Owners
<1>2. ASSUME NEW s \in 0..MaxStamp, s > clock, NEW p \in Paths PROVE Owners(r, Backup(p, s)) = {}
  <2>1. SUFFICES ASSUME NEW o \in Entries, NEW q \in Paths, r.row[o][q] = Backup(p, s) PROVE FALSE
    BY DEF Owners
  <2>2. Backup(p, s) \in Locs /\ s # 0 /\ s # k
    BY <1>2, Constants, StampAssumption DEF IInv, TypeOK
  <2>3. tx.row[o][q] = Backup(p, s)
    BY <2>1, <2>2, OffNoLoc, LocParts
  <2> QED BY <1>2, <2>3 DEF FilesOK, SuffixFree, Owners
<1> QED BY <1>1, <1>2 DEF Unclaimed, SuffixFree, FilesOK

\* The rows of the new port are where the scan was, those of forced owners at
\* the backups of their own files.
LEMMA RegisterSafe == ASSUME IInv, UserSafe, Register PROVE UserSafe'
<1>1. /\ UNCHANGED <<disk, db, clock, users, dea>> /\ pc = "replaced" /\ pc' = "put"
      /\ tx' = Activate(AfterForced, act.ent, ImageAt(act.ent)) /\ tx = db
      /\ CanRegister /\ act.ent \in Entries
  BY DEF Register, IInv, StateOK, TxOK, WritePcs, EntOK, Forward, BeforeWrite
<1>2. /\ act'.ent = act.ent /\ act'.stamp = act.stamp /\ act'.ren = act.ren
      /\ act'.rb = act.rb /\ act'.backups = act.backups
  BY DEF Register, IInv, TypeOK, ActType
<1>3. BeforeWrite /\ InOp /\ AtReplaced /\ ~ AtOlds
  BY <1>1 DEF BeforeWrite, InOp, Forward, AtReplaced, AtOlds, DeaPcs
<1>4. \A q \in Image[act.ent] : q \in Paths /\ disk[At(q)] # User
  BY <1>1, <1>3, Constants DEF UserSafe, ScanOK
<1>5. AfterForced \in Registry /\ act.stamp \in 0..MaxStamp /\ act.stamp <= clock
  BY <1>3, MoveRegistry DEF AfterForced, IInv, TypeOK, ActType, UserSafe, AsideOK
<1>6. ASSUME NEW o \in Entries, NEW q \in Paths
      PROVE  \/ tx'.row[o][q] \in {Off, tx.row[o][q]}
             \/ \E p \in Paths, s \in {0, act.stamp} :
                   tx'.row[o][q] = Backup(p, s) /\ disk[Backup(p, s)] # User
  <2>1. CASE o = act.ent /\ q \in Image[act.ent]
    <3>1. q \in DOMAIN ImageAt(act.ent) /\ ImageAt(act.ent)[q] = At(q) /\ At(q) = Backup(q, 0)
      BY <2>1 DEF ImageAt, At, Backup
    <3>2. tx'.row[o][q] = Backup(q, 0)
      BY <1>1, <1>5, <2>1, <3>1, ActivateRow
    <3> QED BY <3>1, <3>2, <1>4, <2>1
  <2>2. CASE ~ (o = act.ent /\ q \in Image[act.ent])
    <3>1. tx'.row[o][q] = AfterForced.row[o][q]
      BY <1>1, <1>5, <2>2, ActivateRow DEF ImageAt
    <3> DEFINE f == [own |-> o, img |-> q, moved |-> TRUE]
               g == [own |-> o, img |-> q, moved |-> FALSE]
    <3>4. AfterForced.row[o][q] = IF f \in act.forced THEN Backup(q, act.stamp)
                                  ELSE IF g \in act.forced THEN Off ELSE tx.row[o][q]
      <4>1. tx \in Registry
        BY DEF IInv, TypeOK
      <4> QED BY <4>1, MoveRow DEF AfterForced
    <3>2. tx'.row[o][q] \in {Off, tx.row[o][q]} \/ (f \in act.forced /\ tx'.row[o][q] = Backup(q, act.stamp))
      <4> HIDE DEF f, g
      <4> QED BY <3>1, <3>4
    <3>3. CASE f \in act.forced /\ tx'.row[o][q] = Backup(q, act.stamp)
      <4>1. f.own = o /\ f.img = q
        OBVIOUS
      <4>2. db.row[o][q] = At(q) /\ act.stamp > 0
        BY <1>1, <1>3, <3>3, <4>1 DEF CanRegister, CanMove, IInv, StateOK, ForcedOK
      <4>3. Owners(db, At(q)) # {}
        BY <4>2 DEF Owners
      <4>4. disk[Backup(q, act.stamp)] # User
        BY <1>3, <4>2, <4>3 DEF UserSafe, AsideOK
      <4> QED BY <3>3, <4>4
    <3> QED BY <3>2, <3>3
  <2> QED BY <2>1, <2>2
<1>7. Unclaimed(tx') /\ SuffixFree(tx')
  BY <1>5, <1>6, NewClaims DEF UserSafe
<1>8. FilesOK'
  BY <1>1, <1>7 DEF UserSafe, FilesOK, Unclaimed, SuffixFree, UserFilesSurvive
<1>9. AsideOK'
  BY <1>1, <1>2, <1>3, AsideFrame DEF SameUser, UserSafe
<1> QED BY <1>1, <1>8, <1>9 DEF UserSafe, ScanOK, DeletesOK, BeforeWrite, DeaPcs

\* A row goes to a place where no such file can be.
LEMMA RenameRowSafe ==
    ASSUME IInv, Undisturbed, UserSafe, NEW q \in Paths, RenameRow(q) PROVE UserSafe'
<1> DEFINE without == Deactivate(tx, act.ent, {At(q)})
<1>0. InOp /\ pc = "rename" /\ act.ent \in Entries /\ UNCHANGED <<disk, db, clock, users>>
      /\ q \in act.todo
  BY DEF RenameRow, InOp, Forward, WritePcs, IInv, StateOK, EntOK
<1>1. CASE CanActivate(without, act.ent, AsRenamed(q))
  <2>1. /\ tx' = Activate(without, act.ent, AsRenamed(q)) /\ act' = [act EXCEPT !.todo = @ \ {q}]
        /\ UNCHANGED <<pc, dea>>
    BY <1>1 DEF RenameRow
  <2>2. /\ act'.ent = act.ent /\ act'.stamp = act.stamp /\ act'.ren = act.ren
        /\ act'.rb = act.rb /\ act'.backups = act.backups
    BY <2>1 DEF IInv, TypeOK, ActType
  <2>3. act.ren[q] \in Paths /\ disk[At(act.ren[q])] # User
    <3>1. act.ren \in {Rename[act.ent], NoRename} /\ act.ren \in [Paths -> Paths]
      BY <1>0 DEF UserSafe, AsideOK, IInv, TypeOK, ActType
    <3>2. CASE act.ren[q] = q
      <4>1. tx.row[act.ent][q] = At(q)
        BY <1>0 DEF IInv, StateOK, TxOK, Pending
      <4> QED BY <1>0, <3>1, <3>2, <4>1, Constants DEF UserSafe, FilesOK, Unclaimed, Owners
    <3>3. CASE act.ren[q] # q
      <4>1. act.ren[q] \notin UserPaths
        BY <1>0, <3>1, <3>3 DEF Undisturbed, NoRename
      <4> QED BY <3>1, <4>1, Constants, LocParts DEF UserSafe, FilesOK
    <3> QED BY <3>2, <3>3
  <2>4. without \in Registry
    BY <1>0, DeactivateRegistry DEF IInv, TypeOK
  <2>5. ASSUME NEW o \in Entries, NEW x \in Paths
        PROVE  \/ tx'.row[o][x] \in {Off, tx.row[o][x]}
               \/ \E p \in Paths, s \in {0, act.stamp} :
                     tx'.row[o][x] = Backup(p, s) /\ disk[Backup(p, s)] # User
    <3>1. tx'.row[o][x] = IF o = act.ent /\ x = q THEN At(act.ren[q]) ELSE without.row[o][x]
      <4>1. x \in DOMAIN AsRenamed(q) <=> x = q
        BY DEF AsRenamed
      <4>2. AsRenamed(q)[q] = At(act.ren[q])
        BY DEF AsRenamed
      <4> HIDE DEF without
      <4> QED BY <1>0, <2>1, <2>4, <4>1, <4>2, ActivateRow
    <3>2. without.row[o][x] \in {Off, tx.row[o][x]}
      BY <1>0, DeactivateRow DEF IInv, TypeOK
    <3>3. At(act.ren[q]) = Backup(act.ren[q], 0)
      BY DEF At, Backup
    <3> QED BY <2>3, <3>1, <3>2, <3>3
  <2>6. act.stamp \in 0..MaxStamp /\ act.stamp <= clock
    BY <1>0 DEF IInv, TypeOK, ActType, UserSafe, AsideOK
  <2>7. Unclaimed(tx') /\ SuffixFree(tx')
    BY <2>5, <2>6, NewClaims DEF UserSafe
  <2>8. FilesOK'
    BY <1>0, <2>7 DEF UserSafe, FilesOK, Unclaimed, SuffixFree, UserFilesSurvive
  <2>9. AsideOK'
    BY <1>0, <2>1, <2>2, AsideFrame DEF SameUser, UserSafe
  <2> QED BY <1>0, <2>1, <2>8, <2>9 DEF UserSafe, ScanOK, DeletesOK, BeforeWrite, DeaPcs
<1>2. CASE ~ CanActivate(without, act.ent, AsRenamed(q))
  <2>1. Raise("rename")
    BY <1>2 DEF RenameRow
  <2> QED BY <1>0, <2>1, RaiseSafe
<1> QED BY <1>1, <1>2

\* A file of the port is put where there is none.
LEMMA PutFileSafe ==
    ASSUME IInv, UserSafe, NEW q \in Paths, PutFile(q) PROVE UserSafe'
<1>1. /\ UNCHANGED <<db, tx, clock, users, dea>> /\ pc = "put" /\ pc' = "append"
      /\ disk[At(Dest(q))] = None /\ disk' = [disk EXCEPT ![At(Dest(q))] = act.ent]
      /\ act.ent \in Entries
  BY DEF PutFile, Exists, IInv, StateOK, EntOK, Forward, WritePcs
<1>2. /\ act'.ent = act.ent /\ act'.stamp = act.stamp /\ act'.ren = act.ren
      /\ act'.rb = act.rb /\ act'.backups = act.backups /\ act'.now = {Dest(q)}
  BY DEF PutFile, IInv, TypeOK, ActType
<1>3. Dest(q) \in Paths /\ act.ent # User
  BY <1>1, ContentAssumption DEF Dest, IInv, TypeOK, ActType
<1>4. SameUser /\ disk'[At(Dest(q))] # User
  BY <1>1, <1>3, Constants, ContentAssumption DEF SameUser, IInv, TypeOK
<1>5. FilesOK'
  BY <1>1, <1>4, FilesFrame DEF UserSafe
<1>6. AsideOK'
  <2>1. \A p \in Paths, s \in 0..MaxStamp : At(p) \in Locs /\ Backup(p, s) \in Locs
    BY Constants
  <2>2. act.backups \in SUBSET Paths /\ act.rb \in SUBSET Paths /\ act.stamp \in 0..MaxStamp
    BY DEF IInv, TypeOK, ActType
  <2>3. AsideOK /\ InOp
    BY <1>1 DEF UserSafe, InOp, Forward, WritePcs
  <2>4. act.stamp > 0 => \A p \in Paths :
          disk'[Backup(p, act.stamp)] = User => Owners(db, At(p)) = {}
    BY <1>4, <2>1, <2>2, <2>3 DEF AsideOK, SameUser
  <2>5. \A p \in act.backups \cup act.rb : disk'[At(p)] # User
    BY <1>1, <1>4, <2>1, <2>2, <2>3 DEF AsideOK, SameUser
  <2> QED BY <1>1, <1>2, <1>4, <2>3, <2>4, <2>5 DEF AsideOK
<1> QED BY <1>1, <1>5, <1>6 DEF UserSafe, ScanOK, DeletesOK, BeforeWrite, DeaPcs

\* The other steps of the transaction up to the commit.
LEMMA WriteSafe ==
    ASSUME IInv, UserSafe,
           \/ AppendRollback \/ (\E q \in Paths : SkipFile(q)) \/ StartRenamed \/ PutRenamed
           \/ SetInstalled
    PROVE  UserSafe'
<1>1. /\ UNCHANGED <<disk, db, clock, users, dea>> /\ pc \in WritePcs
      /\ pc' \in {"put", "rename", "commit"}
  BY DEF AppendRollback, SkipFile, StartRenamed, PutRenamed, SetInstalled, WritePcs
<1>2. /\ act'.ent = act.ent /\ act'.stamp = act.stamp /\ act'.ren = act.ren
      /\ act'.backups = act.backups
      /\ act'.rb = IF pc = "append" THEN act.rb \cup act.now ELSE act.rb
  BY DEF AppendRollback, SkipFile, StartRenamed, PutRenamed, SetInstalled, IInv, TypeOK, ActType
<1>3. \A l \in Locs : Owners(tx', l) = Owners(tx, l)
  <2>1. tx'.row = tx.row
    BY SetStateRegistry
       DEF AppendRollback, SkipFile, StartRenamed, PutRenamed, SetInstalled, SetState, IInv, TypeOK,
           Registry
  <2> QED BY <2>1 DEF Owners
<1>4. FilesOK'
  BY <1>1, <1>3, FilesFrame DEF UserSafe, SameUser
<1>5. AsideOK'
  BY <1>1, <1>2 DEF UserSafe, AsideOK, InOp, Forward, WritePcs
<1> QED BY <1>1, <1>4, <1>5 DEF UserSafe, ScanOK, DeletesOK, BeforeWrite, DeaPcs, WritePcs

\* What was pending is committed, and the operation is over.
LEMMA CommitSafe == ASSUME IInv, UserSafe, Commit \/ Finish PROVE UserSafe'
<1>1. UNCHANGED <<disk, tx, clock, users>> /\ db' \in {db, tx} /\ pc' \in {"committed", "idle"}
  BY DEF Commit, Finish, End
<1>2. FilesOK'
  BY <1>1, FilesFrame DEF UserSafe, SameUser
<1> QED BY <1>1, <1>2, OutsideSafe

-----------------------------------------------------------------------------
(* The error clause *)

\* Files put in place are deleted; they are the port's.
LEMMA UndoSafe ==
    ASSUME IInv, UserSafe, UndoDone \/ \E p \in Paths : UndoFile(p) PROVE UserSafe'
<1>1. CASE UndoDone
  <2>1. /\ UNCHANGED <<disk, db, tx, clock, users, act>> /\ pc = "undo" /\ pc' = "restore"
    BY <1>1 DEF UndoDone
  <2>2. FilesOK' /\ AsideOK'
    BY <2>1, FilesQuiet, AsideFrame DEF SameUser, UserSafe, InOp
  <2> QED BY <2>1, <2>2 DEF UserSafe, ScanOK, DeletesOK, BeforeWrite, DeaPcs
<1>2. ASSUME NEW p \in Paths, UndoFile(p) PROVE UserSafe'
  <2>1. /\ UNCHANGED <<db, tx, clock, users, pc>> /\ pc = "undo" /\ p \in act.rb
        /\ disk' = [disk EXCEPT ![At(p)] = None]
    BY <1>2 DEF UndoFile
  <2>2. /\ act'.ent = act.ent /\ act'.stamp = act.stamp /\ act'.ren = act.ren
        /\ act'.backups = act.backups /\ act'.rb = act.rb \ {p}
    BY <1>2 DEF UndoFile, IInv, TypeOK, ActType
  <2>3. InOp /\ SameUser
    BY <2>1, Constants, ContentAssumption DEF InOp, SameUser, UserSafe, AsideOK, IInv, TypeOK
  <2>4. FilesOK' /\ AsideOK'
    BY <2>1, <2>2, <2>3, FilesFrame, AsideFrame DEF UserSafe
  <2> QED BY <2>1, <2>4 DEF UserSafe, ScanOK, DeletesOK, BeforeWrite, DeaPcs
<1> QED BY <1>1, <1>2

\* A backup goes back to where nothing claims it, over nothing but what the
\* failed activation put there.
LEMMA RestoreSafe ==
    ASSUME IInv, UserSafe, NEW p \in Paths, Restore(p) PROVE UserSafe'
<1>1. /\ UNCHANGED <<db, tx, clock, users, pc>> /\ pc = "restore" /\ p \in act.backups
      /\ tx = db
      /\ disk' = [disk EXCEPT ![At(p)] = disk[Backup(p, act.stamp)],
                              ![Backup(p, act.stamp)] = None]
  BY DEF Restore, IInv, StateOK, TxOK, WritePcs
<1>2. /\ act'.ent = act.ent /\ act'.stamp = act.stamp /\ act'.ren = act.ren
      /\ act'.backups = act.backups \ {p}
  BY DEF Restore, IInv, TypeOK, ActType
<1>3. /\ InOp /\ act.stamp > 0 /\ act.stamp \in 0..MaxStamp /\ act.stamp <= clock
      /\ clock \in 0..MaxStamp /\ act.ren \in {Rename[act.ent], NoRename}
  BY <1>1 DEF UserSafe, AsideOK, InOp, IInv, TypeOK, ActType
<1>4. /\ Backup(p, act.stamp) \in Locs /\ At(p) \in Locs /\ Backup(p, act.stamp) # At(p)
      /\ disk \in [Locs -> Content]
  BY <1>3, Constants, LocParts DEF IInv, TypeOK
<1>5. \A l \in Locs : disk'[l] = IF l = At(p) THEN disk[Backup(p, act.stamp)]
                                 ELSE IF l = Backup(p, act.stamp) THEN None ELSE disk[l]
  BY <1>1, <1>4
<1>6. disk[At(p)] # User /\ None # User
      /\ (disk[Backup(p, act.stamp)] = User => Owners(db, At(p)) = {})
  BY <1>1, <1>3, ContentAssumption DEF UserSafe, AsideOK
<1>7. \A q \in Paths, s \in 0..MaxStamp : Backup(q, s) \in Locs /\ At(q) \in Locs
  BY Constants
<1>8. FilesOK'
  <2>1. \A l \in Locs : disk'[l] = User => l[1] \in UserPaths
    BY <1>4, <1>5, <1>6, LocParts DEF UserSafe, FilesOK
  <2>2. Unclaimed(db)' /\ Unclaimed(tx)'
    BY <1>1, <1>5, <1>6 DEF UserSafe, FilesOK, Unclaimed
  <2>3. \A s \in 0..MaxStamp : s > clock => \A q \in Paths : disk'[Backup(q, s)] # User
    <3> TAKE s \in 0..MaxStamp
    <3> HAVE s > clock
    <3> TAKE q \in Paths
    <3>1. s # act.stamp /\ s # 0 /\ Backup(q, s) \in Locs
      BY <1>3, <1>7
    <3>2. Backup(q, s) # At(p) /\ Backup(q, s) # Backup(p, act.stamp)
      BY <3>1, LocParts
    <3> QED BY <3>1, <3>2, <1>5 DEF UserSafe, FilesOK, SuffixFree
  <2>4. SuffixFree(db)' /\ SuffixFree(tx)'
    BY <1>1, <2>3 DEF UserSafe, FilesOK, SuffixFree
  <2>5. UserFilesSurvive'
    <3>1. SUFFICES ASSUME NEW u \in users PROVE \E s \in 0..MaxStamp : disk'[<<u, s>>] = User
      BY <1>1 DEF UserFilesSurvive
    <3>2. PICK s \in 0..MaxStamp : disk[<<u, s>>] = User
      BY DEF UserSafe, FilesOK, UserFilesSurvive
    <3>3. <<u, s>> = Backup(u, s) /\ u \in Paths
      BY SetAssumption DEF Backup, IInv, TypeOK
    <3>4. CASE u = p /\ s = act.stamp
      <4>1. disk'[At(p)] = User
        BY <1>4, <1>5, <3>2, <3>3, <3>4
      <4>2. At(p) = <<p, 0>> /\ 0 \in 0..MaxStamp
        BY StampAssumption DEF At
      <4> QED BY <4>1, <4>2, <3>4
    <3>5. CASE ~ (u = p /\ s = act.stamp)
      <4>1. Backup(u, s) # At(p) /\ Backup(u, s) # Backup(p, act.stamp) /\ Backup(u, s) \in Locs
        BY <3>2, <3>3, <3>5, <1>6, <1>7, LocParts
      <4> QED BY <4>1, <1>5, <3>2, <3>3
    <3> QED BY <3>4, <3>5
  <2> QED BY <2>1, <2>2, <2>4, <2>5 DEF FilesOK
<1>9. AsideOK'
  <2>1. act.backups \in SUBSET Paths
    BY DEF IInv, TypeOK, ActType
  <2>2. \A q \in Paths :
          /\ disk'[Backup(q, act.stamp)] = IF q = p THEN None ELSE disk[Backup(q, act.stamp)]
          /\ q # p => disk'[At(q)] = disk[At(q)]
    BY <1>3, <1>4, <1>5, <1>7, LocParts
  <2>3. \A q \in Paths : disk'[Backup(q, act.stamp)] = User => Owners(db, At(q)) = {}
    BY <1>3, <1>6, <2>2 DEF UserSafe, AsideOK
  <2>4. \A q \in act.backups \ {p} : disk'[At(q)] # User
    BY <1>3, <2>1, <2>2 DEF UserSafe, AsideOK
  <2> QED BY <1>1, <1>2, <1>3, <2>3, <2>4 DEF AsideOK
<1> QED BY <1>1, <1>8, <1>9 DEF UserSafe, ScanOK, DeletesOK, BeforeWrite, DeaPcs

\* A nested activation moves what is in its way to a suffix of its own, and
\* claims only what it put there.
LEMMA ReactivateSafe ==
    ASSUME IInv, Undisturbed, UserSafe, NEW e \in Entries, Reactivate(e) PROVE UserSafe'
<1>1. PICK ren \in {Rename[e], NoRename} :
        /\ db' = SetState(Activate(NestedReg(e, clock'), e, PutAt(e, ren)), e, "installed")
        /\ disk' = NestedDisk(e, ren, clock')
  BY DEF Reactivate
<1>2. PICK c \in 0..MaxStamp : c = clock'
  BY Reactivated
<1>3. /\ c = (IF InTheWay(e) # {} THEN clock + 1 ELSE clock) /\ clock \in 0..MaxStamp
      /\ tx' = db' /\ pc' = "reactivate" /\ users' = users
      /\ CanMove(db, NestedRows(e), c) /\ TypeOK /\ FilesOK
  BY <1>2 DEF Reactivate, CanReactivate, NestedStamps, Stamps, Undisturbed, IInv, TypeOK, UserSafe
<1>4. ren \in [Paths -> Paths] /\ Image[e] \in SUBSET Paths
  BY Constants DEF NoRename
<1> DEFINE n == NestedReg(e, c)
           W == InTheWay(e)
<1>5. n \in Registry
  BY <1>3, MoveRegistry DEF NestedReg, TypeOK
<1>6. \A o \in Entries, q \in Paths :
        db'.row[o][q] = IF o = e /\ q \in Image[e] THEN At(ren[q]) ELSE n.row[o][q]
  <2>1. \A q \in Image[e] : PutAt(e, ren)[q] = At(ren[q])
    BY DEF PutAt
  <2>2. DOMAIN PutAt(e, ren) = Image[e]
    BY DEF PutAt
  <2>3. \A q \in DOMAIN PutAt(e, ren) : PutAt(e, ren)[q] \in Locs
    BY <2>1, <2>2, <1>4, Constants
  <2> HIDE DEF n
  <2>4. Activate(n, e, PutAt(e, ren)) \in Registry
    BY <1>5, <2>3, ActivateRegistry
  <2>5. db'.row = Activate(n, e, PutAt(e, ren)).row
    BY <1>1, <1>2, <2>4, SetStateRegistry DEF n
  <2> QED BY <1>5, <2>1, <2>2, <2>5, ActivateRow
<1>7. \A o \in Entries, q \in Paths :
        \/ n.row[o][q] \in {Off, db.row[o][q]}
        \/ /\ n.row[o][q] = Backup(q, c) /\ db.row[o][q] = At(q) /\ c = clock + 1
  <2> TAKE o \in Entries, q \in Paths
  <2>1. SUFFICES ASSUME n.row[o][q] # db.row[o][q], n.row[o][q] # Off
                 PROVE  n.row[o][q] = Backup(q, c) /\ db.row[o][q] = At(q) /\ c = clock + 1
    OBVIOUS
  <2>2. n.row[o][q] = Backup(q, c) /\ db.row[o][q] = At(q)
    BY <2>1, <1>3, ConflictMoves
  <2>3. NestedRows(e) # {}
    <3> SUFFICES ASSUME NestedRows(e) = {} PROVE FALSE
      OBVIOUS
    <3>1. n.row[o][q] = db.row[o][q]
      BY <1>3 DEF NestedReg, MoveRows, Registry, TypeOK
    <3> QED BY <3>1, <2>1
  <2>4. InTheWay(e) # {}
    BY <2>3 DEF NestedRows
  <2> QED BY <2>2, <2>4, <1>3
<1> HIDE DEF n
<1> DEFINE cleared == [l \in Locs |->
            IF l[2] = 0 /\ l[1] \in W THEN None
            ELSE IF l[2] = c /\ l[1] \in W THEN disk[At(l[1])] ELSE disk[l]]
<1>8. \A l \in Locs : disk'[l] = User <=> cleared[l] = User
  <2>1. disk' = [l \in Locs |-> IF cleared[l] = None /\ \E q \in Image[e] : l = At(ren[q])
                                THEN e ELSE cleared[l]]
    BY <1>1, <1>2 DEF NestedDisk
  <2> HIDE DEF cleared
  <2> QED BY <2>1, ContentAssumption
<1>9. \A p \in Paths, s \in 0..MaxStamp :
        disk'[Backup(p, s)] = User <=>
          IF s = 0 /\ p \in W THEN FALSE
          ELSE IF s = c /\ p \in W THEN disk[At(p)] = User ELSE disk[Backup(p, s)] = User
  <2> TAKE p \in Paths, s \in 0..MaxStamp
  <2>1. Backup(p, s) \in Locs /\ Backup(p, s)[2] = s /\ Backup(p, s)[1] = p
    BY Constants DEF Backup
  <2> QED BY <1>8, <2>1, ContentAssumption
<1> HIDE DEF cleared
<1>10. W # {} => c = clock + 1
  BY <1>3
<1>11. \A p \in Paths : disk[At(p)] = User /\ p \in Image[e] => p \in W
  BY ContentAssumption DEF InTheWay, Exists
<1> HIDE DEF W
<1>12. \A l \in Locs : \E p \in Paths, s \in 0..MaxStamp : l = Backup(p, s)
  BY DEF Locs, Backup
<1>z. 0 \in 0..MaxStamp /\ \A p \in Paths : Backup(p, 0) = At(p) /\ At(p) \in Locs
  BY StampAssumption, Constants, LocParts
<1>13. \A l \in Locs : disk'[l] = User => l[1] \in UserPaths
  <2> SUFFICES ASSUME NEW p \in Paths, NEW s \in 0..MaxStamp, disk'[Backup(p, s)] = User
               PROVE  p \in UserPaths
    BY <1>12, LocParts
  <2>1. disk[At(p)] = User \/ disk[Backup(p, s)] = User
    BY <1>9
  <2> QED BY <2>1, <1>3, Constants, LocParts DEF FilesOK
<1>14. ASSUME NEW p \in Paths, NEW s \in 0..MaxStamp, disk'[Backup(p, s)] = User
       PROVE  Owners(db', Backup(p, s)) = {}
  <2>1. SUFFICES ASSUME NEW o \in Entries, NEW q \in Paths, db'.row[o][q] = Backup(p, s)
                 PROVE  FALSE
    BY DEF Owners
  <2>2. CASE o = e /\ q \in Image[e]
    <3>1. s = 0 /\ p = ren[q] /\ p \notin W /\ disk[At(p)] = User
      BY <2>1, <2>2, <1>6, <1>9, <1>10, <1>14, <1>z, LocParts, <1>3
    <3>2. ren[q] # q
      BY <2>2, <3>1, <1>11
    <3>3. p \notin UserPaths
      BY <2>2, <3>1, <3>2 DEF Undisturbed, NoRename
    <3> QED BY <3>1, <3>3, <1>3, <1>z, LocParts DEF FilesOK
  <2>3. CASE ~ (o = e /\ q \in Image[e])
    <3>1. n.row[o][q] = Backup(p, s) /\ Backup(p, s) \in Locs
      BY <2>1, <2>3, <1>6, Constants
    <3>2. CASE db.row[o][q] = Backup(p, s)
      <4>1. Owners(db, Backup(p, s)) # {}
        BY <3>2 DEF Owners
      <4>2. disk[Backup(p, s)] # User /\ s <= clock
        BY <4>1, <3>1, <1>3 DEF FilesOK, Unclaimed, SuffixFree
      <4> QED BY <4>2, <1>9, <1>10, <1>14, <1>3
    <3>3. CASE Backup(p, s) = Backup(q, c) /\ db.row[o][q] = At(q) /\ c = clock + 1
      <4>1. p = q /\ s = c /\ Owners(db, At(q)) # {}
        BY <3>3, LocParts DEF Owners
      <4>2. disk[At(q)] # User
        BY <4>1, <1>3, <1>z DEF FilesOK, Unclaimed
      <4>3. disk[Backup(p, s)] # User
        BY <3>3, <4>1, <1>3 DEF FilesOK, SuffixFree
      <4> QED BY <4>1, <4>2, <4>3, <1>9, <1>14
    <3> QED BY <3>1, <3>2, <3>3, <1>7, OffNoLoc
  <2> QED BY <2>2, <2>3
<1>15. Unclaimed(db)' /\ Unclaimed(tx)'
  <2>1. \A l \in Locs : disk'[l] = User => Owners(db', l) = {}
    BY <1>12, <1>14
  <2> QED BY <2>1, <1>3 DEF Unclaimed
<1>16. ASSUME NEW s \in 0..MaxStamp, s > c, NEW p \in Paths
       PROVE  disk'[Backup(p, s)] # User /\ Owners(db', Backup(p, s)) = {}
  <2>1. s > clock /\ s # 0 /\ s # c /\ Backup(p, s) \in Locs
    BY <1>3, <1>16, Constants
  <2>2. disk'[Backup(p, s)] # User
    BY <2>1, <1>9, <1>3 DEF FilesOK, SuffixFree
  <2>3. ASSUME NEW o \in Entries, NEW q \in Paths, db'.row[o][q] = Backup(p, s) PROVE FALSE
    <3>1. n.row[o][q] = Backup(p, s)
      BY <2>1, <2>3, <1>6, LocParts
    <3>2. db.row[o][q] = Backup(p, s)
      BY <2>1, <3>1, <1>7, LocParts, OffNoLoc
    <3> QED BY <2>1, <3>2, <1>3 DEF FilesOK, SuffixFree, Owners
  <2> QED BY <2>2, <2>3 DEF Owners
<1>17. SuffixFree(db)' /\ SuffixFree(tx)'
  <2>1. SuffixFree(db)'
    BY <1>16, <1>2 DEF SuffixFree
  <2>2. SuffixFree(tx)'
    BY <1>16, <1>2, <1>3 DEF SuffixFree
  <2> QED BY <2>1, <2>2
<1>18. UserFilesSurvive'
  <2>1. SUFFICES ASSUME NEW u \in users PROVE \E s \in 0..MaxStamp : disk'[<<u, s>>] = User
    BY <1>3 DEF UserFilesSurvive
  <2>2. PICK s \in 0..MaxStamp : disk[<<u, s>>] = User
    BY <1>3 DEF FilesOK, UserFilesSurvive
  <2>3. u \in Paths /\ <<u, s>> = Backup(u, s) /\ <<u, c>> = Backup(u, c)
    BY <1>3, SetAssumption DEF TypeOK, Backup
  <2>4. CASE s = 0 /\ u \in W
    <3>1. c # 0 /\ disk[At(u)] = User
      BY <2>2, <2>3, <2>4, <1>10, <1>3, <1>z
    <3>2. disk'[Backup(u, c)] = User
      BY <3>1, <2>3, <2>4, <1>9
    <3> QED BY <3>2, <2>3
  <2>5. CASE ~ (s = 0 /\ u \in W)
    <3>1. ~ (s = c /\ u \in W)
      <4> SUFFICES ASSUME s = c, u \in W PROVE FALSE
        OBVIOUS
      <4>1. s > clock
        BY <1>10, <1>3
      <4> QED BY <4>1, <2>2, <2>3, <1>3 DEF FilesOK, SuffixFree
    <3> QED BY <3>1, <2>2, <2>3, <2>5, <1>9
  <2> QED BY <2>4, <2>5
<1>19. FilesOK'
  BY <1>13, <1>15, <1>17, <1>18 DEF FilesOK
<1> QED BY <1>3, <1>19, OutsideSafe

\* A reactivation that fails replaces no backup of an earlier second.
LEMMA NothingOverwritten ==
    ASSUME IInv, Undisturbed, NEW e \in Entries, ReactivateError(e) PROVE disk' = disk
<1>1. PICK s \in NestedStamps(e) : \E L \in SUBSET Overwritten(e, s) :
        disk' = [l \in Locs |-> IF l[1] \in L /\ l[2] = s THEN None ELSE disk[l]]
  BY DEF ReactivateError
<1>2. clock \in Nat /\ disk = [l \in Locs |-> disk[l]]
  BY DEF IInv, TypeOK
<1>3. Overwritten(e, s) = {}
  BY <1>2 DEF Overwritten, NestedStamps, Stamps, Undisturbed
<1> QED BY <1>1, <1>2, <1>3

\* The rest of the clause.
LEMMA RollBackSafe ==
    ASSUME IInv, Undisturbed, UserSafe, RollBackStep PROVE UserSafe'
<1>1. CASE RestoreDone \/ Rethrow \/ \E e \in Entries : StillActive(e) \/ ReactivateError(e)
  <2>1. UNCHANGED <<disk, db, tx, clock, users>> /\ pc' \in {"reactivate", "idle"}
    BY <1>1, NothingOverwritten DEF RestoreDone, Rethrow, StillActive, ReactivateError, End
  <2> QED BY <2>1, FilesQuiet, OutsideSafe DEF UserSafe
<1> QED BY <1>1, UndoSafe, RestoreSafe, ReactivateSafe DEF RollBackStep

-----------------------------------------------------------------------------
(* Deactivations *)

\* The port gives its claims up, and claims no file of no port before.
LEMMA DeactivateBeginSafe == ASSUME IInv, UserSafe, DeactivateBegin PROVE UserSafe'
<1>1. /\ UNCHANGED <<disk, db, clock, users, act>> /\ pc = "dbegin" /\ pc' = "ddelete"
      /\ tx' = Deactivate(tx, dea.ent, Files(tx, dea.ent)) /\ dea.ent \in Entries
      /\ tx \in Registry
  BY DEF DeactivateBegin, IInv, TypeOK, StateOK, DeaOK, DeaPcs
<1>2. dea'.ret = dea.ret /\ dea'.files = {l \in Files(tx, dea.ent) : disk[l] # None}
  BY DEF DeactivateBegin, IInv, TypeOK, DeaType
<1>3. \A l \in Locs : Owners(tx', l) \subseteq Owners(tx, l)
  <2>1. \A o \in Entries, q \in Paths : tx'.row[o][q] \in {Off, tx.row[o][q]}
    BY <1>1, DeactivateRow
  <2> QED BY <2>1, OffNoLoc DEF Owners
<1>4. FilesOK'
  BY <1>1, <1>3, FilesFrame DEF UserSafe, SameUser
<1>5. AsideOK'
  BY <1>1, <1>2, AsideFrame DEF SameUser, UserSafe, InOp, Forward, BeforeWrite, WritePcs, DeaPcs
<1>6. ScanOK'
  BY <1>1, <1>2, ScanFrame DEF SameUser, UserSafe, BeforeWrite, DeaPcs, AtOlds, AtReplaced
<1>7. DeletesOK'
  <2>1. SUFFICES ASSUME NEW l \in Files(tx, dea.ent) PROVE disk[l] # User
    BY <1>1, <1>2 DEF DeletesOK
  <2>2. l \in Locs /\ dea.ent \in Owners(tx, l)
    BY <1>1, <2>1 DEF Files, Owners, Registry
  <2> QED BY <2>2 DEF UserSafe, FilesOK, Unclaimed
<1> QED BY <1>4, <1>5, <1>6, <1>7 DEF UserSafe

\* One of the port's files is deleted.
LEMMA DeleteFileSafe ==
    ASSUME IInv, UserSafe, NEW l \in Locs, DeleteFile(l) PROVE UserSafe'
<1>1. /\ UNCHANGED <<db, tx, clock, users, act, pc>> /\ pc = "ddelete"
      /\ disk' = [disk EXCEPT ![l] = None] /\ disk[l] # User
  BY DEF DeleteFile, UserSafe, DeletesOK
<1>2. dea'.ret = dea.ret /\ dea'.files \subseteq dea.files
  BY DEF DeleteFile, IInv, TypeOK, DeaType
<1>3. SameUser /\ \A m \in Locs : disk[m] = None => disk'[m] = None
  BY <1>1, ContentAssumption DEF SameUser, IInv, TypeOK
<1>4. FilesOK'
  BY <1>1, <1>3, FilesFrame DEF UserSafe
<1>5. AsideOK'
  BY <1>1, <1>2, <1>3, AsideFrame DEF UserSafe, InOp, Forward, BeforeWrite, WritePcs, DeaPcs
<1>6. ScanOK'
  <2>1. CASE BeforeWrite
    <3>1. act.moving = {}
      BY <1>1, <2>1 DEF UserSafe, ScanOK
    <3> QED BY <1>1, <1>2, <1>3, <3>1, ScanFrame
            DEF UserSafe, BeforeWrite, DeaPcs, AtOlds, AtReplaced
  <2>2. CASE ~ BeforeWrite
    BY <1>1, <1>2, <2>2 DEF ScanOK, BeforeWrite
  <2> QED BY <2>1, <2>2
<1>7. DeletesOK'
  <2>1. \A m \in dea.files : m \in Locs
    BY DEF IInv, TypeOK, DeaType
  <2> QED BY <1>1, <1>2, <1>3, <2>1 DEF UserSafe, DeletesOK, SameUser
<1> QED BY <1>4, <1>5, <1>6, <1>7 DEF UserSafe

\* What is committed claims less than before.
LEMMA DeactivateCommitSafe == ASSUME IInv, UserSafe, DeactivateCommit PROVE UserSafe'
<1>1. /\ UNCHANGED <<disk, clock, users, act, dea>> /\ pc = "ddelete" /\ pc' = "dend"
      /\ tx' = db'
  BY DEF DeactivateCommit
<1>2. \A l \in Locs : Owners(db', l) \subseteq Owners(db, l)
  BY Deactivated, OffNoLoc DEF Owners
<1>3. FilesOK'
  BY <1>1, <1>2, FilesFrame DEF UserSafe, SameUser
<1>4. AsideOK'
  BY <1>1, <1>2, AsideFrame DEF SameUser, UserSafe, InOp, Forward, BeforeWrite, WritePcs, DeaPcs
<1>5. ScanOK'
  BY <1>1, <1>2, ScanFrame DEF SameUser, UserSafe, BeforeWrite, DeaPcs, AtOlds, AtReplaced
<1> QED BY <1>1, <1>3, <1>4, <1>5 DEF UserSafe, DeletesOK

\* The caller goes on.
LEMMA DeactivateEndSafe == ASSUME IInv, UserSafe, DeactivateEnd PROVE UserSafe'
<1>1. /\ UNCHANGED <<disk, db, tx, clock, users>> /\ pc = "dend"
  BY DEF DeactivateEnd
<1>2. FilesOK'
  BY <1>1, FilesQuiet DEF UserSafe
<1>3. CASE dea.ret = "idle"
  BY <1>2, <1>3, OutsideSafe DEF DeactivateEnd, End
<1>4. CASE dea.ret # "idle"
  <2>1. pc' = dea.ret /\ pc' \in {"olds", "replaced"} /\ act' = act
    BY <1>4 DEF DeactivateEnd, IInv, TypeOK, DeaType
  <2>2. AsideOK'
    BY <1>1, <2>1, AsideFrame DEF SameUser, UserSafe, InOp, Forward, BeforeWrite, WritePcs, DeaPcs
  <2>3. ScanOK'
    BY <1>1, <2>1, ScanFrame DEF SameUser, UserSafe, BeforeWrite, DeaPcs, AtOlds, AtReplaced
  <2> QED BY <1>2, <2>1, <2>2, <2>3 DEF UserSafe, DeletesOK
<1> QED BY <1>3, <1>4

\* All of them.
LEMMA DeactivateSafe == ASSUME IInv, UserSafe, DeactivateStep PROVE UserSafe'
<1>1. CASE DeactivateStuck
  BY <1>1, DeactivateRaiseSafe DEF DeactivateStuck, DeaPcs
<1> QED BY <1>1, DeactivateBeginSafe, DeleteFileSafe, DeactivateCommitSafe, DeactivateEndSafe
        DEF DeactivateStep

-----------------------------------------------------------------------------
(* Failure, users, and all of it *)

\* Errors the activation itself finds.
LEMMA OwnErrorsSafe ==
    ASSUME IInv, UserSafe, RegisterError \/ \E p \in Paths : ScanError(p) PROVE UserSafe'
<1>1. UNCHANGED <<disk, db, clock, users>> /\ InOp /\ pc # "restore"
  BY DEF RegisterError, ScanError, InOp, Forward, BeforeWrite
<1> QED BY <1>1, RaiseSafe DEF RegisterError, ScanError

\* Errors from outside, as long as none comes after a commit.
LEMMA FailureSafe == ASSUME IInv, Undisturbed, UserSafe, Failure PROVE UserSafe'
<1>1. UNCHANGED <<disk, db, clock, users>>
  BY DEF Failure, IoError, AttributesError, DeleteError, CommitError, Signal, Crash
<1>2. CASE Crash
  BY <1>1, <1>2, FilesQuiet, OutsideSafe DEF Crash, End, UserSafe
<1>3. CASE pc \in DeaPcs /\ DeactivateRaise
  BY <1>1, <1>3, DeactivateRaiseSafe
<1>4. CASE \E from \in Pcs \cup {"register", "state"} :
              Raise(from) /\ (from \in OuterTry => InOp /\ pc # "restore")
  BY <1>1, <1>4, RaiseSafe
<1>5. CASE IoError
  <2>1. pc \in {"scan", "aside", "replaced", "put", "rename"} => InOp /\ pc # "restore"
    BY DEF InOp, Forward, BeforeWrite, WritePcs
  <2>2. CASE Deactivating
    BY <1>3, <1>5, <2>2 DEF IoError, Deactivating, DeaPcs
  <2>3. CASE ~ Deactivating /\ Raise(pc)
    <3>1. pc \in OuterTry => InOp /\ pc # "restore"
      BY <1>5, <2>1 DEF IoError, OuterTry, InnerTry
    <3> QED BY <1>4, <2>3, <3>1 DEF IInv, TypeOK
  <2>4. CASE ~ Deactivating /\ pc = "replaced" /\ Raise("register")
    BY <1>4, <2>1, <2>4
  <2> QED BY <1>5, <2>2, <2>3, <2>4 DEF IoError
<1>6. CASE AttributesError
  BY <1>4, <1>6 DEF AttributesError, InOp, Forward, WritePcs, Pcs
<1>7. CASE DeleteError
  BY <1>3, <1>4, <1>7 DEF DeleteError, OuterTry, InnerTry, DeaPcs, Pcs
<1>8. CASE CommitError
  BY <1>3, <1>4, <1>8 DEF CommitError, InOp, Forward, WritePcs, DeaPcs, Pcs
<1>9. CASE Signal
  <2>1. pc # "committed"
    BY <1>9 DEF Signal, Fault, Undisturbed
  <2>2. CASE Deactivating
    BY <1>3, <1>9, <2>2 DEF Signal, Deactivating, DeaPcs
  <2>3. CASE ~ Deactivating /\ Raise(pc)
    <3>1. pc \in OuterTry => InOp /\ pc # "restore"
      BY <2>1 DEF OuterTry, InnerTry, InOp, Forward, BeforeWrite, WritePcs, IInv, TypeOK, Pcs
    <3> QED BY <1>4, <2>3, <3>1 DEF IInv, TypeOK
  <2>4. CASE ~ Deactivating /\ pc = "replaced" /\ Raise("register")
    BY <1>4, <2>4 DEF InOp, Forward, BeforeWrite
  <2>5. CASE ~ Deactivating /\ pc = "commit" /\ Raise("state")
    BY <1>4, <2>5 DEF InOp, Forward, WritePcs
  <2> QED BY <1>9, <2>2, <2>3, <2>4, <2>5 DEF Signal
<1> QED BY <1>2, <1>5, <1>6, <1>7, <1>8, <1>9 DEF Failure

\* A new file of no port is where no port has one.
LEMMA UserCreatesSafe ==
    ASSUME IInv, Undisturbed, UserSafe, NEW p \in Paths, UserCreates(p) PROVE UserSafe'
<1>1. /\ UNCHANGED <<db, tx, clock, pc>> /\ pc = "idle" /\ p \in UserPaths
      /\ disk' = [disk EXCEPT ![At(p)] = User] /\ users' = users \cup {p}
      /\ disk[At(p)] = None /\ Owners(db, At(p)) = {} /\ tx = db
  BY DEF UserCreates, Exists, Undisturbed, IInv, StateOK, TxOK, WritePcs
<1>2. At(p) \in Locs /\ At(p) = <<p, 0>> /\ At(p)[1] = p
  BY Constants DEF At
<1>3. \A l \in Locs : disk'[l] = IF l = At(p) THEN User ELSE disk[l]
  BY <1>1 DEF IInv, TypeOK
<1>4. (\A l \in Locs : disk[l] = User => l[1] \in UserPaths)'
  BY <1>1, <1>2, <1>3 DEF UserSafe, FilesOK
<1>5. Unclaimed(db)' /\ Unclaimed(tx)'
  BY <1>1, <1>3 DEF UserSafe, FilesOK, Unclaimed
<1>6. SuffixFree(db)' /\ SuffixFree(tx)'
  <2>1. ASSUME NEW s \in 0..MaxStamp, s > clock, NEW q \in Paths PROVE Backup(q, s) # At(p)
    BY <2>1, LocParts, Constants, StampAssumption DEF IInv, TypeOK, At, Backup
  <2> QED BY <1>1, <1>3, <2>1, Constants DEF UserSafe, FilesOK, SuffixFree
<1>7. UserFilesSurvive'
  <2>1. SUFFICES ASSUME NEW u \in users' PROVE \E s \in 0..MaxStamp : disk'[<<u, s>>] = User
    BY DEF UserFilesSurvive
  <2>2. CASE u = p
    BY <1>2, <1>3, <2>2, StampAssumption
  <2>3. CASE u # p
    <3>1. PICK s \in 0..MaxStamp : disk[<<u, s>>] = User
      BY <1>1, <2>1, <2>3 DEF UserSafe, FilesOK, UserFilesSurvive
    <3>2. <<u, s>> \in Locs
      BY <1>1, <2>1, <2>3, SetAssumption DEF Locs, IInv, TypeOK
    <3> QED BY <1>3, <3>1, <3>2
  <2> QED BY <2>2, <2>3
<1>8. FilesOK'
  BY <1>4, <1>5, <1>6, <1>7 DEF FilesOK
<1> QED BY <1>1, <1>8, OutsideSafe

\* To begin with, files of no port are where they were created.
LEMMA InitSafe == ASSUME Init PROVE UserSafe
<1>1. PICK P \in SUBSET UserPaths :
         /\ users = P
         /\ disk = [l \in Locs |-> IF l[2] = 0 /\ l[1] \in P THEN User ELSE None]
  BY DEF Init
<1>2. \A l : Owners(Fresh, l) = {e \in Entries : \E q \in Paths : l = Off}
  BY DEF Owners, Fresh
<1>3. db = Fresh /\ tx = Fresh /\ clock = 0 /\ pc = "idle"
  BY DEF Init
<1>4. \A l \in Locs : disk[l] = User => l[2] = 0 /\ l[1] \in P
  BY <1>1, ContentAssumption
<1>5. \A l \in Locs : Owners(Fresh, l) = {}
  BY <1>2, OffNoLoc
<1>6. Unclaimed(Fresh)
  BY <1>5 DEF Unclaimed
<1>7. SuffixFree(Fresh)
  <2>1. ASSUME NEW s \in 0..MaxStamp, s > 0, NEW p \in Paths
        PROVE  disk[Backup(p, s)] # User /\ Owners(Fresh, Backup(p, s)) = {}
    <3>1. Backup(p, s) \in Locs /\ Backup(p, s)[2] = s
      BY Constants DEF Backup
    <3> QED BY <1>4, <1>5, <2>1, <3>1
  <2> QED BY <1>3, <2>1 DEF SuffixFree
<1>8. UserFilesSurvive
  <2>1. ASSUME NEW p \in users PROVE disk[<<p, 0>>] = User
    <3>1. <<p, 0>> \in Locs
      BY <1>1, <2>1, SetAssumption, StampAssumption DEF Locs
    <3> QED BY <1>1, <2>1, <3>1
  <2> QED BY <2>1, StampAssumption DEF UserFilesSurvive
<1>9. FilesOK
  BY <1>1, <1>3, <1>4, <1>6, <1>7, <1>8 DEF FilesOK
<1> QED BY <1>3, <1>9
        DEF UserSafe, AsideOK, ScanOK, DeletesOK, InOp, Forward, BeforeWrite, WritePcs, DeaPcs

\* No step destroys or claims a file of no port.
LEMMA NextSafe == ASSUME IInv, Undisturbed, UserSafe, [Next]_vars PROVE UserSafe'
<1>1. CASE ActivateStep
  BY <1>1, CallSafe, ConvertSafe, ScanFileSafe, ForceFileSafe, MoveAsideSafe, ScanGoesOn,
     RegisterSafe, RenameRowSafe, PutFileSafe, WriteSafe, CommitSafe, OwnErrorsSafe
     DEF ActivateStep
<1>2. CASE UNCHANGED vars
  BY <1>2 DEF vars, UserSafe, FilesOK, Unclaimed, SuffixFree, UserFilesSurvive, Owners, AsideOK,
     ScanOK, DeletesOK, InOp, Forward, BeforeWrite, WritePcs, DeaPcs, AtOlds, AtReplaced, Exists
<1> QED BY <1>1, <1>2, StartSafe, RollBackSafe, DeactivateSafe, FailureSafe, UserCreatesSafe
        DEF Next, Step

\* Activation and deactivation never destroy a file that belongs to no port,
\* forced, failing, interrupted or crashing, as long as the operation is left
\* undisturbed and forced ones are a second or more apart: the scan then moves
\* what is in the way aside, to a suffix of its own, and what is undone is only
\* what was put in place.
THEOREM UserFilesSafe == ASSUME Undisturbed PROVE Spec => []UserFilesSurvive
<1>1. Init => UserSafe
  BY InitSafe
<1>2. IInv /\ UserSafe /\ [Next]_vars => UserSafe'
  BY NextSafe
<1>3. UserSafe => UserFilesSurvive
  BY DEF UserSafe, FilesOK
<1> QED BY <1>1, <1>2, <1>3, Invariance, PTL DEF Spec

-----------------------------------------------------------------------------
(* Registry and disk agree                                                  *)

\* Only errors of forward steps happen; see Undisturbed for the rest.
Plain == Undisturbed /\ Faults \subseteq {"io"}

\* Paths whose files are moved aside, and paths where files of the port are put.
Moved == IF InOp THEN act.backups \cup (IF pc = "note" THEN act.now ELSE {}) ELSE {}
Put == IF InOp THEN act.rb \cup (IF pc = "append" THEN act.now ELSE {}) ELSE {}

\* What was at a location before the activation came there.
Was(l) ==
    IF l[1] \in Moved /\ l[2] = 0 THEN disk[Backup(l[1], act.stamp)]
    ELSE IF l[1] \in Moved /\ l[2] = act.stamp THEN None
    ELSE IF l[1] \in Put /\ l[2] = 0 THEN None
    ELSE disk[l]

\* The registry agrees with that, but for the files still to be deleted.
AgreesAt(l, e) ==
    Was(l) = e <=> IF pc = "ddelete" /\ e = dea.ent THEN l \in dea.files ELSE e \in Owners(db, l)
Agrees ==
    /\ \A l \in Locs, e \in Entries : AgreesAt(l, e)
    /\ pc = "ddelete" => \A l \in dea.files : disk[l] = dea.ent
    /\ \A s \in 0..MaxStamp : s > clock => \A p \in Paths : disk[Backup(p, s)] = None

\* Where there is something to undo, and whether it will be.
UndoKnown ==
    /\ BeforeWrite \/ pc = "restore" \/ (pc = "undo" /\ ~ act.undo) => act.rb = {}
    /\ BeforeWrite => ~ act.renamed
    /\ AtOlds \/ pc \in {"convert", "drop"} =>
          act.backups = {} /\ act.forced = {} /\ act.moving = {}

\* What is moved aside, or about to be, are all the files in the way of ports
\* that are not replaced; their rows are recorded.
Aside == Moved \cup act.moving
InPlaceOf(o) == <<o, PortOf[act.ent]>> \in ReplacedBy
MovedKnown == BeforeWrite =>
    /\ act.scan \subseteq Image[act.ent]
    /\ act.stamp > 0 => \A p \in Paths :
          IF p \in Moved THEN disk[At(p)] = None ELSE disk[Backup(p, act.stamp)] = None
    /\ \A p \in Aside : \A o \in Owners(db, At(p)) : ~ InPlaceOf(o)
    /\ \A p \in Aside, o \in Entries, q \in Paths :
          db.row[o][q] = At(p) => [own |-> o, img |-> q, moved |-> TRUE] \in act.forced
    /\ \A f \in act.forced :
          /\ f.moved /\ \E p \in Aside : db.row[f.own][f.img] = At(p)
          /\ \A p \in Image[act.ent], q \in Paths : db.row[f.own][q] = At(p) => p \in Aside
    /\ \A o \in act.replaced : InPlaceOf(o)
    /\ AtReplaced => \A o \in act.todo : InPlaceOf(o)
    /\ pc \in DeaPcs /\ dea.ret = "replaced" => InPlaceOf(dea.ent)

\* In the transaction: others are where it says, the port's own files where it
\* says or still to come.
Done(q) == q \notin act.files /\ (act.renamed \/ act.ren[q] = q)
WriteKnown == pc \in WritePcs =>
    /\ \A l \in Locs, e \in Entries \ {act.ent} : disk[l] = e <=> e \in Owners(tx, l)
    /\ \A l \in Locs : disk[l] = act.ent =>
          \E q \in Image[act.ent] : Done(q) /\ tx.row[act.ent][q] = l
    /\ \A q \in Image[act.ent] : Done(q) => disk[tx.row[act.ent][q]] = act.ent
    /\ \A q \in act.files : q \in Image[act.ent] /\ (act.renamed \/ act.ren[q] = q)
    /\ pc = "rename" => act.renamed /\ act.todo \subseteq act.files
    /\ pc = "commit" => act.renamed /\ act.files = {}
    /\ \A q \in act.files :
          tx.row[act.ent][q] = IF pc = "rename" /\ q \in act.todo THEN At(q) ELSE At(Dest(q))

Agreement == Agrees /\ UndoKnown /\ MovedKnown /\ WriteKnown

\* A location is what it was as long as nothing moves, ...
LEMMA WasFrame ==
    ASSUME UNCHANGED disk, Moved' = Moved, Put' = Put, Moved = {} \/ act'.stamp = act.stamp
    PROVE  \A l \in Locs : Was(l)' = Was(l)
BY DEF Was

\* ... and what was registered still agrees with it.
LEMMA AgreesFrame ==
    ASSUME Agrees, UNCHANGED <<disk, db>>, clock' = clock, pc # "ddelete", pc' # "ddelete",
           Moved' = Moved, Put' = Put, Moved = {} \/ act'.stamp = act.stamp
    PROVE  Agrees'
<1>1. \A l \in Locs : Was(l)' = Was(l)
  BY WasFrame
<1>2. \A l \in Locs, e \in Entries : AgreesAt(l, e)'
  BY <1>1 DEF Agrees, AgreesAt, Owners
<1> QED BY <1>2 DEF Agrees

\* So does what is known of the files moved aside.
LEMMA MovedFrame ==
    ASSUME IInv, MovedKnown, UNCHANGED db,
           \A l \in Locs : disk[l] = None => disk'[l] = None,
           BeforeWrite' =>
              /\ BeforeWrite /\ Moved' = Moved
              /\ act'.ent = act.ent /\ act'.stamp = act.stamp /\ act'.moving = act.moving
              /\ act'.scan \subseteq act.scan /\ act'.forced = act.forced
              /\ \A o \in act'.replaced : InPlaceOf(o)
              /\ AtReplaced' => \A o \in act'.todo : InPlaceOf(o)
              /\ pc' \in DeaPcs /\ dea'.ret = "replaced" => InPlaceOf(dea'.ent)
    PROVE  MovedKnown'
<1>1. SUFFICES ASSUME BeforeWrite' PROVE MovedKnown'
  BY DEF MovedKnown
<1>2. Aside' = Aside /\ \A o : InPlaceOf(o)' = InPlaceOf(o)
  BY <1>1 DEF Aside, InPlaceOf
<1>3. \A p \in Paths : At(p) \in Locs /\ Backup(p, act.stamp) \in Locs
  BY Constants DEF IInv, TypeOK, ActType
<1>4. act'.stamp > 0 => \A p \in Paths :
          IF p \in Moved' THEN disk'[At(p)] = None ELSE disk'[Backup(p, act'.stamp)] = None
  BY <1>1, <1>3 DEF MovedKnown
<1>5. \A l : Owners(db', l) = Owners(db, l)
  BY DEF Owners
<1> QED BY <1>1, <1>2, <1>4, <1>5 DEF MovedKnown

\* Outside an activation only the first part matters.
LEMMA OutsideAgrees ==
    ASSUME Agrees', pc' \in {"idle", "committed", "reactivate"} PROVE Agreement'
BY DEF Agreement, UndoKnown, MovedKnown, WriteKnown, BeforeWrite, AtOlds, WritePcs, DeaPcs

\* Outside an activation nothing is moved or put.
LEMMA OutsideWas ==
    ~ InOp => Moved = {} /\ Put = {} /\ \A l : Was(l) = disk[l]
BY DEF Moved, Put, Was

\* Nothing is put before the transaction.
LEMMA NothingPut ==
    ASSUME UndoKnown, BeforeWrite \/ pc = "restore" PROVE Put = {}
BY DEF UndoKnown, Put, BeforeWrite, DeaPcs

\* Nothing is moved before the scan.
LEMMA NothingMoved ==
    ASSUME UndoKnown, AtOlds \/ pc \in {"convert", "drop"}
    PROVE  Moved = {} /\ Put = {} /\ Aside = {}
BY DEF UndoKnown, Put, Moved, Aside, BeforeWrite, AtOlds, DeaPcs

\* An error in an activation: what there is to undo will be.
LEMMA RaiseAgrees ==
    ASSUME IInv, Agreement, NEW from, Raise(from), UNCHANGED <<disk, db, clock>>,
           pc \notin {"ddelete", "append", "note"},
           from \in OuterTry => InOp /\ (from \in InnerTry \/ act.rb = {}),
           from \notin OuterTry => Moved = {} /\ Put = {}
    PROVE  Agreement'
<1>1. CASE from \notin OuterTry
  <2>1. pc' = "idle"
    BY <1>1 DEF Raise, End
  <2>2. Moved' = {} /\ Put' = {}
    BY <2>1 DEF Moved, Put, InOp, Forward, BeforeWrite, WritePcs, DeaPcs
  <2>3. Agrees'
    BY <1>1, <2>1, <2>2, AgreesFrame DEF Agreement
  <2> QED BY <2>1, <2>3, OutsideAgrees
<1>2. CASE from \in OuterTry
  <2>1. /\ pc' = "undo" /\ act'.stamp = act.stamp
        /\ act'.backups = act.backups /\ act'.rb = act.rb /\ act'.renamed = act.renamed
        /\ act'.undo \/ act.rb = {}
    BY <1>2 DEF Raise, IInv, TypeOK, ActType
  <2>2. Moved' = Moved /\ Put' = Put
    BY <1>2, <2>1 DEF Moved, Put, InOp
  <2>3. Agrees'
    BY <2>1, <2>2, AgreesFrame DEF Agreement
  <2> QED BY <2>1, <2>3
          DEF Agreement, UndoKnown, MovedKnown, WriteKnown, BeforeWrite, AtOlds, WritePcs, DeaPcs
<1> QED BY <1>1, <1>2

\* An error in a deactivation that has not begun.
LEMMA DeactivateRaiseAgrees ==
    ASSUME IInv, Agreement, pc \in DeaPcs \ {"ddelete"}, DeactivateRaise,
           UNCHANGED <<disk, db, clock>>
    PROVE  Agreement'
<1>1. CASE dea.try = 2
  <2>1. dea.ret \in {"idle", "olds", "replaced"}
    BY DEF IInv, TypeOK, DeaType
  <2>2. CASE dea.ret = "replaced"
    <3>1. InOp /\ BeforeWrite /\ act.rb = {}
      BY <2>2 DEF InOp, Forward, BeforeWrite, Agreement, UndoKnown
    <3> QED BY <1>1, <2>2, <3>1, RaiseAgrees DEF DeactivateRaise, OuterTry, DeaPcs
  <2>3. CASE dea.ret = "olds"
    <3>1. Moved = {} /\ Put = {}
      BY <2>3, NothingMoved DEF AtOlds, Agreement
    <3> QED BY <1>1, <2>3, <3>1, RaiseAgrees DEF DeactivateRaise, OuterTry, InnerTry, DeaPcs
  <2>4. CASE dea.ret = "idle"
    <3>1. ~ InOp
      BY <2>4 DEF InOp, Forward, BeforeWrite, WritePcs, DeaPcs
    <3> QED BY <1>1, <2>4, <3>1, OutsideWas, RaiseAgrees
            DEF DeactivateRaise, OuterTry, InnerTry, DeaPcs
  <2> QED BY <2>1, <2>2, <2>3, <2>4
<1>2. CASE dea.try # 2
  <2>1. /\ pc' \in {"dend", "dbegin"} /\ act' = act /\ dea'.ret = dea.ret /\ dea'.ent = dea.ent
    BY <1>2 DEF DeactivateRaise, IInv, TypeOK, DeaType
  <2>2. /\ InOp' = InOp /\ BeforeWrite' = BeforeWrite /\ AtOlds' = AtOlds
        /\ AtReplaced' = AtReplaced
    BY <2>1 DEF InOp, Forward, BeforeWrite, WritePcs, DeaPcs, AtOlds, AtReplaced
  <2>3. Moved' = Moved /\ Put' = Put
    BY <2>1, <2>2 DEF Moved, Put, DeaPcs
  <2>4. Agrees'
    BY <2>1, <2>3, AgreesFrame DEF Agreement, DeaPcs
  <2>5. UndoKnown'
    BY <2>1, <2>2 DEF Agreement, UndoKnown, DeaPcs
  <2>6. MovedKnown'
    BY <2>1, <2>2, <2>3, MovedFrame DEF Agreement, MovedKnown
  <2> QED BY <2>1, <2>4, <2>5, <2>6 DEF Agreement, WriteKnown, WritePcs
<1> QED BY <1>1, <1>2

-----------------------------------------------------------------------------
(* Start, and the steps up to the transaction *)

\* A new operation finds nothing at its suffix.
LEMMA StartActivateAgrees ==
    ASSUME IInv, Undisturbed, Agreement, NEW e \in Entries, NEW asked \in BOOLEAN, StartActivate(e, asked)
    PROVE  Agreement'
<1>1. /\ UNCHANGED <<disk, db>> /\ pc = "idle" /\ pc' = "olds" /\ clock' \in {clock, clock + 1}
      /\ clock \in Nat /\ clock' <= MaxStamp /\ (force' => clock' = clock + 1)
  BY StampAssumption DEF StartActivate, Stamps, Undisturbed, IInv, TypeOK
<1>2. /\ act'.ent = e /\ act'.stamp = (IF force' THEN clock' ELSE 0) /\ act'.moving = {}
      /\ act'.backups = {} /\ act'.rb = {} /\ ~ act'.renamed /\ act'.scan = {} /\ act'.forced = {}
      /\ act'.replaced = {}
  BY DEF StartActivate, NoAct
<1>3. ~ InOp /\ Moved = {} /\ Put = {} /\ Moved' = {} /\ Put' = {} /\ Aside' = {}
  BY <1>1, <1>2 DEF Moved, Put, Aside, InOp, Forward, BeforeWrite, WritePcs, DeaPcs
<1>4. Agrees'
  <2>1. \A l \in Locs : Was(l)' = Was(l)
    BY <1>1, <1>3, WasFrame
  <2>2. \A l \in Locs, x \in Entries : AgreesAt(l, x)'
    BY <1>1, <2>1 DEF Agreement, Agrees, AgreesAt, Owners
  <2>3. \A s \in 0..MaxStamp : s > clock' => s > clock
    BY <1>1
  <2> QED BY <1>1, <2>2, <2>3 DEF Agreement, Agrees
<1>5. act'.stamp > 0 => act'.stamp \in 0..MaxStamp /\ act'.stamp > clock
  BY <1>1, <1>2, StampAssumption DEF StartActivate
<1>6. act'.stamp > 0 => \A p \in Paths : disk'[Backup(p, act'.stamp)] = None
  BY <1>1, <1>5 DEF Agreement, Agrees
<1>7. MovedKnown'
  BY <1>1, <1>2, <1>3, <1>6 DEF MovedKnown, AtReplaced, DeaPcs
<1> QED BY <1>1, <1>2, <1>3, <1>4, <1>7 DEF Agreement, UndoKnown, WriteKnown, WritePcs

\* The other ways to begin.
LEMMA StartAgrees == ASSUME IInv, Undisturbed, Agreement, Start PROVE Agreement'
<1>1. CASE \E e \in Entries : StartDeactivate(e)
  <2>1. UNCHANGED <<disk, db, clock>> /\ pc = "idle" /\ pc' = "dbegin" /\ dea'.ret = "idle"
    BY <1>1 DEF StartDeactivate, CallDeactivate
  <2>2. ~ InOp /\ ~ InOp'
    BY <2>1 DEF InOp, Forward, BeforeWrite, WritePcs, DeaPcs
  <2>3. Moved' = {} /\ Put' = {} /\ Moved = {} /\ Put = {}
    BY <2>2 DEF Moved, Put
  <2>4. Agrees'
    BY <2>1, <2>3, AgreesFrame DEF Agreement
  <2> QED BY <2>1, <2>2, <2>4
          DEF Agreement, UndoKnown, MovedKnown, WriteKnown, AtOlds, InOp, Forward, WritePcs
<1>2. CASE NewProcess
  <2>1. UNCHANGED <<disk, db, clock, pc, act>> /\ pc = "idle"
    BY <1>2 DEF NewProcess
  <2>2. Moved' = Moved /\ Put' = Put
    BY <2>1 DEF Moved, Put, InOp, Forward, BeforeWrite, WritePcs, DeaPcs
  <2>3. Agrees'
    BY <2>1, <2>2, AgreesFrame DEF Agreement
  <2> QED BY <2>1, <2>3, OutsideAgrees
<1> QED BY <1>1, <1>2, StartActivateAgrees DEF Start

\* A deactivation is called in an activation.
LEMMA CallAgrees ==
    ASSUME IInv, Agreement, NEW e \in Entries, DeactivateOld(e) \/ DeactivateReplaced(e)
    PROVE  Agreement'
<1>1. /\ UNCHANGED <<disk, db, clock>> /\ pc' = "dbegin" /\ dea'.ret = pc /\ dea'.ent = e
      /\ pc \in {"olds", "replaced"} /\ (pc = "replaced" => e \in act.todo)
  BY DEF DeactivateOld, DeactivateReplaced, CallDeactivate
<1>2. /\ act'.ent = act.ent /\ act'.stamp = act.stamp /\ act'.moving = act.moving
      /\ act'.scan = act.scan /\ act'.backups = act.backups /\ act'.rb = act.rb /\ act'.renamed = act.renamed
      /\ act'.forced = act.forced /\ act'.replaced = act.replaced /\ act'.undo = act.undo
      /\ act'.todo \subseteq act.todo
  BY DEF DeactivateOld, DeactivateReplaced, IInv, TypeOK, ActType
<1>3. /\ InOp' /\ InOp /\ BeforeWrite' /\ BeforeWrite /\ AtOlds' = AtOlds
      /\ AtReplaced' = AtReplaced
  BY <1>1 DEF InOp, Forward, BeforeWrite, WritePcs, DeaPcs, AtOlds, AtReplaced
<1>4. Moved' = Moved /\ Put' = Put
  BY <1>1, <1>2, <1>3 DEF Moved, Put
<1>5. Agrees'
  BY <1>1, <1>2, <1>4, AgreesFrame DEF Agreement
<1>6. UndoKnown'
  BY <1>1, <1>2, <1>3 DEF Agreement, UndoKnown
<1>7. MovedKnown'
  <2>1. AtReplaced => \A o \in act'.todo : InPlaceOf(o)
    BY <1>2, <1>3 DEF Agreement, MovedKnown
  <2>2. dea'.ret = "replaced" => InPlaceOf(dea'.ent)
    BY <1>1, <1>3 DEF Agreement, MovedKnown, AtReplaced
  <2> QED BY <1>1, <1>2, <1>3, <1>4, <2>1, <2>2, MovedFrame DEF Agreement, MovedKnown
<1> QED BY <1>1, <1>5, <1>6, <1>7 DEF Agreement, WriteKnown, WritePcs

\* The image is extracted, or a directory becomes the image.
LEMMA ConvertAgrees ==
    ASSUME IInv, Agreement, Extract \/ SetLocation \/ DropArchive PROVE Agreement'
<1>1. /\ UNCHANGED <<disk, db, clock, dea>> /\ pc \in {"olds", "convert", "drop"}
      /\ pc' \in {"convert", "drop", "scan"}
  BY DEF Extract, SetLocation, DropArchive
<1>2. /\ act'.ent = act.ent /\ act'.stamp = act.stamp /\ act'.moving = act.moving
      /\ act'.backups = act.backups /\ act'.rb = act.rb /\ act'.renamed = act.renamed
      /\ act'.forced = act.forced /\ act'.replaced = act.replaced /\ act'.undo = act.undo
      /\ act'.scan \in {act.scan, Image[act.ent]}
  <2>1. CASE Extract
    <3>1. \/ act' = [act EXCEPT !.xdir = Image[act.ent], !.scan = Image[act.ent]]
          \/ act' = [act EXCEPT !.scan = Image[act.ent]]
      BY <2>1 DEF Extract
    <3> QED BY <3>1 DEF IInv, TypeOK, ActType
  <2>2. CASE SetLocation \/ DropArchive
    BY <2>2 DEF SetLocation, DropArchive
  <2> QED BY <2>1, <2>2
<1>3. InOp /\ InOp' /\ BeforeWrite /\ BeforeWrite' /\ ~ AtReplaced' /\ ~ AtOlds'
  BY <1>1 DEF InOp, Forward, BeforeWrite, AtReplaced, AtOlds, DeaPcs
<1>4. /\ act.backups = {} /\ act.forced = {} /\ act.moving = {} /\ act.rb = {}
  BY <1>1, <1>3 DEF Agreement, UndoKnown, AtOlds
<1>5. Moved' = {} /\ Put' = {} /\ Moved = {} /\ Put = {} /\ Aside' = {}
  BY <1>1, <1>2, <1>4 DEF Moved, Put, Aside
<1>6. Agrees'
  BY <1>1, <1>5, AgreesFrame DEF Agreement
<1>7. UndoKnown'
  BY <1>1, <1>2, <1>3, <1>4 DEF Agreement, UndoKnown
<1>8. MovedKnown'
  BY <1>1, <1>2, <1>3, <1>4, <1>5 DEF Agreement, MovedKnown, InPlaceOf, DeaPcs
<1> QED BY <1>1, <1>6, <1>7, <1>8 DEF Agreement, WriteKnown, WritePcs

\* A file of the image that is in the way of none, or of a replaced port's.
LEMMA ScanFileAgrees ==
    ASSUME IInv, Agreement, NEW p \in Paths, ScanFile(p) PROVE Agreement'
<1>1. UNCHANGED <<disk, db, clock, pc, dea>> /\ pc = "scan"
  BY DEF ScanFile
<1>2. /\ act'.ent = act.ent /\ act'.stamp = act.stamp /\ act'.moving = act.moving
      /\ act'.backups = act.backups /\ act'.rb = act.rb /\ act'.renamed = act.renamed
      /\ act'.forced = act.forced /\ act'.undo = act.undo
      /\ act'.replaced \in {act.replaced, Replaced} /\ act'.scan \subseteq act.scan
  BY DEF ScanFile, IInv, TypeOK, ActType
<1>3. InOp /\ InOp' /\ BeforeWrite /\ BeforeWrite' /\ ~ AtReplaced' /\ ~ AtOlds'
  BY <1>1 DEF InOp, Forward, BeforeWrite, AtReplaced, AtOlds, DeaPcs
<1>4. Moved' = Moved /\ Put' = Put
  BY <1>1, <1>2, <1>3 DEF Moved, Put
<1>5. Agrees'
  BY <1>1, <1>2, <1>4, AgreesFrame DEF Agreement
<1>6. UndoKnown'
  BY <1>1, <1>2, <1>3 DEF Agreement, UndoKnown
<1>7. MovedKnown'
  <2>1. \A o \in act'.replaced : InPlaceOf(o)
    BY <1>2, <1>3 DEF Replaced, InPlaceOf, Agreement, MovedKnown
  <2> QED BY <1>1, <1>2, <1>3, <1>4, <2>1, MovedFrame DEF Agreement, DeaPcs
<1> QED BY <1>1, <1>5, <1>6, <1>7 DEF Agreement, WriteKnown, WritePcs

\* All files of the owner that are in conflict are to be moved: they are there,
\* since none of its files has been moved before.
LEMMA ForceFileAgrees ==
    ASSUME IInv, UserSafe, Agreement, NEW p \in Paths, ForceFile(p) PROVE Agreement'
<1> DEFINE rows == UNION {ConflictRows(o, act.ent) : o \in Owners(db, At(p))}
           moving == IF rows = {} THEN {p}
                     ELSE {db.row[f.own][f.img][1] : f \in {g \in rows : g.moved}}
<1>1. /\ UNCHANGED <<disk, db, clock, dea>> /\ pc = "scan" /\ pc' = "aside"
      /\ Exists(p) /\ force /\ p \in act.scan /\ ~ OwnedByReplaced(p)
  BY DEF ForceFile
<1>2. /\ act'.ent = act.ent /\ act'.stamp = act.stamp /\ act'.replaced = Replaced
      /\ act'.backups = act.backups /\ act'.rb = act.rb /\ act'.renamed = act.renamed /\ act'.undo = act.undo
      /\ act'.scan = act.scan \ {p} /\ act'.moving = moving /\ act'.forced = act.forced \cup rows
  BY DEF ForceFile, IInv, TypeOK, ActType
<1>3. /\ InOp /\ InOp' /\ BeforeWrite /\ BeforeWrite' /\ ~ AtReplaced' /\ ~ AtOlds'
      /\ act.ent \in Entries /\ act.stamp > 0
  BY <1>1 DEF InOp, Forward, BeforeWrite, AtReplaced, AtOlds, DeaPcs, IInv, StateOK, EntOK
<1>4. Moved' = Moved /\ Put' = Put /\ Put = {}
  BY <1>1, <1>2, <1>3, NothingPut DEF Moved, Put, Agreement
<1>5. act.moving = {} /\ Aside = Moved /\ p \in Image[act.ent] /\ p \notin Moved /\ MovedKnown
  <2>1. act.moving = {}
    BY <1>1, <1>3 DEF UserSafe, ScanOK
  <2> QED BY <1>1, <1>3, <2>1 DEF Agreement, MovedKnown, Exists, Aside
<1>6. \A f \in rows :
        /\ f.own \in Entries /\ f.img \in Paths /\ f.own \in Owners(db, At(p))
        /\ f = [own |-> f.own, img |-> f.img, moved |-> f.moved]
        /\ \E x \in Image[act.ent] : db.row[f.own][f.img] = At(x) /\ (f.moved <=> Exists(x))
        /\ \A x \in Image[act.ent], q \in Paths : db.row[f.own][q] = At(x) =>
              [own |-> f.own, img |-> q, moved |-> Exists(x)] \in rows
  <2> TAKE f \in rows
  <2>1. PICK o \in Owners(db, At(p)) : f \in ConflictRows(o, act.ent)
    OBVIOUS
  <2>2. /\ f \in [own : {o}, img : Paths, moved : BOOLEAN] /\ o \in Entries
        /\ \E x \in Image[act.ent] : db.row[o][f.img] = At(x) /\ (f.moved <=> Exists(x))
    BY <2>1 DEF ConflictRows, Owners
  <2>3. ASSUME NEW x \in Image[act.ent], NEW q \in Paths, db.row[o][q] = At(x)
        PROVE  [own |-> o, img |-> q, moved |-> Exists(x)] \in ConflictRows(o, act.ent)
    <3>1. Exists(x) \in BOOLEAN
      BY DEF Exists
    <3> HIDE DEF rows
    <3> QED BY <2>3, <3>1 DEF ConflictRows
  <2> QED BY <2>1, <2>2, <2>3
<1>7. \A o \in Owners(db, At(p)), x \in Image[act.ent], q \in Paths :
        db.row[o][q] = At(x) => Exists(x)
  <2>1. SUFFICES ASSUME NEW o \in Owners(db, At(p)), NEW x \in Image[act.ent], NEW q \in Paths,
                        db.row[o][q] = At(x)
                 PROVE  Exists(x)
    OBVIOUS
  <2>2. o \in Entries /\ x \in Paths /\ At(x) \in Locs /\ o \in Owners(db, At(x))
    BY <1>3, <2>1, Constants DEF Owners
  <2>3. x \notin Moved
    <3> SUFFICES ASSUME x \in Moved PROVE FALSE
      OBVIOUS
    <3>1. [own |-> o, img |-> q, moved |-> TRUE] \in act.forced
      BY <1>3, <1>5, <2>1, <2>2 DEF MovedKnown
    <3>2. \A y \in Paths : db.row[o][y] = At(p) => p \in Aside
      BY <1>3, <1>5, <3>1 DEF MovedKnown
    <3> QED BY <1>5, <3>2 DEF Owners
  <2>4. Was(At(x)) = o
    BY <1>1, <2>2 DEF Agreement, Agrees, AgreesAt
  <2>5. At(x)[1] = x /\ At(x)[2] = 0
    BY DEF At
  <2>6. disk[At(x)] = o
    BY <1>4, <2>3, <2>4, <2>5 DEF Was
  <2> QED BY <2>2, <2>6, ContentAssumption DEF Exists
<1>8. \A f \in rows : f.moved /\ \E x \in Image[act.ent] : db.row[f.own][f.img] = At(x)
  BY <1>6, <1>7
<1>9. \A f \in rows : \A x \in Paths : db.row[f.own][f.img] = At(x) => x \in moving
  <2>1. SUFFICES ASSUME NEW f \in rows, NEW x \in Paths, db.row[f.own][f.img] = At(x)
                 PROVE  x \in moving
    OBVIOUS
  <2>2. f.moved /\ rows # {} /\ db.row[f.own][f.img][1] = x
    BY <1>8, <2>1 DEF At
  <2> QED BY <2>1, <2>2
<1>10. \A x \in moving : \/ rows = {} /\ x = p
                         \/ \E f \in rows : db.row[f.own][f.img] = At(x)
  <2>1. \A f \in rows : \E x : db.row[f.own][f.img] = At(x) /\ db.row[f.own][f.img][1] = x
    BY <1>8 DEF At
  <2> QED BY <2>1
<1> HIDE DEF rows, moving
<1>11. Aside' = Moved \cup moving /\ \A o : InPlaceOf(o)' = InPlaceOf(o)
  BY <1>2, <1>4 DEF Aside, InPlaceOf
<1>12. rows = {} => Owners(db, At(p)) = {}
  <2>1. SUFFICES ASSUME NEW o \in Entries, NEW q \in Paths, db.row[o][q] = At(p) PROVE rows # {}
    BY DEF Owners
  <2>2. [own |-> o, img |-> q, moved |-> TRUE] \in ConflictRows(o, act.ent)
    BY <1>1, <1>5, <2>1 DEF ConflictRows
  <2> QED BY <2>1, <2>2 DEF rows, Owners
<1>13. \A x \in moving, o \in Entries, q \in Paths :
         db.row[o][q] = At(x) => [own |-> o, img |-> q, moved |-> TRUE] \in rows
  <2>1. SUFFICES ASSUME NEW x \in moving, NEW o \in Entries, NEW q \in Paths, db.row[o][q] = At(x)
                 PROVE  [own |-> o, img |-> q, moved |-> TRUE] \in rows
    OBVIOUS
  <2>2. rows # {}
    BY <1>10, <1>12, <2>1 DEF Owners
  <2>3. PICK f \in rows : db.row[f.own][f.img] = At(x)
    BY <1>10, <2>2
  <2>4. f.own = o /\ f.img = q
    BY <1>6, <2>1, <2>3, AtNotOff DEF IInv, StateOK, DbOK, OneOwner
  <2> QED BY <1>6, <1>8, <2>4
<1>14. \A x \in moving : \A o \in Owners(db, At(x)) : ~ InPlaceOf(o)
  <2>1. SUFFICES ASSUME NEW x \in moving, NEW o \in Entries, NEW q \in Paths,
                        db.row[o][q] = At(x), InPlaceOf(o)
                 PROVE  FALSE
    BY DEF Owners
  <2>2. o \in Owners(db, At(p))
    <3>1. [own |-> o, img |-> q, moved |-> TRUE] \in rows
      BY <1>13, <2>1
    <3> QED BY <1>6, <3>1
  <2>3. o \in Replaced
    BY <1>5, <2>1, <2>2 DEF Replaced, Conflicting, InPlaceOf
  <2> QED BY <1>1, <2>2, <2>3 DEF OwnedByReplaced
<1>15. \A f \in rows : /\ \E x \in moving : db.row[f.own][f.img] = At(x)
                       /\ \A x \in Image[act.ent], q \in Paths :
                             db.row[f.own][q] = At(x) => x \in moving
  <2>1. \A x \in Image[act.ent] : x \in Paths
    BY <1>3, Constants
  <2>2. ASSUME NEW f \in rows, NEW x \in Image[act.ent], NEW q \in Paths, db.row[f.own][q] = At(x)
        PROVE  x \in moving
    <3>1. PICK g \in rows : g = [own |-> f.own, img |-> q, moved |-> Exists(x)]
      BY <1>6, <2>2
    <3> QED BY <1>9, <2>1, <2>2, <3>1
  <2> QED BY <1>8, <1>9, <2>1, <2>2
<1>16. Agrees'
  BY <1>1, <1>2, <1>4, AgreesFrame DEF Agreement
<1>17. UndoKnown'
  BY <1>1, <1>2, <1>3 DEF Agreement, UndoKnown
<1>18. MovedKnown'
  <2>1. \A o \in Replaced : InPlaceOf(o)
    BY DEF Replaced, InPlaceOf
  <2>2. \A x \in Aside', o \in Entries, q \in Paths :
          db.row[o][q] = At(x) => [own |-> o, img |-> q, moved |-> TRUE] \in act'.forced
    BY <1>2, <1>3, <1>5, <1>11, <1>13 DEF MovedKnown
  <2>3. \A f \in act'.forced :
          /\ f.moved /\ \E x \in Aside' : db.row[f.own][f.img] = At(x)
          /\ \A x \in Image[act.ent], q \in Paths : db.row[f.own][q] = At(x) => x \in Aside'
    BY <1>2, <1>3, <1>5, <1>8, <1>11, <1>15 DEF MovedKnown
  <2>4. \A x \in Aside' : \A o \in Owners(db, At(x)) : ~ InPlaceOf(o)
    BY <1>3, <1>5, <1>11, <1>14 DEF MovedKnown
  <2>5. \A x \in Paths :
          IF x \in Moved' THEN disk'[At(x)] = None ELSE disk'[Backup(x, act'.stamp)] = None
    BY <1>1, <1>2, <1>3, <1>4, <1>5 DEF MovedKnown
  <2>6. act'.scan \subseteq Image[act'.ent]
    BY <1>2, <1>3, <1>5 DEF MovedKnown
  <2>7. UNCHANGED db /\ \A l : Owners(db', l) = Owners(db, l)
    BY <1>1
  <2> QED BY <1>1, <1>2, <1>3, <1>11, <2>1, <2>2, <2>3, <2>4, <2>5, <2>6, <2>7
          DEF MovedKnown, DeaPcs
<1> QED BY <1>1, <1>16, <1>17, <1>18 DEF Agreement, WriteKnown, WritePcs

\* What a location was stays the same when its file is moved aside.
LEMMA MoveAsideAgrees ==
    ASSUME IInv, UserSafe, Agreement, NEW p \in Paths, MoveAside(p) PROVE Agreement'
<1>1. /\ UNCHANGED <<db, clock, dea>> /\ pc = "aside" /\ pc' = "note" /\ p \in act.moving
      /\ disk' = [disk EXCEPT ![Backup(p, act.stamp)] = disk[At(p)], ![At(p)] = None]
  BY DEF MoveAside
<1>2. /\ act'.ent = act.ent /\ act'.stamp = act.stamp /\ act'.replaced = act.replaced
      /\ act'.backups = act.backups /\ act'.rb = act.rb /\ act'.renamed = act.renamed /\ act'.undo = act.undo
      /\ act'.scan = act.scan /\ act'.moving = act.moving \ {p} /\ act'.now = {p}
      /\ act'.forced = act.forced
  BY DEF MoveAside, IInv, TypeOK, ActType
<1>3. /\ InOp /\ InOp' /\ BeforeWrite /\ BeforeWrite' /\ ~ AtReplaced' /\ ~ AtOlds'
      /\ act.stamp > 0 /\ act.stamp \in 0..MaxStamp /\ act.stamp <= clock /\ clock \in 0..MaxStamp
  BY <1>1 DEF InOp, Forward, BeforeWrite, AtReplaced, AtOlds, DeaPcs, UserSafe, AsideOK,
              IInv, TypeOK, ActType
<1>4. /\ Backup(p, act.stamp) \in Locs /\ At(p) \in Locs /\ Backup(p, act.stamp) # At(p)
      /\ disk \in [Locs -> Content]
  BY <1>3, Constants, LocParts DEF IInv, TypeOK
<1>5. \A l \in Locs : disk'[l] = IF l = At(p) THEN None
                                 ELSE IF l = Backup(p, act.stamp) THEN disk[At(p)] ELSE disk[l]
  BY <1>1, <1>4
<1>6. Moved' = Moved \cup {p} /\ Put = {} /\ Put' = {} /\ Aside' = Aside
  BY <1>1, <1>2, <1>3, NothingPut DEF Moved, Put, Aside, Agreement
<1>7. p \notin Moved /\ disk[Backup(p, act.stamp)] = None /\ MovedKnown
  BY <1>1, <1>3 DEF UserSafe, ScanOK, Exists, Agreement, MovedKnown
<1>8. \A l \in Locs : l = <<l[1], l[2]>> /\ l[1] \in Paths /\ l[2] \in 0..MaxStamp
  BY DEF Locs
<1>9. \A l \in Locs : Was(l)' = Was(l)
  <2> TAKE l \in Locs
  <2>1. PICK x \in Paths, s \in 0..MaxStamp : l = <<x, s>> /\ l[1] = x /\ l[2] = s
    BY <1>8
  <2>2. /\ l = At(p) <=> x = p /\ s = 0
        /\ l = Backup(p, act.stamp) <=> x = p /\ s = act.stamp
    BY <2>1 DEF At, Backup
  <2>3. Was(l) = IF x \in Moved /\ s = 0 THEN disk[Backup(x, act.stamp)]
                 ELSE IF x \in Moved /\ s = act.stamp THEN None ELSE disk[l]
    BY <1>6, <2>1 DEF Was
  <2>4. Was(l)' = IF x \in Moved' /\ s = 0 THEN disk'[Backup(x, act.stamp)]
                  ELSE IF x \in Moved' /\ s = act.stamp THEN None ELSE disk'[l]
    BY <1>2, <1>6, <2>1 DEF Was
  <2>5. CASE x = p
    BY <1>3, <1>4, <1>5, <1>6, <1>7, <2>2, <2>3, <2>4, <2>5
  <2>6. CASE x # p
    <3>1. Backup(x, act.stamp) \in Locs /\ Backup(x, act.stamp) # At(p)
          /\ Backup(x, act.stamp) # Backup(p, act.stamp)
      BY <1>3, <2>6, Constants, LocParts
    <3> QED BY <1>5, <1>6, <2>2, <2>3, <2>4, <2>6, <3>1
  <2> QED BY <2>5, <2>6
<1>10. Agrees'
  <2>1. \A l \in Locs, e \in Entries : AgreesAt(l, e)'
    BY <1>1, <1>9 DEF Agreement, Agrees, AgreesAt
  <2>2. ASSUME NEW s \in 0..MaxStamp, s > clock, NEW x \in Paths PROVE disk'[Backup(x, s)] = None
    <3>1. Backup(x, s) \in Locs /\ Backup(x, s) # At(p) /\ Backup(x, s) # Backup(p, act.stamp)
      BY <1>3, <2>2, Constants, LocParts
    <3> QED BY <1>5, <2>2, <3>1 DEF Agreement, Agrees
  <2> QED BY <1>1, <2>1, <2>2 DEF Agrees
<1>11. UndoKnown'
  BY <1>1, <1>2, <1>3 DEF Agreement, UndoKnown
<1>12. MovedKnown'
  <2>1. \A x \in Paths :
          IF x \in Moved' THEN disk'[At(x)] = None ELSE disk'[Backup(x, act'.stamp)] = None
    <3> TAKE x \in Paths
    <3>1. /\ At(x) \in Locs /\ Backup(x, act.stamp) \in Locs
          /\ At(x) = At(p) <=> x = p
          /\ Backup(x, act.stamp) = Backup(p, act.stamp) <=> x = p
          /\ Backup(x, act.stamp) # At(p) /\ At(x) # Backup(p, act.stamp)
      BY <1>3, Constants, LocParts
    <3>2. IF x \in Moved THEN disk[At(x)] = None ELSE disk[Backup(x, act.stamp)] = None
      BY <1>3, <1>7 DEF MovedKnown
    <3> QED BY <1>2, <1>5, <1>6, <3>1, <3>2
  <2>2. \A o : InPlaceOf(o)' = InPlaceOf(o)
    BY <1>2 DEF InPlaceOf
  <2>3. \A l : Owners(db', l) = Owners(db, l)
    BY <1>1
  <2>4. /\ act.scan \subseteq Image[act.ent]
        /\ \A x \in Aside : \A o \in Owners(db, At(x)) : ~ InPlaceOf(o)
        /\ \A x \in Aside, o \in Entries, q \in Paths :
              db.row[o][q] = At(x) => [own |-> o, img |-> q, moved |-> TRUE] \in act.forced
        /\ \A f \in act.forced :
              /\ f.moved /\ \E x \in Aside : db.row[f.own][f.img] = At(x)
              /\ \A x \in Image[act.ent], q \in Paths : db.row[f.own][q] = At(x) => x \in Aside
        /\ \A o \in act.replaced : InPlaceOf(o)
    BY <1>3, <1>7 DEF MovedKnown
  <2>5. UNCHANGED db /\ pc' \notin DeaPcs
    BY <1>1 DEF DeaPcs
  <2> QED BY <1>2, <1>3, <1>6, <2>1, <2>2, <2>3, <2>4, <2>5 DEF MovedKnown
<1> QED BY <1>1, <1>10, <1>11, <1>12 DEF Agreement, WriteKnown, WritePcs

\* The backup is noted, or the scan is over.
LEMMA ScanGoesOnAgrees ==
    ASSUME IInv, Agreement, NoteBackup \/ ScanDone PROVE Agreement'
<1>1. /\ UNCHANGED <<disk, db, clock, dea>> /\ pc \in {"note", "scan"}
      /\ pc' \in {"scan", "aside", "replaced"}
  BY DEF NoteBackup, ScanDone
<1>2. /\ act'.ent = act.ent /\ act'.stamp = act.stamp /\ act'.rb = act.rb /\ act'.renamed = act.renamed
      /\ act'.scan = act.scan /\ act'.moving = act.moving /\ act'.forced = act.forced
      /\ act'.replaced = act.replaced /\ act'.undo = act.undo
      /\ act'.backups = IF pc = "note" THEN act.backups \cup act.now ELSE act.backups
      /\ pc' = "replaced" => act'.todo = act.replaced
  BY DEF NoteBackup, ScanDone, IInv, TypeOK, ActType
<1>3. InOp /\ InOp' /\ BeforeWrite /\ BeforeWrite' /\ ~ AtOlds' /\ ~ AtOlds
      /\ (AtReplaced' => pc' = "replaced")
  BY <1>1 DEF InOp, Forward, BeforeWrite, AtReplaced, AtOlds, DeaPcs
<1>4. Moved' = Moved /\ Put' = Put /\ Aside' = Aside
  BY <1>1, <1>2, <1>3 DEF Moved, Put, Aside
<1>5. Agrees'
  BY <1>1, <1>2, <1>4, AgreesFrame DEF Agreement
<1>6. UndoKnown'
  BY <1>1, <1>2, <1>3 DEF Agreement, UndoKnown
<1>7. MovedKnown'
  <2>1. \A o : InPlaceOf(o)' = InPlaceOf(o)
    BY <1>2 DEF InPlaceOf
  <2>2. \A l : Owners(db', l) = Owners(db, l)
    BY <1>1
  <2> QED BY <1>1, <1>2, <1>3, <1>4, <2>1, <2>2 DEF Agreement, MovedKnown, DeaPcs
<1> QED BY <1>1, <1>5, <1>6, <1>7 DEF Agreement, WriteKnown, WritePcs

-----------------------------------------------------------------------------
(* The transaction, its undoing, deactivation and all of it                 *)

\* In the transaction only two parts matter.
LEMMA WriteOnly ==
    ASSUME pc' \in WritePcs, Agrees', WriteKnown' PROVE Agreement'
BY DEF Agreement, UndoKnown, MovedKnown, BeforeWrite, AtOlds, WritePcs, DeaPcs

\* The port's rows are at the image's own paths, where it has no file yet; the
\* rows of others follow their files.
LEMMA RegisterAgrees ==
    ASSUME IInv, UserSafe, Agreement, Register PROVE Agreement'
<1>1. /\ UNCHANGED <<disk, db, clock, dea>> /\ pc = "replaced" /\ pc' = "put" /\ act.todo = {}
      /\ tx' = Activate(AfterForced, act.ent, ImageAt(act.ent)) /\ tx = db
      /\ CanRegister /\ act.ent \in Entries /\ db.state[act.ent] = "imaged"
  BY DEF Register, IInv, StateOK, TxOK, WritePcs, EntOK, Forward, BeforeWrite
<1>2. /\ act'.ent = act.ent /\ act'.stamp = act.stamp /\ act'.ren = act.ren
      /\ act'.rb = act.rb /\ act'.backups = act.backups /\ act'.renamed = act.renamed
      /\ act'.files = Image[act.ent] \ Renamed(act.ent, act.ren)
  BY DEF Register, IInv, TypeOK, ActType
<1>3. BeforeWrite /\ InOp /\ InOp' /\ AtReplaced /\ ~ AtOlds
  BY <1>1 DEF BeforeWrite, InOp, Forward, AtReplaced, AtOlds, DeaPcs, WritePcs
<1>4. Moved' = Moved /\ Put' = Put /\ Put = {} /\ Aside = Moved
  BY <1>1, <1>2, <1>3, NothingPut DEF Moved, Put, Aside, Agreement, UserSafe, ScanOK
<1>5. AfterForced \in Registry /\ act.stamp \in 0..MaxStamp /\ MovedKnown
      /\ act.ren \in [Paths -> Paths] /\ Image[act.ent] \in SUBSET Paths
  BY <1>1, MoveRegistry, Constants DEF AfterForced, IInv, TypeOK, ActType, Agreement
<1>6. Agrees'
  BY <1>1, <1>2, <1>4, AgreesFrame DEF Agreement
<1>7. \A o \in Entries, q \in Paths :
        tx'.row[o][q] = IF o = act.ent /\ q \in Image[act.ent] THEN At(q)
                        ELSE AfterForced.row[o][q]
  <2>1. DOMAIN ImageAt(act.ent) = Image[act.ent]
        /\ \A q \in Image[act.ent] : ImageAt(act.ent)[q] = At(q)
    BY DEF ImageAt
  <2> QED BY <1>1, <1>5, <2>1, ActivateRow
<1> DEFINE mv(o, q) == [own |-> o, img |-> q, moved |-> TRUE] \in act.forced
<1>8. \A o \in Entries, q \in Paths :
        AfterForced.row[o][q] = IF mv(o, q) THEN Backup(q, act.stamp) ELSE db.row[o][q]
  <2> TAKE o \in Entries, q \in Paths
  <2>1. [own |-> o, img |-> q, moved |-> FALSE] \notin act.forced
    <3> SUFFICES ASSUME NEW f \in act.forced, f = [own |-> o, img |-> q, moved |-> FALSE] PROVE FALSE
      OBVIOUS
    <3> QED BY <1>3, <1>5 DEF MovedKnown
  <2> QED BY <1>1, <2>1, MoveRow DEF AfterForced, IInv, TypeOK
<1>9. \A o \in Entries, q \in Paths : mv(o, q) =>
        /\ db.row[o][q] = At(q) /\ q \in Moved /\ act.stamp > 0
  <2> SUFFICES ASSUME NEW o \in Entries, NEW q \in Paths, NEW f \in act.forced,
                      f = [own |-> o, img |-> q, moved |-> TRUE]
               PROVE  db.row[o][q] = At(q) /\ q \in Moved /\ act.stamp > 0
    OBVIOUS
  <2>1. db.row[o][q] = At(q)
    BY <1>1 DEF CanRegister, CanMove
  <2>2. \E p \in Moved : db.row[o][q] = At(p)
    BY <1>3, <1>4, <1>5 DEF MovedKnown
  <2>3. act.stamp > 0
    BY <1>3 DEF IInv, StateOK, ForcedOK
  <2> QED BY <2>1, <2>2, <2>3, LocParts
<1>10. \A o \in Entries, q \in Paths, p \in Moved : db.row[o][q] = At(p) => mv(o, q)
  BY <1>3, <1>4, <1>5 DEF MovedKnown
<1>11. \A l \in Locs, o \in Entries : Was(l) = o <=> o \in Owners(db, l)
  BY <1>1 DEF Agreement, Agrees, AgreesAt
<1>12. Moved # {} => act.stamp > 0 /\ act.stamp # 0
  <2>1. act.backups # {} => act.stamp > 0
    BY <1>3 DEF UserSafe, AsideOK
  <2> QED BY <1>1, <1>5, <2>1 DEF Moved, IInv, TypeOK, ActType
<1>13. Moved \in SUBSET Paths
  BY <1>1 DEF Moved, IInv, TypeOK, ActType
<1> HIDE DEF mv
<1>14. \A p \in Moved : /\ disk[At(p)] = None /\ At(p) \in Locs /\ Backup(p, act.stamp) \in Locs
                        /\ Was(At(p)) = disk[Backup(p, act.stamp)]
                        /\ Was(Backup(p, act.stamp)) = None
  <2> TAKE p \in Moved
  <2>1. At(p) = <<p, 0>> /\ Backup(p, act.stamp) = <<p, act.stamp>>
    BY DEF At, Backup
  <2> QED BY <1>3, <1>5, <1>12, <1>13, <2>1, Constants DEF Was, MovedKnown
<1>15. \A l \in Locs : \/ \E p \in Moved : l = At(p) \/ l = Backup(p, act.stamp)
                       \/ /\ Was(l) = disk[l]
                          /\ \A p \in Moved : l # At(p) /\ l # Backup(p, act.stamp)
  <2> TAKE l \in Locs
  <2>1. PICK x \in Paths, s \in 0..MaxStamp : l = <<x, s>> /\ l[1] = x /\ l[2] = s
    BY DEF Locs
  <2>2. \A p : /\ l = At(p) <=> x = p /\ s = 0
               /\ l = Backup(p, act.stamp) <=> x = p /\ s = act.stamp
    BY <2>1 DEF At, Backup
  <2>3. Was(l) = IF x \in Moved /\ s = 0 THEN disk[Backup(x, act.stamp)]
                 ELSE IF x \in Moved /\ s = act.stamp THEN None ELSE disk[l]
    BY <1>4, <2>1 DEF Was
  <2> QED BY <2>2, <2>3
<1>16. \A l \in Locs : disk[l] # act.ent
  <2>1. \A l \in Locs : Was(l) # act.ent
    <3> SUFFICES ASSUME NEW l \in Locs, NEW q \in Paths, db.row[act.ent][q] = l PROVE FALSE
      BY <1>1, <1>11 DEF Owners
    <3>1. l \in Files(db, act.ent)
      BY OffNoLoc DEF Files
    <3> QED BY <1>1, <3>1 DEF IInv, StateOK, DbOK, ActiveRowsInstalled
  <2>2. None # act.ent
    BY <1>1, ContentAssumption
  <2> QED BY <1>14, <1>15, <2>1, <2>2
<1>17. ASSUME NEW l \in Locs, NEW o \in Entries \ {act.ent}
       PROVE  disk[l] = o <=> o \in Owners(tx', l)
  <2>1. o \in Owners(tx', l) <=> \E q \in Paths :
           l = IF mv(o, q) THEN Backup(q, act.stamp) ELSE db.row[o][q]
    BY <1>7, <1>8, <1>17 DEF Owners
  <2>2. o # None
    BY ContentAssumption
  <2>3. ASSUME NEW p \in Moved, l = At(p) PROVE disk[l] # o /\ o \notin Owners(tx', l)
    <3>1. \A q \in Paths : l # Backup(q, act.stamp)
      BY <1>12, <2>3, LocParts
    <3>2. \A q \in Paths : db.row[o][q] = l => mv(o, q)
      BY <1>10, <2>3
    <3> QED BY <1>14, <2>1, <2>2, <2>3, <3>1, <3>2
  <2>4. ASSUME NEW p \in Moved, l = Backup(p, act.stamp) PROVE disk[l] = o <=> o \in Owners(tx', l)
    <3>1. disk[l] = o <=> \E q \in Paths : db.row[o][q] = At(p)
      BY <1>11, <1>14, <2>4 DEF Owners
    <3>2. \A q \in Paths : db.row[o][q] = At(p) <=> mv(o, q) /\ q = p
      BY <1>9, <1>10, LocParts
    <3>3. \A q \in Paths : db.row[o][q] # l
      BY <1>11, <1>14, <2>2, <2>4 DEF Owners
    <3>4. \A q \in Paths : Backup(q, act.stamp) = l <=> q = p
      BY <2>4, LocParts
    <3> QED BY <1>13, <2>1, <3>1, <3>2, <3>3, <3>4
  <2>5. ASSUME Was(l) = disk[l], \A p \in Moved : l # At(p) /\ l # Backup(p, act.stamp)
        PROVE  disk[l] = o <=> o \in Owners(tx', l)
    <3>1. disk[l] = o <=> \E q \in Paths : db.row[o][q] = l
      BY <1>11, <2>5 DEF Owners
    <3>2. \A q \in Paths : mv(o, q) => db.row[o][q] # l /\ Backup(q, act.stamp) # l
      BY <1>9, <2>5
    <3> QED BY <2>1, <3>1, <3>2
  <2> QED BY <1>15, <2>3, <2>4, <2>5
<1>18. WriteKnown'
  <2>1. ~ act'.renamed /\ pc' # "rename" /\ pc' # "commit"
    BY <1>1, <1>2, <1>3 DEF Agreement, UndoKnown
  <2>2. \A q \in Image[act.ent] : ~ Done(q)'
    BY <1>1, <1>2, <2>1 DEF Done, Renamed
  <2>3. \A q \in act'.files : /\ q \in Image[act.ent] /\ act'.ren[q] = q
                             /\ tx'.row[act.ent][q] = At(Dest(q)')
    <3> TAKE q \in act'.files
    <3>1. q \in Image[act.ent] /\ q \in Paths /\ act'.ren[q] = q /\ act.ent \in Entries
      BY <1>1, <1>2, <1>5 DEF Renamed
    <3>2. Dest(q)' = q
      BY <2>1 DEF Dest
    <3> QED BY <1>7, <3>1, <3>2
  <2> QED BY <1>1, <1>2, <1>16, <1>17, <2>1, <2>2, <2>3 DEF WriteKnown
<1> QED BY <1>1, <1>6, <1>18, WriteOnly DEF WritePcs

\* In the transaction a row of the port is that of no one else.
LEMMA OwnRow ==
    ASSUME IInv, pc \in WritePcs, NEW q \in Image[act.ent]
    PROVE  /\ act.ent \in Entries /\ q \in Paths /\ tx.row[act.ent][q] \in Locs
           /\ act.ent \in Owners(tx, tx.row[act.ent][q])
           /\ \A o \in Entries : o \in Owners(tx, tx.row[act.ent][q]) => o = act.ent
           /\ \A x \in Paths : tx.row[act.ent][x] = tx.row[act.ent][q] => x = q
<1>1. act.ent \in Entries /\ Pending
  BY DEF IInv, StateOK, EntOK, TxOK, Forward, WritePcs
<1>2. q \in Paths
  BY <1>1, Constants
<1>3. PICK p \in Paths : tx.row[act.ent][q] = At(p)
  BY <1>1, <1>2 DEF Pending
<1>4. At(p) \in Locs /\ At(p) # Off
  BY <1>3, Constants, AtNotOff
<1> QED BY <1>1, <1>2, <1>3, <1>4 DEF Pending, OneOwner, Owners

\* What is moved has a suffix that was handed out.
LEMMA MovedType ==
    ASSUME IInv, UserSafe
    PROVE  /\ Moved \in SUBSET Paths /\ Put \in SUBSET Paths
           /\ \A p \in Moved : act.stamp # 0 /\ act.stamp \in 0..MaxStamp /\ act.stamp <= clock
BY StampAssumption DEF Moved, Put, IInv, TypeOK, ActType, UserSafe, AsideOK, InOp

\* A file of the port is put where its row says, and nothing is.
LEMMA PutFileAgrees ==
    ASSUME IInv, UserSafe, Agreement, NEW q \in Paths, PutFile(q) PROVE Agreement'
<1>1. /\ UNCHANGED <<db, tx, clock, dea>> /\ pc = "put" /\ pc' = "append" /\ q \in act.files
      /\ disk[At(Dest(q))] = None /\ disk' = [disk EXCEPT ![At(Dest(q))] = act.ent]
      /\ pc \in WritePcs
  BY DEF PutFile, Exists, WritePcs
<1>2. /\ act'.ent = act.ent /\ act'.stamp = act.stamp /\ act'.ren = act.ren
      /\ act'.rb = act.rb /\ act'.backups = act.backups /\ act'.now = {Dest(q)}
      /\ act'.renamed = act.renamed /\ act'.files = act.files \ {q}
  BY DEF PutFile, IInv, TypeOK, ActType
<1>3. /\ q \in Image[act.ent] /\ tx.row[act.ent][q] = At(Dest(q)) /\ WriteKnown
      /\ act.renamed \/ act.ren[q] = q
  BY <1>1 DEF Agreement, WriteKnown
<1>4. /\ act.ent \in Entries /\ At(Dest(q)) \in Locs /\ disk \in [Locs -> Content]
      /\ \A o \in Entries : o \in Owners(tx, At(Dest(q))) => o = act.ent
      /\ \A x \in Paths : tx.row[act.ent][x] = At(Dest(q)) => x = q
  BY <1>1, <1>3, OwnRow DEF IInv, TypeOK
<1>5. \A l \in Locs : disk'[l] = IF l = At(Dest(q)) THEN act.ent ELSE disk[l]
  BY <1>1, <1>4
<1>6. act.ent # None
  BY <1>4, ContentAssumption
<1>7. Moved' = Moved /\ Put' = Put \cup {Dest(q)}
  BY <1>1, <1>2 DEF Moved, Put, InOp, Forward, BeforeWrite, DeaPcs, WritePcs
<1>8. \A l \in Locs : Was(l)' = Was(l)
  <2> TAKE l \in Locs
  <2>1. PICK x \in Paths, s \in 0..MaxStamp : l = <<x, s>> /\ l[1] = x /\ l[2] = s
    BY DEF Locs
  <2>2. l = At(Dest(q)) <=> x = Dest(q) /\ s = 0
    BY <2>1 DEF At
  <2>3. Backup(x, act.stamp) # At(Dest(q)) \/ x \notin Moved
    <3>1. x \in Moved => act.stamp # 0
      BY MovedType
    <3> QED BY <3>1, LocParts
  <2> QED BY <1>1, <1>2, <1>5, <1>7, <2>1, <2>2, <2>3 DEF Was
<1>9. Agrees'
  <2>1. \A l \in Locs, e \in Entries : AgreesAt(l, e)'
    BY <1>1, <1>8 DEF Agreement, Agrees, AgreesAt
  <2>2. ASSUME NEW s \in 0..MaxStamp, s > clock, NEW x \in Paths PROVE disk'[Backup(x, s)] = None
    <3>1. Backup(x, s) \in Locs /\ Backup(x, s) # At(Dest(q))
      BY <2>2, Constants, LocParts DEF IInv, TypeOK
    <3> QED BY <1>5, <2>2, <3>1 DEF Agreement, Agrees
  <2> QED BY <1>1, <2>1, <2>2 DEF Agrees
<1>10. WriteKnown'
  <2>1. Done(q)' /\ \A x : x # q => (Done(x)' <=> Done(x))
    BY <1>2, <1>3 DEF Done
  <2>2. ASSUME NEW l \in Locs, NEW e \in Entries \ {act.ent}
        PROVE  disk'[l] = e <=> e \in Owners(tx, l)
    BY <1>1, <1>3, <1>4, <1>5, <2>2 DEF WriteKnown
  <2>3. ASSUME NEW l \in Locs, disk'[l] = act.ent
        PROVE  \E x \in Image[act.ent] : Done(x)' /\ tx.row[act.ent][x] = l
    <3>1. CASE l = At(Dest(q))
      BY <1>3, <2>1, <3>1
    <3>2. CASE l # At(Dest(q))
      <4>1. PICK x \in Image[act.ent] : Done(x) /\ tx.row[act.ent][x] = l
        BY <1>1, <1>3, <1>5, <2>3, <3>2 DEF WriteKnown
      <4> QED BY <2>1, <4>1
    <3> QED BY <3>1, <3>2
  <2>4. ASSUME NEW x \in Image[act.ent], Done(x)' PROVE disk'[tx.row[act.ent][x]] = act.ent
    <3>1. tx.row[act.ent][x] \in Locs
      BY <1>1, OwnRow
    <3>2. CASE x = q
      BY <1>3, <1>5, <3>1, <3>2
    <3>3. CASE x # q
      BY <1>1, <1>3, <1>5, <2>1, <2>4, <3>1, <3>3 DEF WriteKnown
    <3> QED BY <3>2, <3>3
  <2>5. \A x : Dest(x)' = Dest(x)
    BY <1>2 DEF Dest
  <2> QED BY <1>1, <1>2, <1>3, <2>2, <2>3, <2>4, <2>5 DEF WriteKnown
<1> QED BY <1>1, <1>9, <1>10, WriteOnly DEF WritePcs

\* A file that is in place already is the port's own.
LEMMA SkipFileAgrees ==
    ASSUME IInv, UserSafe, Agreement, NEW q \in Paths, SkipFile(q) PROVE Agreement'
<1>1. /\ UNCHANGED <<disk, db, tx, clock, dea, pc>> /\ pc = "put" /\ q \in act.files
      /\ disk[At(Dest(q))] # None /\ pc \in WritePcs
  BY DEF SkipFile, Exists, WritePcs
<1>2. /\ act'.ent = act.ent /\ act'.stamp = act.stamp /\ act'.ren = act.ren
      /\ act'.rb = act.rb /\ act'.backups = act.backups
      /\ act'.renamed = act.renamed /\ act'.files = act.files \ {q}
  BY DEF SkipFile, IInv, TypeOK, ActType
<1>3. /\ q \in Image[act.ent] /\ tx.row[act.ent][q] = At(Dest(q)) /\ WriteKnown
      /\ act.renamed \/ act.ren[q] = q
  BY <1>1 DEF Agreement, WriteKnown
<1>4. disk[tx.row[act.ent][q]] = act.ent
  <2> DEFINE l == tx.row[act.ent][q]
  <2>1. l \in Locs /\ Owners(tx, l) = {act.ent}
    BY <1>1, <1>3, OwnRow DEF Owners
  <2>2. disk[l] \in Entries \cup {User}
    BY <1>1, <1>3, <2>1 DEF IInv, TypeOK, Content
  <2>3. disk[l] # User
    BY <2>1 DEF UserSafe, FilesOK, Unclaimed
  <2>4. ASSUME NEW e \in Entries \ {act.ent}, disk[l] = e PROVE FALSE
    BY <1>1, <1>3, <2>1, <2>4 DEF WriteKnown
  <2> QED BY <2>2, <2>3, <2>4
<1>5. Moved' = Moved /\ Put' = Put
  BY <1>1, <1>2 DEF Moved, Put, InOp, Forward, BeforeWrite, DeaPcs, WritePcs
<1>6. Agrees'
  BY <1>1, <1>2, <1>5, AgreesFrame DEF Agreement
<1>7. WriteKnown'
  <2>1. \A x : Done(x)' <=> Done(x) \/ x = q
    BY <1>2, <1>3 DEF Done
  <2>2. \A x : Dest(x)' = Dest(x)
    BY <1>2 DEF Dest
  <2>3. \A x \in Image[act.ent] : Done(x)' => disk[tx.row[act.ent][x]] = act.ent
    BY <1>1, <1>3, <1>4, <2>1 DEF WriteKnown
  <2>4. ASSUME NEW l \in Locs, disk[l] = act.ent
        PROVE  \E x \in Image[act.ent] : Done(x)' /\ tx.row[act.ent][x] = l
    BY <1>1, <1>3, <2>1, <2>4 DEF WriteKnown
  <2>5. \A x \in act'.files : /\ x \in Image[act.ent] /\ (act'.renamed \/ act'.ren[x] = x)
                             /\ tx.row[act.ent][x] = At(Dest(x))
    BY <1>1, <1>2, <1>3 DEF WriteKnown
  <2>6. \A l \in Locs, e \in Entries \ {act.ent} : disk[l] = e <=> e \in Owners(tx, l)
    BY <1>1, <1>3 DEF WriteKnown
  <2> QED BY <1>1, <1>2, <2>2, <2>3, <2>4, <2>5, <2>6 DEF WriteKnown
<1> QED BY <1>1, <1>6, <1>7, WriteOnly

\* The files to be renamed come after the others.
LEMMA StartRenamedAgrees ==
    ASSUME IInv, Agreement, StartRenamed PROVE Agreement'
<1>1. /\ UNCHANGED <<disk, db, tx, clock, dea>> /\ pc = "put" /\ pc' = "rename"
      /\ act.files = {} /\ ~ act.renamed /\ pc \in WritePcs
  BY DEF StartRenamed, WritePcs
<1>2. /\ act'.ent = act.ent /\ act'.stamp = act.stamp /\ act'.ren = act.ren
      /\ act'.rb = act.rb /\ act'.backups = act.backups
      /\ act'.renamed /\ act'.files = Renamed(act.ent, act.ren) /\ act'.todo = act'.files
  BY DEF StartRenamed, IInv, TypeOK, ActType
<1>3. Moved' = Moved /\ Put' = Put
  BY <1>1, <1>2 DEF Moved, Put, InOp, Forward, BeforeWrite, DeaPcs, WritePcs
<1>4. Agrees'
  BY <1>1, <1>2, <1>3, AgreesFrame DEF Agreement
<1>5. WriteKnown'
  <2>1. \A x \in Image[act.ent] : Done(x)' <=> Done(x)
    BY <1>1, <1>2 DEF Done, Renamed
  <2>2. \A x \in act'.files : x \in Image[act.ent] /\ tx.row[act.ent][x] = At(x)
    BY <1>1, <1>2 DEF Renamed, IInv, StateOK, TxOK, Pending
  <2>3. WriteKnown
    BY DEF Agreement
  <2>4. \A x \in Image[act.ent] : Done(x)' => disk[tx.row[act.ent][x]] = act.ent
    BY <1>1, <2>1, <2>3 DEF WriteKnown
  <2>5. ASSUME NEW l \in Locs, disk[l] = act.ent
        PROVE  \E x \in Image[act.ent] : Done(x)' /\ tx.row[act.ent][x] = l
    BY <1>1, <2>1, <2>3, <2>5 DEF WriteKnown
  <2>6. \A l \in Locs, e \in Entries \ {act.ent} : disk[l] = e <=> e \in Owners(tx, l)
    BY <1>1, <2>3 DEF WriteKnown
  <2> QED BY <1>1, <1>2, <2>2, <2>4, <2>5, <2>6 DEF WriteKnown
<1> QED BY <1>1, <1>4, <1>5, WriteOnly DEF WritePcs

\* The row of a file still to come goes to another place, or it is all undone.
LEMMA RenameRowAgrees ==
    ASSUME IInv, Agreement, NEW q \in Paths, RenameRow(q) PROVE Agreement'
<1> DEFINE without == Deactivate(tx, act.ent, {At(q)})
<1>1. InOp /\ pc = "rename" /\ UNCHANGED <<disk, db, clock>> /\ pc \in WritePcs /\ q \in act.todo
  BY DEF RenameRow, InOp, Forward, WritePcs
<1>2. CASE CanActivate(without, act.ent, AsRenamed(q))
  <2>1. /\ tx' = Activate(without, act.ent, AsRenamed(q)) /\ act' = [act EXCEPT !.todo = @ \ {q}]
        /\ UNCHANGED <<pc, dea>>
    BY <1>2 DEF RenameRow
  <2>2. /\ act'.ent = act.ent /\ act'.stamp = act.stamp /\ act'.ren = act.ren
        /\ act'.rb = act.rb /\ act'.backups = act.backups
        /\ act'.renamed = act.renamed /\ act'.files = act.files /\ act'.todo = act.todo \ {q}
    BY <2>1 DEF IInv, TypeOK, ActType
  <2>3. /\ WriteKnown /\ act.renamed /\ q \in act.files /\ q \in Image[act.ent]
        /\ tx.row[act.ent][q] = At(q) /\ act.ent \in Entries
    BY <1>1, OwnRow DEF Agreement, WriteKnown
  <2>4. without \in Registry
    BY <2>3, DeactivateRegistry DEF IInv, TypeOK
  <2>5. ASSUME NEW o \in Entries, NEW x \in Paths
        PROVE  tx'.row[o][x] = IF o = act.ent /\ x = q THEN At(act.ren[q]) ELSE tx.row[o][x]
    <3>1. DOMAIN AsRenamed(q) = {q} /\ AsRenamed(q)[q] = At(act.ren[q])
      BY DEF AsRenamed
    <3>2. without.row[o][x] = IF o = act.ent /\ tx.row[act.ent][x] = At(q) THEN Off ELSE tx.row[o][x]
      BY <2>3, DeactivateRow DEF IInv, TypeOK
    <3>3. tx.row[act.ent][x] = At(q) => x = q
      BY <1>1, <2>3, OwnRow
    <3> HIDE DEF without
    <3> QED BY <2>1, <2>3, <2>4, <3>1, <3>2, <3>3, ActivateRow
  <2>6. Moved' = Moved /\ Put' = Put
    BY <2>1, <2>2 DEF Moved, Put, InOp, Forward, BeforeWrite
  <2>7. Agrees'
    BY <1>1, <2>1, <2>2, <2>6, AgreesFrame DEF Agreement
  <2>8. WriteKnown'
    <3>1. \A x : (Done(x)' <=> Done(x)) /\ (Done(x) => x # q) /\ Dest(x)' = act.ren[x]
                /\ Dest(x) = act.ren[x]
      BY <2>2, <2>3 DEF Done, Dest
    <3>2. \A x \in Image[act.ent] : x \in Paths
      BY <2>3, Constants
    <3>3. \A x \in Image[act.ent] : x # q => tx'.row[act.ent][x] = tx.row[act.ent][x]
      BY <2>3, <2>5, <3>2
    <3>4. \A l \in Locs, e \in Entries \ {act.ent} : disk[l] = e <=> e \in Owners(tx', l)
      <4>1. \A e \in Entries \ {act.ent} : \A l : e \in Owners(tx', l) <=> e \in Owners(tx, l)
        BY <2>5 DEF Owners
      <4> QED BY <1>1, <2>3, <4>1 DEF WriteKnown
    <3>5. ASSUME NEW l \in Locs, disk[l] = act.ent
          PROVE  \E x \in Image[act.ent] : Done(x)' /\ tx'.row[act.ent][x] = l
      <4>1. PICK x \in Image[act.ent] : Done(x) /\ tx.row[act.ent][x] = l
        BY <1>1, <2>3, <3>5 DEF WriteKnown
      <4> QED BY <3>1, <3>3, <4>1
    <3>6. \A x \in Image[act.ent] : Done(x)' => disk[tx'.row[act.ent][x]] = act.ent
      BY <1>1, <2>3, <3>1, <3>3 DEF WriteKnown
    <3>7. \A x \in act.files : tx'.row[act.ent][x] =
             IF x \in act'.todo THEN At(x) ELSE At(Dest(x)')
      <4> TAKE x \in act.files
      <4>1. x \in Image[act.ent] /\ tx.row[act.ent][x] = IF x \in act.todo THEN At(x) ELSE At(Dest(x))
        BY <1>1, <2>3 DEF WriteKnown
      <4>2. CASE x = q
        BY <2>2, <2>3, <2>5, <3>1, <4>2
      <4>3. CASE x # q
        BY <2>2, <3>1, <3>3, <4>1, <4>3
      <4> QED BY <4>2, <4>3
    <3>8. act.todo \subseteq act.files
          /\ \A x \in act.files : x \in Image[act.ent] /\ (act.renamed \/ act.ren[x] = x)
      BY <1>1, <2>3 DEF WriteKnown
    <3>9. pc' = "rename" /\ act'.renamed /\ act'.todo \subseteq act'.files
      BY <1>1, <2>1, <2>2, <2>3, <3>8
    <3> HIDE DEF without
    <3> QED BY <1>1, <2>2, <3>4, <3>5, <3>6, <3>7, <3>8, <3>9 DEF WriteKnown
  <2> QED BY <1>1, <2>1, <2>7, <2>8, WriteOnly
<1>3. CASE ~ CanActivate(without, act.ent, AsRenamed(q))
  <2>1. Raise("rename")
    BY <1>3 DEF RenameRow
  <2> QED BY <1>1, <2>1, RaiseAgrees DEF OuterTry, InnerTry
<1> QED BY <1>2, <1>3

\* The other steps up to the commit.
LEMMA WriteAgrees ==
    ASSUME IInv, Agreement, AppendRollback \/ PutRenamed \/ SetInstalled PROVE Agreement'
<1>1. /\ UNCHANGED <<disk, db, clock, dea>> /\ pc \in {"append", "rename", "put"}
      /\ pc' \in {"put", "commit"} /\ pc \in WritePcs /\ (pc = "rename" => act.todo = {})
      /\ (pc' = "commit" => act.renamed /\ act.files = {})
  BY DEF AppendRollback, PutRenamed, SetInstalled, WritePcs
<1>2. /\ act'.ent = act.ent /\ act'.stamp = act.stamp /\ act'.ren = act.ren
      /\ act'.backups = act.backups /\ act'.renamed = act.renamed /\ act'.files = act.files
      /\ act'.rb = IF pc = "append" THEN act.rb \cup act.now ELSE act.rb
  BY DEF AppendRollback, PutRenamed, SetInstalled, IInv, TypeOK, ActType
<1>3. tx'.row = tx.row
  BY SetStateRegistry DEF AppendRollback, PutRenamed, SetInstalled, SetState, IInv, TypeOK, Registry
<1>4. Moved' = Moved /\ Put' = Put
  BY <1>1, <1>2 DEF Moved, Put, InOp, Forward, BeforeWrite, DeaPcs, WritePcs
<1>5. Agrees'
  BY <1>1, <1>2, <1>4, AgreesFrame DEF Agreement
<1>6. WriteKnown'
  <2>1. \A x : (Done(x)' <=> Done(x)) /\ Dest(x)' = Dest(x)
    BY <1>2 DEF Done, Dest
  <2>2. \A l : Owners(tx', l) = Owners(tx, l)
    BY <1>3 DEF Owners
  <2> QED BY <1>1, <1>2, <1>3, <2>1, <2>2 DEF Agreement, WriteKnown
<1> QED BY <1>1, <1>5, <1>6, WriteOnly DEF WritePcs

\* All files are in place when what was pending is committed.
LEMMA CommitAgrees == ASSUME IInv, Agreement, Commit \/ Finish PROVE Agreement'
<1>1. CASE Commit
  <2>1. /\ UNCHANGED <<disk, clock>> /\ pc = "commit" /\ db' = tx /\ pc' = "committed"
        /\ pc \in WritePcs
    BY <1>1 DEF Commit, WritePcs
  <2>2. ~ InOp'
    BY <2>1 DEF InOp, Forward, BeforeWrite, WritePcs, DeaPcs
  <2>3. \A l \in Locs : Was(l)' = disk[l]
    BY <2>1, <2>2 DEF Was, Moved, Put
  <2>4. WriteKnown /\ act.renamed /\ act.files = {} /\ act.ent \in Entries /\ Pending
    BY <2>1 DEF Agreement, WriteKnown, IInv, StateOK, EntOK, TxOK, Forward, WritePcs
  <2>5. \A l \in Locs : disk[l] = act.ent <=> act.ent \in Owners(tx, l)
    <3> TAKE l \in Locs
    <3>1. \A q \in Paths : tx.row[act.ent][q] = l => q \in Image[act.ent]
      BY <2>4, OffNoLoc DEF Pending
    <3>2. \A q \in Image[act.ent] : q \in Paths
      BY <2>4, Constants
    <3> QED BY <2>1, <2>4, <3>1, <3>2 DEF WriteKnown, Done, Owners
  <2>6. \A l \in Locs, e \in Entries : disk[l] = e <=> e \in Owners(tx, l)
    BY <2>1, <2>4, <2>5 DEF WriteKnown
  <2>7. Agrees'
    BY <2>1, <2>3, <2>6 DEF Agreement, Agrees, AgreesAt
  <2> QED BY <2>1, <2>7, OutsideAgrees
<1>2. CASE Finish
  <2>1. UNCHANGED <<disk, db, clock>> /\ pc = "committed" /\ pc' = "idle"
    BY <1>2 DEF Finish, End
  <2>2. ~ InOp /\ ~ InOp'
    BY <2>1 DEF InOp, Forward, BeforeWrite, WritePcs, DeaPcs
  <2>3. Moved' = Moved /\ Put' = Put /\ Moved = {}
    BY <2>2 DEF Moved, Put
  <2>4. Agrees'
    BY <2>1, <2>3, AgreesFrame DEF Agreement
  <2> QED BY <2>1, <2>4, OutsideAgrees
<1> QED BY <1>1, <1>2

-----------------------------------------------------------------------------
(* The on error clause, but for the ports that are activated again          *)

\* While it is undone, all that matters besides is what there is to undo.
LEMMA UndoOnly ==
    ASSUME pc' \in {"undo", "restore"}, Agrees',
           pc' = "restore" \/ ~ act'.undo => act'.rb = {}
    PROVE  Agreement'
BY DEF Agreement, UndoKnown, MovedKnown, WriteKnown, BeforeWrite, AtOlds, WritePcs, DeaPcs

\* Files put in place go; what was there before did not change.
LEMMA UndoAgrees ==
    ASSUME IInv, UserSafe, Agreement, UndoDone \/ \E p \in Paths : UndoFile(p)
    PROVE  Agreement'
<1>1. CASE UndoDone
  <2>1. /\ UNCHANGED <<disk, db, clock, act>> /\ pc = "undo" /\ pc' = "restore"
        /\ act.rb = {}
    BY <1>1 DEF UndoDone, Agreement, UndoKnown
  <2>2. Moved' = Moved /\ Put' = Put
    BY <2>1 DEF Moved, Put, InOp
  <2>3. Agrees'
    BY <2>1, <2>2, AgreesFrame DEF Agreement
  <2> QED BY <2>1, <2>3, UndoOnly
<1>2. ASSUME NEW p \in Paths, UndoFile(p) PROVE Agreement'
  <2>1. /\ UNCHANGED <<db, clock, pc>> /\ pc = "undo" /\ p \in act.rb
        /\ disk' = [disk EXCEPT ![At(p)] = None]
    BY <1>2 DEF UndoFile
  <2>2. /\ act'.stamp = act.stamp /\ act'.backups = act.backups /\ act'.rb = act.rb \ {p}
        /\ act'.undo
    BY <1>2 DEF UndoFile, IInv, TypeOK, ActType
  <2>3. Moved' = Moved /\ Put' = Put \ {p} /\ p \in Put
    BY <2>1, <2>2 DEF Moved, Put, InOp
  <2>4. \A l \in Locs : disk'[l] = IF l = At(p) THEN None ELSE disk[l]
    BY <2>1, Constants DEF IInv, TypeOK
  <2>5. \A l \in Locs : Was(l)' = Was(l)
    <3> TAKE l \in Locs
    <3>1. PICK x \in Paths, s \in 0..MaxStamp : l = <<x, s>> /\ l[1] = x /\ l[2] = s
      BY DEF Locs
    <3>2. l = At(p) <=> x = p /\ s = 0
      BY <3>1 DEF At
    <3>3. x \in Moved => Backup(x, act.stamp) \in Locs /\ Backup(x, act.stamp) # At(p)
      BY MovedType, Constants, LocParts
    <3> QED BY <2>2, <2>3, <2>4, <3>1, <3>2, <3>3 DEF Was
  <2>6. \A l \in Locs, e \in Entries : AgreesAt(l, e)'
    BY <2>1, <2>5 DEF Agreement, Agrees, AgreesAt
  <2>7. ASSUME NEW s \in 0..MaxStamp, s > clock, NEW x \in Paths PROVE disk'[Backup(x, s)] = None
    <3>1. Backup(x, s) \in Locs /\ Backup(x, s) # At(p)
      BY <2>7, Constants, LocParts DEF IInv, TypeOK
    <3> QED BY <2>4, <2>7, <3>1 DEF Agreement, Agrees
  <2>8. Agrees'
    BY <2>1, <2>6, <2>7 DEF Agrees
  <2> QED BY <2>1, <2>2, <2>8, UndoOnly
<1> QED BY <1>1, <1>2

\* A file moved aside goes back to where it was.
LEMMA RestoreAgrees ==
    ASSUME IInv, UserSafe, Agreement, NEW p \in Paths, Restore(p) PROVE Agreement'
<1>1. /\ UNCHANGED <<db, clock, pc>> /\ pc = "restore" /\ p \in act.backups
      /\ disk' = [disk EXCEPT ![At(p)] = disk[Backup(p, act.stamp)],
                              ![Backup(p, act.stamp)] = None]
  BY DEF Restore
<1>2. /\ act'.stamp = act.stamp /\ act'.backups = act.backups \ {p} /\ act'.rb = act.rb
      /\ act.rb = {}
  BY <1>1 DEF Restore, IInv, TypeOK, ActType, Agreement, UndoKnown
<1>3. Moved' = Moved \ {p} /\ p \in Moved /\ Put = {} /\ Put' = {}
  BY <1>1, <1>2 DEF Moved, Put, InOp
<1>4. act.stamp # 0 /\ act.stamp \in 0..MaxStamp /\ act.stamp <= clock /\ clock \in 0..MaxStamp
  BY <1>3, MovedType DEF IInv, TypeOK
<1>5. /\ Backup(p, act.stamp) \in Locs /\ At(p) \in Locs /\ Backup(p, act.stamp) # At(p)
      /\ disk \in [Locs -> Content]
  BY <1>4, Constants, LocParts DEF IInv, TypeOK
<1>6. \A l \in Locs : disk'[l] = IF l = At(p) THEN disk[Backup(p, act.stamp)]
                                 ELSE IF l = Backup(p, act.stamp) THEN None ELSE disk[l]
  BY <1>1, <1>5
<1>7. \A l \in Locs : Was(l)' = Was(l)
  <2> TAKE l \in Locs
  <2>1. PICK x \in Paths, s \in 0..MaxStamp : l = <<x, s>> /\ l[1] = x /\ l[2] = s
    BY DEF Locs
  <2>2. /\ l = At(p) <=> x = p /\ s = 0
        /\ l = Backup(p, act.stamp) <=> x = p /\ s = act.stamp
    BY <2>1 DEF At, Backup
  <2>3. Was(l) = IF x \in Moved /\ s = 0 THEN disk[Backup(x, act.stamp)]
                 ELSE IF x \in Moved /\ s = act.stamp THEN None ELSE disk[l]
    BY <1>3, <2>1 DEF Was
  <2>4. Was(l)' = IF x \in Moved' /\ s = 0 THEN disk'[Backup(x, act.stamp)]
                  ELSE IF x \in Moved' /\ s = act.stamp THEN None ELSE disk'[l]
    BY <1>2, <1>3, <2>1 DEF Was
  <2>5. CASE x = p
    BY <1>3, <1>4, <1>5, <1>6, <2>2, <2>3, <2>4, <2>5
  <2>6. CASE x # p
    <3>1. Backup(x, act.stamp) \in Locs /\ Backup(x, act.stamp) # At(p)
          /\ Backup(x, act.stamp) # Backup(p, act.stamp)
      BY <1>4, <2>6, Constants, LocParts
    <3> QED BY <1>3, <1>6, <2>2, <2>3, <2>4, <2>6, <3>1
  <2> QED BY <2>5, <2>6
<1>8. \A l \in Locs, e \in Entries : AgreesAt(l, e)'
  BY <1>1, <1>7 DEF Agreement, Agrees, AgreesAt
<1>9. ASSUME NEW s \in 0..MaxStamp, s > clock, NEW x \in Paths PROVE disk'[Backup(x, s)] = None
  <2>1. Backup(x, s) \in Locs /\ Backup(x, s) # At(p) /\ Backup(x, s) # Backup(p, act.stamp)
    BY <1>4, <1>9, Constants, LocParts
  <2> QED BY <1>6, <1>9, <2>1 DEF Agreement, Agrees
<1>10. Agrees'
  BY <1>1, <1>8, <1>9 DEF Agrees
<1> QED BY <1>1, <1>2, <1>10, UndoOnly

\* The steps of the clause that change no file.
LEMMA RollBackGoesOn ==
    ASSUME IInv, Undisturbed, Agreement,
           RestoreDone \/ Rethrow \/ \E e \in Entries : StillActive(e) \/ ReactivateError(e)
    PROVE  Agreement'
<1>1. /\ UNCHANGED <<disk, db, clock>> /\ pc \in {"restore", "reactivate"}
      /\ pc' \in {"reactivate", "idle"} /\ (pc = "restore" => act.backups = {})
  BY NothingOverwritten DEF RestoreDone, Rethrow, StillActive, ReactivateError, End
<1>2. Moved = {} /\ Put = {} /\ Moved' = {} /\ Put' = {}
  BY <1>1 DEF Moved, Put, InOp, Forward, BeforeWrite, WritePcs, DeaPcs, Agreement, UndoKnown
<1>3. Agrees'
  BY <1>1, <1>2, AgreesFrame DEF Agreement
<1> QED BY <1>1, <1>3, OutsideAgrees

-----------------------------------------------------------------------------
(* Deactivations *)

\* Nothing moved aside was a file of the port that is deactivated, nor is the
\* place it was moved to.
LEMMA NotItsOwn ==
    ASSUME IInv, UserSafe, Agreement, pc \in {"dbegin", "ddelete"}, NEW l \in Locs,
           Was(l) = dea.ent, pc = "ddelete" => disk[l] = dea.ent
    PROVE  /\ l[1] \notin Moved \/ l[2] \notin {0, act.stamp}
           /\ disk[l] = dea.ent /\ l \notin {Backup(p, act.stamp) : p \in Moved}
<1>1. dea.ent \in Entries /\ dea.ent # None /\ Put = {} /\ pc \in DeaPcs
      /\ dea.ret \in {"idle", "olds", "replaced"}
  BY ContentAssumption DEF IInv, StateOK, DeaOK, DeaPcs, TypeOK, DeaType,
     Put, Agreement, UndoKnown, InOp, Forward, BeforeWrite, WritePcs
<1>2. CASE dea.ret # "replaced"
  <2>1. Moved = {}
    <3>1. CASE dea.ret = "olds"
      BY <1>1, <3>1, NothingMoved DEF AtOlds, Agreement
    <3>2. CASE dea.ret = "idle"
      BY <1>1, <3>2, OutsideWas DEF InOp, Forward, BeforeWrite, WritePcs, DeaPcs
    <3> QED BY <1>1, <1>2, <3>1, <3>2
  <2> QED BY <1>1, <2>1 DEF Was
<1>3. CASE dea.ret = "replaced"
  <2>1. /\ InPlaceOf(dea.ent) /\ \A p \in Aside : \A o \in Owners(db, At(p)) : ~ InPlaceOf(o)
        /\ act.stamp > 0 => \A p \in Moved : p \in Paths => disk[At(p)] = None
    BY <1>1, <1>3 DEF Agreement, MovedKnown, BeforeWrite
  <2>2. PICK x \in Paths, s \in 0..MaxStamp : l = <<x, s>> /\ l[1] = x /\ l[2] = s
    BY DEF Locs
  <2>3. l = At(x) <=> s = 0
    BY <2>2 DEF At
  <2>4. ASSUME x \in Moved, s = 0 PROVE FALSE
    <3>1. CASE pc = "dbegin"
      <4>1. dea.ent \in Owners(db, At(x))
        BY <1>1, <2>3, <2>4, <3>1 DEF Agreement, Agrees, AgreesAt
      <4> QED BY <2>1, <2>4, <4>1 DEF Aside
    <3>2. CASE pc = "ddelete"
      <4>1. act.stamp > 0
        BY <2>4, MovedType DEF IInv, TypeOK, ActType
      <4> QED BY <1>1, <2>1, <2>3, <2>4, <3>2, <4>1
    <3> QED BY <3>1, <3>2
  <2>5. ASSUME x \in Moved, s = act.stamp PROVE FALSE
    <3>1. Was(l) = None
      BY <2>2, <2>4, <2>5 DEF Was
    <3> QED BY <1>1, <3>1
  <2>6. disk[l] = dea.ent
    BY <1>1, <2>2, <2>4, <2>5 DEF Was
  <2>7. \A p : l = Backup(p, act.stamp) <=> x = p /\ s = act.stamp
    BY <2>2 DEF Backup
  <2> QED BY <2>2, <2>4, <2>5, <2>6, <2>7
<1> QED BY <1>2, <1>3

\* The files that are to be deleted are those it has.
LEMMA DeactivateBeginAgrees ==
    ASSUME IInv, UserSafe, Agreement, DeactivateBegin PROVE Agreement'
<1>1. /\ UNCHANGED <<disk, db, clock, act>> /\ pc = "dbegin" /\ pc' = "ddelete"
      /\ tx = db /\ db \in Registry /\ dea.ent \in Entries
  BY DEF DeactivateBegin, IInv, TypeOK, StateOK, DeaOK, TxOK, DeaPcs, WritePcs
<1>2. /\ dea'.ret = dea.ret /\ dea'.ent = dea.ent
      /\ dea'.files = {l \in Files(db, dea.ent) : disk[l] # None}
  BY <1>1 DEF DeactivateBegin, IInv, TypeOK, DeaType
<1>3. /\ InOp' = InOp /\ BeforeWrite' = BeforeWrite /\ AtOlds' = AtOlds
      /\ AtReplaced' = AtReplaced
  BY <1>1, <1>2 DEF InOp, Forward, BeforeWrite, WritePcs, DeaPcs, AtOlds, AtReplaced
<1>4. Moved' = Moved /\ Put' = Put
  BY <1>1, <1>3 DEF Moved, Put
<1>5. \A l \in Locs : Was(l)' = Was(l)
  BY <1>1, <1>4, WasFrame
<1>6. \A l \in Locs : l \in Files(db, dea.ent) <=> dea.ent \in Owners(db, l)
  BY <1>1, OffNoLoc DEF Files, Owners
<1>7. \A l \in Locs : Was(l) = dea.ent <=> l \in Files(db, dea.ent)
  BY <1>1, <1>6 DEF Agreement, Agrees, AgreesAt
<1>8. \A l \in Locs : l \in Files(db, dea.ent) => disk[l] = dea.ent
  BY <1>1, <1>7, NotItsOwn
<1>9. Files(db, dea.ent) \subseteq Locs /\ dea.ent # None
  BY <1>1, ContentAssumption DEF Files, Registry
<1>10. Agrees'
  <2>1. ASSUME NEW l \in Locs, NEW e \in Entries PROVE AgreesAt(l, e)'
    <3>1. CASE e = dea.ent
      BY <1>1, <1>2, <1>5, <1>7, <1>8, <1>9, <3>1 DEF AgreesAt
    <3>2. CASE e # dea.ent
      BY <1>1, <1>2, <1>5, <3>2 DEF AgreesAt, Agreement, Agrees
    <3> QED BY <3>1, <3>2
  <2>2. \A l \in dea'.files : disk'[l] = dea'.ent
    BY <1>1, <1>2, <1>8, <1>9
  <2> QED BY <1>1, <2>1, <2>2 DEF Agreement, Agrees
<1>11. UndoKnown'
  BY <1>1, <1>3 DEF Agreement, UndoKnown
<1>12. MovedKnown'
  BY <1>1, <1>2, <1>3, <1>4, MovedFrame DEF Agreement, MovedKnown, DeaPcs
<1> QED BY <1>1, <1>10, <1>11, <1>12 DEF Agreement, WriteKnown, WritePcs

\* One of them is gone, and nothing else.
LEMMA DeleteFileAgrees ==
    ASSUME IInv, UserSafe, Agreement, NEW l \in Locs, DeleteFile(l) PROVE Agreement'
<1>1. /\ UNCHANGED <<db, clock, act, pc>> /\ pc = "ddelete" /\ l \in dea.files
      /\ disk' = [disk EXCEPT ![l] = None]
  BY DEF DeleteFile
<1>2. dea'.ret = dea.ret /\ dea'.ent = dea.ent /\ dea'.files = dea.files \ {l}
  BY DEF DeleteFile, IInv, TypeOK, DeaType
<1>3. /\ InOp' = InOp /\ BeforeWrite' = BeforeWrite /\ AtOlds' = AtOlds
      /\ AtReplaced' = AtReplaced /\ dea.ent \in Entries /\ dea.ent # None
  BY <1>1, <1>2, ContentAssumption
     DEF InOp, Forward, BeforeWrite, WritePcs, DeaPcs, AtOlds, AtReplaced, IInv, StateOK, DeaOK
<1>4. Moved' = Moved /\ Put' = Put
  BY <1>1, <1>3 DEF Moved, Put
<1>5. disk[l] = dea.ent /\ Was(l) = dea.ent
  BY <1>1, <1>3 DEF Agreement, Agrees, AgreesAt
<1>6. /\ l[1] \notin Moved \/ l[2] \notin {0, act.stamp}
      /\ l \notin {Backup(p, act.stamp) : p \in Moved}
  BY <1>1, <1>5, NotItsOwn
<1>7. \A m \in Locs : disk'[m] = IF m = l THEN None ELSE disk[m]
  BY <1>1 DEF IInv, TypeOK
<1>8. \A m \in Locs : Was(m)' = IF m = l THEN None ELSE Was(m)
  <2> TAKE m \in Locs
  <2>1. m[1] \in Moved => Backup(m[1], act.stamp) \in Locs /\ Backup(m[1], act.stamp) # l
    BY <1>6, MovedType, Constants
  <2> QED BY <1>1, <1>4, <1>6, <1>7, <2>1 DEF Was
<1>9. Agrees'
  <2>1. ASSUME NEW m \in Locs, NEW e \in Entries PROVE AgreesAt(m, e)'
    <3>1. CASE m = l
      BY <1>1, <1>2, <1>3, <1>5, <1>8, <3>1, ContentAssumption DEF AgreesAt, Agreement, Agrees
    <3>2. CASE m # l
      BY <1>1, <1>2, <1>8, <3>2 DEF AgreesAt, Agreement, Agrees
    <3> QED BY <3>1, <3>2
  <2>2. \A m \in dea'.files : disk'[m] = dea'.ent
    BY <1>1, <1>2, <1>7 DEF Agreement, Agrees, IInv, TypeOK, DeaType
  <2>3. \A s \in 0..MaxStamp : s > clock' => \A p \in Paths : disk'[Backup(p, s)] = None
    BY <1>1, <1>7, Constants DEF Agreement, Agrees
  <2> QED BY <2>1, <2>2, <2>3 DEF Agrees
<1>10. UndoKnown'
  BY <1>1, <1>3 DEF Agreement, UndoKnown
<1>11. MovedKnown'
  BY <1>1, <1>2, <1>3, <1>4, <1>7, MovedFrame DEF Agreement, MovedKnown, DeaPcs
<1> QED BY <1>1, <1>9, <1>10, <1>11 DEF Agreement, WriteKnown, WritePcs

\* All its files are gone when its rows are; none of them was to be moved.
LEMMA DeactivateCommitAgrees ==
    ASSUME IInv, UserSafe, Agreement, DeactivateCommit PROVE Agreement'
<1>1. /\ UNCHANGED <<disk, clock, act, dea>> /\ pc = "ddelete" /\ pc' = "dend"
      /\ dea.files = {}
  BY DEF DeactivateCommit
<1>2. /\ dea.ent \in Entries
      /\ \A o \in Entries, q \in Paths : db'.row[o][q] = IF o = dea.ent THEN Off ELSE db.row[o][q]
  BY Deactivated
<1>3. \A l \in Locs : Owners(db', l) = Owners(db, l) \ {dea.ent}
  BY <1>2, OffNoLoc DEF Owners
<1>4. /\ InOp' = InOp /\ BeforeWrite' = BeforeWrite /\ AtOlds' = AtOlds
      /\ AtReplaced' = AtReplaced
  BY <1>1 DEF InOp, Forward, BeforeWrite, WritePcs, DeaPcs, AtOlds, AtReplaced
<1>5. Moved' = Moved /\ Put' = Put
  BY <1>1, <1>4 DEF Moved, Put
<1>6. \A l \in Locs : Was(l)' = Was(l)
  BY <1>1, <1>5, WasFrame
<1>7. Agrees'
  <2>1. ASSUME NEW l \in Locs, NEW e \in Entries PROVE AgreesAt(l, e)'
    <3>1. AgreesAt(l, e)
      BY DEF Agreement, Agrees
    <3> QED BY <1>1, <1>3, <1>6, <3>1 DEF AgreesAt
  <2> QED BY <1>1, <2>1 DEF Agreement, Agrees
<1>8. UndoKnown'
  BY <1>1, <1>4 DEF Agreement, UndoKnown
<1>9. MovedKnown'
  <2>1. SUFFICES ASSUME BeforeWrite PROVE MovedKnown'
    BY <1>4 DEF MovedKnown
  <2>2. Aside' = Aside /\ \A o : InPlaceOf(o)' = InPlaceOf(o)
    BY <1>1, <1>5 DEF Aside, InPlaceOf
  <2>3. \A f \in act.forced : f.own \in Entries /\ f.img \in Paths
    BY DEF IInv, TypeOK, ActType, ForcedRows
  <2>4. /\ act.scan \subseteq Image[act.ent] /\ act.moving \in SUBSET Paths
        /\ act.stamp > 0 => \A p \in Paths :
              IF p \in Moved THEN disk[At(p)] = None ELSE disk[Backup(p, act.stamp)] = None
        /\ \A p \in Aside : \A o \in Owners(db, At(p)) : ~ InPlaceOf(o)
        /\ \A p \in Aside, o \in Entries, q \in Paths :
              db.row[o][q] = At(p) => [own |-> o, img |-> q, moved |-> TRUE] \in act.forced
        /\ \A f \in act.forced :
              /\ f.moved /\ \E p \in Aside : db.row[f.own][f.img] = At(p)
              /\ \A p \in Image[act.ent], q \in Paths : db.row[f.own][q] = At(p) => p \in Aside
        /\ \A o \in act.replaced : InPlaceOf(o)
        /\ AtReplaced => \A o \in act.todo : InPlaceOf(o)
        /\ dea.ret = "replaced" => InPlaceOf(dea.ent)
    BY <1>1, <2>1 DEF Agreement, MovedKnown, DeaPcs, IInv, TypeOK, ActType
  <2>5. \A f \in act.forced : f.own # dea.ent
    <3> SUFFICES ASSUME NEW f \in act.forced, f.own = dea.ent PROVE FALSE
      OBVIOUS
    <3>1. PICK p \in Aside : db.row[dea.ent][f.img] = At(p)
      BY <2>4
    <3>2. dea.ent \in Owners(db, At(p))
      BY <1>2, <2>3, <3>1 DEF Owners
    <3>3. dea.ret = "replaced"
      BY <1>1, <2>1 DEF Agreement, UndoKnown, AtOlds, BeforeWrite, DeaPcs, IInv, TypeOK, DeaType
    <3> QED BY <2>4, <3>1, <3>2, <3>3
  <2>6. \A p \in Aside : p \in Paths
    BY <2>4, MovedType DEF Aside
  <2>7. \A p \in Aside : \A o \in Owners(db', At(p)) : ~ InPlaceOf(o)
    BY <1>3, <2>4, <2>6, Constants
  <2>8. \A p \in Aside, o \in Entries, q \in Paths :
          db'.row[o][q] = At(p) => [own |-> o, img |-> q, moved |-> TRUE] \in act.forced
    BY <1>2, <2>4, AtNotOff
  <2>9. \A f \in act.forced :
          /\ f.moved /\ \E p \in Aside : db'.row[f.own][f.img] = At(p)
          /\ \A p \in Image[act.ent], q \in Paths : db'.row[f.own][q] = At(p) => p \in Aside
    BY <1>2, <2>3, <2>4, <2>5
  <2> QED BY <1>1, <1>4, <1>5, <2>2, <2>4, <2>7, <2>8, <2>9 DEF MovedKnown
<1> QED BY <1>1, <1>7, <1>8, <1>9 DEF Agreement, WriteKnown, WritePcs

\* The caller goes on.
LEMMA DeactivateEndAgrees ==
    ASSUME IInv, Agreement, DeactivateEnd PROVE Agreement'
<1>1. UNCHANGED <<disk, db, clock>> /\ pc = "dend"
  BY DEF DeactivateEnd
<1>2. CASE dea.ret = "idle"
  <2>1. pc' = "idle" /\ ~ InOp /\ ~ InOp'
    BY <1>1, <1>2 DEF DeactivateEnd, End, InOp, Forward, BeforeWrite, WritePcs, DeaPcs
  <2>2. Moved = {} /\ Put = {} /\ Moved' = {} /\ Put' = {}
    BY <2>1 DEF Moved, Put
  <2>3. Agrees'
    BY <1>1, <2>1, <2>2, AgreesFrame DEF Agreement
  <2> QED BY <2>1, <2>3, OutsideAgrees
<1>3. CASE dea.ret # "idle"
  <2>1. pc' = dea.ret /\ pc' \in {"olds", "replaced"} /\ act' = act
    BY <1>3 DEF DeactivateEnd, IInv, TypeOK, DeaType
  <2>2. /\ InOp' = InOp /\ BeforeWrite' = BeforeWrite /\ AtOlds' = AtOlds
        /\ AtReplaced' = AtReplaced
    BY <1>1, <2>1 DEF InOp, Forward, BeforeWrite, WritePcs, DeaPcs, AtOlds, AtReplaced
  <2>3. Moved' = Moved /\ Put' = Put
    BY <1>1, <2>1, <2>2 DEF Moved, Put
  <2>4. Agrees'
    BY <1>1, <2>1, <2>3, AgreesFrame DEF Agreement
  <2>5. UndoKnown'
    BY <1>1, <2>1, <2>2 DEF Agreement, UndoKnown
  <2>6. MovedKnown'
    BY <1>1, <2>1, <2>2, <2>3, MovedFrame DEF Agreement, MovedKnown, DeaPcs
  <2> QED BY <2>1, <2>4, <2>5, <2>6 DEF Agreement, WriteKnown, WritePcs
<1> QED BY <1>2, <1>3

-----------------------------------------------------------------------------
(* Ports that are activated again                                           *)

\* When registry and disk agree, a nested activation moves aside all rows of
\* what is in its way, and no others: each is at the path the image names.
LEMMA NestedMoves ==
    ASSUME IInv, NEW e \in Entries, NEW c \in 0..MaxStamp, CanMove(db, NestedRows(e), c),
           \A l \in Locs, o \in Entries : disk[l] = o <=> o \in Owners(db, l)
    PROVE  /\ \A o \in Entries, q \in Paths : NestedReg(e, c).row[o][q] =
                 IF q \in InTheWay(e) /\ db.row[o][q] = At(q) THEN Backup(q, c) ELSE db.row[o][q]
           /\ \A o \in Entries, q \in Paths, p \in InTheWay(e) : db.row[o][q] = At(p) => q = p
<1> DEFINE W == InTheWay(e)
           mv(o, q) == [own |-> o, img |-> q, moved |-> TRUE] \in NestedRows(e)
<1>1. \A p \in Image[e] : p \in Paths /\ At(p) \in Locs
  BY Constants
<1>2. ASSUME NEW o \in Entries, NEW q \in Paths, NEW p \in Image[e], db.row[o][q] = At(p)
      PROVE  p \in W
  <2>1. disk[At(p)] = o
    BY <1>1, <1>2 DEF Owners
  <2> QED BY <2>1, ContentAssumption DEF InTheWay, Exists
<1>3. ASSUME NEW o \in Entries, NEW q \in Paths, NEW p \in W, db.row[o][q] = At(p)
      PROVE  mv(o, q)
  <2>1. p \in Image[e] /\ Exists(p) /\ o \in Owners(db, At(p))
    BY <1>3 DEF InTheWay, Owners
  <2>2. [own |-> o, img |-> q, moved |-> TRUE] \in ConflictRows(o, e)
    BY <1>3, <2>1 DEF ConflictRows
  <2> QED BY <2>1, <2>2 DEF NestedRows
<1>4. \A f \in NestedRows(e) :
        /\ f.own \in Entries /\ f.img \in Paths
        /\ \E p \in Image[e] : db.row[f.own][f.img] = At(p) /\ (f.moved <=> Exists(p))
  BY DEF NestedRows, ConflictRows, Owners
<1>5. ASSUME NEW o \in Entries, NEW q \in Paths,
             [own |-> o, img |-> q, moved |-> FALSE] \in NestedRows(e)
      PROVE  FALSE
  <2>1. PICK f \in NestedRows(e) : f = [own |-> o, img |-> q, moved |-> FALSE]
    BY <1>5
  <2>2. PICK p \in Image[e] : db.row[o][q] = At(p) /\ ~ Exists(p)
    BY <1>4, <2>1
  <2> QED BY <1>2, <2>2 DEF InTheWay
<1>6. ASSUME NEW o \in Entries, NEW q \in Paths, mv(o, q)
      PROVE  q \in W /\ db.row[o][q] = At(q)
  <2>1. PICK f \in NestedRows(e) : f = [own |-> o, img |-> q, moved |-> TRUE]
    BY <1>6
  <2>2. db.row[o][q] = At(q)
    BY <2>1 DEF CanMove
  <2>3. PICK p \in Image[e] : db.row[o][q] = At(p)
    BY <1>4, <2>1
  <2>4. p = q
    BY <2>2, <2>3 DEF At
  <2> QED BY <1>2, <2>2, <2>4
<1>7. \A o \in Entries, q \in Paths, p \in W : db.row[o][q] = At(p) => q = p
  BY <1>3, <1>6, LocParts
<1>8. \A o \in Entries, q \in Paths : NestedReg(e, c).row[o][q] =
        IF mv(o, q) THEN Backup(q, c) ELSE db.row[o][q]
  <2> TAKE o \in Entries, q \in Paths
  <2>1. [own |-> o, img |-> q, moved |-> FALSE] \notin NestedRows(e)
    BY <1>5
  <2> QED BY <2>1, MoveRow DEF NestedReg, IInv, TypeOK
<1> HIDE DEF W, mv
<1>9. \A o \in Entries, q \in Paths : mv(o, q) <=> q \in W /\ db.row[o][q] = At(q)
  BY <1>3, <1>6
<1> QED BY <1>7, <1>8, <1>9 DEF W

\* What is in the way is moved, on disk as in the registry, and the port's files
\* are put where its rows are.
LEMMA ReactivateAgrees ==
    ASSUME IInv, Undisturbed, UserSafe, Agreement, NEW e \in Entries, Reactivate(e)
    PROVE  Agreement'
<1>1. PICK ren \in {Rename[e], NoRename} :
        /\ CanActivate(NestedReg(e, clock'), e, PutAt(e, ren))
        /\ db' = SetState(Activate(NestedReg(e, clock'), e, PutAt(e, ren)), e, "installed")
        /\ disk' = NestedDisk(e, ren, clock')
  BY DEF Reactivate
<1>2. PICK c \in 0..MaxStamp : c = clock'
  BY Reactivated
<1>3. /\ c = (IF InTheWay(e) # {} THEN clock + 1 ELSE clock) /\ clock \in 0..MaxStamp
      /\ pc = "reactivate" /\ pc' = "reactivate" /\ db.state[e] = "imaged"
      /\ CanMove(db, NestedRows(e), c) /\ TypeOK /\ FilesOK
  BY <1>2 DEF Reactivate, CanReactivate, NestedStamps, Stamps, Undisturbed, IInv, TypeOK, UserSafe
<1>4. ren \in [Paths -> Paths] /\ Image[e] \in SUBSET Paths
  BY Constants DEF NoRename
<1>5. /\ \A l : Was(l) = disk[l]
      /\ \A l \in Locs : Was(l)' = disk'[l]
  BY <1>3, OutsideWas DEF Was, Moved, Put, InOp, Forward, BeforeWrite, WritePcs, DeaPcs
<1>6. /\ \A l \in Locs, o \in Entries : disk[l] = o <=> o \in Owners(db, l)
      /\ \A s \in 0..MaxStamp : s > clock => \A p \in Paths : disk[Backup(p, s)] = None
  BY <1>3, <1>5 DEF Agreement, Agrees, AgreesAt
<1> DEFINE n == NestedReg(e, c)
           W == InTheWay(e)
<1>7. n \in Registry
  BY <1>3, MoveRegistry DEF NestedReg, TypeOK
<1>8. \A o \in Entries, q \in Paths :
        db'.row[o][q] = IF o = e /\ q \in Image[e] THEN At(ren[q]) ELSE n.row[o][q]
  <2>1. \A q \in Image[e] : PutAt(e, ren)[q] = At(ren[q])
    BY DEF PutAt
  <2>2. DOMAIN PutAt(e, ren) = Image[e]
    BY DEF PutAt
  <2>3. \A q \in DOMAIN PutAt(e, ren) : PutAt(e, ren)[q] \in Locs
    BY <2>1, <2>2, <1>4, Constants
  <2> HIDE DEF n
  <2>4. Activate(n, e, PutAt(e, ren)) \in Registry
    BY <1>7, <2>3, ActivateRegistry
  <2>5. db'.row = Activate(n, e, PutAt(e, ren)).row
    BY <1>1, <1>2, <2>4, SetStateRegistry DEF n
  <2> QED BY <1>7, <2>1, <2>2, <2>5, ActivateRow
<1>9. /\ \A o \in Entries, q \in Paths : n.row[o][q] =
            IF q \in W /\ db.row[o][q] = At(q) THEN Backup(q, c) ELSE db.row[o][q]
      /\ \A o \in Entries, q \in Paths, p \in W : db.row[o][q] = At(p) => q = p
  BY <1>3, <1>6, NestedMoves
<1>10. \A q \in Image[e] : Owners(n, At(ren[q])) = {}
  <2>1. \A q \in Image[e] : PutAt(e, ren)[q] = At(ren[q])
    BY DEF PutAt
  <2>2. DOMAIN PutAt(e, ren) = Image[e]
    BY DEF PutAt
  <2> QED BY <1>1, <1>2, <2>1, <2>2 DEF CanActivate
<1> HIDE DEF n
<1> DEFINE cleared == [l \in Locs |->
            IF l[2] = 0 /\ l[1] \in W THEN None
            ELSE IF l[2] = c /\ l[1] \in W THEN disk[At(l[1])] ELSE disk[l]]
           Filled(l) == \E q \in Image[e] : l = At(ren[q])
<1>11. \A l \in Locs : disk'[l] = IF cleared[l] = None /\ Filled(l) THEN e ELSE cleared[l]
  <2>1. disk' = [l \in Locs |-> IF cleared[l] = None /\ \E q \in Image[e] : l = At(ren[q])
                                THEN e ELSE cleared[l]]
    BY <1>1, <1>2 DEF NestedDisk
  <2> HIDE DEF cleared
  <2> QED BY <2>1
<1>12. \A x \in Paths, s \in 0..MaxStamp : <<x, s>> \in Locs /\ cleared[<<x, s>>] =
          IF s = 0 /\ x \in W THEN None
          ELSE IF s = c /\ x \in W THEN disk[At(x)] ELSE disk[<<x, s>>]
  BY DEF Locs
<1> HIDE DEF cleared
<1>13. W # {} => c = clock + 1
  BY <1>3
<1>14. \A x \in Image[e] : x \in W \/ disk[At(x)] = None
  BY DEF InTheWay, Exists
<1>15. \A x \in W : x \in Paths /\ At(x) \in Locs
  BY <1>4, Constants DEF InTheWay
<1> HIDE DEF W
<1>16. \A l \in Locs, o \in Entries : cleared[l] = o <=> o \in Owners(n, l)
  <2> TAKE l \in Locs, o \in Entries
  <2>1. PICK x \in Paths, s \in 0..MaxStamp : l = <<x, s>>
    BY DEF Locs
  <2>2. \A p : (l = At(p) <=> x = p /\ s = 0) /\ (l = Backup(p, c) <=> x = p /\ s = c)
    BY <2>1 DEF At, Backup
  <2>3. o # None
    BY ContentAssumption
  <2>4. o \in Owners(n, l) <=> \E q \in Paths : n.row[o][q] = l
    BY DEF Owners
  <2>5. \A m \in Locs : disk[m] = o <=> \E q \in Paths : db.row[o][q] = m
    BY <1>6 DEF Owners
  <2>6. CASE s = 0 /\ x \in W
    <3>1. c # 0
      BY <1>3, <1>13, <2>6
    <3>2. ASSUME NEW q \in Paths, n.row[o][q] = l PROVE FALSE
      <4>1. db.row[o][q] = l /\ ~ (q \in W /\ db.row[o][q] = At(q))
        BY <1>9, <2>2, <2>6, <3>1, <3>2
      <4> QED BY <1>9, <2>2, <2>6, <4>1
    <3> QED BY <1>12, <2>1, <2>3, <2>4, <2>6, <3>2
  <2>7. CASE s = c /\ s # 0 /\ x \in W
    <3>1. disk[l] = None
      BY <1>3, <1>6, <1>13, <2>2, <2>7
    <3>2. \A q \in Paths : db.row[o][q] # l
      BY <2>3, <2>5, <3>1
    <3>3. o \in Owners(n, l) <=> db.row[o][x] = At(x)
      BY <1>9, <2>2, <2>4, <2>7, <3>2
    <3>4. disk[At(x)] = o <=> db.row[o][x] = At(x)
      BY <1>9, <1>15, <2>5, <2>7
    <3> QED BY <1>12, <2>1, <2>7, <3>3, <3>4
  <2>8. CASE x \notin W \/ s \notin {0, c}
    <3>1. cleared[l] = disk[l]
      BY <1>12, <2>1, <2>8
    <3>2. \A q \in Paths : n.row[o][q] = l <=> db.row[o][q] = l
      BY <1>9, <2>2, <2>8
    <3> QED BY <2>4, <2>5, <3>1, <3>2
  <2> QED BY <2>6, <2>7, <2>8
<1>17. \A l \in Locs : e \notin Owners(n, l)
  <2> SUFFICES ASSUME NEW l \in Locs, NEW q \in Paths, n.row[e][q] = l PROVE FALSE
    BY DEF Owners
  <2>1. db.row[e][q] = Off
    BY <1>3 DEF IInv, StateOK, DbOK, ActiveRowsInstalled, Files
  <2> QED BY <1>9, <2>1, AtNotOff, OffNoLoc
<1>18. \A l \in Locs, o \in Entries :
         o \in Owners(db', l) <=> o \in Owners(n, l) \/ (o = e /\ Filled(l))
  <2> TAKE l \in Locs, o \in Entries
  <2>1. o \in Owners(db', l) <=> \E q \in Paths :
           l = IF o = e /\ q \in Image[e] THEN At(ren[q]) ELSE n.row[o][q]
    BY <1>8 DEF Owners
  <2>2. \A q \in Paths : n.row[e][q] # l
    BY <1>17 DEF Owners
  <2> QED BY <1>4, <2>1, <2>2 DEF Owners
<1>19. \A l \in Locs : Filled(l) => cleared[l] = None /\ Owners(n, l) = {}
  <2> SUFFICES ASSUME NEW q \in Image[e]
               PROVE  cleared[At(ren[q])] = None /\ Owners(n, At(ren[q])) = {}
    OBVIOUS
  <2>1. /\ ren[q] \in Paths /\ q \in Paths /\ At(ren[q]) = <<ren[q], 0>> /\ 0 \in 0..MaxStamp
        /\ At(ren[q]) \in Locs /\ At(ren[q])[1] = ren[q]
    BY <1>4, Constants, StampAssumption DEF At
  <2>2. CASE ren[q] \in W
    BY <1>10, <1>12, <2>1, <2>2
  <2>3. CASE ren[q] \notin W
    <3>1. cleared[At(ren[q])] = disk[At(ren[q])]
      BY <1>12, <2>1, <2>3
    <3>2. disk[At(ren[q])] \notin Entries
      BY <1>10, <1>16, <2>1, <3>1
    <3>3. disk[At(ren[q])] # User
      <4>1. CASE ren[q] = q
        BY <1>14, <2>3, <4>1, ContentAssumption
      <4>2. CASE ren[q] # q
        <5>1. ren[q] \notin UserPaths
          BY <2>1, <4>2 DEF Undisturbed, NoRename
        <5> QED BY <1>3, <2>1, <5>1 DEF FilesOK
      <4> QED BY <4>1, <4>2
    <3>4. disk[At(ren[q])] \in Content
      BY <1>3, <2>1 DEF TypeOK
    <3> QED BY <1>10, <3>1, <3>2, <3>3, <3>4 DEF Content
  <2> QED BY <2>2, <2>3
<1>20. \A l \in Locs, o \in Entries : disk'[l] = o <=> o \in Owners(db', l)
  <2> TAKE l \in Locs, o \in Entries
  <2>1. CASE Filled(l)
    BY <1>11, <1>18, <1>19, <2>1
  <2>2. CASE ~ Filled(l)
    BY <1>11, <1>16, <1>18, <2>2
  <2> QED BY <2>1, <2>2
<1>21. ASSUME NEW s \in 0..MaxStamp, s > c, NEW p \in Paths PROVE disk'[Backup(p, s)] = None
  <2>1. /\ Backup(p, s) = <<p, s>> /\ s # 0 /\ s # c /\ s > clock
        /\ Backup(p, s) \in Locs
    BY <1>3, <1>21, Constants DEF Backup
  <2>2. cleared[Backup(p, s)] = None
    BY <1>6, <1>12, <2>1
  <2>3. ~ Filled(Backup(p, s))
    BY <2>1, LocParts
  <2> QED BY <1>11, <2>1, <2>2, <2>3
<1>22. Agrees'
  BY <1>2, <1>3, <1>5, <1>20, <1>21 DEF Agrees, AgreesAt
<1> QED BY <1>3, <1>22, OutsideAgrees

-----------------------------------------------------------------------------
(* Failure, users, and all of it                                            *)

\* Errors the activation itself finds.
LEMMA OwnErrorsAgree ==
    ASSUME IInv, Agreement, RegisterError \/ \E p \in Paths : ScanError(p) PROVE Agreement'
<1>1. /\ UNCHANGED <<disk, db, clock>> /\ pc \in {"scan", "replaced"}
      /\ \E from \in {"scan", "replaced", "register"} : Raise(from)
  BY DEF RegisterError, ScanError
<1>2. InOp /\ act.rb = {}
  BY <1>1 DEF InOp, Forward, BeforeWrite, Agreement, UndoKnown
<1>3. PICK from \in {"scan", "replaced", "register"} : Raise(from)
  BY <1>1
<1>4. from \in OuterTry
  BY DEF OuterTry, InnerTry
<1> QED BY <1>1, <1>2, <1>3, <1>4, RaiseAgrees

\* An error of a forward step.
LEMMA FailureAgrees ==
    ASSUME IInv, Plain, Agreement, Failure PROVE Agreement'
<1>1. IoError
  BY DEF Failure, Plain, AttributesError, DeleteError, CommitError, Signal, Crash, Fault
<1>2. UNCHANGED <<disk, db, clock>>
  BY <1>1 DEF IoError
<1>3. CASE Deactivating
  BY <1>1, <1>2, <1>3, DeactivateRaiseAgrees DEF IoError, Deactivating, DeaPcs
<1>4. CASE ~ Deactivating /\ Raise(pc)
  <2>1. pc \in {"olds", "convert", "drop", "scan", "aside", "replaced", "put", "rename"}
    BY <1>1, <1>4 DEF IoError, Deactivating
  <2>2. InOp
    BY <2>1 DEF InOp, Forward, BeforeWrite, WritePcs
  <2>3. CASE pc \in {"olds", "convert", "drop"}
    <3>1. Moved = {} /\ Put = {}
      BY <2>3, NothingMoved DEF AtOlds, Agreement
    <3> QED BY <1>2, <1>4, <2>3, <3>1, RaiseAgrees DEF OuterTry, InnerTry
  <2>4. CASE pc \in {"scan", "aside", "replaced"}
    <3>1. act.rb = {}
      BY <2>4 DEF Agreement, UndoKnown, BeforeWrite
    <3> QED BY <1>2, <1>4, <2>2, <2>4, <3>1, RaiseAgrees DEF OuterTry, InnerTry
  <2>5. CASE pc \in {"put", "rename"}
    BY <1>2, <1>4, <2>2, <2>5, RaiseAgrees DEF OuterTry, InnerTry
  <2> QED BY <2>1, <2>3, <2>4, <2>5
<1>5. CASE pc = "replaced" /\ Raise("register")
  <2>1. InOp
    BY <1>5 DEF InOp, Forward, BeforeWrite
  <2> QED BY <1>2, <1>5, <2>1, RaiseAgrees DEF OuterTry, InnerTry
<1> QED BY <1>1, <1>3, <1>4, <1>5 DEF IoError

\* A new file of no port is where no port has one.
LEMMA UserCreatesAgrees ==
    ASSUME IInv, Plain, Agreement, NEW p \in Paths, UserCreates(p) PROVE Agreement'
<1>1. /\ UNCHANGED <<db, clock, pc, act>> /\ pc = "idle"
      /\ disk' = [disk EXCEPT ![At(p)] = User] /\ disk[At(p)] = None
  BY DEF UserCreates, Exists, Plain, Undisturbed
<1>2. \A l \in Locs : disk'[l] = IF l = At(p) THEN User ELSE disk[l]
  BY <1>1 DEF IInv, TypeOK
<1>3. (\A l \in Locs : Was(l) = disk[l]) /\ \A l \in Locs : Was(l)' = disk'[l]
  BY <1>1, OutsideWas DEF Was, Moved, Put, InOp, Forward, BeforeWrite, WritePcs, DeaPcs
<1>4. \A l \in Locs, e \in Entries : AgreesAt(l, e)'
  BY <1>1, <1>2, <1>3, ContentAssumption DEF Agreement, Agrees, AgreesAt
<1>5. ASSUME NEW s \in 0..MaxStamp, s > clock, NEW q \in Paths PROVE disk'[Backup(q, s)] = None
  <2>1. Backup(q, s) # At(p) /\ Backup(q, s) \in Locs
    BY <1>5, LocParts, Constants DEF IInv, TypeOK
  <2> QED BY <1>2, <1>5, <2>1 DEF Agreement, Agrees
<1>6. Agrees'
  BY <1>1, <1>4, <1>5 DEF Agrees
<1> QED BY <1>1, <1>6, OutsideAgrees

\* To begin with no port has a file, nor a row.
LEMMA InitAgrees == ASSUME Init PROVE Agreement
<1>1. PICK P \in SUBSET UserPaths :
         disk = [l \in Locs |-> IF l[2] = 0 /\ l[1] \in P THEN User ELSE None]
  BY DEF Init
<1>2. db = Fresh /\ clock = 0 /\ pc = "idle"
  BY DEF Init
<1>3. \A l \in Locs : disk[l] \in {User, None} /\ (l[2] # 0 => disk[l] = None)
  BY <1>1
<1>4. \A l \in Locs : Owners(Fresh, l) = {}
  BY OffNoLoc DEF Owners, Fresh
<1>5. \A l \in Locs, e \in Entries : AgreesAt(l, e)
  <2>1. \A l : Was(l) = disk[l]
    BY <1>2, OutsideWas DEF InOp, Forward, BeforeWrite, WritePcs, DeaPcs
  <2> QED BY <1>2, <1>3, <1>4, <2>1, ContentAssumption DEF AgreesAt
<1>6. ASSUME NEW s \in 0..MaxStamp, s > clock, NEW p \in Paths PROVE disk[Backup(p, s)] = None
  <2>1. Backup(p, s) \in Locs /\ Backup(p, s)[2] = s /\ s # 0
    BY <1>2, <1>6, Constants DEF Backup
  <2> QED BY <1>3, <2>1
<1> QED BY <1>2, <1>5, <1>6
        DEF Agreement, Agrees, UndoKnown, MovedKnown, WriteKnown, BeforeWrite, AtOlds, WritePcs,
            DeaPcs

\* Every step keeps registry and disk in agreement.
LEMMA NextAgrees == ASSUME IInv, Plain, UserSafe, Agreement, [Next]_vars PROVE Agreement'
<1>1. CASE ActivateStep
  BY <1>1, CallAgrees, ConvertAgrees, ScanFileAgrees, ForceFileAgrees, MoveAsideAgrees,
     ScanGoesOnAgrees, RegisterAgrees, PutFileAgrees, SkipFileAgrees, StartRenamedAgrees,
     RenameRowAgrees, WriteAgrees, CommitAgrees, OwnErrorsAgree DEF ActivateStep
<1>2. CASE RollBackStep
  BY <1>2, UndoAgrees, RestoreAgrees, RollBackGoesOn, ReactivateAgrees DEF RollBackStep, Plain
<1>3. CASE DeactivateStep
  <2>1. CASE DeactivateStuck
    BY <2>1, DeactivateRaiseAgrees DEF DeactivateStuck, DeaPcs
  <2> QED BY <1>3, <2>1, DeactivateBeginAgrees, DeleteFileAgrees, DeactivateCommitAgrees,
             DeactivateEndAgrees DEF DeactivateStep
<1>4. CASE UNCHANGED vars
  BY <1>4 DEF vars, Agreement, Agrees, AgreesAt, Was, Moved, Put, Owners, UndoKnown, MovedKnown,
     WriteKnown, Aside, InPlaceOf, Done, Dest, InOp, Forward, BeforeWrite, WritePcs, DeaPcs,
     AtOlds, AtReplaced
<1> QED BY <1>1, <1>2, <1>3, <1>4, StartAgrees, FailureAgrees, UserCreatesAgrees
        DEF Plain, Next, Step

\* After every operation, forced or not, that succeeds, is refused or fails in a
\* forward step and is undone, the registry and the disk agree: the rows forced
\* owners get are where their files were moved, what is put is where the port's
\* rows are, and the files that go back were those the committed registry has.
\* Forced operations a second or more apart, see Undisturbed.
THEOREM RegistryIsDisk == ASSUME Plain PROVE Spec => []Consistent
<1>1. Init => UserSafe /\ Agreement
  BY InitSafe, InitAgrees
<1>2. IInv /\ (UserSafe /\ Agreement) /\ [Next]_vars => (UserSafe /\ Agreement)'
  BY NextSafe, NextAgrees DEF Plain
<1>3. Agreement => Consistent
  <2> SUFFICES ASSUME Agreement, pc = "idle" PROVE Consistent
    BY DEF Consistent
  <2>1. \A l : Was(l) = disk[l]
    BY OutsideWas DEF InOp, Forward, BeforeWrite, WritePcs, DeaPcs
  <2> QED BY <2>1 DEF Consistent, Agreement, Agrees, AgreesAt
<1> QED BY <1>1, <1>2, <1>3, Invariance, PTL DEF Spec

-----------------------------------------------------------------------------
(* A failed activation leaves other ports as they were                      *)

\* Ports that may be replaced have no startup items: activated again, their
\* files are where they were.
Replaceable == {o \in Entries : \E x \in ReplacedBy : x[1] = o}
Unrenamed == \A o \in Replaceable : Rename[o] = NoRename

\* The files of the ports that may be replaced are where their images say.
InPlace(r) ==
    \A o \in Replaceable, q \in Paths :
        r.row[o][q] = IF r.state[o] = "installed" /\ q \in Image[o] THEN At(q) ELSE Off

\* Nothing is moved aside, and the transaction leaves the rows of other ports
\* alone.
Unforced ==
    /\ act.forced = {} /\ act.moving = {} /\ act.backups = {}
    /\ pc \notin {"aside", "note"}
    /\ Forward => act.ren \in {Rename[act.ent], NoRename}
    /\ pc \in WritePcs =>
          /\ \A o \in Entries \ {act.ent} : tx.row[o] = db.row[o]
          /\ act.ent \in Replaceable => \A q \in Image[act.ent] : tx.row[act.ent][q] = At(q)
    /\ pc = "rename" /\ act.ent \in Replaceable => act.todo = {}

\* What the activation found when it began.
FoundOK ==
    /\ act.ent = before.ent /\ before.ent \in Entries
    /\ InPlace(before.db) /\ OneOwner(before.db)
    /\ \A o1, o2 \in Entries :
        PortOf[o1] = PortOf[o2] /\ before.db.state[o1] = "installed"
                                /\ before.db.state[o2] = "installed" => o1 = o2
    /\ \A l \in Locs, e \in Entries : before.disk[l] = e <=> e \in Owners(before.db, l)
    /\ \A l \in Locs : disk[l] = User => before.disk[l] = User

\* The ports it deactivates: other versions of its own, and those it replaces.
Chosen ==
    /\ \A o \in act.replaced : o \in Entries /\ InPlaceOf(o) /\ before.db.state[o] = "installed"
    /\ AtOlds => \A o \in act.olds : PortOf[o] = PortOf[act.ent]
    /\ pc \in DeaPcs => dea.ret # "idle"
    /\ pc \in DeaPcs /\ dea.ret = "olds" => PortOf[dea.ent] = PortOf[act.ent]
    /\ pc \in DeaPcs /\ dea.ret = "replaced" => dea.ent \in act.replaced
    /\ AtReplaced \/ pc = "reactivate" => act.todo \subseteq act.replaced
    /\ pc \in {"undo", "restore", "reactivate"} =>
          \A o \in Entries : PortOf[o] = PortOf[act.ent] => db.state[o] = "imaged"

\* The ports that are activated again, should it fail.
Yielded ==
    IF AtReplaced \/ pc \in WritePcs \cup {"undo", "restore"} THEN act.replaced
    ELSE IF pc = "reactivate" THEN act.todo ELSE {}

\* Up to the commit every port of another name is as it was or one of those.
AsBefore(o) == db.state[o] = before.db.state[o] /\ db.row[o] = before.db.row[o]
OthersOK ==
    \A o \in Entries : PortOf[o] # PortOf[before.ent] =>
        AsBefore(o) \/ (o \in Yielded /\ db.state[o] = "imaged")

\* The invariant of activations that are not forced, ...
Cleanly ==
    /\ ~ stuck
    /\ pc # "idle" => result = "none"
    /\ InPlace(db)
    /\ Unforced
    /\ pc # "idle" /\ before.ent = None => pc \in DeaPcs /\ dea.ret = "idle"
    /\ pc # "idle" /\ before.ent # None => FoundOK /\ Chosen /\ (pc # "committed" => OthersOK)
Good == IInv /\ Agreement /\ ImagesOK /\ Cleanly

\* ... and of their steps: one that fails has left others as they were.
CleanStep ==
    /\ Cleanly'
    /\ pc # "idle" /\ before.ent # None /\ result' = "error" =>
          /\ pc' = "idle" /\ UNCHANGED db
          /\ \A o \in Entries : PortOf[o] # PortOf[before.ent] => AsBefore(o)

\* A step of an activation that leaves the registry as committed alone: the
\* ports to be activated again still are.
LEMMA GoesOn ==
    ASSUME Good, pc # "idle", pc' # "idle", before.ent # None,
           UNCHANGED <<db, stuck, before, result>>, act'.ent = act.ent,
           \A l \in Locs : disk'[l] = User => disk[l] = User,
           Unforced', Chosen',
           pc' # "committed" => pc # "committed" /\
               \A o \in Yielded : db.state[o] = "imaged" => o \in Yielded'
    PROVE  CleanStep
<1>1. FoundOK'
  BY DEF Good, Cleanly, FoundOK, InPlace, OneOwner, Owners
<1>2. pc' # "committed" => OthersOK'
  BY DEF Good, Cleanly, OthersOK, AsBefore
<1>3. InPlace(db)'
  BY DEF Good, Cleanly, InPlace
<1>4. result' = "none" /\ ~ stuck'
  BY DEF Good, Cleanly
<1> QED BY <1>1, <1>2, <1>3, <1>4 DEF CleanStep, Cleanly

\* Where no operation is, nothing is forced.
LEMMA IdleUnforced ==
    ASSUME act'.forced = {}, act'.moving = {}, act'.backups = {},
           pc' \in {"idle", "committed", "undo", "restore", "reactivate"}
    PROVE  Unforced'
BY DEF Unforced, Forward, BeforeWrite, WritePcs, DeaPcs

\* The end of an operation: if it fails, no port is left to be activated.
LEMMA EndsClean ==
    ASSUME Good, pc # "idle", NEW r, End(r), UNCHANGED <<db, stuck>>,
           r = "error" /\ before.ent # None => pc # "committed" /\ Yielded = {}
    PROVE  CleanStep
<1>1. Unforced'
  BY IdleUnforced DEF End, NoAct
<1>2. InPlace(db)'
  BY DEF Good, Cleanly, InPlace
<1>3. pc' = "idle" /\ result' = r
  BY DEF End
<1>4. r = "error" /\ before.ent # None =>
         \A o \in Entries : PortOf[o] # PortOf[before.ent] => AsBefore(o)
  BY DEF Good, Cleanly, OthersOK
<1> QED BY <1>1, <1>2, <1>3, <1>4 DEF CleanStep, Cleanly, Good

\* No other version of the port is active once those have been deactivated.
LEMMA OldsGone ==
    ASSUME IInv, Forward, ~ AtOlds
    PROVE  \A o \in Entries : PortOf[o] = PortOf[act.ent] => db.state[o] = "imaged"
BY DEF IInv, StateOK, OldsOK, AtOlds, DeaPcs, TypeOK, Registry

\* An error in an activation.
LEMMA RaiseClean ==
    ASSUME Good, before.ent # None, NEW from, Raise(from), UNCHANGED <<db, stuck, disk>>,
           pc # "committed", Forward,
           IF from \in OuterTry THEN ~ AtOlds ELSE Yielded = {}
    PROVE  CleanStep
<1>0. pc # "idle"
  BY DEF Forward, BeforeWrite, WritePcs, DeaPcs
<1>1. CASE from \notin OuterTry
  BY <1>0, <1>1, EndsClean DEF Raise
<1>2. CASE from \in OuterTry
  <2>1. /\ pc' = "undo" /\ UNCHANGED <<before, result>>
        /\ act'.ent = act.ent /\ act'.replaced = act.replaced
        /\ act'.forced = act.forced /\ act'.moving = act.moving /\ act'.backups = act.backups
    BY <1>2 DEF Raise, Good, IInv, TypeOK, ActType
  <2>2. Unforced'
    BY <2>1, IdleUnforced DEF Good, Cleanly, Unforced
  <2>3. \A o \in Entries : PortOf[o] = PortOf[act.ent] => db.state[o] = "imaged"
    BY <1>2, OldsGone DEF Good
  <2>4. Chosen'
    BY <1>0, <2>1, <2>3 DEF Good, Cleanly, Chosen, InPlaceOf, AtOlds, AtReplaced, DeaPcs
  <2>5. \A o \in Yielded : o \in Yielded'
    BY <2>1 DEF Yielded, Forward, BeforeWrite, AtReplaced, WritePcs, DeaPcs
  <2> QED BY <1>0, <2>1, <2>2, <2>4, <2>5, GoesOn
<1> QED BY <1>1, <1>2

\* A step of a deactivation that the user asked for.
LEMMA AloneGoesOn ==
    ASSUME Good, pc \in DeaPcs, pc' \in DeaPcs, before.ent = None,
           UNCHANGED <<stuck, before, result, act>>, dea'.ret = dea.ret, InPlace(db)'
    PROVE  CleanStep
<1>1. dea.ret = "idle" /\ pc # "idle"
  BY DEF Good, Cleanly, DeaPcs
<1>2. Unforced'
  BY <1>1 DEF Good, Cleanly, Unforced, Forward, BeforeWrite, WritePcs, DeaPcs
<1> QED BY <1>1, <1>2 DEF CleanStep, Cleanly, Good

\* A step of a deactivation that an activation called for.
LEMMA CalledGoesOn ==
    ASSUME Good, pc \in DeaPcs, pc' \in DeaPcs, before.ent # None,
           UNCHANGED <<db, stuck, before, result, act>>, dea'.ret = dea.ret, dea'.ent = dea.ent,
           \A l \in Locs : disk'[l] = User => disk[l] = User
    PROVE  CleanStep
<1>1. pc # "idle" /\ dea.ret # "idle" /\ pc' # "idle" /\ pc # "committed"
  BY DEF Good, Cleanly, Chosen, DeaPcs
<1>2. Unforced'
  BY <1>1 DEF Good, Cleanly, Unforced, Forward, BeforeWrite, WritePcs, DeaPcs
<1>3. Chosen'
  BY <1>1 DEF Good, Cleanly, Chosen, InPlaceOf, AtOlds, AtReplaced, DeaPcs
<1>4. Yielded' = Yielded
  BY <1>1 DEF Yielded, AtReplaced, WritePcs, DeaPcs
<1> QED BY <1>1, <1>2, <1>3, <1>4, GoesOn

\* An error in a deactivation that has not begun.
LEMMA DeactivateRaiseClean ==
    ASSUME Good, pc \in {"dbegin", "dend"}, DeactivateRaise, UNCHANGED <<db, stuck, disk>>
    PROVE  CleanStep
<1>1. pc \in DeaPcs /\ pc # "idle" /\ dea.ret \in {"idle", "olds", "replaced"}
  BY DEF Good, IInv, TypeOK, DeaType, DeaPcs
<1>2. CASE dea.try # 2
  <2>1. /\ pc' \in DeaPcs /\ UNCHANGED <<act, before, result>>
        /\ dea'.ret = dea.ret /\ dea'.ent = dea.ent
    BY <1>2 DEF DeactivateRaise, Good, IInv, TypeOK, DeaType, DeaPcs
  <2>2. InPlace(db)'
    BY DEF Good, Cleanly, InPlace
  <2> QED BY <1>1, <2>1, <2>2, AloneGoesOn, CalledGoesOn
<1>3. CASE dea.try = 2 /\ before.ent = None
  <2>1. dea.ret = "idle"
    BY <1>1, <1>3 DEF Good, Cleanly
  <2> QED BY <1>1, <1>3, <2>1, EndsClean DEF DeactivateRaise, Raise, OuterTry, InnerTry
<1>4. CASE dea.try = 2 /\ before.ent # None
  <2>1. dea.ret # "idle" /\ Forward /\ pc # "committed"
    BY <1>1, <1>4 DEF Good, Cleanly, Chosen, Forward, BeforeWrite, DeaPcs
  <2>2. CASE dea.ret = "olds"
    <3>1. Yielded = {} /\ "olds" \notin OuterTry
      BY <1>1, <2>2 DEF Yielded, AtReplaced, WritePcs, DeaPcs, OuterTry, InnerTry
    <3> QED BY <1>4, <2>1, <2>2, <3>1, RaiseClean DEF DeactivateRaise
  <2>3. CASE dea.ret = "replaced"
    <3>1. ~ AtOlds /\ "replaced" \in OuterTry
      BY <1>1, <2>3 DEF AtOlds, DeaPcs, OuterTry
    <3> QED BY <1>4, <2>1, <2>3, <3>1, RaiseClean DEF DeactivateRaise
  <2> QED BY <1>1, <2>1, <2>2, <2>3
<1> QED BY <1>2, <1>3, <1>4

\* An activation starts from where registry and disk agree.
LEMMA StartActivateClean ==
    ASSUME Good, NEW e \in Entries, NEW asked \in BOOLEAN, StartActivate(e, asked)
    PROVE  CleanStep
<1>1. /\ pc = "idle" /\ pc' = "olds" /\ UNCHANGED <<db, disk, stuck>> /\ result' = "none"
      /\ before' = [disk |-> disk, db |-> db, ent |-> e]
  BY DEF StartActivate
<1>2. /\ act'.ent = e /\ act'.ren \in {Rename[e], NoRename} /\ act'.replaced = {}
      /\ act'.forced = {} /\ act'.moving = {} /\ act'.backups = {}
      /\ \A o \in act'.olds : PortOf[o] = PortOf[e]
  BY DEF StartActivate, NoAct
<1>3. \A l \in Locs, o \in Entries : disk[l] = o <=> o \in Owners(db, l)
  <2>1. \A l : Was(l) = disk[l]
    BY <1>1, OutsideWas DEF InOp, Forward, BeforeWrite, WritePcs, DeaPcs
  <2> QED BY <1>1, <2>1 DEF Good, Agreement, Agrees, AgreesAt
<1>4. InPlace(db)' /\ InPlace(before.db)'
  BY <1>1 DEF Good, Cleanly, InPlace
<1>5. FoundOK'
  BY <1>1, <1>2, <1>3, <1>4
     DEF FoundOK, Good, IInv, StateOK, DbOK, OneActive, OneOwner, Owners
<1>6. Unforced'
  BY <1>1, <1>2 DEF Unforced, WritePcs
<1>7. Chosen'
  BY <1>1, <1>2 DEF Chosen, AtReplaced, DeaPcs
<1>8. OthersOK'
  BY <1>1 DEF OthersOK, AsBefore
<1>9. e # None /\ ~ stuck' /\ pc' \notin {"idle", "committed"}
  BY <1>1, ContentAssumption DEF Good, Cleanly
<1> QED BY <1>1, <1>4, <1>5, <1>6, <1>7, <1>8, <1>9 DEF CleanStep, Cleanly

\* The other starts find nothing forced, and force nothing.
LEMMA StartClean == ASSUME Good, Start PROVE CleanStep
<1>1. CASE \E e \in Entries : StartDeactivate(e)
  <2>1. /\ pc = "idle" /\ pc' = "dbegin" /\ UNCHANGED <<db, act, stuck>> /\ result' = "none"
        /\ before'.ent = None /\ dea'.ret = "idle"
    BY <1>1 DEF StartDeactivate, CallDeactivate
  <2>2. InPlace(db)'
    BY <2>1 DEF Good, Cleanly, InPlace
  <2>3. Unforced'
    BY <2>1 DEF Good, Cleanly, Unforced, Forward, BeforeWrite, WritePcs, DeaPcs
  <2> QED BY <2>1, <2>2, <2>3 DEF CleanStep, Cleanly, Good, DeaPcs
<1>2. CASE NewProcess
  <2>1. UNCHANGED <<db, tx, pc, act, result>> /\ pc = "idle" /\ ~ stuck'
    BY <1>2 DEF NewProcess
  <2>2. InPlace(db)'
    BY <2>1 DEF Good, Cleanly, InPlace
  <2>3. Unforced'
    BY <2>1, IdleUnforced DEF Good, Cleanly, Unforced
  <2> QED BY <2>1, <2>2, <2>3 DEF CleanStep, Cleanly
<1> QED BY <1>1, <1>2, StartActivateClean DEF Start

\* An activation calls deactivate for a port it chose.
LEMMA CallClean ==
    ASSUME Good, NEW o \in Entries, DeactivateOld(o) \/ DeactivateReplaced(o)
    PROVE  CleanStep
<1>1. /\ pc \in {"olds", "replaced"} /\ pc' = "dbegin" /\ dea'.ent = o /\ dea'.ret = pc
      /\ UNCHANGED <<db, disk, stuck, before, result>>
  BY DEF DeactivateOld, DeactivateReplaced, CallDeactivate
<1>2. pc # "idle" /\ before.ent # None /\ Forward
  BY <1>1 DEF Good, Cleanly, DeaPcs, Forward, BeforeWrite
<1>3. /\ act'.ent = act.ent /\ act'.replaced = act.replaced /\ act'.ren = act.ren
      /\ act'.forced = act.forced /\ act'.moving = act.moving /\ act'.backups = act.backups
      /\ act'.olds \subseteq act.olds /\ act'.todo \subseteq act.todo
      /\ pc = "olds" => o \in act.olds
      /\ pc = "replaced" => o \in act.todo
  BY DEF DeactivateOld, DeactivateReplaced, Good, IInv, TypeOK, ActType
<1>4. Unforced'
  BY <1>1, <1>2, <1>3 DEF Good, Cleanly, Unforced, WritePcs
<1>5. Chosen'
  BY <1>1, <1>2, <1>3 DEF Good, Cleanly, Chosen, InPlaceOf, AtOlds, AtReplaced, DeaPcs
<1>6. \A x \in Yielded : x \in Yielded'
  BY <1>1, <1>3 DEF Yielded, AtReplaced, WritePcs, DeaPcs
<1> QED BY <1>1, <1>2, <1>3, <1>4, <1>5, <1>6, GoesOn

\* The extraction and the conversion touch neither registry nor disk.
LEMMA ConvertClean ==
    ASSUME Good, Extract \/ SetLocation \/ DropArchive PROVE CleanStep
<1>1. /\ pc \in {"olds", "convert", "drop"} /\ pc' \in {"convert", "drop", "scan"}
      /\ UNCHANGED <<db, disk, stuck, before, result>>
  BY DEF Extract, SetLocation, DropArchive
<1>2. /\ act'.ent = act.ent /\ act'.replaced = act.replaced /\ act'.ren = act.ren
      /\ act'.forced = act.forced /\ act'.moving = act.moving /\ act'.backups = act.backups
  BY DEF Extract, SetLocation, DropArchive, Good, IInv, TypeOK, ActType
<1>3. pc # "idle" /\ before.ent # None /\ Forward
  BY <1>1 DEF Good, Cleanly, DeaPcs, Forward, BeforeWrite
<1>4. Unforced'
  BY <1>1, <1>2, <1>3 DEF Good, Cleanly, Unforced, WritePcs
<1>5. Chosen'
  BY <1>1, <1>2, <1>3 DEF Good, Cleanly, Chosen, InPlaceOf, AtOlds, AtReplaced, DeaPcs
<1>6. Yielded = {}
  BY <1>1 DEF Yielded, AtReplaced, WritePcs, DeaPcs
<1> QED BY <1>1, <1>2, <1>3, <1>4, <1>5, <1>6, GoesOn

\* A port that is replaced is of another name, and still as it was found.
LEMMA ReplacedChosen ==
    ASSUME Good, pc = "scan", NEW o \in Replaced
    PROVE  o \in Entries /\ InPlaceOf(o) /\ before.db.state[o] = "installed"
<1>1. o \in Entries /\ db.state[o] = "installed" /\ InPlaceOf(o)
  BY ReplacedInstalled DEF Good, Replaced, InPlaceOf
<1>2. FoundOK /\ OthersOK /\ Yielded = {}
  BY DEF Good, Cleanly, DeaPcs, Yielded, AtReplaced, WritePcs
<1>3. PortOf[o] # PortOf[before.ent]
  <2>1. <<o, PortOf[act.ent]>> \in ReplacedBy
    BY <1>1 DEF InPlaceOf
  <2> QED BY <1>2, <2>1, ReplacedAssumption DEF FoundOK
<1> QED BY <1>1, <1>2, <1>3 DEF OthersOK, AsBefore

\* The scan finds ports that this one replaces, or nothing in the way.
LEMMA ScanClean ==
    ASSUME Good, (\E p \in Paths : ScanFile(p)) \/ ScanDone PROVE CleanStep
<1>1. /\ pc = "scan" /\ pc' \in {"scan", "replaced"}
      /\ UNCHANGED <<db, disk, stuck, before, result>>
  BY DEF ScanFile, ScanDone
<1>2. /\ act'.ent = act.ent /\ act'.ren = act.ren
      /\ act'.forced = act.forced /\ act'.moving = act.moving /\ act'.backups = act.backups
      /\ act'.replaced \subseteq act.replaced \cup Replaced
      /\ pc' = "replaced" => act'.todo \subseteq act'.replaced
  <2>1. CASE \E p \in Paths : ScanFile(p)
    <3>1. PICK p \in Paths : ScanFile(p)
      BY <2>1
    <3>2. act'.replaced = IF Exists(p) THEN Replaced ELSE act.replaced
      BY <3>1 DEF ScanFile, Good, IInv, TypeOK, ActType
    <3>3. act'.replaced \subseteq act.replaced \cup Replaced
      BY <3>2
    <3> QED BY <3>1, <3>3 DEF ScanFile, Good, IInv, TypeOK, ActType
  <2>2. CASE ScanDone
    BY <2>2 DEF ScanDone, Good, IInv, TypeOK, ActType
  <2> QED BY <2>1, <2>2
<1>3. pc # "idle" /\ before.ent # None /\ Forward
  BY <1>1 DEF Good, Cleanly, DeaPcs, Forward, BeforeWrite
<1>4. Unforced'
  BY <1>1, <1>2, <1>3 DEF Good, Cleanly, Unforced, WritePcs
<1>5. \A o \in act'.replaced : o \in Entries /\ InPlaceOf(o) /\ before.db.state[o] = "installed"
  BY <1>1, <1>2, <1>3, ReplacedChosen DEF Good, Cleanly, Chosen
<1>6. Chosen'
  BY <1>1, <1>2, <1>5 DEF Chosen, InPlaceOf, AtOlds, AtReplaced, DeaPcs
<1>7. Yielded = {}
  BY <1>1 DEF Yielded, AtReplaced, WritePcs, DeaPcs
<1> QED BY <1>1, <1>2, <1>3, <1>4, <1>6, <1>7, GoesOn

\* The file at a path is refused: only before the transaction.
LEMMA ScanErrorClean ==
    ASSUME Good, NEW p \in Paths, ScanError(p) PROVE CleanStep
<1>1. pc = "scan" /\ Raise("scan") /\ UNCHANGED <<db, stuck, disk>>
  BY DEF ScanError
<1>2. before.ent # None /\ Forward /\ ~ AtOlds
  BY <1>1 DEF Good, Cleanly, DeaPcs, Forward, BeforeWrite, AtOlds
<1> QED BY <1>1, <1>2, RaiseClean DEF OuterTry

\* Where no rows are forced, none is moved.
LEMMA NothingMoves ==
    ASSUME NEW r \in Registry, NEW s, NEW o \in Entries, NEW q \in Paths
    PROVE  MoveRows(r, {}, s).row[o][q] = r.row[o][q]
BY DEF MoveRows, Registry

\* The transaction begins with the rows of the port itself, ...
LEMMA RegisterClean ==
    ASSUME Good, Register PROVE CleanStep
<1>1. /\ pc = "replaced" /\ pc' = "put" /\ UNCHANGED <<db, disk, stuck, before, result>>
      /\ tx' = Activate(AfterForced, act.ent, ImageAt(act.ent))
  BY DEF Register
<1>2. /\ act'.ent = act.ent /\ act'.replaced = act.replaced /\ act'.ren = act.ren
      /\ act'.forced = act.forced /\ act'.moving = act.moving /\ act'.backups = act.backups
  BY DEF Register, Good, IInv, TypeOK, ActType
<1>3. pc # "idle" /\ before.ent # None /\ Forward /\ act.ent \in Entries
  BY <1>1 DEF Good, Cleanly, DeaPcs, Forward, BeforeWrite, IInv, StateOK, EntOK
<1>4. AfterForced \in Registry
      /\ \A o \in Entries, q \in Paths : AfterForced.row[o][q] = db.row[o][q]
  <2>1. tx = db /\ tx \in Registry /\ act.forced = {} /\ act.stamp \in 0..MaxStamp
    BY <1>1 DEF Good, Cleanly, Unforced, IInv, StateOK, TxOK, WritePcs, TypeOK, ActType
  <2>2. AfterForced = MoveRows(tx, {}, act.stamp)
    BY <2>1 DEF AfterForced
  <2>3. \A o \in Entries, q \in Paths : MoveRows(tx, {}, act.stamp).row[o][q] = tx.row[o][q]
    BY <2>1, NothingMoves
  <2>4. MoveRows(tx, {}, act.stamp) \in Registry
    BY <2>1, MoveRegistry
  <2> QED BY <2>1, <2>2, <2>3, <2>4
<1>5. \A o \in Entries, q \in Paths :
         tx'.row[o][q] = IF o = act.ent /\ q \in Image[act.ent] THEN At(q) ELSE db.row[o][q]
  BY <1>1, <1>3, <1>4, ActivateRow DEF ImageAt
<1>6. tx' \in Registry
  BY RegisterStep DEF Good, IInv, TypeOK
<1>7. \A o \in Entries \ {act.ent} : tx'.row[o] = db.row[o]
  BY <1>5, <1>6 DEF Good, IInv, TypeOK, Registry
<1>8. \A q \in Image[act.ent] : tx'.row[act.ent][q] = At(q)
  BY <1>3, <1>5, Constants
<1>9. Unforced'
  BY <1>1, <1>2, <1>3, <1>7, <1>8 DEF Good, Cleanly, Unforced
<1>10. Chosen'
  BY <1>1, <1>2, <1>3 DEF Good, Cleanly, Chosen, InPlaceOf, AtOlds, AtReplaced, DeaPcs
<1>11. \A x \in Yielded : x \in Yielded'
  BY <1>1, <1>2 DEF Yielded, AtReplaced, WritePcs, DeaPcs
<1> QED BY <1>1, <1>2, <1>3, <1>9, <1>10, <1>11, GoesOn

\* ... if the registry takes them.
LEMMA RegisterErrorClean == ASSUME Good, RegisterError PROVE CleanStep
<1>1. pc = "replaced" /\ Raise("register") /\ UNCHANGED <<db, stuck, disk>>
  BY DEF RegisterError, Good, Cleanly
<1>2. before.ent # None /\ Forward /\ ~ AtOlds
  BY <1>1 DEF Good, Cleanly, DeaPcs, Forward, BeforeWrite, AtOlds
<1> QED BY <1>1, <1>2, RaiseClean DEF OuterTry, InnerTry

\* A step within the transaction changes rows of no other port.
LEMMA WriteGoesOn ==
    ASSUME Good, pc \in WritePcs, pc' \in WritePcs, UNCHANGED <<db, stuck, before, result>>,
           act'.ent = act.ent, act'.replaced = act.replaced, act'.ren = act.ren,
           act'.forced = act.forced, act'.moving = act.moving, act'.backups = act.backups,
           \A l \in Locs : disk'[l] = User => disk[l] = User,
           \A o \in Entries \ {act.ent} : tx'.row[o] = tx.row[o],
           act.ent \in Replaceable =>
               /\ tx'.row = tx.row
               /\ pc' = "rename" => act'.todo = {}
    PROVE  CleanStep
<1>1. pc \notin {"idle", "committed"} \cup DeaPcs /\ pc' \notin {"idle", "committed"} \cup DeaPcs
  BY DEF WritePcs, DeaPcs
<1>2. before.ent # None /\ Forward
  BY <1>1 DEF Good, Cleanly, Forward
<1>3. Unforced'
  BY <1>1, <1>2 DEF Good, Cleanly, Unforced, WritePcs
<1>4. Chosen'
  BY <1>1, <1>2 DEF Good, Cleanly, Chosen, InPlaceOf, AtOlds, AtReplaced, WritePcs
<1>5. Yielded' = Yielded
  BY <1>1 DEF Yielded, AtReplaced
<1> QED BY <1>1, <1>2, <1>3, <1>4, <1>5, GoesOn

\* Files are put in place, or taken to be there.
LEMMA PutClean ==
    ASSUME Good, NEW q \in Paths, PutFile(q) \/ SkipFile(q) PROVE CleanStep
<1>1. /\ pc \in WritePcs /\ pc' \in {"put", "append"}
      /\ UNCHANGED <<db, tx, stuck, before, result>>
  BY DEF PutFile, SkipFile, WritePcs
<1>2. /\ act'.ent = act.ent /\ act'.replaced = act.replaced /\ act'.ren = act.ren
      /\ act'.forced = act.forced /\ act'.moving = act.moving /\ act'.backups = act.backups
  BY DEF PutFile, SkipFile, Good, IInv, TypeOK, ActType
<1>3. act.ent # User
  BY <1>1, ContentAssumption DEF Good, IInv, StateOK, EntOK, Forward
<1>4. \A l \in Locs : disk'[l] = User => disk[l] = User
  BY <1>3 DEF PutFile, SkipFile, Good, IInv, TypeOK
<1> QED BY <1>1, <1>2, <1>4, WriteGoesOn DEF WritePcs

\* The other steps of the transaction that keep the rows; a port that may be
\* replaced has no file to rename.
LEMMA WriteClean ==
    ASSUME Good, Unrenamed, AppendRollback \/ StartRenamed \/ PutRenamed \/ SetInstalled
    PROVE  CleanStep
<1>1. /\ pc \in WritePcs /\ pc' \in WritePcs /\ UNCHANGED <<db, disk, stuck, before, result>>
  BY DEF AppendRollback, StartRenamed, PutRenamed, SetInstalled, WritePcs
<1>2. /\ act'.ent = act.ent /\ act'.replaced = act.replaced /\ act'.ren = act.ren
      /\ act'.forced = act.forced /\ act'.moving = act.moving /\ act'.backups = act.backups
  BY DEF AppendRollback, StartRenamed, PutRenamed, SetInstalled, Good, IInv, TypeOK, ActType
<1>3. act.ent \in Entries
  BY <1>1 DEF Good, IInv, StateOK, EntOK, Forward
<1>4. tx'.row = tx.row
  <2>1. tx \in Registry
    BY DEF Good, IInv, TypeOK
  <2>2. SetState(tx, act.ent, "installed").row = tx.row
    BY <1>3, <2>1, SetStateRegistry
  <2> QED BY <2>2 DEF AppendRollback, StartRenamed, PutRenamed, SetInstalled
<1>5. ASSUME act.ent \in Replaceable, pc' = "rename" PROVE act'.todo = {}
  <2>1. act'.todo = Renamed(act.ent, act.ren)
    BY <1>5 DEF AppendRollback, StartRenamed, PutRenamed, SetInstalled, Good, IInv, TypeOK, ActType
  <2>2. act.ren = NoRename
    BY <1>1, <1>5 DEF Good, Cleanly, Unforced, Unrenamed, Forward
  <2> QED BY <1>3, <2>1, <2>2, Constants DEF Renamed, NoRename
<1> QED BY <1>1, <1>2, <1>4, <1>5, WriteGoesOn

\* Only rows of the port itself are renamed, or its activation fails.
LEMMA RenameRowClean ==
    ASSUME Good, NEW q \in Paths, RenameRow(q) PROVE CleanStep
<1>1. pc = "rename" /\ q \in act.todo /\ UNCHANGED <<db, disk, stuck>>
  BY DEF RenameRow
<1>2. before.ent # None /\ Forward /\ ~ AtOlds /\ act.ent \notin Replaceable
  BY <1>1 DEF Good, Cleanly, Unforced, DeaPcs, WritePcs, Forward, AtOlds
<1>3. CASE Raise("rename")
  BY <1>1, <1>2, <1>3, RaiseClean DEF OuterTry, InnerTry
<1>4. CASE ~ Raise("rename")
  <2> DEFINE without == Deactivate(tx, act.ent, {At(q)})
  <2>1. /\ tx' = Activate(without, act.ent, AsRenamed(q))
        /\ act' = [act EXCEPT !.todo = @ \ {q}] /\ UNCHANGED <<pc, dea, before, result>>
    BY <1>4 DEF RenameRow
  <2>2. /\ act'.ent = act.ent /\ act'.replaced = act.replaced /\ act'.ren = act.ren
        /\ act'.forced = act.forced /\ act'.moving = act.moving /\ act'.backups = act.backups
    BY <2>1 DEF Good, IInv, TypeOK, ActType
  <2>3. act.ent \in Entries /\ tx \in Registry
    BY <1>2 DEF Good, IInv, StateOK, EntOK, TypeOK
  <2>4. without \in Registry
    BY <2>3, DeactivateRegistry
  <2>5. \A o \in Entries, x \in Paths : o # act.ent => without.row[o][x] = tx.row[o][x]
    BY <2>3, DeactivateRow
  <2> HIDE DEF without
  <2>6. \A o \in Entries, x \in Paths : o # act.ent => tx'.row[o][x] = without.row[o][x]
    BY <2>1, <2>3, <2>4, ActivateRow
  <2>7. tx' \in Registry
    BY RenameRowStep DEF Good, IInv, TypeOK
  <2>8. \A o \in Entries \ {act.ent} : tx'.row[o] = tx.row[o]
    BY <2>3, <2>5, <2>6, <2>7 DEF Registry
  <2> QED BY <1>1, <1>2, <2>1, <2>2, <2>8, WriteGoesOn DEF WritePcs
<1> QED BY <1>3, <1>4

\* What is committed has the port's own files where its image says.
LEMMA CommitClean == ASSUME Good, Commit \/ Finish PROVE CleanStep
<1>1. CASE Finish
  BY <1>1, EndsClean DEF Finish
<1>2. CASE Commit
  <2>1. /\ pc = "commit" /\ pc' = "committed" /\ db' = tx
        /\ UNCHANGED <<act, disk, stuck, before, result>>
    BY <1>2 DEF Commit
  <2>2. /\ act.ent \in Entries /\ tx.state = [db.state EXCEPT ![act.ent] = "installed"]
        /\ \A q \in Paths : q \notin Image[act.ent] => tx.row[act.ent][q] = Off
        /\ db \in Registry
    BY <2>1 DEF Good, IInv, StateOK, EntOK, TxOK, Pending, TypeOK, Forward, WritePcs
  <2>3. /\ \A o \in Entries \ {act.ent} : tx.row[o] = db.row[o]
        /\ act.ent \in Replaceable => \A q \in Image[act.ent] : tx.row[act.ent][q] = At(q)
    BY <2>1 DEF Good, Cleanly, Unforced, WritePcs
  <2>4. \A o \in Entries : tx.state[o] = IF o = act.ent THEN "installed" ELSE db.state[o]
    BY <2>2 DEF Registry
  <2>5. InPlace(tx)
    BY <2>2, <2>3, <2>4 DEF Good, Cleanly, InPlace, Replaceable
  <2>6. InPlace(db)'
    BY <2>1, <2>5 DEF InPlace
  <2>7. Unforced'
    BY <2>1, IdleUnforced DEF Good, Cleanly, Unforced
  <2>8. before.ent # None
    BY <2>1 DEF Good, Cleanly, DeaPcs
  <2>9. FoundOK' /\ Chosen'
    BY <2>1, <2>8 DEF Good, Cleanly, FoundOK, Chosen, InPlace, OneOwner, Owners, InPlaceOf,
                      AtOlds, AtReplaced, DeaPcs
  <2> QED BY <2>1, <2>6, <2>7, <2>8, <2>9 DEF CleanStep, Cleanly, Good
<1> QED BY <1>1, <1>2

\* Files put in place are deleted; there are no backups to go back.
LEMMA UndoClean ==
    ASSUME Good, (\E p \in Paths : UndoFile(p) \/ Restore(p)) \/ UndoDone \/ RestoreDone
    PROVE  CleanStep
<1>1. /\ pc \in {"undo", "restore"} /\ pc' \in {"undo", "restore", "reactivate"}
      /\ UNCHANGED <<db, stuck, before, result>>
      /\ \A p \in Paths : ~ Restore(p)
      /\ pc' = "reactivate" => RestoreDone
  BY DEF UndoFile, Restore, UndoDone, RestoreDone, Good, Cleanly, Unforced
<1>2. /\ act'.ent = act.ent /\ act'.replaced = act.replaced
      /\ act'.forced = act.forced /\ act'.moving = act.moving /\ act'.backups = act.backups
      /\ RestoreDone => act'.todo = act.replaced
  BY <1>1 DEF UndoFile, UndoDone, RestoreDone, Good, IInv, TypeOK, ActType
<1>3. \A l \in Locs : disk'[l] = User => disk[l] = User
  BY <1>1, ContentAssumption DEF UndoFile, UndoDone, RestoreDone, Good, IInv, TypeOK
<1>4. pc # "idle" /\ before.ent # None
  BY <1>1 DEF Good, Cleanly, DeaPcs
<1>5. Unforced'
  BY <1>1, <1>2, IdleUnforced DEF Good, Cleanly, Unforced
<1>6. Chosen'
  BY <1>1, <1>2, <1>4 DEF Good, Cleanly, Chosen, InPlaceOf, AtOlds, AtReplaced, DeaPcs
<1>7. \A x \in Yielded : x \in Yielded'
  BY <1>1, <1>2 DEF Yielded, AtReplaced, WritePcs, DeaPcs
<1> QED BY <1>1, <1>2, <1>3, <1>4, <1>5, <1>6, <1>7, GoesOn

\* A port to be activated again is of another name than the one that failed.
LEMMA TodoFound ==
    ASSUME Good, pc = "reactivate", NEW e \in act.todo
    PROVE  /\ before.ent # None /\ e \in Entries /\ e \in Replaceable
           /\ PortOf[e] # PortOf[act.ent] /\ before.db.state[e] = "installed"
<1>1. before.ent # None
  BY DEF Good, Cleanly, DeaPcs
<1>2. e \in Entries /\ <<e, PortOf[act.ent]>> \in ReplacedBy /\ before.db.state[e] = "installed"
  BY <1>1 DEF Good, Cleanly, Chosen, InPlaceOf
<1>3. e \in Replaceable
  BY <1>2 DEF Replaceable
<1>4. PortOf[e] # PortOf[act.ent]
  BY <1>2, ReplacedAssumption
<1> QED BY <1>1, <1>2, <1>3, <1>4

\* Nothing is where its files go: they were there when the activation began.
LEMMA NothingInTheWay ==
    ASSUME Good, pc = "reactivate", NEW e \in act.todo, db.state[e] = "imaged",
           NEW q \in Image[e]
    PROVE  disk[At(q)] = None /\ Owners(db, At(q)) = {}
<1>1. /\ before.ent # None /\ e \in Entries /\ e \in Replaceable
      /\ before.db.state[e] = "installed"
  BY TodoFound
<1>2. FoundOK /\ OthersOK /\ Chosen
  BY <1>1 DEF Good, Cleanly
<1>3. q \in Paths /\ At(q) \in Locs
  BY <1>1, Constants
<1>4. before.db.row[e][q] = At(q)
  BY <1>1, <1>2, <1>3 DEF FoundOK, InPlace
<1>5. \A x \in Entries : disk[At(q)] = x <=> x \in Owners(db, At(q))
  <2>1. Was(At(q)) = disk[At(q)]
    BY OutsideWas DEF InOp, Forward, BeforeWrite, WritePcs, DeaPcs
  <2> QED BY <1>3, <2>1 DEF Good, Agreement, Agrees, AgreesAt
<1>6. Owners(db, At(q)) = {}
  <2> SUFFICES ASSUME NEW x \in Owners(db, At(q)) PROVE FALSE
    OBVIOUS
  <2>1. x \in Entries /\ db.state[x] = "installed"
    BY OwnersInstalled DEF Good, IInv, StateOK, DbOK, TypeOK
  <2>2. PICK y \in Paths : db.row[x][y] = At(q)
    BY DEF Owners
  <2>3. PortOf[x] # PortOf[before.ent]
    BY <1>2, <2>1 DEF Chosen, FoundOK
  <2>4. before.db.row[x][y] = At(q)
    BY <1>2, <2>1, <2>2, <2>3 DEF OthersOK, AsBefore
  <2>5. x = e
    BY <1>1, <1>2, <1>3, <1>4, <2>1, <2>4, AtNotOff DEF FoundOK, OneOwner
  <2> QED BY <2>1, <2>5
<1>7. disk[At(q)] # User
  <2>1. e \in Owners(before.db, At(q))
    BY <1>1, <1>3, <1>4 DEF Owners
  <2>2. before.disk[At(q)] = e
    BY <1>1, <1>2, <1>3, <2>1 DEF FoundOK
  <2> QED BY <1>1, <1>2, <1>3, <2>2, ContentAssumption DEF FoundOK
<1>8. disk[At(q)] \in Entries \cup {None, User}
  BY <1>3 DEF Good, IInv, TypeOK, Content
<1> QED BY <1>5, <1>6, <1>7, <1>8

\* So nothing is moved for it, and the registry takes its files.
LEMMA CanBeReactivated ==
    ASSUME Good, Unrenamed, pc = "reactivate", NEW e \in act.todo, db.state[e] = "imaged"
    PROVE  /\ NestedStamps(e) = {clock} /\ CanReactivate(e, clock)
           /\ \A c : NestedReg(e, c) = MoveRows(db, {}, c)
           /\ InTheWay(e) = {}
           /\ PutAt(e, Rename[e]) = ImageAt(e) /\ PutAt(e, NoRename) = ImageAt(e)
<1>1. e \in Entries /\ e \in Replaceable
  BY TodoFound
<1>2. InTheWay(e) = {}
  BY NothingInTheWay DEF InTheWay, Exists
<1>3. NestedRows(e) = {} /\ NestedStamps(e) = {clock}
  BY <1>2 DEF NestedRows, NestedStamps
<1>4. \A c : NestedReg(e, c) = MoveRows(db, {}, c)
  BY <1>3 DEF NestedReg
<1>5. CanMove(db, NestedRows(e), clock)
  BY <1>3 DEF CanMove
<1>6. db \in Registry /\ clock \in 0..MaxStamp
  BY DEF Good, IInv, TypeOK
<1>7. \A l : Owners(NestedReg(e, clock), l) = Owners(db, l)
  <2>1. \A o \in Entries, x \in Paths : MoveRows(db, {}, clock).row[o][x] = db.row[o][x]
    BY <1>6, NothingMoves
  <2> QED BY <1>4, <2>1 DEF Owners
<1>8. CanActivate(NestedReg(e, clock), e, ImageAt(e))
  BY <1>7, NothingInTheWay DEF CanActivate, ImageAt, At
<1>9. /\ ~ stuck /\ clock <= MaxStamp
      /\ loc[e] = "archive" => e \in arch
      /\ NestedImage(e) = Image[e]
  BY <1>1, <1>6 DEF Good, Cleanly, ImagesOK, NestedImage
<1>10. PutAt(e, NoRename) = ImageAt(e)
  BY <1>1, Constants DEF PutAt, ImageAt, NoRename
<1>11. Rename[e] = NoRename
  BY <1>1 DEF Unrenamed
<1> QED BY <1>2, <1>3, <1>4, <1>5, <1>8, <1>9, <1>10, <1>11 DEF CanReactivate

\* Activating it again therefore does not fail.
LEMMA ReactivateErrorClean ==
    ASSUME Good, Unrenamed, NEW e \in Entries, ReactivateError(e) PROVE FALSE
<1>1. pc = "reactivate" /\ e \in act.todo /\ db.state[e] = "imaged"
  BY DEF ReactivateError
<1>2. /\ before.ent # None /\ PortOf[e] # PortOf[act.ent] /\ before.db.state[e] = "installed"
  BY <1>1, TodoFound
<1>3. /\ NestedStamps(e) = {clock} /\ CanReactivate(e, clock)
      /\ CanActivate(NestedReg(e, clock), e, PutAt(e, Rename[e]))
  BY <1>1, CanBeReactivated DEF CanReactivate
<1>4. PICK o \in Entries : PortOf[o] = PortOf[e] /\ db.state[o] = "installed"
  BY <1>3 DEF ReactivateError
<1>5. FoundOK /\ OthersOK
  BY <1>1, <1>2 DEF Good, Cleanly
<1>6. before.db.state[o] = "installed"
  BY <1>2, <1>4, <1>5 DEF FoundOK, OthersOK, AsBefore
<1>7. o = e
  BY <1>2, <1>4, <1>5, <1>6 DEF FoundOK
<1> QED BY <1>1, <1>4, <1>7

\* A port activated again is as it was found, and no other is touched.
LEMMA ReactivateClean ==
    ASSUME Good, Unrenamed, NEW e \in Entries, Reactivate(e) PROVE CleanStep
<1>1. /\ pc = "reactivate" /\ pc' = "reactivate" /\ e \in act.todo /\ db.state[e] = "imaged"
      /\ UNCHANGED <<stuck, before, result>> /\ clock' \in NestedStamps(e)
  BY DEF Reactivate
<1>2. /\ before.ent # None /\ e \in Replaceable /\ PortOf[e] # PortOf[act.ent]
      /\ before.db.state[e] = "installed"
  BY <1>1, TodoFound
<1>3. FoundOK /\ OthersOK /\ Chosen
  BY <1>1, <1>2 DEF Good, Cleanly
<1>4. /\ act'.ent = act.ent /\ act'.replaced = act.replaced /\ act'.todo = act.todo \ {e}
      /\ act'.forced = act.forced /\ act'.moving = act.moving /\ act'.backups = act.backups
  BY DEF Reactivate, Good, IInv, TypeOK, ActType
<1>5. PICK ren \in {Rename[e], NoRename} :
         /\ db' = SetState(Activate(NestedReg(e, clock'), e, PutAt(e, ren)), e, "installed")
         /\ disk' = NestedDisk(e, ren, clock')
  BY DEF Reactivate
<1>6. /\ clock' = clock /\ InTheWay(e) = {} /\ PutAt(e, ren) = ImageAt(e)
      /\ NestedReg(e, clock) = MoveRows(db, {}, clock)
  BY <1>1, <1>5, CanBeReactivated
<1> DEFINE m == MoveRows(db, {}, clock)
           d == Activate(m, e, ImageAt(e))
<1>7. db \in Registry /\ clock \in 0..MaxStamp
  BY DEF Good, IInv, TypeOK
<1>8. m \in Registry /\ m.state = db.state
  BY <1>7, MoveRegistry
<1>9. \A o \in Entries, q \in Paths : m.row[o][q] = db.row[o][q]
  BY <1>7, NothingMoves
<1> HIDE DEF m
<1>10. \A o \in Entries, q \in Paths :
          d.row[o][q] = IF o = e /\ q \in Image[e] THEN At(q) ELSE m.row[o][q]
  BY <1>8, ActivateRow DEF ImageAt
<1>11. d \in Registry /\ d.state = m.state
  <2>1. \A q \in DOMAIN ImageAt(e) : ImageAt(e)[q] \in Locs
    BY Constants DEF ImageAt
  <2> QED BY <1>8, <2>1, ActivateRegistry
<1>12. db' = SetState(d, e, "installed")
  BY <1>5, <1>6 DEF m
<1> HIDE DEF d
<1>13. db' \in Registry /\ db'.row = d.row /\ db'.state = [d.state EXCEPT ![e] = "installed"]
  BY <1>11, <1>12, SetStateRegistry
<1>14. \A o \in Entries : db'.state[o] = IF o = e THEN "installed" ELSE db.state[o]
  BY <1>7, <1>8, <1>11, <1>13 DEF Registry
<1>15. \A o \in Entries, q \in Paths :
          db'.row[o][q] = IF o = e /\ q \in Image[e] THEN At(q) ELSE db.row[o][q]
  BY <1>9, <1>10, <1>13
<1>16. \A q \in Paths : db'.row[e][q] = IF q \in Image[e] THEN At(q) ELSE Off
  BY <1>1, <1>2, <1>15 DEF Good, Cleanly, InPlace
<1>17. \A o \in Entries : o # e => db'.row[o] = db.row[o]
  BY <1>7, <1>13, <1>15 DEF Registry
<1>18. InPlace(db)'
  BY <1>14, <1>16, <1>17 DEF InPlace, Good, Cleanly, Replaceable
<1>19. db'.row[e] = before.db.row[e]
  <2>1. before.db \in Registry
    BY DEF Good, IInv, TypeOK, BeforeType
  <2>2. \A q \in Paths : before.db.row[e][q] = IF q \in Image[e] THEN At(q) ELSE Off
    BY <1>2, <1>3 DEF FoundOK, InPlace
  <2> QED BY <1>13, <1>16, <2>1, <2>2 DEF Registry
<1>20. OthersOK'
  <2> SUFFICES ASSUME NEW o \in Entries, PortOf[o] # PortOf[before.ent]
               PROVE  (AsBefore(o) \/ (o \in Yielded /\ db.state[o] = "imaged"))'
    BY <1>1 DEF OthersOK
  <2>1. CASE o = e
    BY <1>1, <1>2, <1>14, <1>19, <2>1 DEF AsBefore
  <2>2. CASE o # e
    <3>1. db'.state[o] = db.state[o] /\ db'.row[o] = db.row[o]
      BY <1>14, <1>17, <2>2
    <3>2. o \in Yielded => o \in Yielded'
      BY <1>1, <1>4, <2>2 DEF Yielded, AtReplaced, WritePcs, DeaPcs
    <3> QED BY <1>1, <1>3, <3>1, <3>2 DEF OthersOK, AsBefore
  <2> QED BY <2>1, <2>2
<1>21. Unforced'
  BY <1>1, <1>4, IdleUnforced DEF Good, Cleanly, Unforced
<1>22. Chosen'
  BY <1>1, <1>2, <1>3, <1>4, <1>14 DEF Chosen, InPlaceOf, AtOlds, AtReplaced, DeaPcs
<1>23. \A l \in Locs : disk'[l] = User => disk[l] = User
  BY <1>5, <1>6, ContentAssumption DEF NestedDisk
<1>24. FoundOK'
  BY <1>1, <1>3, <1>4, <1>23 DEF FoundOK, InPlace, OneOwner, Owners
<1> QED BY <1>1, <1>2, <1>18, <1>20, <1>21, <1>22, <1>24 DEF CleanStep, Cleanly, Good

\* Ports that were never deactivated need not be activated, and at the end all
\* are as they were.
LEMMA RollBackClean == ASSUME Good, Unrenamed, RollBackStep PROVE CleanStep
<1>1. ASSUME NEW e \in Entries, StillActive(e) PROVE CleanStep
  <2>1. /\ pc = "reactivate" /\ pc' = "reactivate" /\ e \in act.todo
        /\ db.state[e] = "installed" /\ UNCHANGED <<db, disk, stuck, before, result>>
    BY <1>1 DEF StillActive
  <2>2. /\ act'.ent = act.ent /\ act'.replaced = act.replaced /\ act'.todo = act.todo \ {e}
        /\ act'.forced = act.forced /\ act'.moving = act.moving /\ act'.backups = act.backups
    BY <1>1 DEF StillActive, Good, IInv, TypeOK, ActType
  <2>3. before.ent # None
    BY <2>1, TodoFound
  <2>4. Unforced'
    BY <2>1, <2>2, IdleUnforced DEF Good, Cleanly, Unforced
  <2>5. Chosen'
    BY <2>1, <2>2, <2>3 DEF Good, Cleanly, Chosen, InPlaceOf, AtOlds, AtReplaced, DeaPcs
  <2>6. \A o \in Yielded : db.state[o] = "imaged" => o \in Yielded'
    BY <2>1, <2>2 DEF Yielded, AtReplaced, WritePcs, DeaPcs
  <2> QED BY <2>1, <2>2, <2>3, <2>4, <2>5, <2>6, GoesOn
<1>2. CASE Rethrow
  <2>1. Yielded = {} /\ pc = "reactivate"
    BY <1>2 DEF Rethrow, Yielded, AtReplaced, WritePcs, DeaPcs
  <2> QED BY <1>2, <2>1, EndsClean DEF Rethrow
<1> QED BY <1>1, <1>2, UndoClean, ReactivateClean, ReactivateErrorClean DEF RollBackStep

\* The commit of a deactivation: only that port's files and state are gone.
LEMMA DeactivateCommitClean == ASSUME Good, DeactivateCommit PROVE CleanStep
<1>1. /\ pc = "ddelete" /\ pc' = "dend"
      /\ UNCHANGED <<disk, stuck, act, dea, before, result>>
  BY DEF DeactivateCommit
<1>2. /\ dea.ent \in Entries /\ db' \in Registry /\ db \in Registry
      /\ db'.state = [db.state EXCEPT ![dea.ent] = "imaged"]
      /\ \A o \in Entries, q \in Paths :
           db'.row[o][q] = IF o = dea.ent THEN Off ELSE db.row[o][q]
  BY Deactivated DEF Good, IInv, TypeOK
<1>3. \A o \in Entries : db'.state[o] = IF o = dea.ent THEN "imaged" ELSE db.state[o]
  BY <1>2 DEF Registry
<1>4. \A o \in Entries : o # dea.ent => db'.row[o] = db.row[o]
  BY <1>2 DEF Registry
<1>5. InPlace(db)'
  BY <1>2, <1>3 DEF Good, Cleanly, InPlace, Replaceable
<1>6. CASE before.ent = None
  BY <1>1, <1>5, <1>6, AloneGoesOn DEF DeaPcs
<1>7. CASE before.ent # None
  <2>1. FoundOK /\ Chosen /\ OthersOK
    BY <1>1, <1>7 DEF Good, Cleanly
  <2>2. dea.ret \in {"olds", "replaced"}
    BY <1>1, <2>1 DEF Chosen, DeaPcs, Good, IInv, TypeOK, DeaType
  <2>3. Unforced'
    BY <1>1 DEF Good, Cleanly, Unforced, Forward, BeforeWrite, WritePcs, DeaPcs
  <2>4. Chosen'
    BY <1>1, <2>1 DEF Chosen, InPlaceOf, AtOlds, AtReplaced, DeaPcs
  <2>5. FoundOK'
    BY <1>1, <2>1 DEF FoundOK, InPlace, OneOwner, Owners
  <2>6. Yielded' = Yielded
    BY <1>1 DEF Yielded, AtReplaced, WritePcs, DeaPcs
  <2>7. PortOf[dea.ent] # PortOf[before.ent] => dea.ent \in Yielded
    BY <1>1, <2>1, <2>2 DEF Chosen, FoundOK, Yielded, AtReplaced, DeaPcs
  <2>8. OthersOK'
    BY <1>1, <1>3, <1>4, <2>1, <2>6, <2>7 DEF OthersOK, AsBefore
  <2> QED BY <1>1, <1>5, <1>7, <2>3, <2>4, <2>5, <2>8 DEF CleanStep, Cleanly, Good
<1> QED BY <1>6, <1>7

\* The other steps of a deactivation.
LEMMA DeactivateClean == ASSUME Good, DeactivateStep PROVE CleanStep
<1>1. ASSUME DeactivateBegin \/ \E l \in Locs : DeleteFile(l) PROVE CleanStep
  <2>1. /\ pc \in DeaPcs /\ pc' \in DeaPcs /\ UNCHANGED <<db, stuck, before, result, act>>
    BY <1>1 DEF DeactivateBegin, DeleteFile, DeaPcs
  <2>2. dea'.ret = dea.ret /\ dea'.ent = dea.ent
    BY <1>1 DEF DeactivateBegin, DeleteFile, Good, IInv, TypeOK, DeaType
  <2>3. \A l \in Locs : disk'[l] = User => disk[l] = User
    BY <1>1, ContentAssumption DEF DeactivateBegin, DeleteFile, Good, IInv, TypeOK
  <2>4. InPlace(db)'
    BY <2>1 DEF Good, Cleanly, InPlace
  <2> QED BY <2>1, <2>2, <2>3, <2>4, AloneGoesOn, CalledGoesOn
<1>2. ASSUME DeactivateEnd PROVE CleanStep
  <2>1. pc = "dend" /\ UNCHANGED <<db, disk, stuck>>
    BY <1>2 DEF DeactivateEnd
  <2>2. CASE dea.ret = "idle"
    BY <1>2, <2>1, <2>2, EndsClean DEF DeactivateEnd
  <2>3. CASE dea.ret # "idle"
    <3>1. /\ pc' = dea.ret /\ pc' \in {"olds", "replaced"}
          /\ UNCHANGED <<act, before, result>>
      BY <1>2, <2>3 DEF DeactivateEnd, Good, IInv, TypeOK, DeaType
    <3>2. before.ent # None /\ Forward
      BY <2>1, <2>3 DEF Good, Cleanly, Forward, BeforeWrite, DeaPcs
    <3>3. Unforced'
      BY <3>1, <3>2 DEF Good, Cleanly, Unforced, WritePcs
    <3>4. Chosen'
      BY <2>1, <3>1, <3>2 DEF Good, Cleanly, Chosen, InPlaceOf, AtOlds, AtReplaced, DeaPcs
    <3>5. Yielded' = Yielded
      BY <2>1, <3>1 DEF Yielded, AtReplaced, WritePcs, DeaPcs
    <3> QED BY <2>1, <3>1, <3>2, <3>3, <3>4, <3>5, GoesOn
  <2> QED BY <2>2, <2>3
<1> QED BY <1>1, <1>2, DeactivateCommitClean DEF DeactivateStep, DeactivateStuck, Good, Cleanly

\* Only forward steps fail.
LEMMA FailureClean == ASSUME Good, Plain, Failure PROVE CleanStep
<1>1. IoError
  BY DEF Failure, AttributesError, DeleteError, CommitError, Signal, Crash, Fault, Plain
<1>2. CASE Deactivating
  BY <1>1, <1>2, DeactivateRaiseClean DEF IoError, Deactivating
<1>3. CASE ~ Deactivating
  <2>1. /\ pc \in {"olds", "convert", "drop", "scan", "replaced", "put", "rename"}
        /\ UNCHANGED <<db, stuck, disk>>
        /\ Raise(pc) \/ (pc = "replaced" /\ Raise("register"))
    BY <1>1, <1>3 DEF IoError, Deactivating, Good, Cleanly, Unforced
  <2>2. before.ent # None /\ Forward
    BY <2>1 DEF Good, Cleanly, Forward, BeforeWrite, WritePcs, DeaPcs
  <2>3. CASE pc \in {"olds", "convert", "drop"}
    <3>1. Yielded = {} /\ pc \notin OuterTry
      BY <2>3 DEF Yielded, AtReplaced, WritePcs, DeaPcs, OuterTry, InnerTry
    <3> QED BY <2>1, <2>2, <2>3, <3>1, RaiseClean
  <2>4. CASE pc \in {"scan", "replaced", "put", "rename"}
    <3>1. ~ AtOlds /\ pc \in OuterTry /\ "register" \in OuterTry
      BY <2>4 DEF AtOlds, DeaPcs, OuterTry, InnerTry
    <3> QED BY <2>1, <2>2, <2>4, <3>1, RaiseClean
  <2> QED BY <2>1, <2>3, <2>4
<1> QED BY <1>2, <1>3

\* Every step, as long as no activation is forced.
LEMMA NextClean ==
    ASSUME Good, Plain, Unrenamed, ~ force, [Next]_vars PROVE CleanStep
<1>1. CASE ActivateStep
  <2>1. ASSUME NEW p \in Paths, ForceFile(p) \/ MoveAside(p) PROVE FALSE
    BY <2>1 DEF ForceFile, MoveAside, Good, Cleanly, Unforced
  <2>2. ~ NoteBackup
    BY DEF NoteBackup, Good, Cleanly, Unforced
  <2> QED BY <1>1, <2>1, <2>2, CallClean, ConvertClean, ScanClean, ScanErrorClean, RegisterClean,
             RegisterErrorClean, PutClean, WriteClean, RenameRowClean, CommitClean
          DEF ActivateStep
<1>2. CASE \E p \in Paths : UserCreates(p)
  <2>1. pc = "idle" /\ UNCHANGED <<db, tx, pc, act, stuck, result>>
    BY <1>2 DEF UserCreates, Plain, Undisturbed
  <2>2. InPlace(db)'
    BY <2>1 DEF Good, Cleanly, InPlace
  <2>3. Unforced'
    BY <2>1, IdleUnforced DEF Good, Cleanly, Unforced
  <2> QED BY <2>1, <2>2, <2>3 DEF CleanStep, Cleanly, Good
<1>3. CASE UNCHANGED vars
  <2>1. UNCHANGED <<disk, db, tx, stuck, pc, act, dea, before, result>>
    BY <1>3 DEF vars
  <2>2. InPlace(db)' /\ (FoundOK => FoundOK') /\ (OthersOK => OthersOK')
    BY <2>1 DEF Good, Cleanly, InPlace, FoundOK, OneOwner, Owners, OthersOK, AsBefore, Yielded,
                AtReplaced
  <2>3. Unforced' /\ (Chosen => Chosen')
    BY <2>1 DEF Good, Cleanly, Unforced, Forward, BeforeWrite, Chosen, InPlaceOf, AtOlds,
                AtReplaced
  <2> QED BY <2>1, <2>2, <2>3 DEF CleanStep, Cleanly, Good
<1> QED BY <1>1, <1>2, <1>3, StartClean, RollBackClean, DeactivateClean, FailureClean
        DEF Next, Step

\* To begin with there is nothing of any of this.
LEMMA InitClean == ASSUME Init PROVE Cleanly
<1>1. pc = "idle" /\ db = Fresh /\ act = NoAct /\ ~ stuck
  BY DEF Init
<1>2. InPlace(db)
  BY <1>1 DEF InPlace, Fresh, Replaceable
<1>3. Unforced
  BY <1>1 DEF Unforced, NoAct, Forward, BeforeWrite, WritePcs, DeaPcs
<1> QED BY <1>1, <1>2, <1>3 DEF Cleanly

\* Where the operation is over, the disk says what the registry says.
LEMMA CleanAbort ==
    ASSUME Good, CleanStep, Agreement', pc # "idle", result' = "error", before.ent # None,
           NEW e \in Entries, PortOf[e] # PortOf[before.ent]
    PROVE  /\ db'.state[e] = before.db.state[e]
           /\ \A l \in Locs : before.disk[l] = e <=> disk'[l] = e
<1>1. pc' = "idle" /\ db' = db /\ AsBefore(e)
  BY DEF CleanStep
<1>2. \A l \in Locs : disk'[l] = e <=> e \in Owners(db, l)
  <2>1. \A l : Was(l)' = disk'[l]
    BY <1>1 DEF Was, Moved, Put, InOp, Forward, BeforeWrite, WritePcs, DeaPcs
  <2> QED BY <1>1, <2>1 DEF Agreement, Agrees, AgreesAt
<1>3. \A l \in Locs : before.disk[l] = e <=> e \in Owners(before.db, l)
  BY DEF Good, Cleanly, FoundOK
<1>4. \A l : e \in Owners(db, l) <=> e \in Owners(before.db, l)
  BY <1>1 DEF AsBefore, Owners
<1> QED BY <1>1, <1>2, <1>3, <1>4 DEF AsBefore

\* An activation that is not forced and fails in a forward step leaves every
\* other port as it was: those it replaces are deactivated one by one before the
\* transaction, and when the error clause activates them again nothing is where
\* their files go, so that this cannot fail and ends where it began.
THEOREM FailedActivationsAreClean ==
    ASSUME Plain, OneMode, Unrenamed PROVE Spec /\ []~ force => AbortIsClean
<1> DEFINE Safe == UserSafe /\ Agreement /\ ImagesOK /\ Cleanly
           Abort == (pc # "idle" /\ result' = "error" /\ before.ent # None) =>
                \A e \in Entries : PortOf[e] # PortOf[before.ent] =>
                    /\ db'.state[e] = before.db.state[e]
                    /\ \A l \in Locs : before.disk[l] = e <=> disk'[l] = e
<1>1. Init => Safe
  BY InitSafe, InitAgrees, InitImages, InitClean
<1>2. IInv /\ Safe /\ ~ force /\ [Next]_vars => Safe' /\ Abort
  <2> SUFFICES ASSUME IInv, Safe, ~ force, [Next]_vars PROVE Safe' /\ Abort
    OBVIOUS
  <2>1. UserSafe' /\ Agreement' /\ ImagesOK'
    BY NextSafe, NextAgrees, NextImages DEF Plain
  <2>2. CleanStep
    BY NextClean DEF Good
  <2>3. Abort
    BY <2>1, <2>2, CleanAbort DEF Good
  <2> QED BY <2>1, <2>2, <2>3 DEF CleanStep
<1> HIDE DEF Safe
<1>3. Spec => []IInv
  BY Invariance
<1> QED BY <1>1, <1>2, <1>3, PTL DEF Spec, AbortIsClean
=============================================================================
