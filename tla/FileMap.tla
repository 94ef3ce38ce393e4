------------------------------ MODULE FileMap ------------------------------
(***************************************************************************)
(* The part of the registry that activation works on: for every registry   *)
(* entry its state, and for every file of its image where on disk that     *)
(* file is active, if it is (cregistry/entry.c, tables ports and files).   *)
(* Pure operators on a registry value; transactions are the business of    *)
(* the modules that use them.                                              *)
(***************************************************************************)
EXTENDS Naturals

CONSTANTS
    Entries,    \* registry entries: one per installed version of a port
    Paths,      \* paths under the prefix
    Image,      \* for every entry, the paths its image provides
    MaxStamp    \* bound on the number of backup suffixes in use

ASSUME ImageAssumption == Image \in [Entries -> SUBSET Paths]
ASSUME StampAssumption == MaxStamp \in Nat

\* A location is a path (stamp 0) or its backup path.mp_<stamp>.
Locs == Paths \X (0..MaxStamp)
At(p) == <<p, 0>>
Backup(p, s) == <<p, s>>

Off == <<>>       \* in place of actual_path: the row is not active

Registry == [row   : [Entries -> [Paths -> Locs \cup {Off}]],
             state : [Entries -> {"imaged", "installed"}]]

\* What entry create and entry map leave behind: an image, nothing active.
Fresh == [row   |-> [e \in Entries |-> [q \in Paths |-> Off]],
          state |-> [e \in Entries |-> "imaged"]]

\* registry::entry owner: the entries with an active row at a location
Owners(r, l) == {e \in Entries : \E q \in Paths : r.row[e][q] = l}

\* reg_entry_files
Files(r, e) == {r.row[e][q] : q \in Paths} \ {Off}

-----------------------------------------------------------------------------
\* Mutant: a location in use is taken over.
CanActivateMutTakeOver(r, e, m) ==
    /\ DOMAIN m \subseteq Image[e]
    /\ \A q1, q2 \in DOMAIN m : m[q1] = m[q2] => q1 = q2

\* reg_entry_activate of the files in DOMAIN m as the locations m gives: each
\* must be a file of the entry, and no active row may have its location.
CanActivate(r, e, m) ==
    /\ DOMAIN m \subseteq Image[e]
    /\ \A q \in DOMAIN m : Owners(r, m[q]) = {}
    /\ \A q1, q2 \in DOMAIN m : m[q1] = m[q2] => q1 = q2

Activate(r, e, m) ==
    [r EXCEPT !.row[e] = [q \in Paths |-> IF q \in DOMAIN m THEN m[q] ELSE @[q]]]

\* reg_entry_deactivate: every location must be that of a row of the entry.
CanDeactivate(r, e, locs) == locs \subseteq Files(r, e)

Deactivate(r, e, locs) ==
    [r EXCEPT !.row[e] = [q \in Paths |-> IF @[q] \in locs THEN Off ELSE @[q]]]

\* reg_entry_propset of the state
SetState(r, e, s) == [r EXCEPT !.state[e] = s]

-----------------------------------------------------------------------------
\* No location is claimed by two rows: a file on disk belongs to at most one
\* file of one port.
OneOwner(r) ==
    \A e1, e2 \in Entries : \A q1, q2 \in Paths :
        r.row[e1][q1] = r.row[e2][q2] /\ r.row[e1][q1] # Off
            => e1 = e2 /\ q1 = q2

\* Only ports recorded as active have active files.
ActiveRowsInstalled(r) ==
    \A e \in Entries : Files(r, e) # {} => r.state[e] = "installed"
=============================================================================
