---------------------------- MODULE TargetProofs ----------------------------
(***************************************************************************)
(* Proofs about the targets of a port: which of them one eval_targets runs *)
(* (Dlist, for lists of any length, any tokens and any handlers), and what *)
(* the state file that records them is good for (BuildState, for any       *)
(* targets, variants, number of commands and Portfiles).                   *)
(***************************************************************************)
EXTENDS BuildState, Dlist, FiniteSetTheorems, SequenceTheorems,
        WellFoundedInduction, TLAPS

-----------------------------------------------------------------------------
(* The list of targets, one dlist_eval.                                    *)

\* What holds between the list, the item in hand and the histories: an item
\* that succeeded has left the list, one that ran and is still listed is the
\* one in hand or the one dlist_eval gave up on, and handlers run only on
\* listed items.
Bookkeeping ==
    /\ good \cap dlist = {}
    /\ pc = "handler" => ditem \in dlist /\ ditem \in ran
    /\ pc # "handler" => ditem = NULL
    /\ pc # "done" => ran \cap dlist \subseteq {ditem}
    /\ pc = "prerun" => ran = {}

\* The inductive invariant.
DlistInv == TypeOK /\ Bookkeeping /\ MetByGood /\ RequiresMet /\ FailureStops

\* An item the selector returns has every token it requires met.
LEMMA NextRequiresMet ==
    ASSUME NEW d \in dlist, IsNext(d)
    PROVE  \A t \in cat.requires[d] : status[t] = "met"
BY DEF IsNext, Eligible, Unmet

\* dlist_eval starts in the inductive invariant.
LEMMA InitInv == EvalInit => DlistInv
<1> SUFFICES ASSUME EvalInit PROVE DlistInv
  OBVIOUS
<1>1. TypeOK
  BY CatalogAssumption, ModesAssumption
  DEF EvalInit, TypeOK, Status, Reasons, PCs
<1>2. Bookkeeping /\ MetByGood /\ RequiresMet /\ FailureStops
  BY NullAssumption DEF EvalInit, Bookkeeping, MetByGood, RequiresMet, FailureStops
<1> QED BY <1>1, <1>2 DEF DlistInv

\* Every step of dlist_eval preserves it.
LEMMA StepInv == DlistInv /\ [EvalNext]_evalVars => DlistInv'
<1> SUFFICES ASSUME DlistInv, [EvalNext]_evalVars PROVE DlistInv'
  OBVIOUS
<1> USE DEF DlistInv, TypeOK
<1> USE NullAssumption
<1>1. CASE PreRun
  <2> PICK S \in SUBSET dlist :
        status' = Record(S, "met") /\ dlist' = dlist \ S /\ good' = good \cup S
    BY <1>1 DEF PreRun
  <2>1. TypeOK'
    BY <1>1 DEF PreRun, Record, Status, PCs
  <2>2. Bookkeeping'
    BY <1>1 DEF PreRun, Bookkeeping
  <2>3. MetByGood'
    BY <1>1 DEF PreRun, Record, MetByGood
  <2>4. RequiresMet' /\ FailureStops'
    BY <1>1 DEF PreRun, RequiresMet, FailureStops, Bookkeeping
  <2> QED BY <2>1, <2>2, <2>3, <2>4
<1>2. CASE Select
  <2> PICK d \in dlist : IsNext(d) /\ ditem' = d /\ ran' = ran \cup {d}
    BY <1>2 DEF Select
  <2>1. TypeOK'
    BY <1>2 DEF Select, PCs
  <2>2. Bookkeeping'
    BY <1>2 DEF Select, Bookkeeping
  <2>3. MetByGood'
    BY <1>2 DEF Select, MetByGood
  <2>4. RequiresMet'
    <3>1. \A t \in cat.requires[d] : t \in Tokens /\ status[t] = "met"
      BY NextRequiresMet DEF Catalog
    <3>2. \A t \in cat.requires[d] : \E p \in good \ {d} : t \in cat.provides[p]
      BY <3>1 DEF MetByGood, Bookkeeping
    <3> QED BY <1>2, <3>2 DEF Select, RequiresMet
  <2>5. FailureStops'
    BY <1>2 DEF Select, FailureStops, Bookkeeping
  <2> QED BY <2>1, <2>2, <2>3, <2>4, <2>5
<1>3. CASE Exhausted
  <2>1. TypeOK'
    BY <1>3 DEF Exhausted, Reasons, PCs
  <2>2. Bookkeeping' /\ MetByGood' /\ RequiresMet' /\ FailureStops'
    BY <1>3 DEF Exhausted, Bookkeeping, MetByGood, RequiresMet, FailureStops
  <2> QED BY <2>1, <2>2
<1>4. CASE HandlerOk
  <2>1. TypeOK'
    BY <1>4 DEF HandlerOk, Bookkeeping, Record, Status, PCs
  <2>2. Bookkeeping'
    BY <1>4 DEF HandlerOk, Bookkeeping
  <2>3. MetByGood'
    BY <1>4 DEF HandlerOk, Record, MetByGood
  <2>4. RequiresMet' /\ FailureStops'
    BY <1>4 DEF HandlerOk, RequiresMet, FailureStops
  <2> QED BY <2>1, <2>2, <2>3, <2>4
<1>5. CASE HandlerFail
  <2>1. TypeOK'
    BY <1>5 DEF HandlerFail, Record, Status, Reasons, PCs
  <2>2. Bookkeeping'
    BY <1>5 DEF HandlerFail, Bookkeeping
  <2>3. MetByGood'
    BY <1>5 DEF HandlerFail, Record, MetByGood
  <2>4. RequiresMet' /\ FailureStops'
    BY <1>5 DEF HandlerFail, RequiresMet, FailureStops
  <2> QED BY <2>1, <2>2, <2>3, <2>4
<1>6. CASE HandlerThrow
  <2>1. TypeOK'
    BY <1>6 DEF HandlerThrow, Reasons, PCs
  <2>2. Bookkeeping' /\ MetByGood' /\ RequiresMet' /\ FailureStops'
    BY <1>6 DEF HandlerThrow, Bookkeeping, MetByGood, RequiresMet, FailureStops
  <2> QED BY <2>1, <2>2
<1>7. CASE UNCHANGED evalVars
  BY <1>7 DEF evalVars, Bookkeeping, MetByGood, RequiresMet, FailureStops, Unmet
<1> QED BY <1>1, <1>2, <1>3, <1>4, <1>5, <1>6, <1>7 DEF EvalNext

\* Type correctness, and the bookkeeping the other results rest on.
THEOREM InvHolds == EvalSpec => []DlistInv
BY InitInv, StepInv, PTL DEF EvalSpec

\* No handler is ever invoked on an item whose required tokens were not all
\* supplied by other items that succeeded.
THEOREM RequiresMetHolds == EvalSpec => []RequiresMet
<1>1. DlistInv => RequiresMet
  BY DEF DlistInv
<1> QED BY <1>1, InvHolds, PTL

\* Without canfail nothing runs after a failure.
THEOREM FailureStopsHolds == EvalSpec => []FailureStops
<1>1. DlistInv => FailureStops
  BY DEF DlistInv
<1> QED BY <1>1, InvHolds, PTL

\* No handler is invoked twice on an item, nor on one found done beforehand.
THEOREM RunOnceHolds == EvalSpec => RunOnce
<1>1. DlistInv /\ [EvalNext]_evalVars
        => [ditem' # NULL /\ ditem' # ditem => ditem' \notin ran \cup good]_evalVars
  BY DEF DlistInv, Bookkeeping, EvalNext, PreRun, Select, Exhausted, HandlerOk,
         HandlerFail, HandlerThrow, evalVars
<1> QED BY <1>1, InvHolds, PTL DEF EvalSpec, RunOnce

\* A token counts as met only because an item that provides it succeeded.
THEOREM MetByGoodHolds == EvalSpec => []MetByGood
<1>1. DlistInv => MetByGood
  BY DEF DlistInv
<1> QED BY <1>1, InvHolds, PTL

\* A handler never runs before something that is still listed and could meet
\* one of its item's unmet soft dependencies.
THEOREM SoftDepsAwaitedHolds == EvalSpec => []SoftDepsAwaited
<1>1. EvalInit => SoftDepsAwaited
  BY DEF EvalInit, SoftDepsAwaited
<1>2. SoftDepsAwaited /\ [EvalNext]_evalVars => SoftDepsAwaited'
  <2> SUFFICES ASSUME SoftDepsAwaited, [EvalNext]_evalVars, pc' = "handler"
               PROVE  \A t \in Unmet(cat.uses[ditem])' : \A p \in dlist' :
                          t \notin cat'.provides[p]
    BY DEF SoftDepsAwaited
  <2>1. CASE Select
    <3>1. PICK d \in dlist : Eligible(d) /\ ditem' = d
      BY <2>1 DEF Select, IsNext
    <3>2. /\ dlist' = dlist /\ cat' = cat /\ status' = status
          /\ Unmet(cat.uses[ditem])' = Unmet(cat.uses[d])
      BY <2>1, <3>1 DEF Select, Unmet
    <3>3. \A t \in Unmet(cat.uses[d]) : \A p \in dlist : t \notin cat.provides[p]
      BY <3>1 DEF Eligible, HasPending, Unmet
    <3> QED BY <3>2, <3>3
  <2>2. CASE UNCHANGED evalVars
    BY <2>2 DEF SoftDepsAwaited, Unmet, evalVars
  <2>3. ~ (PreRun \/ Exhausted \/ HandlerOk \/ HandlerFail \/ HandlerThrow)
    BY DEF PreRun, Exhausted, HandlerOk, HandlerFail, HandlerThrow
  <2> QED BY <2>1, <2>2, <2>3 DEF EvalNext
<1> QED BY <1>1, <1>2, PTL DEF EvalSpec

-----------------------------------------------------------------------------
(* The selector finds an item whenever there is one: dlist_get_next keeps   *)
(* the best so far, and a best one exists.                                 *)

\* "<" on natural numbers, as a relation.
Below == {p \in Nat \X Nat : p[1] < p[2]}

\* It is well founded.
LEMMA BelowWellFounded == IsWellFoundedOn(Below, Nat)
BY NatLessThanWellFounded DEF OpToRel, Below

\* A set of natural numbers that is not empty has a least element.
LEMMA Least ==
    ASSUME NEW S, S \subseteq Nat, S # {}
    PROVE  \E x \in S : \A y \in S : x <= y
<1>1. PICK x \in S : \A y \in S : <<y, x>> \notin Below
  <2> HIDE DEF Below
  <2> QED BY ONLY BelowWellFounded, WFMin, S \subseteq Nat, S # {}
<1>2. ASSUME NEW y \in S PROVE x <= y
  <2>1. <<y, x>> \in Nat \X Nat
    OBVIOUS
  <2>2. ~ (<<y, x>>[1] < <<y, x>>[2])
    BY <1>1, <2>1 DEF Below
  <2> QED BY <2>2
<1> QED BY <1>2

\* If an item of the list is eligible then one is the next: of those with the
\* fewest unmet soft dependencies, the first.
LEMMA NextExists ==
    ASSUME TypeOK, NEW e \in dlist, Eligible(e)
    PROVE  \E d \in dlist : IsNext(d)
<1> DEFINE Missing(d) == Cardinality(Unmet(cat.uses[d]))
           E == {d \in dlist : Eligible(d)}
           Counts == {Missing(d) : d \in E}
<1>1. \A d \in dlist : Missing(d) \in Nat
  <2> TAKE d \in dlist
  <2>1. Unmet(cat.uses[d]) \subseteq Tokens
    BY DEF TypeOK, Catalog, Unmet
  <2> QED BY <2>1, TokensAssumption, FS_Subset, FS_CardinalityType
<1>2. PICK k \in Counts : \A n \in Counts : k <= n
  <2>1. Counts \subseteq Nat /\ Counts # {}
    BY <1>1
  <2> HIDE DEF Counts
  <2> QED BY <2>1, Least
<1>3. PICK d \in {x \in E : Missing(x) = k} : \A x \in {y \in E : Missing(y) = k} : d <= x
  <2>1. {x \in E : Missing(x) = k} \subseteq Nat /\ {x \in E : Missing(x) = k} # {}
    BY <1>2, NAssumption DEF TypeOK, Items
  <2> HIDE DEF E, Missing
  <2> QED BY <2>1, Least
<1>4. ASSUME NEW x \in dlist, Eligible(x) PROVE Better(d, x)
  <2>1. Missing(x) \in Counts /\ Missing(d) = k
    BY <1>3, <1>4
  <2>2. k <= Missing(x) /\ (Missing(x) = k => d <= x)
    BY <2>1, <1>2, <1>3, <1>4
  <2>3. Missing(x) \in Nat /\ Missing(d) \in Nat
    BY <1>1, <1>3
  <2> QED BY <2>1, <2>2, <2>3 DEF Better
<1> QED BY <1>3, <1>4 DEF IsNext

\* Every item is accounted for: it is listed, was tried or was found done, and
\* a reason is only given at the end.
Accounted ==
    /\ Items \subseteq dlist \cup ran \cup good
    /\ pc # "done" => reason = ""

\* dlist_eval starts with everything listed.
LEMMA InitAccounted == EvalInit => Accounted /\ ReturnTruthful
BY DEF EvalInit, Accounted, ReturnTruthful

\* When the selector finds nothing, every item that is left is stuck.
LEMMA LeftAreStuck ==
    ASSUME TypeOK, \A d \in dlist : ~ IsNext(d)
    PROVE  \A d \in dlist : Stuck(d)
<1> TAKE d \in dlist
<1>1. ~ Eligible(d)
  BY NextExists
<1>2. CASE Unmet(cat.requires[d]) # {}
  BY <1>2 DEF Unmet, Stuck, WaitsFor
<1>3. CASE HasPending(cat.uses[d])
  BY <1>3 DEF HasPending, Stuck, WaitsFor
<1> QED BY <1>1, <1>2, <1>3 DEF Eligible

\* Every step keeps the account, and the last one returns the truth.
LEMMA StepAccounted ==
    DlistInv /\ Accounted /\ ReturnTruthful /\ [EvalNext]_evalVars
        => Accounted' /\ ReturnTruthful'
<1> SUFFICES ASSUME DlistInv, Accounted, ReturnTruthful, [EvalNext]_evalVars
             PROVE  Accounted' /\ ReturnTruthful'
  OBVIOUS
<1> USE DEF DlistInv
<1>1. CASE PreRun
  BY <1>1 DEF PreRun, Accounted, ReturnTruthful
<1>2. CASE Select
  BY <1>2 DEF Select, Accounted, ReturnTruthful
<1>3. CASE Exhausted
  <2>1. Accounted'
    BY <1>3 DEF Exhausted, Accounted
  <2>2. /\ reason' = IF dlist # {} THEN "unmet_deps" ELSE ""
        /\ dlist' = dlist /\ ran' = ran /\ good' = good /\ cat' = cat /\ status' = status
    BY <1>3 DEF Exhausted, Accounted
  <2>3. \A d \in dlist : Stuck(d)'
    BY <1>3, <2>2, LeftAreStuck DEF Exhausted, Stuck, WaitsFor
  <2>4. dlist = {} => Items = ran \cup good
    BY DEF Accounted, TypeOK
  <2> QED BY <2>1, <2>2, <2>3, <2>4 DEF ReturnTruthful
<1>4. CASE HandlerOk
  BY <1>4 DEF HandlerOk, Accounted, ReturnTruthful, Bookkeeping
<1>5. CASE HandlerFail
  <2>1. ditem \in dlist /\ ditem \in ran /\ ditem \notin good /\ reason = ""
    BY <1>5 DEF HandlerFail, Bookkeeping, Accounted
  <2>2. Accounted'
    BY <1>5, <2>1 DEF HandlerFail, Accounted
  <2> QED BY <1>5, <2>1, <2>2 DEF HandlerFail, ReturnTruthful
<1>6. CASE HandlerThrow
  <2>1. ditem \in dlist /\ ditem \in ran /\ ditem \notin good
    BY <1>6 DEF HandlerThrow, Bookkeeping
  <2> QED BY <1>6, <2>1 DEF HandlerThrow, Accounted, ReturnTruthful
<1>7. CASE UNCHANGED evalVars
  BY <1>7 DEF evalVars, Accounted, ReturnTruthful, Stuck, WaitsFor
<1> QED BY <1>1, <1>2, <1>3, <1>4, <1>5, <1>6, <1>7 DEF EvalNext

\* What dlist_eval returns is true: an empty list means that every item was
\* tried, "unmet_deps" that those left are stuck, "handler" that one failed.
THEOREM ReturnTruthfulHolds == EvalSpec => []ReturnTruthful
<1>1. EvalInit => DlistInv /\ Accounted /\ ReturnTruthful
  BY InitInv, InitAccounted
<1>2. DlistInv /\ Accounted /\ ReturnTruthful /\ [EvalNext]_evalVars
        => (DlistInv /\ Accounted /\ ReturnTruthful)'
  BY StepInv, StepAccounted
<1> QED BY <1>1, <1>2, PTL DEF EvalSpec

-----------------------------------------------------------------------------
(* The state file: where the commands leave it in peace what is recorded   *)
(* is done, what is skipped is the command's own, and what is installed is *)
(* whole.                                                                  *)

\* The scenarios in which the state file can be relied on: commands follow one another, the
\* Portfile is edited between them and none dies while an archive is moved; or builds
\* of variants run side by side in a work directory that has a state file.
Calm(s) ==
    \/ s.alone /\ s.edits # "any" /\ ~s.cut
    \/ /\ ~s.alone /\ s.begun /\ s.edits = "never"
       /\ s.goals \subseteq {"build"} /\ s.opts = {} /\ {} \notin s.variants

-----------------------------------------------------------------------------
(* The invariant.                                                          *)

SourceLen == Len(Source)
Idle == {"new", "ended"}
\* Where a command has the state file locked.
Locked == {"version", "checksum", "opened", "running", "moved", "register"}
\* What only a command does that has no others beside it.
AlonePcs == {"discard", "version", "checksum", "moved", "register", "clean"}
CommandPcs == Idle \cup Locked \cup {"enter", "compare", "discard", "open", "lock", "clean"}

StateFile == [version : BOOLEAN, sums : Seq(Nat), variants : SUBSET UNION Variants,
              targets : SUBSET (Targets \cup {"archivefetch"}), older : BOOLEAN]
Command == [pc : CommandPcs, goal : {"build", "install", "clean"}, vars : SUBSET UNION Variants,
            opts : SUBSET {"o", "f"}, loaded : Nat, at : 0 .. SourceLen + 2, sum : Nat,
            fresh : BOOLEAN, fd : Inodes \cup {NoFile}]

BuildType ==
    /\ scen \in Scenarios /\ Calm(scen)
    /\ portfile \in 1 .. MaxPortfile
    /\ files \in [Inodes -> StateFile]
    /\ cur \in Inodes \cup {NoFile}
    /\ DOMAIN lock = Inodes /\ lock = [i \in Inodes |-> lock[i]]
    /\ DOMAIN made = Targets /\ made = [t \in Targets |-> made[t]]
    /\ verified \subseteq Variants
    /\ DOMAIN image = Variants /\ image = [v \in Variants |-> image[v]]
    /\ registered \subseteq Variants
    /\ cmd \in [Commands -> Command]

\* The file is of the Portfile on disk.
Fine(f) == IF f.version THEN ~Outdated(f, portfile) ELSE ~f.older
Blank(f) == f.sums = <<>> /\ f.variants = {} /\ f.targets = {}

\* What command c relies on from stage k on: the file is there, of its Portfile and for its
\* variants, and the targets before k are recorded.
Settled(c, k) ==
    /\ cur # NoFile
    /\ "o" \in cmd[c].opts \/ Fine(files[cur])
    /\ "f" \in cmd[c].opts \/ files[cur].variants = cmd[c].vars
    /\ \A j \in 1 .. k - 2 : Source[j] \in files[cur].targets

\* Its channel and its lock are those of the state file, its own until the file is dropped.
Holds(c) ==
    /\ cmd[c].pc \in Locked => lock[cmd[c].fd] = c
    /\ cmd[c].pc \in (Locked \ {"register"}) \cup {"compare", "lock"} =>
          cmd[c].fd = cur /\ cur # NoFile
    /\ cmd[c].pc \in Idle \cup {"enter", "clean"} => cmd[c].fd = NoFile
\* What it was asked for, with the Portfile that is on disk.
Asked(c) ==
    /\ cmd[c].pc = "new" => cmd[c] = NewCommand
    /\ cmd[c].pc \in Idle => cmd[c].at = 0
    /\ Active(c) => /\ cmd[c].loaded = portfile /\ cmd[c].vars \in scen.variants
                    /\ cmd[c].goal \in scen.goals
    /\ cmd[c].pc \notin Idle \cup {"enter", "clean"} => cmd[c].sum = portfile
    /\ cmd[c].at <= Last(cmd[c].goal)
    /\ cmd[c].pc \in {"moved", "register"} => cmd[c].at = SourceLen + 2
    /\ cmd[c].pc \in {"discard", "version", "checksum", "clean"} \/ cmd[c].fresh => cmd[c].at = 0
\* What it has found of the state.
Finds(c) ==
    /\ cmd[c].pc = "compare" => files[cur].version /\ "o" \notin cmd[c].opts /\ ~cmd[c].fresh
    /\ cmd[c].pc = "open" => (cmd[c].fresh <=> cur = NoFile)
    /\ (cmd[c].pc = "lock" /\ cmd[c].fresh) \/ cmd[c].pc \in {"version", "checksum"} =>
          Blank(files[cur])
    /\ (cmd[c].pc \in {"open", "lock"} /\ ~cmd[c].fresh) \/ cmd[c].pc = "opened" =>
          "o" \in cmd[c].opts \/ Fine(files[cur])
    /\ cmd[c].at > 0 /\ cmd[c].pc # "register" => Settled(c, cmd[c].at)
    /\ cmd[c].pc = "running" =>
          cmd[c].at \in 2 .. SourceLen + 1 /\ made[Source[cmd[c].at - 1]] # Absent
CommandOk(c) == Holds(c) /\ Asked(c) /\ Finds(c)

\* One command at a time, or only builds that agree on the Portfile.
Together ==
    /\ scen.alone => \A c, d \in Commands : Active(c) /\ Active(d) => c = d
    /\ ~scen.alone =>
          /\ cur # NoFile /\ files[cur].version /\ Fine(files[cur])
          /\ \A c \in Commands : /\ ~cmd[c].fresh /\ cmd[c].opts = {}
                                 /\ cmd[c].pc \notin AlonePcs

\* What the state file says of the work directory. A target is recorded after those it
\* requires.
FileOk ==
    cur # NoFile =>
        /\ files[cur].sums # <<>> => Head(files[cur].sums) <= portfile
        /\ \A i, j \in 1 .. SourceLen : j < i /\ Source[i] \in files[cur].targets =>
              Source[j] \in files[cur].targets
        /\ Plain /\ Fine(files[cur]) =>
              \A t \in files[cur].targets \cap Targets :
                  \/ made[t] = Work(portfile, files[cur].variants)
                  \/ Archived(files[cur].variants)

Whole(v) ==
    \/ image[v].from \in {"archive", "left"}
    \/ \E n \in 1 .. MaxPortfile : image[v].work = [t \in Targets |-> Work(n, v)]
\* The image is whole before it is registered.
ImagesOk == Plain =>
    \A c \in Commands : cmd[c].pc \in {"moved", "register"} => Whole(cmd[c].vars)

BuildInv ==
    /\ BuildType /\ Together /\ \A c \in Commands : CommandOk(c)
    /\ FileOk /\ RecordedIsDone
    /\ ImagesOk /\ InstalledIsWhole

-----------------------------------------------------------------------------
(* The stages.                                                             *)

\* Fetching an archive, the targets, the install.
LEMMA StageNames ==
    /\ SourceLen \in Nat /\ SourceLen >= 1 /\ Len(Stages) = SourceLen + 2
    /\ Stages[1] = "archivefetch" /\ Stages[SourceLen + 2] = "install"
    /\ \A k \in 2 .. SourceLen + 1 : Stages[k] = Source[k - 1] /\ Source[k - 1] \in Targets
    /\ "archivefetch" \notin Targets /\ "install" \notin Targets
    /\ \A i, j \in 1 .. SourceLen : Source[i] = Source[j] => i = j
    /\ Targets = {Source[i] : i \in 1 .. SourceLen}
    /\ Destroot = Source[SourceLen] /\ Destroot \in Targets
<1> DEFINE a == <<"archivefetch">>
           b == <<"install">>
           S == STRING \cup {"archivefetch", "install"}
<1>1. /\ Source \in Seq(STRING) /\ SourceLen \in Nat /\ SourceLen >= 1
      /\ DOMAIN Source = 1 .. SourceLen
      /\ \A i, j \in 1 .. SourceLen : Source[i] = Source[j] => i = j
      /\ \A i \in 1 .. SourceLen : Source[i] \notin {"archivefetch", "install"}
  BY SourceAssumption, LenProperties, EmptySeq DEF SourceLen
<1>2. /\ a \in Seq(S) /\ Len(a) = 1 /\ a[1] = "archivefetch"
      /\ b \in Seq(S) /\ Len(b) = 1 /\ b[1] = "install"
  OBVIOUS
<1>a. Source \in Seq(S)
  BY <1>1, ElementOfSeq, SeqMonotonic
<1>3. Stages = (a \o Source) \o b
  BY DEF Stages
<1> HIDE DEF a, b, S
<1>4. /\ a \o Source \in Seq(S) /\ Len(a \o Source) = 1 + SourceLen
      /\ \A i \in 1 .. 1 + SourceLen : (a \o Source)[i] = IF i <= 1 THEN a[i] ELSE Source[i - 1]
  <2>1. /\ a \o Source \in Seq(S) /\ Len(a \o Source) = Len(a) + Len(Source)
        /\ \A i \in 1 .. Len(a) + Len(Source) :
              (a \o Source)[i] = IF i <= Len(a) THEN a[i] ELSE Source[i - Len(a)]
    BY ONLY <1>2, <1>a, ConcatProperties
  <2> QED BY <1>2, <2>1 DEF SourceLen
<1>5. /\ Len(Stages) = 1 + SourceLen + 1
      /\ \A i \in 1 .. 1 + SourceLen + 1 :
            Stages[i] = IF i <= 1 + SourceLen THEN (a \o Source)[i] ELSE b[i - (1 + SourceLen)]
  <2>1. /\ Len((a \o Source) \o b) = Len(a \o Source) + Len(b)
        /\ \A i \in 1 .. Len(a \o Source) + Len(b) : ((a \o Source) \o b)[i] =
              IF i <= Len(a \o Source) THEN (a \o Source)[i] ELSE b[i - Len(a \o Source)]
    BY ONLY <1>2, <1>4, ConcatProperties
  <2> QED BY <1>2, <1>3, <1>4, <2>1
<1>6. Targets = {Source[i] : i \in 1 .. SourceLen} /\ Destroot = Source[SourceLen]
  BY <1>1 DEF Targets, Destroot, SourceLen
<1>7. Stages[1] = "archivefetch" /\ Stages[SourceLen + 2] = "install" /\ Len(Stages) = SourceLen + 2
  BY <1>1, <1>2, <1>4, <1>5
<1>8. \A k \in 2 .. SourceLen + 1 : Stages[k] = Source[k - 1] /\ k - 1 \in 1 .. SourceLen
  BY <1>1, <1>4, <1>5
<1>9. Destroot \in Targets /\ SourceLen \in 1 .. SourceLen
  BY <1>1, <1>6
<1> QED BY <1>1, <1>6, <1>7, <1>8, <1>9

\* The stage of a command with the file open.
LEMMA AtStage ==
    ASSUME BuildType, NEW c \in Commands
    PROVE  /\ At(c, Targets) => /\ cmd[c].at \in 2 .. SourceLen + 1
                                /\ Stages[cmd[c].at] = Source[cmd[c].at - 1]
           /\ At(c, {"archivefetch"}) => cmd[c].at = 1
           /\ At(c, {"install"}) => cmd[c].at = SourceLen + 2
           /\ At(c, Targets \cup {"archivefetch"}) => cmd[c].at \in 1 .. SourceLen + 1
<1>1. cmd[c].at \in 0 .. SourceLen + 2
  BY DEF BuildType, Command
<1>2. cmd[c].at > 0 => \/ cmd[c].at = 1
                       \/ cmd[c].at \in 2 .. SourceLen + 1
                       \/ cmd[c].at = SourceLen + 2
  BY <1>1, StageNames
<1> QED BY <1>2, StageNames DEF At

-----------------------------------------------------------------------------
(* One command beside others.                                              *)

\* What may change of the state file and the work directory while others build.
Keeps(f, g) ==
    /\ g.version = f.version /\ g.sums = f.sums /\ f.targets \subseteq g.targets
    /\ f.variants # {} => g.variants = f.variants
Gently ==
    /\ portfile' = portfile /\ cur' = cur /\ Keeps(files[cur], files'[cur])
    /\ \A t \in Targets : made[t] # Absent => made'[t] # Absent

\* A step of command c.
StepOf(c) ==
    /\ scen' = scen
    /\ cmd' \in [Commands -> Command] /\ \A d \in Commands : d # c => cmd'[d] = cmd[d]
    /\ \A d \in Commands, i \in Inodes : d # c /\ lock[i] = d => lock'[i] = d
    /\ scen.alone => \A d \in Commands : d # c => ~Active(d)
    /\ ~scen.alone =>
          /\ Gently
          /\ ~cmd'[c].fresh /\ cmd'[c].opts = {} /\ cmd'[c].pc \notin AlonePcs

\* A command beside which others build has asked for variants.
LEMMA Beside ==
    ASSUME BuildInv, ~scen.alone, NEW d \in Commands, Active(d)
    PROVE  cmd[d].vars # {} /\ cmd[d].goal = "build" /\ scen.edits = "never"
BY DEF BuildInv, BuildType, Calm, CommandOk, Asked

\* It leaves the others where they are.
LEMMA OthersOk ==
    ASSUME BuildInv, NEW c \in Commands, StepOf(c)
    PROVE  Together' /\ \A d \in Commands : d # c => CommandOk(d)'
<1>1. CASE scen.alone
  <2>1. \A d \in Commands : d # c => ~Active(d) /\ cmd'[d] = cmd[d] /\ CommandOk(d)
    BY <1>1 DEF StepOf, BuildInv
  <2>2. Together'
    BY <1>1, <2>1 DEF StepOf, Together, Active
  <2>3. ASSUME NEW d \in Commands, d # c PROVE CommandOk(d)'
    <3>1. cmd'[d] = cmd[d] /\ cmd[d].pc \in Idle /\ Holds(d) /\ Asked(d)
      BY <2>1, <2>3 DEF CommandOk, Active, Idle
    <3>2. cmd[d].at = 0 /\ cmd[d].fd = NoFile
      BY <3>1 DEF Holds, Asked
    <3> QED BY <3>1, <3>2 DEF CommandOk, Holds, Asked, Finds, Idle, Locked, Active
  <2> QED BY <2>2, <2>3
<1>2. CASE ~scen.alone
  <2>1. /\ Gently /\ scen' = scen /\ cur # NoFile /\ cur \in Inodes
        /\ files[cur].version /\ Fine(files[cur])
    BY <1>2 DEF StepOf, BuildInv, Together, BuildType
  <2>2. files'[cur'].version /\ Fine(files[cur])'
    BY <2>1 DEF Gently, Keeps, Fine, Outdated
  <2>3. Together'
    BY <1>2, <2>1, <2>2 DEF StepOf, Gently, BuildInv, Together
  <2>4. ASSUME NEW d \in Commands, d # c PROVE CommandOk(d)'
    <3>1. /\ cmd'[d] = cmd[d] /\ CommandOk(d) /\ ~cmd[d].fresh /\ cmd[d].opts = {}
          /\ cmd[d].pc \notin AlonePcs /\ cmd[d] \in Command
      BY <1>2, <2>4 DEF StepOf, BuildInv, Together, BuildType
    <3>2. Holds(d)'
      BY <2>1, <2>4, <3>1 DEF StepOf, Gently, CommandOk, Holds, Locked, AlonePcs, Idle
    <3>3. Asked(d)'
      BY <2>1, <3>1 DEF Gently, CommandOk, Asked, Active
    <3>4. cmd[d].at > 0 /\ cmd[d].pc # "register" => Settled(d, cmd[d].at)'
      <4>1. SUFFICES ASSUME cmd[d].at > 0, cmd[d].pc # "register"
                     PROVE  Settled(d, cmd[d].at)'
        OBVIOUS
      <4>2. Settled(d, cmd[d].at)
        BY <3>1, <4>1 DEF CommandOk, Finds
      <4>3. Active(d)
        BY <3>1, <4>1 DEF CommandOk, Asked, Active, Idle
      <4>4. files[cur].variants = cmd[d].vars /\ cmd[d].vars # {}
        BY <1>2, <3>1, <4>2, <4>3, Beside DEF Settled
      <4> QED BY <2>1, <2>2, <3>1, <4>2, <4>4 DEF Settled, Gently, Keeps
    <3>5. cmd[d].pc = "running" => made'[Source[cmd[d].at - 1]] # Absent
      BY <2>1, <3>1, StageNames DEF Gently, CommandOk, Finds
    <3>6. Finds(d)'
      BY <2>1, <2>2, <3>1, <3>4, <3>5 DEF Gently, CommandOk, Finds, AlonePcs
    <3> QED BY <3>2, <3>3, <3>6 DEF CommandOk
  <2> QED BY <2>3, <2>4
<1> QED BY <1>1, <1>2

\* An active command has no other beside it, or only builds.
LEMMA NoOther ==
    ASSUME BuildInv, NEW c \in Commands, Active(c)
    PROVE  scen.alone => \A d \in Commands : d # c => ~Active(d)
BY DEF BuildInv, Together

\* An archive that stands for the targets is not lost when another step is taken.
LEMMA StillArchived ==
    ASSUME NEW c \in Commands, StepOf(c), verified \subseteq verified', dirs \subseteq dirs',
           cmd[c].pc # "moved", NEW v, Archived(v)
    PROVE  Archived(v)'
BY DEF StepOf, Archived, Archive

\* Nor does a command get rid of its options.
LEMMA StillPlain ==
    ASSUME NEW c \in Commands, StepOf(c), cmd'[c].opts = {} => cmd[c].opts = {}, Plain'
    PROVE  Plain
BY DEF StepOf, Plain

\* The state file and the work directory stay as they are.
LEMMA SameFile ==
    ASSUME BuildInv, NEW c \in Commands, StepOf(c), cmd[c].pc # "moved",
           cmd'[c].opts = {} => cmd[c].opts = {}, verified \subseteq verified',
           dirs \subseteq dirs', UNCHANGED <<portfile, files, cur, made>>
    PROVE  FileOk' /\ RecordedIsDone'
<1>1. /\ \A v : Archived(v) => Archived(v)'
      /\ Plain' => Plain
  BY StillArchived, StillPlain
<1>2. FileOk'
  BY <1>1 DEF BuildInv, FileOk, Fine
<1>3. RecordedIsDone'
  BY <1>1 DEF BuildInv, RecordedIsDone, RecordedTargets, DoneUpTo
<1> QED BY <1>2, <1>3

\* So do the images.
LEMMA SameImages ==
    ASSUME BuildInv, NEW c \in Commands, StepOf(c), cmd'[c].pc \notin {"moved", "register"},
           cmd'[c].opts = {} => cmd[c].opts = {}, UNCHANGED <<image, registered>>
    PROVE  ImagesOk' /\ InstalledIsWhole'
<1>1. Plain' => Plain
  BY StillPlain
<1>2. ImagesOk'
  BY <1>1 DEF BuildInv, ImagesOk, Whole, StepOf
<1>3. InstalledIsWhole'
  BY <1>1 DEF BuildInv, InstalledIsWhole
<1> QED BY <1>2, <1>3

\* Only the command goes on, and the locks.
LockOk(c) ==
    /\ DOMAIN lock' = Inodes /\ lock' = [i \in Inodes |-> lock'[i]]
    /\ \A d \in Commands, i \in Inodes : d # c /\ lock[i] = d => lock'[i] = d
Quiet(c) ==
    /\ UNCHANGED <<scen, portfile, files, cur, made, result>>
    /\ cmd' \in [Commands -> Command] /\ \A d \in Commands : d # c => cmd'[d] = cmd[d]
    /\ LockOk(c)

\* A step that changes nothing but where the command is.
LEMMA QuietOk ==
    ASSUME BuildInv, NEW c \in Commands, Quiet(c), cmd[c].pc # "moved",
           cmd'[c].pc \notin {"moved", "register"}, cmd'[c].opts = {} => cmd[c].opts = {},
           CommandOk(c)', scen.alone => \A d \in Commands : d # c => ~Active(d),
           ~scen.alone => ~cmd'[c].fresh /\ cmd'[c].opts = {} /\ cmd'[c].pc \notin AlonePcs
    PROVE  BuildInv'
<1>1. StepOf(c)
  BY DEF Quiet, LockOk, StepOf, Gently, Keeps
<1>2. BuildType'
  BY DEF BuildInv, BuildType, Quiet, LockOk, result
<1>3. Together' /\ \A d \in Commands : CommandOk(d)'
  BY <1>1, OthersOk
<1>4. FileOk' /\ RecordedIsDone' /\ ImagesOk' /\ InstalledIsWhole'
  BY <1>1, SameFile, SameImages DEF Quiet, result
<1> QED BY <1>2, <1>3, <1>4 DEF BuildInv

\* Two ways to write what happens to the locks.
LEMMA LockKept ==
    ASSUME BuildType, NEW c \in Commands
    PROVE  UNCHANGED lock \/ lock' = Unlocked(c) => LockOk(c)
BY DEF BuildType, LockOk, Unlocked

\* The command ends.
LEMMA EndTo ==
    ASSUME BuildType, NEW c \in Commands, End(c)
    PROVE  /\ cmd' \in [Commands -> Command] /\ \A d \in Commands : d # c => cmd'[d] = cmd[d]
           /\ LockOk(c)
           /\ cmd'[c] = [NewCommand EXCEPT !.pc = "ended", !.opts = cmd[c].opts]
           /\ cmd'[c].pc = "ended" /\ cmd'[c].opts = cmd[c].opts /\ ~cmd'[c].fresh
           /\ CommandOk(c)'
<1>1. cmd \in [Commands -> Command] /\ cmd[c].opts \in SUBSET {"o", "f"}
  BY DEF BuildType, Command
<1>2. [NewCommand EXCEPT !.pc = "ended", !.opts = cmd[c].opts] \in Command
  <2>1. /\ 0 \in 0 .. SourceLen + 2 /\ {} \in SUBSET UNION Variants /\ "ended" \in CommandPcs
        /\ NoFile \in Inodes \cup {NoFile} /\ 1 \in Nat
    BY StageNames DEF CommandPcs, Idle
  <2>2. NewCommand \in Command
    BY <2>1 DEF NewCommand, Command, CommandPcs, Idle
  <2> QED BY <1>1, <2>1, <2>2 DEF Command
<1>3. /\ cmd' \in [Commands -> Command] /\ \A d \in Commands : d # c => cmd'[d] = cmd[d]
      /\ cmd'[c] = [NewCommand EXCEPT !.pc = "ended", !.opts = cmd[c].opts]
  BY <1>1, <1>2 DEF End
<1>4. /\ cmd'[c].pc = "ended" /\ cmd'[c].opts = cmd[c].opts /\ ~cmd'[c].fresh
      /\ cmd'[c].at = 0 /\ cmd'[c].fd = NoFile /\ cmd'[c].goal = "build"
  BY <1>3 DEF NewCommand
<1>5. CommandOk(c)'
  <2>1. 0 <= Last("build")
    BY StageNames DEF Last
  <2> QED BY <1>4, <2>1 DEF CommandOk, Holds, Asked, Finds, Idle, Locked, Active
<1> QED BY <1>3, <1>4, <1>5, LockKept DEF End

\* The stage is over.
LEMMA ProceedTo ==
    ASSUME BuildType, NEW c \in Commands, Proceed(c), cmd[c].at <= Last(cmd[c].goal)
    PROVE  /\ cmd' \in [Commands -> Command] /\ \A d \in Commands : d # c => cmd'[d] = cmd[d]
           /\ LockOk(c)
           /\ cmd'[c].opts = cmd[c].opts /\ ~cmd'[c].fresh /\ cmd'[c].fd = NoFile
           /\ \/ cmd'[c].pc = "ended" /\ CommandOk(c)'
              \/ /\ cmd'[c].pc = "clean" /\ cmd'[c].at = 0 /\ cmd[c].goal = "install"
                 /\ cmd'[c].goal = cmd[c].goal /\ cmd'[c].vars = cmd[c].vars
                 /\ cmd'[c].loaded = cmd[c].loaded
              \/ /\ cmd'[c].pc = "enter" /\ cmd'[c].at \in 1 .. Last(cmd[c].goal)
                 /\ cmd'[c].at = cmd[c].at + 1 \/ cmd'[c].at <= 2
                 /\ cmd[c].at < Last(cmd[c].goal)
                 /\ cmd'[c].goal = cmd[c].goal /\ cmd'[c].vars = cmd[c].vars
                 /\ cmd'[c].loaded = cmd[c].loaded
<1>1. cmd \in [Commands -> Command] /\ cmd[c] \in Command /\ cmd[c].at \in 0 .. SourceLen + 2
  BY DEF BuildType, Command
<1>2. CASE End(c)
  BY <1>2, EndTo DEF NewCommand
<1>3. CASE cmd[c].goal = "install" /\ Close(c, "clean", 0)
  <2>1. /\ cmd'[c] = [cmd[c] EXCEPT !.pc = "clean", !.at = 0, !.fd = NoFile,
                                    !.sum = 1, !.fresh = FALSE]
        /\ cmd' \in [Commands -> Command] /\ \A d \in Commands : d # c => cmd'[d] = cmd[d]
    <3>1. /\ 0 \in 0 .. SourceLen + 2 /\ "clean" \in CommandPcs
          /\ NoFile \in Inodes \cup {NoFile} /\ 1 \in Nat
      BY StageNames DEF CommandPcs
    <3> QED BY <1>1, <1>3, <3>1 DEF Close, Command
  <2> QED BY <1>1, <1>3, <2>1, LockKept DEF Close, Command
<1>4. CASE ~Complete(c) /\ Close(c, "enter", NextStage(c))
  <2>1. /\ NextStage(c) \in 1 .. Last(cmd[c].goal) /\ NextStage(c) \in 0 .. SourceLen + 2
        /\ NextStage(c) = cmd[c].at + 1 \/ NextStage(c) <= 2
        /\ cmd[c].at < Last(cmd[c].goal)
    BY <1>1, <1>4, StageNames DEF NextStage, First, Last, Complete
  <2>2. /\ cmd'[c] = [cmd[c] EXCEPT !.pc = "enter", !.at = NextStage(c), !.fd = NoFile,
                                    !.sum = 1, !.fresh = FALSE]
        /\ cmd' \in [Commands -> Command] /\ \A d \in Commands : d # c => cmd'[d] = cmd[d]
    BY <1>1, <1>4, <2>1 DEF Close, Command, CommandPcs
  <2> QED BY <1>1, <1>4, <2>1, <2>2, LockKept DEF Close, Command
<1> QED BY <1>2, <1>3, <1>4 DEF Proceed

\* It goes on to the next stage if that finds what it relies on.
LEMMA ProceedOk ==
    ASSUME BuildInv, NEW c \in Commands, Proceed(c), Active(c), scen' = scen, portfile' = portfile,
           cmd'[c].pc = "enter" =>
              /\ cur' # NoFile
              /\ "o" \in cmd[c].opts \/ Fine(files[cur])'
              /\ "f" \in cmd[c].opts \/ files'[cur'].variants = cmd[c].vars
              /\ \A j \in 1 .. cmd[c].at - 1 : Source[j] \in files'[cur'].targets
    PROVE  /\ cmd' \in [Commands -> Command] /\ \A d \in Commands : d # c => cmd'[d] = cmd[d]
           /\ LockOk(c)
           /\ cmd'[c].opts = cmd[c].opts /\ ~cmd'[c].fresh
           /\ cmd'[c].pc \in {"ended", "clean", "enter"}
           /\ ~scen.alone => cmd'[c].pc # "clean"
           /\ CommandOk(c)'
<1>1. BuildType /\ Asked(c) /\ cmd[c].at \in Nat
  BY StageNames DEF BuildInv, CommandOk, BuildType, Command
<1>2. /\ cmd[c].loaded = portfile /\ cmd[c].vars \in scen.variants /\ cmd[c].goal \in scen.goals
      /\ cmd[c].at <= Last(cmd[c].goal)
  BY <1>1 DEF Asked
<1>3. /\ cmd' \in [Commands -> Command] /\ \A d \in Commands : d # c => cmd'[d] = cmd[d]
      /\ LockOk(c)
      /\ cmd'[c].opts = cmd[c].opts /\ ~cmd'[c].fresh /\ cmd'[c].fd = NoFile
      /\ \/ cmd'[c].pc = "ended" /\ CommandOk(c)'
         \/ /\ cmd'[c].pc = "clean" /\ cmd'[c].at = 0 /\ cmd[c].goal = "install"
            /\ cmd'[c].goal = cmd[c].goal /\ cmd'[c].vars = cmd[c].vars
            /\ cmd'[c].loaded = cmd[c].loaded
         \/ /\ cmd'[c].pc = "enter" /\ cmd'[c].at \in 1 .. Last(cmd[c].goal)
            /\ cmd'[c].at = cmd[c].at + 1 \/ cmd'[c].at <= 2
            /\ cmd[c].at < Last(cmd[c].goal)
            /\ cmd'[c].goal = cmd[c].goal /\ cmd'[c].vars = cmd[c].vars
            /\ cmd'[c].loaded = cmd[c].loaded
  BY <1>1, <1>2, ProceedTo
<1>4. CASE cmd'[c].pc = "ended"
  BY <1>3, <1>4
<1>5. CASE cmd'[c].pc = "clean"
  <2>1. 0 <= Last(cmd[c].goal)
    BY StageNames DEF Last
  <2>2. CommandOk(c)'
    BY <1>2, <1>3, <1>5, <2>1 DEF CommandOk, Holds, Asked, Finds, Idle, Locked, Active
  <2>3. scen.alone
    BY <1>2, <1>3, <1>5, Beside DEF Active
  <2> QED BY <1>3, <1>5, <2>2, <2>3
<1>6. CASE cmd'[c].pc = "enter"
  <2>1. Last(cmd[c].goal) \in Nat
    BY StageNames DEF Last
  <2>2. Settled(c, cmd[c].at)'
    <3>1. \A j \in 1 .. cmd'[c].at - 2 : j \in 1 .. cmd[c].at - 1
      BY <1>1, <1>3, <1>6, <2>1
    <3> QED BY <1>3, <1>6, <3>1 DEF Settled
  <2>3. CommandOk(c)'
    BY <1>2, <1>3, <1>6, <2>1, <2>2 DEF CommandOk, Holds, Asked, Finds, Idle, Locked, Active
  <2> QED BY <1>3, <1>6, <2>3
<1> QED BY <1>3, <1>4, <1>5, <1>6

\* What a command has before it that has the file open.
LEMMA Here ==
    ASSUME BuildInv, NEW c \in Commands, cmd[c].pc \in {"opened", "running"}
    PROVE  /\ Active(c) /\ cmd[c].fd = cur /\ cur \in Inodes /\ cur # NoFile /\ lock[cur] = c
           /\ files[cur] \in StateFile /\ cmd[c] \in Command
           /\ cmd[c].loaded = portfile /\ cmd[c].vars \in scen.variants /\ cmd[c].vars \in Variants
           /\ cmd[c].pc = "opened" => "o" \in cmd[c].opts \/ Fine(files[cur])
           /\ cmd[c].at > 0 =>
                 /\ "o" \in cmd[c].opts \/ Fine(files[cur])
                 /\ "f" \in cmd[c].opts \/ files[cur].variants = cmd[c].vars
                 /\ \A j \in 1 .. cmd[c].at - 2 : Source[j] \in files[cur].targets
           /\ scen.alone => \A d \in Commands : d # c => ~Active(d)
           /\ ~scen.alone => cmd[c].opts = {} /\ cmd[c].vars # {}
<1>1. CommandOk(c) /\ BuildType
  BY DEF BuildInv
<1>2. Active(c) /\ cmd[c].fd = cur /\ cur # NoFile /\ lock[cmd[c].fd] = c
  BY <1>1 DEF CommandOk, Holds, Active, Locked
<1>3. /\ cmd[c].loaded = portfile /\ cmd[c].vars \in scen.variants
      /\ cmd[c].at > 0 => Settled(c, cmd[c].at)
      /\ cmd[c].pc = "opened" => "o" \in cmd[c].opts \/ Fine(files[cur])
  BY <1>1, <1>2 DEF CommandOk, Asked, Finds
<1>4. cmd[c].vars \in Variants
  BY <1>1, <1>3, ScenarioAssumption DEF BuildType
<1>5. cur \in Inodes /\ files[cur] \in StateFile /\ cmd[c] \in Command
  BY <1>1, <1>2 DEF BuildType
<1>6. ~scen.alone => cmd[c].opts = {} /\ cmd[c].vars # {}
  BY <1>2, Beside DEF BuildInv, Together
<1> QED BY <1>2, <1>3, <1>4, <1>5, <1>6, NoOther DEF Settled

\* A target is skipped, or there is no archive.
LEMMA SkipOk ==
    ASSUME BuildInv, NEW c \in Commands, Skip(c) \/ NoArchive(c)
    PROVE  BuildInv'
<1>1. /\ cmd[c].pc = "opened" /\ Proceed(c) /\ cmd[c].at > 0
      /\ UNCHANGED <<scen, portfile, disk, result>>
      /\ cmd[c].at \in 1 .. SourceLen + 1
      /\ cmd[c].at >= 2 => Source[cmd[c].at - 1] \in files[cmd[c].fd].targets
  <2>1. BuildType
    BY DEF BuildInv
  <2>2. CASE Skip(c)
    BY <2>1, <2>2, AtStage, StageNames DEF Skip, At, Recorded
  <2>3. CASE NoArchive(c)
    BY <2>1, <2>3, AtStage, StageNames DEF NoArchive, At
  <2> QED BY <2>2, <2>3
<1>2. \A j \in 1 .. cmd[c].at - 1 : Source[j] \in files[cur].targets
  <2>1. \A j \in 1 .. cmd[c].at - 1 :
            j \in 1 .. cmd[c].at - 2 \/ (j = cmd[c].at - 1 /\ cmd[c].at >= 2)
    BY <1>1, StageNames
  <2> QED BY <1>1, <2>1, Here
<1>3. Fine(files[cur])' <=> Fine(files[cur])
  BY <1>1 DEF Fine, disk
<1>4. /\ Quiet(c) /\ CommandOk(c)' /\ cmd'[c].pc \in {"ended", "clean", "enter"}
      /\ cmd'[c].opts = cmd[c].opts /\ ~cmd'[c].fresh
      /\ ~scen.alone => cmd'[c].pc # "clean"
  BY <1>1, <1>2, <1>3, Here, ProceedOk DEF Quiet, disk
<1> QED BY <1>1, <1>4, Here, QuietOk DEF AlonePcs

\* It fails, or dies.
LEMMA FailOk ==
    ASSUME BuildInv, NEW c \in Commands, Fail(c) \/ Crash(c)
    PROVE  BuildInv'
<1>1. /\ End(c) /\ Active(c) /\ UNCHANGED <<scen, portfile, disk, result>> /\ BuildType
      /\ cmd[c].pc # "moved"
  <2>1. ~scen.cut \/ cmd[c].pc # "moved"
    BY DEF BuildInv, BuildType, Together, Calm, AlonePcs
  <2> QED BY <2>1 DEF BuildInv, Fail, Creates, Crash, Active, At
<1>2. /\ Quiet(c) /\ CommandOk(c)' /\ cmd'[c].pc = "ended"
      /\ cmd'[c].opts = cmd[c].opts /\ ~cmd'[c].fresh
  BY <1>1, EndTo DEF Quiet, disk
<1>3. ~scen.alone => cmd[c].opts = {}
  BY DEF BuildInv, Together
<1> QED BY <1>1, <1>2, <1>3, NoOther, QuietOk DEF AlonePcs

-----------------------------------------------------------------------------
(* The state file is opened.                                               *)

\* A command is given.
LEMMA StartOk ==
    ASSUME BuildInv, NEW c \in Commands, Start(c)
    PROVE  BuildInv'
<1>1. /\ UNCHANGED <<scen, portfile, lock, disk, result>> /\ BuildType
      /\ cmd[c].pc = "new" /\ (scen.alone => ~ \E d \in Commands : Active(d))
  BY DEF Start, BuildInv
<1>2. PICK g \in scen.goals, v \in scen.variants, o \in SUBSET scen.opts :
        cmd' = [cmd EXCEPT ![c] =
            [NewCommand EXCEPT !.pc = IF g = "clean" THEN "clean" ELSE "enter",
                               !.goal = g, !.vars = v, !.opts = o, !.loaded = portfile]]
  BY DEF Start
<1>3. /\ scen.goals \subseteq {"build", "install", "clean"} /\ scen.variants \subseteq Variants
      /\ scen.opts \subseteq {"o", "f"} /\ portfile \in Nat
  <2>1. scen \in [alone : BOOLEAN, begun : BOOLEAN, edits : {"never", "between", "any"},
                  cut : BOOLEAN, mode : {"archive", "directory"}, goals : SUBSET {"build", "install", "clean"},
                  variants : SUBSET Variants, opts : SUBSET {"o", "f"}]
    BY <1>1, ScenarioAssumption DEF BuildType
  <2> QED BY <1>1, <2>1 DEF BuildType
<1>4. /\ cmd'[c].pc = IF g = "clean" THEN "clean" ELSE "enter"
      /\ cmd'[c].goal = g /\ cmd'[c].vars = v /\ cmd'[c].opts = o /\ cmd'[c].loaded = portfile
      /\ cmd'[c].at = 0 /\ ~cmd'[c].fresh /\ cmd'[c].fd = NoFile
      /\ cmd' \in [Commands -> Command] /\ \A d \in Commands : d # c => cmd'[d] = cmd[d]
  <2>1. NewCommand \in Command
    <3>1. /\ 0 \in 0 .. SourceLen + 2 /\ {} \in SUBSET UNION Variants /\ "new" \in CommandPcs
          /\ NoFile \in Inodes \cup {NoFile} /\ 1 \in Nat
      BY StageNames DEF CommandPcs, Idle
    <3> QED BY <3>1 DEF NewCommand, Command, CommandPcs, Idle
  <2>2. /\ g \in {"build", "install", "clean"} /\ v \in SUBSET UNION Variants
        /\ o \in SUBSET {"o", "f"} /\ "clean" \in CommandPcs /\ "enter" \in CommandPcs
    BY <1>3 DEF CommandPcs
  <2>3. cmd \in [Commands -> Command]
    BY <1>1 DEF BuildType
  <2>4. [NewCommand EXCEPT !.pc = IF g = "clean" THEN "clean" ELSE "enter",
                           !.goal = g, !.vars = v, !.opts = o, !.loaded = portfile] \in Command
    BY <1>3, <2>1, <2>2 DEF Command
  <2> QED BY <1>2, <2>3, <2>4 DEF NewCommand
<1>5. CommandOk(c)'
  <2>1. 0 <= Last(g)
    BY StageNames DEF Last
  <2> QED BY <1>1, <1>4, <2>1 DEF CommandOk, Holds, Asked, Finds, Idle, Locked, Active
<1>6. ~scen.alone => o = {} /\ g # "clean"
  BY <1>1, <1>3 DEF BuildType, Calm
<1>7. cmd[c].opts = {}
  BY <1>1 DEF BuildInv, CommandOk, Asked, NewCommand
<1> QED BY <1>1, <1>4, <1>5, <1>6, <1>7, LockKept, QuietOk DEF Quiet, disk, AlonePcs

\* The work directory is entered.
LEMMA EnterOk ==
    ASSUME BuildInv, NEW c \in Commands, Enter(c)
    PROVE  BuildInv'
<1>1. /\ UNCHANGED <<scen, portfile, files, cur, lock, made, result>> /\ BuildType
      /\ cmd[c].pc = "enter" /\ Active(c) /\ Asked(c) /\ cmd[c] \in Command
      /\ cmd[c].at > 0 => Settled(c, cmd[c].at)
  BY DEF Enter, BuildInv, BuildType, CommandOk, Finds, Active
<1>2. PICK place : place = IF cur = NoFile \/ "o" \in cmd[c].opts THEN "open"
                     ELSE IF files[cur].version THEN "compare"
                     ELSE IF files[cur].older THEN "discard" ELSE "open"
  OBVIOUS
<1>3. /\ cmd'[c].pc = place /\ cmd'[c].sum = portfile /\ cmd'[c].fresh = (cur = NoFile)
      /\ cmd'[c].fd = cur /\ cmd'[c].opts = cmd[c].opts /\ cmd'[c].at = cmd[c].at
      /\ cmd'[c].goal = cmd[c].goal /\ cmd'[c].vars = cmd[c].vars
      /\ cmd'[c].loaded = cmd[c].loaded
      /\ cmd' \in [Commands -> Command] /\ \A d \in Commands : d # c => cmd'[d] = cmd[d]
  <2> PICK fresh : fresh = (cur = NoFile)
    OBVIOUS
  <2>1. cmd \in [Commands -> Command] /\ portfile \in Nat /\ place \in CommandPcs
        /\ cur \in Inodes \cup {NoFile} /\ fresh \in BOOLEAN
    BY <1>1, <1>2 DEF BuildType, CommandPcs
  <2>2. cmd' = [cmd EXCEPT ![c] =
           [@ EXCEPT !.sum = portfile, !.fresh = fresh, !.fd = cur, !.pc = place]]
    BY <1>2 DEF Enter
  <2>3. /\ cmd'[c].pc = place /\ cmd'[c].sum = portfile /\ cmd'[c].fresh = fresh
        /\ cmd'[c].fd = cur /\ cmd'[c].opts = cmd[c].opts /\ cmd'[c].at = cmd[c].at
        /\ cmd'[c].goal = cmd[c].goal /\ cmd'[c].vars = cmd[c].vars
        /\ cmd'[c].loaded = cmd[c].loaded
        /\ cmd' \in [Commands -> Command] /\ \A d \in Commands : d # c => cmd'[d] = cmd[d]
    <3> PICK new : new = [cmd[c] EXCEPT !.sum = portfile, !.fresh = fresh, !.fd = cur, !.pc = place]
      OBVIOUS
    <3>1. cmd[c] \in Command
      BY <2>1
    <3>2. /\ new.pc = place /\ new.sum = portfile /\ new.fresh = fresh /\ new.fd = cur
          /\ new.opts = cmd[c].opts /\ new.at = cmd[c].at /\ new.goal = cmd[c].goal
          /\ new.vars = cmd[c].vars /\ new.loaded = cmd[c].loaded /\ new \in Command
      BY <2>1, <3>1 DEF Command
    <3>3. cmd' = [cmd EXCEPT ![c] = new]
      BY <2>2
    <3> QED BY <2>1, <3>2, <3>3
  <2> QED BY <2>3
<1>4. ~scen.alone => cur # NoFile /\ files[cur].version /\ cmd[c].opts = {}
  BY DEF BuildInv, Together
<1>5. CommandOk(c)'
  <2>1. cmd[c].at > 0 => cur # NoFile /\ place # "discard"
    BY <1>1, <1>2 DEF Settled, Fine
  <2>2. Holds(c)'
    BY <1>1, <1>2, <1>3 DEF Holds, Locked, Idle
  <2>3. Asked(c)'
    BY <1>1, <1>2, <1>3, <2>1 DEF Asked, Idle, Active, Command
  <2>4. Finds(c)'
    BY <1>1, <1>2, <1>3 DEF Finds, Fine, Settled
  <2> QED BY <2>2, <2>3, <2>4 DEF CommandOk
<1> QED BY <1>1, <1>2, <1>3, <1>4, <1>5, NoOther, LockKept, QuietOk DEF Quiet, AlonePcs

\* The command goes on.
LEMMA GoTo ==
    ASSUME BuildType, NEW c \in Commands, NEW place \in CommandPcs, Go(c, place)
    PROVE  /\ cmd'[c].pc = place /\ cmd'[c].sum = cmd[c].sum /\ cmd'[c].fresh = cmd[c].fresh
           /\ cmd'[c].fd = cmd[c].fd /\ cmd'[c].opts = cmd[c].opts /\ cmd'[c].at = cmd[c].at
           /\ cmd'[c].goal = cmd[c].goal /\ cmd'[c].vars = cmd[c].vars
           /\ cmd'[c].loaded = cmd[c].loaded
           /\ cmd' \in [Commands -> Command] /\ \A d \in Commands : d # c => cmd'[d] = cmd[d]
<1>1. /\ cmd'[c] = [cmd[c] EXCEPT !.pc = place] /\ cmd[c] \in Command
      /\ cmd' \in [Commands -> Command] /\ \A d \in Commands : d # c => cmd'[d] = cmd[d]
  BY DEF Go, BuildType, Command
<1> QED BY <1>1 DEF Command

\* The checksum is compared.
LEMMA CompareOk ==
    ASSUME BuildInv, NEW c \in Commands, Compare(c)
    PROVE  BuildInv'
<1>1. /\ UNCHANGED <<scen, portfile, lock, disk, result>> /\ BuildType
      /\ cmd[c].pc = "compare" /\ Active(c) /\ Holds(c) /\ Asked(c) /\ Finds(c)
      /\ cmd[c].at \in 0 .. SourceLen + 2
  BY DEF Compare, BuildInv, BuildType, CommandOk, Active, Command
<1>2. PICK place : place = IF Outdated(files[cmd[c].fd], cmd[c].sum) THEN "discard" ELSE "open"
  OBVIOUS
<1>3. place \in CommandPcs /\ Go(c, place)
  BY <1>2 DEF Compare, CommandPcs
<1>4. /\ cmd'[c].pc = place /\ cmd'[c].sum = cmd[c].sum /\ cmd'[c].fresh = cmd[c].fresh
      /\ cmd'[c].fd = cmd[c].fd /\ cmd'[c].opts = cmd[c].opts /\ cmd'[c].at = cmd[c].at
      /\ cmd'[c].goal = cmd[c].goal /\ cmd'[c].vars = cmd[c].vars
      /\ cmd'[c].loaded = cmd[c].loaded
      /\ cmd' \in [Commands -> Command] /\ \A d \in Commands : d # c => cmd'[d] = cmd[d]
  BY <1>1, <1>3, GoTo
<1>5. /\ files[cur].version /\ "o" \notin cmd[c].opts /\ ~cmd[c].fresh /\ cmd[c].fd = cur
      /\ cur # NoFile /\ cmd[c].sum = portfile
      /\ place = "discard" <=> ~Fine(files[cur])
  BY <1>1, <1>2 DEF Finds, Holds, Asked, Idle, Fine
<1>6. CommandOk(c)'
  <2>1. cmd[c].at > 0 => place # "discard"
    BY <1>1, <1>5 DEF Finds, Settled
  <2>2. Holds(c)'
    BY <1>1, <1>2, <1>4 DEF Holds, Locked, Idle
  <2>3. Asked(c)'
    BY <1>1, <1>2, <1>4, <1>5, <2>1 DEF Asked, Idle, Active
  <2>4. Finds(c)'
    BY <1>1, <1>2, <1>4, <1>5 DEF Finds, Fine, Settled, disk
  <2> QED BY <2>2, <2>3, <2>4 DEF CommandOk
<1>7. ~scen.alone => Fine(files[cur]) /\ cmd[c].opts = {}
  BY DEF BuildInv, Together
<1> QED BY <1>1, <1>2, <1>4, <1>5, <1>6, <1>7, NoOther, LockKept, QuietOk
    DEF Quiet, AlonePcs, disk

\* The lock is taken.
LEMMA LockStepOk ==
    ASSUME BuildInv, NEW c \in Commands, Lock(c)
    PROVE  BuildInv'
<1>1. /\ UNCHANGED <<scen, portfile, disk, result>> /\ BuildType
      /\ cmd[c].pc = "lock" /\ Active(c) /\ Holds(c) /\ Asked(c) /\ Finds(c)
      /\ lock[cmd[c].fd] = None /\ lock' = [lock EXCEPT ![cmd[c].fd] = c]
  BY DEF Lock, MayLock, BuildInv, CommandOk, Active
<1>2. PICK place : place = IF cmd[c].fresh THEN "version" ELSE "opened"
  OBVIOUS
<1>3. place \in CommandPcs /\ Go(c, place)
  BY <1>2 DEF Lock, CommandPcs, Locked
<1>4. /\ cmd'[c].pc = place /\ cmd'[c].sum = cmd[c].sum /\ cmd'[c].fresh = cmd[c].fresh
      /\ cmd'[c].fd = cmd[c].fd /\ cmd'[c].opts = cmd[c].opts /\ cmd'[c].at = cmd[c].at
      /\ cmd'[c].goal = cmd[c].goal /\ cmd'[c].vars = cmd[c].vars
      /\ cmd'[c].loaded = cmd[c].loaded
      /\ cmd' \in [Commands -> Command] /\ \A d \in Commands : d # c => cmd'[d] = cmd[d]
  BY <1>1, <1>3, GoTo
<1>5. cmd[c].fd = cur /\ cur \in Inodes
  BY <1>1 DEF Holds, BuildType
<1>6. LockOk(c) /\ lock'[cmd[c].fd] = c
  <2>1. \A d \in Commands : d # None
    BY BoundAssumption DEF Commands, None
  <2> QED BY <1>1, <1>5, <2>1 DEF LockOk, BuildType
<1>7. CommandOk(c)'
  <2>1. Holds(c)'
    BY <1>1, <1>2, <1>4, <1>6 DEF Holds, Locked, Idle, disk
  <2>2. Asked(c)'
    BY <1>1, <1>2, <1>4 DEF Asked, Idle, Active
  <2>3. Finds(c)'
    BY <1>1, <1>2, <1>4 DEF Finds, Fine, Blank, Settled, disk
  <2> QED BY <2>1, <2>2, <2>3 DEF CommandOk
<1>8. ~scen.alone => ~cmd[c].fresh /\ cmd[c].opts = {}
  BY DEF BuildInv, Together
<1> QED BY <1>1, <1>2, <1>4, <1>6, <1>7, <1>8, NoOther, QuietOk DEF Quiet, AlonePcs, disk

\* The first lines are written to a new file.
LEMMA WriteOk ==
    ASSUME BuildInv, NEW c \in Commands, WriteVersion(c) \/ WriteChecksum(c)
    PROVE  BuildInv'
<1>1. /\ UNCHANGED <<scen, portfile, cur, lock, made, result>> /\ BuildType
      /\ cmd[c].pc \in {"version", "checksum"} /\ Active(c) /\ Holds(c) /\ Asked(c) /\ Finds(c)
  BY DEF WriteVersion, WriteChecksum, BuildInv, CommandOk, Active
<1>2. /\ cmd[c].fd = cur /\ cur \in Inodes /\ cur # NoFile /\ cmd[c].at = 0
      /\ cmd[c].sum = portfile /\ Blank(files[cur])
      /\ files[cur] \in StateFile /\ portfile \in Nat
  BY <1>1 DEF Holds, Asked, Finds, BuildType, Locked, Idle
<1>3. PICK place : place = IF cmd[c].pc = "version" THEN "checksum" ELSE "opened"
  OBVIOUS
<1>4. place \in CommandPcs /\ Go(c, place)
  BY <1>3 DEF WriteVersion, WriteChecksum, CommandPcs, Locked
<1>5. /\ cmd'[c].pc = place /\ cmd'[c].sum = cmd[c].sum /\ cmd'[c].fresh = cmd[c].fresh
      /\ cmd'[c].fd = cmd[c].fd /\ cmd'[c].opts = cmd[c].opts /\ cmd'[c].at = cmd[c].at
      /\ cmd'[c].goal = cmd[c].goal /\ cmd'[c].vars = cmd[c].vars
      /\ cmd'[c].loaded = cmd[c].loaded
      /\ cmd' \in [Commands -> Command] /\ \A d \in Commands : d # c => cmd'[d] = cmd[d]
  BY <1>1, <1>4, GoTo
<1>6. /\ files' \in [Inodes -> StateFile]
      /\ files'[cur].targets = {} /\ files'[cur].variants = {}
      /\ cmd[c].pc = "version" => Blank(files'[cur])
      /\ cmd[c].pc = "checksum" => Head(files'[cur].sums) = portfile /\ Fine(files[cur])'
  <2>1. files \in [Inodes -> StateFile]
    BY <1>1 DEF BuildType
  <2>2. CASE cmd[c].pc = "version"
    <3>1. files' = [files EXCEPT ![cur] =
             IF @.version THEN @ ELSE [@ EXCEPT !.version = TRUE, !.older = FALSE]]
      BY <1>2, <2>2 DEF WriteVersion, WriteChecksum
    <3> QED BY <1>2, <2>1, <2>2, <3>1 DEF StateFile, Blank
  <2>3. CASE cmd[c].pc = "checksum"
    <3> DEFINE sums == Append(files[cur].sums, portfile)
    <3>1. files[cur].sums = <<>>
      BY <1>2 DEF Blank
    <3>2. files' = [files EXCEPT ![cur] = [@ EXCEPT !.sums = sums, !.older = FALSE]]
      <4>1. files' = [files EXCEPT ![cur] = WithSum(files[cur], portfile)]
        BY <1>2, <2>3 DEF WriteVersion, WriteChecksum
      <4>2. WithSum(files[cur], portfile) = [files[cur] EXCEPT !.sums = sums, !.older = FALSE]
        BY <3>1 DEF WithSum
      <4> QED BY <4>1, <4>2
    <3>3. sums \in Seq(Nat) /\ Head(sums) = portfile /\ sums # <<>>
      <4>1. <<>> \in Seq(Nat)
        BY EmptySeq
      <4>2. Append(<<>>, portfile) \in Seq(Nat) /\ Append(<<>>, portfile) # <<>>
        BY <1>2, <4>1, AppendProperties
      <4>3. Head(Append(<<>>, portfile)) = portfile
        BY <4>1, HeadTailAppend
      <4> QED BY <3>1, <4>2, <4>3
    <3> HIDE DEF sums
    <3> QED BY <1>1, <1>2, <2>1, <2>3, <3>2, <3>3 DEF StateFile, Blank, Fine, Outdated
  <2> QED BY <1>1, <2>2, <2>3
<1>7. StepOf(c)
  <2>1. LockOk(c)
    BY <1>1, LockKept
  <2>2. scen.alone
    BY <1>1 DEF BuildInv, Together, AlonePcs
  <2> QED BY <1>1, <1>5, <2>1, <2>2, NoOther DEF StepOf, LockOk
<1>8. CommandOk(c)'
  <2>1. Holds(c)'
    BY <1>1, <1>3, <1>5 DEF Holds, Locked, Idle
  <2>2. Asked(c)'
    BY <1>1, <1>2, <1>3, <1>5 DEF Asked, Idle, Active
  <2>3. Finds(c)'
    BY <1>1, <1>2, <1>3, <1>5, <1>6 DEF Finds
  <2> QED BY <2>1, <2>2, <2>3 DEF CommandOk
<1>9. FileOk' /\ RecordedIsDone'
  <2>1. /\ files'[cur'].targets = {}
        /\ files'[cur'].sums # <<>> => Head(files'[cur'].sums) <= portfile'
    BY <1>1, <1>2, <1>6 DEF Blank
  <2> QED BY <2>1 DEF FileOk, RecordedIsDone, RecordedTargets, DoneUpTo
<1>10. BuildType'
  BY <1>1, <1>5, <1>6 DEF BuildType, result
<1>11. ImagesOk' /\ InstalledIsWhole'
  BY <1>1, <1>3, <1>5, <1>7, SameImages DEF result
<1> QED BY <1>7, <1>8, <1>9, <1>10, <1>11, OthersOk DEF BuildInv

\* The work directory is discarded.
LEMMA DiscardOk ==
    ASSUME BuildInv, NEW c \in Commands, Discard(c)
    PROVE  BuildInv'
<1>1. /\ UNCHANGED <<scen, portfile, lock, result>> /\ BuildType
      /\ cmd[c].pc = "discard" /\ Active(c) /\ Holds(c) /\ Asked(c) /\ cmd[c].at = 0
      /\ cur' = NoFile /\ made' = Nothing
  BY DEF Discard, BuildInv, CommandOk, Asked, Active
<1>2. /\ cmd'[c].pc = "open" /\ cmd'[c].sum = cmd[c].sum /\ cmd'[c].fresh
      /\ cmd'[c].fd = cmd[c].fd /\ cmd'[c].opts = cmd[c].opts /\ cmd'[c].at = cmd[c].at
      /\ cmd'[c].goal = cmd[c].goal /\ cmd'[c].vars = cmd[c].vars
      /\ cmd'[c].loaded = cmd[c].loaded
      /\ cmd' \in [Commands -> Command] /\ \A d \in Commands : d # c => cmd'[d] = cmd[d]
  <2> PICK new : new = [cmd[c] EXCEPT !.pc = "open", !.fresh = TRUE]
    OBVIOUS
  <2>1. cmd[c] \in Command /\ cmd \in [Commands -> Command] /\ "open" \in CommandPcs
    BY <1>1 DEF BuildType, CommandPcs
  <2>2. /\ new.pc = "open" /\ new.sum = cmd[c].sum /\ new.fresh /\ new.fd = cmd[c].fd
        /\ new.opts = cmd[c].opts /\ new.at = cmd[c].at /\ new.goal = cmd[c].goal
        /\ new.vars = cmd[c].vars /\ new.loaded = cmd[c].loaded /\ new \in Command
    BY <2>1 DEF Command
  <2>3. cmd' = [cmd EXCEPT ![c] = new]
    BY <2>1 DEF Discard
  <2> QED BY <2>1, <2>2, <2>3
<1>3. files' \in [Inodes -> StateFile]
  BY <1>1, EmptySeq DEF Discard, Unlinked, BuildType, StateFile, EmptyFile
<1>4. StepOf(c)
  <2>1. LockOk(c)
    BY <1>1, LockKept
  <2>2. scen.alone
    BY <1>1 DEF BuildInv, Together, AlonePcs
  <2> QED BY <1>1, <1>2, <2>1, <2>2, NoOther DEF StepOf, LockOk
<1>5. CommandOk(c)'
  BY <1>1, <1>2 DEF CommandOk, Holds, Asked, Finds, Idle, Locked, Active
<1>6. BuildType'
  BY <1>1, <1>2, <1>3 DEF BuildType, result, Nothing
<1>7. ImagesOk' /\ InstalledIsWhole'
  BY <1>1, <1>2, <1>4, SameImages DEF result
<1> QED BY <1>1, <1>4, <1>5, <1>6, <1>7, OthersOk DEF BuildInv, FileOk, RecordedIsDone, RecordedTargets, DoneUpTo

\* The file is opened, or made.
LEMMA OpenOk ==
    ASSUME BuildInv, NEW c \in Commands, Open(c)
    PROVE  BuildInv'
<1> PICK i : i = IF cur = NoFile THEN CHOOSE j \in Inodes : j \notin InUse ELSE cur
  OBVIOUS
<1>1. /\ UNCHANGED <<scen, portfile, lock, made, result>> /\ BuildType
      /\ cmd[c].pc = "open" /\ Active(c) /\ Asked(c) /\ Finds(c)
      /\ cur' = i /\ files' = IF cur = NoFile THEN [files EXCEPT ![i] = EmptyFile] ELSE files
      /\ cmd' = [cmd EXCEPT ![c].pc = "lock", ![c].fd = i]
  BY DEF Open, BuildInv, CommandOk, Active
<1>a. cmd' = [cmd EXCEPT ![c].pc = "lock", ![c].fd = i]
  BY <1>1
<1>2. i \in Inodes /\ i # NoFile
  <2>1. 0 \notin Inodes /\ 1 \in Inodes /\ 2 \in Inodes /\ 1 # 2
    BY BoundAssumption DEF Inodes
  <2>2. CASE cur # NoFile
    BY <1>1, <2>1, <2>2 DEF BuildType, NoFile
  <2>3. CASE cur = NoFile
    <3>1. \A d \in Commands : d # c => cmd[d].fd = NoFile
      <4>1. scen.alone
        BY <2>3 DEF BuildInv, Together
      <4> QED BY <4>1, <1>1, NoOther DEF BuildInv, CommandOk, Holds, Active, Idle
    <3>2. InUse \subseteq {NoFile, cmd[c].fd}
      BY <2>3, <3>1 DEF InUse
    <3>3. \E j \in Inodes : j \notin InUse
      BY <2>1, <3>2 DEF NoFile
    <3> QED BY <2>1, <2>3, <3>3 DEF NoFile
  <2> QED BY <2>2, <2>3
<1>3. /\ cmd'[c].pc = "lock" /\ cmd'[c].sum = cmd[c].sum /\ cmd'[c].fresh = cmd[c].fresh
      /\ cmd'[c].fd = i /\ cmd'[c].opts = cmd[c].opts /\ cmd'[c].at = cmd[c].at
      /\ cmd'[c].goal = cmd[c].goal /\ cmd'[c].vars = cmd[c].vars
      /\ cmd'[c].loaded = cmd[c].loaded
      /\ cmd' \in [Commands -> Command] /\ \A d \in Commands : d # c => cmd'[d] = cmd[d]
  <2> PICK new : new = [cmd[c] EXCEPT !.pc = "lock", !.fd = i]
    OBVIOUS
  <2>1. cmd[c] \in Command /\ cmd \in [Commands -> Command] /\ "lock" \in CommandPcs
    BY <1>1 DEF BuildType, CommandPcs
  <2>2. /\ new.pc = "lock" /\ new.sum = cmd[c].sum /\ new.fresh = cmd[c].fresh /\ new.fd = i
        /\ new.opts = cmd[c].opts /\ new.at = cmd[c].at /\ new.goal = cmd[c].goal
        /\ new.vars = cmd[c].vars /\ new.loaded = cmd[c].loaded /\ new \in Command
    BY <1>2, <2>1 DEF Command
  <2>3. cmd' = [cmd EXCEPT ![c] = new]
    BY ONLY <1>a, <2>1, new = [cmd[c] EXCEPT !.pc = "lock", !.fd = i]
  <2> QED BY <2>1, <2>2, <2>3
<1>4. CASE cur # NoFile
  <2>1. i = cur /\ UNCHANGED <<cur, files>> /\ ~cmd[c].fresh
    BY <1>1, <1>4 DEF Finds
  <2>2. CommandOk(c)'
    BY <1>1, <1>2, <1>3, <2>1
    DEF CommandOk, Holds, Asked, Finds, Settled, Fine, Idle, Locked, Active
  <2>3. ~scen.alone => cmd[c].opts = {}
    BY DEF BuildInv, Together
  <2> QED BY <1>1, <1>3, <2>1, <2>2, <2>3, NoOther, LockKept, QuietOk DEF Quiet, AlonePcs
<1>5. CASE cur = NoFile
  <2>1. /\ cmd[c].fresh /\ cmd[c].at = 0 /\ cur' = i /\ files' \in [Inodes -> StateFile]
        /\ files'[cur'] = EmptyFile
    <3>1. EmptyFile \in StateFile
      BY EmptySeq DEF EmptyFile, StateFile
    <3>2. cmd[c].fresh /\ cmd[c].at = 0
      BY <1>1, <1>5 DEF Finds, Asked
    <3> QED BY <1>1, <1>2, <1>5, <3>1, <3>2 DEF BuildType
  <2>2. Blank(files[cur])'
    BY <2>1 DEF Blank, EmptyFile
  <2>3. CommandOk(c)'
    BY <1>1, <1>2, <1>3, <2>1, <2>2 DEF CommandOk, Holds, Asked, Finds, Idle, Locked, Active
  <2>4. StepOf(c)
    <3>1. LockOk(c)
      BY <1>1, LockKept
    <3>2. scen.alone
      BY <1>5 DEF BuildInv, Together
    <3> QED BY <1>1, <1>3, <3>1, <3>2, NoOther DEF StepOf, LockOk
  <2>5. BuildType'
    BY <1>1, <1>2, <1>3, <2>1 DEF BuildType, result
  <2>6. ImagesOk' /\ InstalledIsWhole'
    BY <1>1, <1>3, <2>4, SameImages DEF result
  <2>7. FileOk' /\ RecordedIsDone'
    BY <2>2 DEF Blank, FileOk, RecordedIsDone, RecordedTargets, DoneUpTo
  <2> QED BY <2>3, <2>4, <2>5, <2>6, <2>7, OthersOk DEF BuildInv
<1> QED BY <1>4, <1>5

-----------------------------------------------------------------------------
(* The targets.                                                            *)

\* The command writes to the state file and goes on.
Writes(c, g) ==
    /\ UNCHANGED <<scen, portfile, cur, image, registered>>
    /\ g \in StateFile /\ files' = [files EXCEPT ![cur] = g]
    /\ g.version = files[cur].version /\ g.sums = files[cur].sums
    /\ files[cur].targets \subseteq g.targets
    /\ g.older => files[cur].older
    /\ Proceed(c)

\* What is left to show then.
LEMMA WritesOk ==
    ASSUME BuildInv, NEW c \in Commands, cmd[c].pc \in {"opened", "running"},
           NEW g, Writes(c, g),
           "f" \in cmd[c].opts \/ g.variants = cmd[c].vars,
           ~scen.alone /\ files[cur].variants # {} => g.variants = files[cur].variants,
           \A j \in 1 .. cmd[c].at - 1 : Source[j] \in g.targets,
           \A t \in Targets : made[t] # Absent => made'[t] # Absent,
           DOMAIN made' = Targets, made' = [t \in Targets |-> made'[t]],
           verified \subseteq verified', verified' \subseteq Variants,
           FileOk', RecordedIsDone'
    PROVE  BuildInv'
<1>1. /\ BuildType /\ Active(c) /\ cmd[c].fd = cur /\ cur \in Inodes /\ cur # NoFile
      /\ files \in [Inodes -> StateFile]
      /\ "o" \in cmd[c].opts \/ Fine(files[cur])
      /\ ~scen.alone => cmd[c].opts = {} /\ cmd[c].vars # {}
  <2>1. cmd[c].pc = "running" => cmd[c].at > 0
    BY StageNames DEF BuildInv, CommandOk, Finds
  <2> QED BY <2>1, Here DEF BuildInv, BuildType
<1>2. files'[cur'] = g /\ files' \in [Inodes -> StateFile]
  BY <1>1 DEF Writes
<1>3. Fine(files[cur]) => Fine(files[cur])'
  BY <1>1, <1>2 DEF Writes, Keeps, Fine, Outdated, StateFile
<1>4. /\ cmd' \in [Commands -> Command] /\ \A d \in Commands : d # c => cmd'[d] = cmd[d]
      /\ LockOk(c)
      /\ cmd'[c].opts = cmd[c].opts /\ ~cmd'[c].fresh
      /\ cmd'[c].pc \in {"ended", "clean", "enter"}
      /\ ~scen.alone => cmd'[c].pc # "clean"
      /\ CommandOk(c)'
  BY <1>1, <1>2, <1>3, ProceedOk DEF Writes
<1>5. StepOf(c)
  <2>1. ~scen.alone => Gently
    BY <1>1, <1>2 DEF Writes, Keeps, Gently
  <2> QED BY <1>1, <1>4, <2>1, NoOther DEF StepOf, LockOk, Writes, AlonePcs
<1>6. ImagesOk' /\ InstalledIsWhole'
  BY <1>4, <1>5, SameImages DEF Writes
<1>7. BuildType'
  BY <1>1, <1>2, <1>4 DEF BuildType, Writes, LockOk
<1> QED BY <1>4, <1>5, <1>6, <1>7, OthersOk DEF BuildInv

\* The variants are compared with those of the state file, or written to it.
LEMMA CheckVariantsOk ==
    ASSUME BuildInv, NEW c \in Commands, CheckVariants(c)
    PROVE  BuildInv'
<1>1. /\ UNCHANGED <<scen, portfile, cur, there, made, result>> /\ BuildType
      /\ cmd[c].pc = "opened" /\ cmd[c].at = 0
  BY DEF CheckVariants, BuildInv
<1>2. /\ Active(c) /\ cmd[c].fd = cur /\ cur \in Inodes /\ cur # NoFile
      /\ files[cur] \in StateFile /\ cmd[c] \in Command /\ cmd[c].vars \in Variants
      /\ "o" \in cmd[c].opts \/ Fine(files[cur])
      /\ ~scen.alone => cmd[c].opts = {} /\ cmd[c].vars # {}
  BY <1>1, Here
<1>3. CASE ~("f" \in cmd[c].opts \/ VariantsMatch(files[cur], cmd[c].vars))
  <2>1. End(c) /\ files' = files
    BY <1>2, <1>3 DEF CheckVariants
  <2>2. /\ Quiet(c) /\ CommandOk(c)' /\ cmd'[c].pc = "ended"
        /\ cmd'[c].opts = cmd[c].opts /\ ~cmd'[c].fresh
    BY <1>1, <2>1, EndTo DEF Quiet
  <2> QED BY <1>1, <1>2, <2>2, NoOther, QuietOk DEF AlonePcs
<1>4. CASE "f" \in cmd[c].opts \/ VariantsMatch(files[cur], cmd[c].vars)
  <2> PICK g : g = IF cmd[c].vars \subseteq files[cur].variants THEN files[cur]
                   ELSE [files[cur] EXCEPT !.variants = @ \cup cmd[c].vars, !.older = FALSE]
    OBVIOUS
  <2>1. files' = [files EXCEPT ![cur] = g] /\ Proceed(c)
    BY <1>2, <1>4 DEF CheckVariants
  <2>2. /\ g \in StateFile /\ g.version = files[cur].version /\ g.sums = files[cur].sums
        /\ g.targets = files[cur].targets /\ g.older => files[cur].older
        /\ g.variants = files[cur].variants \cup cmd[c].vars
    BY <1>2 DEF StateFile, Command
  <2>3. Writes(c, g)
    BY <1>1, <2>1, <2>2 DEF Writes, result
  <2>4. \/ "f" \in cmd[c].opts
        \/ /\ g.variants = cmd[c].vars
           /\ files[cur].variants # {} => g.variants = files[cur].variants
           /\ files[cur].targets = {} \/ g.variants = files[cur].variants
    BY <1>4, <2>2 DEF VariantsMatch
  <2>5. files'[cur'] = g /\ cur' = cur
    BY <1>1, <1>2, <2>1 DEF BuildType
  <2>6. /\ cmd' \in [Commands -> Command] /\ \A d \in Commands : d # c => cmd'[d] = cmd[d]
        /\ cmd'[c].opts = cmd[c].opts
    <3>1. cmd[c].at <= Last(cmd[c].goal)
      BY <1>2 DEF BuildInv, CommandOk, Asked
    <3> QED BY <1>1, <2>1, <3>1, ProceedTo
  <2>7. Plain' => Plain /\ cmd[c].opts = {}
    BY <2>6 DEF Plain
  <2>8. \A v : Archived(v) => Archived(v)'
    BY <1>1, <2>6 DEF Archived, Archive, result
  <2>9. FileOk'
    <3>1. FileOk
      BY DEF BuildInv
    <3>2. /\ g.sums # <<>> => Head(g.sums) <= portfile'
          /\ \A i, j \in 1 .. SourceLen :
                j < i /\ Source[i] \in g.targets => Source[j] \in g.targets
      BY <1>1, <1>2, <2>2, <3>1 DEF FileOk
    <3>3. ASSUME Plain', NEW t \in g.targets \cap Targets
          PROVE  made'[t] = Work(portfile', g.variants) \/ Archived(g.variants)'
      <4>1. /\ Plain /\ Fine(files[cur])
            /\ g.variants = files[cur].variants /\ t \in files[cur].targets
        BY <1>2, <2>2, <2>4, <2>7, <3>3
      <4> QED BY <1>1, <1>2, <2>8, <3>1, <3>3, <4>1 DEF FileOk
    <3> QED BY <1>2, <2>5, <3>2, <3>3 DEF FileOk
  <2>10. RecordedIsDone'
    BY <1>1, <2>2, <2>5, <2>8 DEF BuildInv, RecordedIsDone, RecordedTargets, DoneUpTo
  <2>11. /\ \A t \in Targets : made[t] # Absent => made'[t] # Absent
         /\ DOMAIN made' = Targets /\ made' = [t \in Targets |-> made'[t]]
         /\ verified \subseteq verified' /\ verified' \subseteq Variants
    BY <1>1 DEF BuildType, result
  <2>12. /\ \A j \in 1 .. cmd[c].at - 1 : Source[j] \in g.targets
         /\ ~scen.alone /\ files[cur].variants # {} => g.variants = files[cur].variants
         /\ "f" \in cmd[c].opts \/ g.variants = cmd[c].vars
    BY <1>1, <1>2, <2>4
  <2> QED BY <1>1, <2>3, <2>9, <2>10, <2>11, <2>12, WritesOk
<1> QED BY <1>3, <1>4

\* What the file has with more targets.
LEMMA WithTargetsOk ==
    ASSUME NEW f \in StateFile, NEW T \in SUBSET (Targets \cup {"archivefetch"})
    PROVE  /\ WithTargets(f, T) \in StateFile
           /\ WithTargets(f, T).version = f.version /\ WithTargets(f, T).sums = f.sums
           /\ WithTargets(f, T).targets = f.targets \cup T /\ ~WithTargets(f, T).older
           /\ WithTargets(f, T).variants = f.variants
<1> PICK U : U = f.targets \cup T
  OBVIOUS
<1>1. U \in SUBSET (Targets \cup {"archivefetch"})
  BY DEF StateFile
<1>2. WithTargets(f, T) = [f EXCEPT !.targets = U, !.older = FALSE]
  BY DEF WithTargets
<1> QED BY <1>1, <1>2 DEF StateFile

\* An archive stands for all targets.
LEMMA ArchiveFoundOk ==
    ASSUME BuildInv, NEW c \in Commands, ArchiveFound(c)
    PROVE  BuildInv'
<1> PICK g : g = WithTargets(files[cur], Targets \cup {"archivefetch"})
  OBVIOUS
<1>1. /\ UNCHANGED <<scen, portfile, cur, there, made, image, dirs, registered>> /\ BuildType
      /\ cmd[c].pc = "opened" /\ cmd[c].at = 1 /\ Proceed(c)
      /\ verified' = IF cmd[c].vars \in dirs THEN verified ELSE verified \cup {cmd[c].vars}
      /\ files' = [files EXCEPT ![cmd[c].fd] =
            WithTargets(files[cmd[c].fd], Targets \cup {"archivefetch"})]
  BY AtStage DEF ArchiveFound, BuildInv, At
<1>2. /\ Active(c) /\ cmd[c].fd = cur /\ cur \in Inodes /\ cur # NoFile
      /\ files[cur] \in StateFile /\ cmd[c] \in Command /\ cmd[c].vars \in Variants
      /\ "f" \in cmd[c].opts \/ files[cur].variants = cmd[c].vars
  BY <1>1, Here
<1>3. /\ g \in StateFile /\ g.version = files[cur].version /\ g.sums = files[cur].sums
      /\ g.targets = files[cur].targets \cup (Targets \cup {"archivefetch"}) /\ ~g.older
      /\ g.variants = files[cur].variants
  BY <1>2, WithTargetsOk
<1>4. files' = [files EXCEPT ![cur] = g] /\ files'[cur'] = g
  BY <1>1, <1>2 DEF BuildType
<1>5. Writes(c, g)
  BY <1>1, <1>3, <1>4 DEF Writes
<1>6. \A j \in 1 .. SourceLen : Source[j] \in g.targets
  BY <1>3, StageNames
<1> PICK v : v = cmd[c].vars
  OBVIOUS
<1>7. Archived(v)' /\ v \in Variants
  BY <1>1, <1>2 DEF Archived, Archive
<1>8. FileOk'
  <2>1. g.sums # <<>> => Head(g.sums) <= portfile'
    BY <1>1, <1>2, <1>3 DEF BuildInv, FileOk
  <2>2. Plain' => g.variants = v
    <3>1. cmd'[c].opts = cmd[c].opts
      <4>1. cmd[c].at <= Last(cmd[c].goal)
        BY <1>2 DEF BuildInv, CommandOk, Asked
      <4> QED BY <1>1, <4>1, ProceedTo
    <3> QED BY <1>2, <1>3, <3>1 DEF Plain
  <2> QED BY <1>4, <1>6, <1>7, <2>1, <2>2 DEF FileOk
<1>9. RecordedIsDone'
  BY <1>2, <1>7 DEF RecordedIsDone, RecordedTargets, DoneUpTo
<1>10. /\ \A t \in Targets : made[t] # Absent => made'[t] # Absent
       /\ DOMAIN made' = Targets /\ made' = [t \in Targets |-> made'[t]]
       /\ verified \subseteq verified' /\ verified' \subseteq Variants
  BY <1>1, <1>2 DEF BuildType
<1>11. \A j \in 1 .. cmd[c].at - 1 : Source[j] \in g.targets
  BY <1>1
<1> QED BY <1>1, <1>2, <1>3, <1>5, <1>8, <1>9, <1>10, <1>11, WritesOk

\* A target begins.
LEMMA BeginOk ==
    ASSUME BuildInv, NEW c \in Commands, Begin(c)
    PROVE  BuildInv'
<1> DEFINE t == Source[cmd[c].at - 1]
<1>1. /\ UNCHANGED <<scen, portfile, files, cur, lock, there, result>> /\ BuildType
      /\ cmd[c].pc = "opened" /\ cmd[c].at \in 2 .. SourceLen + 1 /\ t \in Targets
      /\ t \notin files[cmd[c].fd].targets
      /\ made' = [made EXCEPT ![t] = Partial] /\ Go(c, "running")
  BY AtStage, StageNames DEF Begin, BuildInv, At, Recorded
<1>2. /\ Active(c) /\ cmd[c].fd = cur /\ cur \in Inodes /\ cur # NoFile /\ cmd[c] \in Command
      /\ scen.alone => \A d \in Commands : d # c => ~Active(d)
      /\ ~scen.alone => cmd[c].opts = {} /\ cmd[c].vars # {}
      /\ CommandOk(c)
  BY <1>1, Here DEF BuildInv
<1>3. /\ cmd'[c].pc = "running" /\ cmd'[c].sum = cmd[c].sum /\ cmd'[c].fresh = cmd[c].fresh
      /\ cmd'[c].fd = cmd[c].fd /\ cmd'[c].opts = cmd[c].opts /\ cmd'[c].at = cmd[c].at
      /\ cmd'[c].goal = cmd[c].goal /\ cmd'[c].vars = cmd[c].vars
      /\ cmd'[c].loaded = cmd[c].loaded
      /\ cmd' \in [Commands -> Command] /\ \A d \in Commands : d # c => cmd'[d] = cmd[d]
  <2>1. "running" \in CommandPcs
    BY DEF CommandPcs, Locked
  <2> QED BY <1>1, <2>1, GoTo
<1>4. Partial # Absent /\ DOMAIN made = Targets /\ DOMAIN made' = Targets
      /\ made' = [u \in Targets |-> made'[u]]
      /\ made'[t] = Partial /\ \A u \in Targets : u # t => made'[u] = made[u]
  <2>1. Partial # Absent
    BY DEF Partial, Absent
  <2> QED BY <1>1, <2>1 DEF BuildType
<1> HIDE DEF t
<1>5. LockOk(c)
  BY <1>1, LockKept
<1>6. ~cmd[c].fresh
  BY <1>1, <1>2 DEF CommandOk, Asked
<1>7. StepOf(c)
  BY <1>1, <1>2, <1>3, <1>4, <1>5, <1>6 DEF StepOf, LockOk, Gently, Keeps, AlonePcs
<1>8. CommandOk(c)'
  <2>1. Holds(c)'
    BY <1>1, <1>2, <1>3 DEF CommandOk, Holds, Locked, Idle
  <2>2. Asked(c)'
    BY <1>1, <1>2, <1>3 DEF CommandOk, Asked, Idle, Active
  <2>3. Settled(c, cmd[c].at)'
    BY <1>1, <1>2, <1>3 DEF CommandOk, Finds, Settled, Fine
  <2>4. Finds(c)'
    BY <1>1, <1>2, <1>3, <1>4, <1>6, <2>3 DEF Finds, t
  <2> QED BY <2>1, <2>2, <2>4 DEF CommandOk
<1>9. /\ \A v : Archived(v) => Archived(v)'
      /\ Plain' => Plain
  BY <1>1, <1>3 DEF Archived, Archive, Plain, result
<1>10. FileOk'
  <2>1. FileOk /\ (Fine(files[cur])' <=> Fine(files[cur]))
    BY <1>1 DEF BuildInv, Fine
  <2> QED BY <1>1, <1>2, <1>4, <1>9, <2>1 DEF FileOk
<1>11. RecordedIsDone'
  <2>1. SUFFICES ASSUME NEW i \in DOMAIN Source, Source[i] \in files[cur].targets
                 PROVE  \/ \A j \in 1 .. i : made'[Source[j]].is = "done"
                        \/ \E v \in Variants : Archived(v)'
    BY <1>1 DEF RecordedIsDone, RecordedTargets, DoneUpTo
  <2>2. i \in 1 .. SourceLen /\ FileOk /\ RecordedIsDone
    BY SourceAssumption, LenProperties DEF SourceLen, BuildInv
  <2>3. \A j \in 1 .. i : Source[j] \in files[cur].targets /\ Source[j] \in Targets
    <3>1. SUFFICES ASSUME NEW j \in 1 .. i
                   PROVE  Source[j] \in files[cur].targets /\ Source[j] \in Targets
      OBVIOUS
    <3>2. j \in 1 .. SourceLen /\ (j = i \/ j < i)
      BY <2>2, <3>1, StageNames
    <3>3. Source[j] \in Targets
      BY <3>2, StageNames
    <3>4. Source[j] \in files[cur].targets
      BY <1>2, <2>1, <2>2, <3>2 DEF FileOk
    <3> QED BY <3>3, <3>4
  <2>4. \A j \in 1 .. i : Source[j] # t
    BY <1>1, <1>2, <2>3
  <2> QED BY <1>2, <1>4, <1>9, <2>1, <2>2, <2>3, <2>4 DEF RecordedIsDone, RecordedTargets, DoneUpTo
<1>12. ImagesOk' /\ InstalledIsWhole'
  BY <1>1, <1>3, <1>7, SameImages DEF result
<1>13. BuildType'
  BY <1>1, <1>3, <1>4 DEF BuildType, result
<1> QED BY <1>7, <1>8, <1>10, <1>11, <1>12, <1>13, OthersOk DEF BuildInv

\* A target is completed and recorded.
LEMMA SucceedOk ==
    ASSUME BuildInv, NEW c \in Commands, Succeed(c)
    PROVE  BuildInv'
<1> PICK k : k = cmd[c].at - 1
  OBVIOUS
<1> PICK t : t = Source[k]
  OBVIOUS
<1> PICK v : v = cmd[c].vars
  OBVIOUS
<1> PICK g : g = WithTargets(files[cur], {t})
  OBVIOUS
<1>1. /\ cmd[c].pc = "running" /\ Proceed(c) /\ BuildType /\ FileOk /\ RecordedIsDone
      /\ UNCHANGED <<scen, portfile, cur, there, result>>
  BY DEF Succeed, BuildInv
<1>2. /\ cmd[c].at \in 2 .. SourceLen + 1 /\ k \in 1 .. SourceLen
      /\ t \in Targets /\ Stages[cmd[c].at] = t
      /\ made[t] # Absent /\ cmd[c].at > 0
  <2>1. cmd[c].at \in 2 .. SourceLen + 1 /\ made[Source[cmd[c].at - 1]] # Absent
    BY <1>1 DEF BuildInv, CommandOk, Finds
  <2> QED BY <2>1, StageNames
<1>3. /\ Active(c) /\ cmd[c].fd = cur /\ cur \in Inodes /\ cur # NoFile
      /\ files[cur] \in StateFile /\ cmd[c] \in Command /\ v \in Variants
      /\ cmd[c].loaded = portfile
      /\ "o" \in cmd[c].opts \/ Fine(files[cur])
      /\ "f" \in cmd[c].opts \/ files[cur].variants = v
      /\ \A j \in 1 .. k - 1 : Source[j] \in files[cur].targets
      /\ ~scen.alone => cmd[c].opts = {}
  BY <1>1, <1>2, Here
<1>4. /\ g \in StateFile /\ g.version = files[cur].version /\ g.sums = files[cur].sums
      /\ g.targets = files[cur].targets \cup {t} /\ ~g.older
      /\ g.variants = files[cur].variants
  BY <1>2, <1>3, WithTargetsOk
<1>5. files' = [files EXCEPT ![cur] = g] /\ files'[cur'] = g
  BY <1>1, <1>2, <1>3 DEF Succeed, BuildType
<1>6. /\ DOMAIN made' = Targets /\ made' = [u \in Targets |-> made'[u]]
      /\ made'[t] = Work(portfile, v) /\ \A u \in Targets : u # t => made'[u] = made[u]
  <2>1. made' = [made EXCEPT ![t] = Work(portfile, v)]
    BY <1>2, <1>3 DEF Succeed
  <2> QED BY <1>1, <1>2, <2>1 DEF BuildType
<1>7. /\ made'[t] # Absent /\ made'[t].is = "done"
  BY <1>6 DEF Work, Absent
<1>8. Writes(c, g)
  BY <1>1, <1>4, <1>5 DEF Writes, result
<1>9. \A j \in 1 .. cmd[c].at - 1 : Source[j] \in g.targets
  <2>1. \A j \in 1 .. k : j \in 1 .. k - 1 \/ j = k
    BY <1>2, StageNames
  <2> QED BY <1>2, <1>3, <1>4, <2>1
<1>10. /\ Plain' => Plain /\ cmd[c].opts = {}
       /\ \A w : Archived(w) => Archived(w)'
  <2>1. cmd[c].at <= Last(cmd[c].goal)
    BY DEF BuildInv, CommandOk, Asked
  <2>2. cmd'[c].opts = cmd[c].opts /\ \A d \in Commands : d # c => cmd'[d] = cmd[d]
    BY <1>1, <2>1, ProceedTo
  <2> QED BY <1>1, <2>2 DEF Plain, Archived, Archive, result
<1>11. FileOk'
  <2>1. g.sums # <<>> => Head(g.sums) <= portfile'
    BY <1>1, <1>3, <1>4 DEF FileOk
  <2>2. ASSUME NEW i \in 1 .. SourceLen, NEW j \in 1 .. SourceLen, j < i, Source[i] \in g.targets
        PROVE  Source[j] \in g.targets
    <3>1. CASE Source[i] \in files[cur].targets
      BY <1>1, <1>3, <1>4, <2>2, <3>1 DEF FileOk
    <3>2. CASE Source[i] = t
      <4>1. i = k
        BY <1>2, <3>2, StageNames
      <4>2. j \in 1 .. k - 1
        BY <1>2, <2>2, <4>1
      <4> QED BY <1>3, <1>4, <4>2
    <3> QED BY <1>4, <2>2, <3>1, <3>2
  <2>3. ASSUME Plain', NEW u \in g.targets \cap Targets
        PROVE  made'[u] = Work(portfile', g.variants) \/ Archived(g.variants)'
    <3>1. Plain /\ Fine(files[cur]) /\ g.variants = v /\ g.variants = files[cur].variants
      BY <1>3, <1>4, <1>10, <2>3
    <3>2. CASE u = t
      BY <1>1, <1>6, <3>1, <3>2
    <3>3. CASE u # t
      <4>1. u \in files[cur].targets \cap Targets
        BY <1>4, <2>3, <3>3
      <4> QED BY <1>1, <1>3, <1>6, <1>10, <3>1, <3>3, <4>1 DEF FileOk
    <3> QED BY <3>2, <3>3
  <2> QED BY <1>5, <2>1, <2>2, <2>3 DEF FileOk
<1>12. RecordedIsDone'
  <2>1. SUFFICES ASSUME NEW i \in DOMAIN Source, Source[i] \in g.targets
                 PROVE  \/ \A j \in 1 .. i : made'[Source[j]].is = "done"
                        \/ \E w \in Variants : Archived(w)'
    BY <1>5 DEF RecordedIsDone, RecordedTargets, DoneUpTo
  <2>2. DOMAIN Source = 1 .. SourceLen /\ i \in 1 .. SourceLen /\ SourceLen \in Nat
    BY SourceAssumption, LenProperties DEF SourceLen
  <2>3. \A j \in 1 .. SourceLen : Source[j] \in Targets
    BY StageNames
  <2>4. CASE Source[i] \in files[cur].targets
    <3>1. \/ \A j \in 1 .. i : made[Source[j]].is = "done"
          \/ \E w \in Variants : Archived(w)
      BY <1>1, <1>3, <2>4 DEF RecordedIsDone, RecordedTargets, DoneUpTo
    <3> QED BY <1>6, <1>7, <1>10, <2>2, <2>3, <3>1
  <2>5. CASE i = k /\ k = 1
    <3>1. \A j \in 1 .. i : j = k
      BY <2>5
    <3> QED BY <1>7, <3>1
  <2>6. CASE i = k /\ k # 1
    <3>1. k - 1 \in 1 .. SourceLen /\ k - 1 \in 1 .. k - 1
      BY <1>2, <2>2, <2>6
    <3>2. \/ \A j \in 1 .. k - 1 : made[Source[j]].is = "done"
          \/ \E w \in Variants : Archived(w)
      BY <1>1, <1>3, <2>2, <3>1 DEF RecordedIsDone, RecordedTargets, DoneUpTo
    <3>3. \A j \in 1 .. i : j = k \/ j \in 1 .. k - 1
      BY <1>2, <2>2, <2>6
    <3> QED BY <1>6, <1>7, <1>10, <2>2, <2>3, <3>2, <3>3
  <2>7. Source[i] = t => i = k
    BY <1>2, <2>2, StageNames
  <2> QED BY <1>4, <2>1, <2>4, <2>5, <2>6, <2>7
<1>13. /\ \A u \in Targets : made[u] # Absent => made'[u] # Absent
       /\ verified \subseteq verified' /\ verified' \subseteq Variants
  BY <1>1, <1>6, <1>7 DEF BuildType, result
<1>14. /\ "f" \in cmd[c].opts \/ g.variants = cmd[c].vars
       /\ ~scen.alone /\ files[cur].variants # {} => g.variants = files[cur].variants
  BY <1>3, <1>4
<1> QED BY <1>1, <1>6, <1>8, <1>9, <1>11, <1>12, <1>13, <1>14, WritesOk

\* The work directory is cleaned.
LEMMA CleanOk ==
    ASSUME BuildInv, NEW c \in Commands, Clean(c)
    PROVE  BuildInv'
<1>1. /\ UNCHANGED <<scen, portfile, result>> /\ BuildType
      /\ cmd[c].pc = "clean" /\ Active(c) /\ End(c)
      /\ cur' = NoFile /\ made' = Nothing
  BY DEF Clean, BuildInv, Active
<1>2. /\ cmd' \in [Commands -> Command] /\ \A d \in Commands : d # c => cmd'[d] = cmd[d]
      /\ LockOk(c) /\ cmd'[c].pc = "ended" /\ cmd'[c].opts = cmd[c].opts /\ CommandOk(c)'
  BY <1>1, EndTo
<1>3. files' \in [Inodes -> StateFile]
  BY <1>1, EmptySeq DEF Clean, Unlinked, BuildType, StateFile, EmptyFile
<1>4. StepOf(c)
  <2>1. scen.alone
    BY <1>1 DEF BuildInv, Together, AlonePcs
  <2> QED BY <1>1, <1>2, <2>1, NoOther DEF StepOf, LockOk
<1>5. BuildType'
  BY <1>1, <1>2, <1>3 DEF BuildType, result, Nothing, LockOk
<1>6. ImagesOk' /\ InstalledIsWhole'
  BY <1>1, <1>2, <1>4, SameImages DEF result
<1> QED BY <1>1, <1>2, <1>4, <1>5, <1>6, OthersOk DEF BuildInv, FileOk, RecordedIsDone, RecordedTargets, DoneUpTo

-----------------------------------------------------------------------------
(* The install.                                                            *)

\* Only a command that has no others beside it installs.
LEMMA Installs ==
    ASSUME BuildInv, NEW c \in Commands, Active(c), cmd[c].at = SourceLen + 2
    PROVE  /\ scen.alone /\ cmd[c].goal = "install" /\ Last("install") = SourceLen + 2
           /\ \A d \in Commands : d # c => ~Active(d)
<1>1. Asked(c) /\ cmd[c] \in Command
  BY DEF BuildInv, CommandOk, BuildType
<1>2. cmd[c].goal = "install" /\ Last("install") = SourceLen + 2
  <2>1. cmd[c].at <= Last(cmd[c].goal)
    BY <1>1 DEF Asked
  <2> QED BY <2>1, StageNames DEF Last
<1>3. scen.alone
  BY <1>2, Beside
<1> QED BY <1>2, <1>3, NoOther

\* A fetched archive is moved.
LEMMA MoveArchiveOk ==
    ASSUME BuildInv, NEW c \in Commands, MoveArchive(c)
    PROVE  BuildInv'
<1> PICK v : v = cmd[c].vars
  OBVIOUS
<1>1. /\ UNCHANGED <<scen, portfile, lock, disk, dirs, registered>> /\ BuildType
      /\ cmd[c].pc = "opened" /\ cmd[c].at = SourceLen + 2 /\ v \in verified
      /\ verified' = verified \ {v} /\ image' = [image EXCEPT ![v] = Fetched]
      /\ Go(c, "moved")
  BY AtStage DEF MoveArchive, BuildInv, At
<1>2. /\ Active(c) /\ CommandOk(c) /\ v \in Variants /\ cmd[c].at > 0
  BY <1>1, Here, StageNames DEF BuildInv
<1>3. scen.alone /\ \A d \in Commands : d # c => ~Active(d)
  BY <1>1, <1>2, Installs
<1>4. /\ cmd'[c].pc = "moved" /\ cmd'[c].sum = cmd[c].sum /\ cmd'[c].fresh = cmd[c].fresh
      /\ cmd'[c].fd = cmd[c].fd /\ cmd'[c].opts = cmd[c].opts /\ cmd'[c].at = cmd[c].at
      /\ cmd'[c].goal = cmd[c].goal /\ cmd'[c].vars = cmd[c].vars
      /\ cmd'[c].loaded = cmd[c].loaded
      /\ cmd' \in [Commands -> Command] /\ \A d \in Commands : d # c => cmd'[d] = cmd[d]
  <2>1. "moved" \in CommandPcs
    BY DEF CommandPcs, Locked
  <2> QED BY <1>1, <2>1, GoTo
<1>5. StepOf(c)
  <2>1. LockOk(c)
    BY <1>1, LockKept
  <2> QED BY <1>1, <1>3, <1>4, <2>1 DEF StepOf, LockOk
<1>6. CommandOk(c)'
  <2>1. Holds(c)'
    BY <1>1, <1>2, <1>4 DEF CommandOk, Holds, Locked, Idle, disk
  <2>2. Asked(c)'
    BY <1>1, <1>2, <1>4 DEF CommandOk, Asked, Idle, Active
  <2>3. Settled(c, cmd[c].at)'
    BY <1>1, <1>2, <1>4 DEF CommandOk, Finds, Settled, Fine, disk
  <2>4. Finds(c)'
    BY <1>1, <1>2, <1>4, <2>3 DEF CommandOk, Finds, Asked
  <2> QED BY <2>1, <2>2, <2>4 DEF CommandOk
<1>7. Plain' => Plain
  BY <1>4 DEF Plain
<1>8. \A w : Archived(w) => Archived(w)'
  BY <1>1, <1>4 DEF Archived, Archive
<1>9. FileOk' /\ RecordedIsDone'
  BY <1>1, <1>7, <1>8 DEF BuildInv, FileOk, RecordedIsDone, RecordedTargets, DoneUpTo, Fine, disk
<1>10. image'[v].from = "archive" /\ \A w \in Variants : w # v => image'[w] = image[w]
  BY <1>1, <1>2 DEF BuildType, Fetched, NoImage
<1>11. ImagesOk'
  <2>1. \A d \in Commands : cmd'[d].pc \in {"moved", "register"} => d = c
    BY <1>3, <1>4 DEF Active
  <2> QED BY <1>4, <1>10, <2>1 DEF ImagesOk, Whole
<1>12. InstalledIsWhole'
  BY <1>1, <1>7, <1>10 DEF BuildInv, BuildType, InstalledIsWhole
<1>13. BuildType'
  BY <1>1, <1>2, <1>4 DEF BuildType, disk
<1> QED BY <1>5, <1>6, <1>9, <1>11, <1>12, <1>13, OthersOk DEF BuildInv

\* The state file is removed.
LEMMA DropStateOk ==
    ASSUME BuildInv, NEW c \in Commands, DropState(c)
    PROVE  BuildInv'
<1>1. /\ UNCHANGED <<scen, portfile, lock, there, made, result>> /\ BuildType
      /\ cmd[c].pc = "moved" /\ Active(c) /\ CommandOk(c) /\ cmd[c].at = SourceLen + 2
      /\ cur' = NoFile /\ Go(c, "register")
  BY DEF DropState, BuildInv, Active, CommandOk, Asked
<1>2. scen.alone /\ \A d \in Commands : d # c => ~Active(d)
  BY <1>1, Installs
<1>3. /\ cmd'[c].pc = "register" /\ cmd'[c].sum = cmd[c].sum /\ cmd'[c].fresh = cmd[c].fresh
      /\ cmd'[c].fd = cmd[c].fd /\ cmd'[c].opts = cmd[c].opts /\ cmd'[c].at = cmd[c].at
      /\ cmd'[c].goal = cmd[c].goal /\ cmd'[c].vars = cmd[c].vars
      /\ cmd'[c].loaded = cmd[c].loaded
      /\ cmd' \in [Commands -> Command] /\ \A d \in Commands : d # c => cmd'[d] = cmd[d]
  <2>1. "register" \in CommandPcs
    BY DEF CommandPcs, Locked
  <2> QED BY <1>1, <2>1, GoTo
<1>4. files' \in [Inodes -> StateFile]
  BY <1>1, EmptySeq DEF DropState, Unlinked, BuildType, StateFile, EmptyFile
<1>5. StepOf(c)
  <2>1. LockOk(c)
    BY <1>1, LockKept
  <2> QED BY <1>1, <1>2, <1>3, <2>1 DEF StepOf, LockOk
<1>6. CommandOk(c)'
  BY <1>1, <1>3 DEF CommandOk, Holds, Asked, Finds, Idle, Locked, Active
<1>7. Plain' => Plain
  BY <1>3 DEF Plain
<1>8. ImagesOk' /\ InstalledIsWhole'
  BY <1>1, <1>3, <1>7 DEF BuildInv, ImagesOk, InstalledIsWhole, Whole, result
<1>9. BuildType'
  BY <1>1, <1>3, <1>4 DEF BuildType, result
<1> QED BY <1>1, <1>5, <1>6, <1>8, <1>9, OthersOk DEF BuildInv, FileOk, RecordedIsDone, RecordedTargets, DoneUpTo

\* The destroot is archived.
LEMMA CreateArchiveOk ==
    ASSUME BuildInv, NEW c \in Commands, CreateArchive(c)
    PROVE  BuildInv'
<1> PICK v : v = cmd[c].vars
  OBVIOUS
<1>1. /\ UNCHANGED <<scen, portfile, lock, disk, verified, registered>> /\ BuildType
      /\ cmd[c].pc = "opened" /\ cmd[c].at = SourceLen + 2 /\ v \notin verified
      /\ image' = [image EXCEPT ![v] = IF v \in dirs THEN Left ELSE Built(made)]
      /\ dirs \subseteq dirs' /\ Go(c, "register")
  BY AtStage DEF CreateArchive, Creates, BuildInv, At
<1>2. /\ Active(c) /\ CommandOk(c) /\ v \in Variants /\ cmd[c].at > 0 /\ cur # NoFile
      /\ "o" \in cmd[c].opts \/ Fine(files[cur])
      /\ "f" \in cmd[c].opts \/ files[cur].variants = v
      /\ \A j \in 1 .. cmd[c].at - 2 : Source[j] \in files[cur].targets
  BY <1>1, Here, StageNames DEF BuildInv
<1>3. scen.alone /\ \A d \in Commands : d # c => ~Active(d)
  BY <1>1, <1>2, Installs
<1>4. /\ cmd'[c].pc = "register" /\ cmd'[c].sum = cmd[c].sum /\ cmd'[c].fresh = cmd[c].fresh
      /\ cmd'[c].fd = cmd[c].fd /\ cmd'[c].opts = cmd[c].opts /\ cmd'[c].at = cmd[c].at
      /\ cmd'[c].goal = cmd[c].goal /\ cmd'[c].vars = cmd[c].vars
      /\ cmd'[c].loaded = cmd[c].loaded
      /\ cmd' \in [Commands -> Command] /\ \A d \in Commands : d # c => cmd'[d] = cmd[d]
  <2>1. "register" \in CommandPcs
    BY DEF CommandPcs, Locked
  <2> QED BY <1>1, <2>1, GoTo
<1>5. StepOf(c)
  <2>1. LockOk(c)
    BY <1>1, LockKept
  <2> QED BY <1>1, <1>3, <1>4, <2>1 DEF StepOf, LockOk
<1>6. CommandOk(c)'
  <2>1. Holds(c)'
    BY <1>1, <1>2, <1>4 DEF CommandOk, Holds, Locked, Idle, disk
  <2>2. Asked(c)'
    BY <1>1, <1>2, <1>4 DEF CommandOk, Asked, Idle, Active
  <2>3. Finds(c)'
    BY <1>1, <1>2, <1>4 DEF CommandOk, Finds, Asked
  <2> QED BY <2>1, <2>2, <2>3 DEF CommandOk
<1>7. Plain' => Plain /\ cmd[c].opts = {}
  BY <1>4 DEF Plain
<1>8. v \notin dirs => ~Archived(v)
  BY <1>1, <1>3 DEF Archived, Archive, Active
<1>9. Plain' /\ v \notin dirs => made = [t \in Targets |-> Work(portfile, v)]
  <2>1. \A t \in Targets : t \in files[cur].targets
    BY <1>1, <1>2, StageNames
  <2>2. Plain' /\ v \notin dirs => \A t \in Targets : made[t] = Work(portfile, v)
    BY <1>2, <1>7, <1>8, <2>1 DEF BuildInv, FileOk
  <2> QED BY <1>1, <2>2 DEF BuildType
<1>10. /\ v \in dirs => image'[v].from = "left"
       /\ v \notin dirs => image'[v].work = made
       /\ \A w \in Variants : w # v => image'[w] = image[w]
  BY <1>1, <1>2 DEF BuildType, Built, Left, NoImage
<1>11. Plain' => Whole(v)'
  <2>1. SUFFICES ASSUME Plain', v \notin dirs
                 PROVE  \E n \in 1 .. MaxPortfile : image'[v].work = [t \in Targets |-> Work(n, v)]
    BY <1>10 DEF Whole
  <2>2. portfile \in 1 .. MaxPortfile /\ image'[v].work = [t \in Targets |-> Work(portfile, v)]
    BY <1>1, <1>9, <1>10, <2>1 DEF BuildType
  <2> QED BY <2>2
<1>12. ImagesOk'
  <2>1. \A d \in Commands : cmd'[d].pc \in {"moved", "register"} => d = c
    BY <1>3, <1>4 DEF Active
  <2> QED BY <1>4, <1>11, <2>1 DEF ImagesOk, Whole
<1>13. InstalledIsWhole'
  <2>1. SUFFICES ASSUME Plain', NEW w \in registered' PROVE Whole(w)'
    BY DEF InstalledIsWhole, Whole
  <2>2. w \in Variants /\ Whole(w)
    BY <1>1, <1>7, <2>1 DEF BuildInv, BuildType, InstalledIsWhole, Whole
  <2>3. CASE w = v
    BY <1>11, <2>1, <2>3
  <2>4. CASE w # v
    BY <1>10, <2>2, <2>4 DEF Whole
  <2> QED BY <2>3, <2>4
<1>14. FileOk' /\ RecordedIsDone'
  BY <1>1, <1>4, <1>5, SameFile DEF disk
<1>15. BuildType'
  BY <1>1, <1>2, <1>4 DEF BuildType, disk
<1> QED BY <1>5, <1>6, <1>12, <1>13, <1>14, <1>15, OthersOk DEF BuildInv

\* The destroot is copied in part, or not at all.
LEMMA CreateFailsOk ==
    ASSUME BuildInv, NEW c \in Commands, CreateFails(c)
    PROVE  BuildInv'
<1> PICK v : v = cmd[c].vars
  OBVIOUS
<1>1. /\ UNCHANGED <<scen, portfile, disk, verified, registered>> /\ BuildType
      /\ cmd[c].pc = "opened" /\ cmd[c].at = SourceLen + 2
      /\ image' = [image EXCEPT ![v] = Left] /\ dirs \subseteq dirs' /\ End(c)
  BY AtStage DEF CreateFails, Creates, BuildInv, At
<1>2. Active(c) /\ v \in Variants
  BY <1>1, Here
<1>3. scen.alone /\ \A d \in Commands : d # c => ~Active(d)
  BY <1>1, <1>2, Installs
<1>4. /\ cmd' \in [Commands -> Command] /\ \A d \in Commands : d # c => cmd'[d] = cmd[d]
      /\ LockOk(c) /\ CommandOk(c)'
      /\ cmd'[c].pc = "ended" /\ cmd'[c].opts = cmd[c].opts
  BY <1>1, EndTo
<1>5. StepOf(c)
  BY <1>1, <1>3, <1>4 DEF StepOf, LockOk
<1>6. Plain' => Plain
  BY <1>4 DEF Plain
<1>7. image'[v].from = "left" /\ \A w \in Variants : w # v => image'[w] = image[w]
  BY <1>1, <1>2 DEF BuildType, Left, NoImage
<1>8. ImagesOk'
  BY <1>3, <1>4 DEF ImagesOk, Active
<1>9. InstalledIsWhole'
  BY <1>1, <1>6, <1>7 DEF BuildInv, BuildType, InstalledIsWhole
<1>10. FileOk' /\ RecordedIsDone'
  BY <1>1, <1>4, <1>5, SameFile DEF disk
<1>11. BuildType'
  BY <1>1, <1>4 DEF BuildType, LockOk, disk
<1> QED BY <1>4, <1>5, <1>8, <1>9, <1>10, <1>11, OthersOk DEF BuildInv

\* The port is registered.
LEMMA RegisterOk ==
    ASSUME BuildInv, NEW c \in Commands, Register(c)
    PROVE  BuildInv'
<1> PICK v : v = cmd[c].vars
  OBVIOUS
<1>1. /\ UNCHANGED <<scen, portfile, disk, verified, image, dirs>> /\ BuildType
      /\ cmd[c].pc = "register" /\ Active(c) /\ Asked(c) /\ cmd[c].at = SourceLen + 2
      /\ registered' = registered \cup {v} /\ Proceed(c)
  BY DEF Register, BuildInv, Active, CommandOk, Asked
<1>2. /\ scen.alone /\ cmd[c].goal = "install" /\ Last("install") = SourceLen + 2
      /\ \A d \in Commands : d # c => ~Active(d)
  BY <1>1, Installs
<1>3. v \in Variants
  BY <1>1, ScenarioAssumption DEF Asked, BuildType
<1>4. cmd'[c].pc # "enter"
  BY <1>1, <1>2, StageNames, ProceedTo
<1>5. /\ cmd' \in [Commands -> Command] /\ \A d \in Commands : d # c => cmd'[d] = cmd[d]
      /\ LockOk(c) /\ cmd'[c].opts = cmd[c].opts
      /\ cmd'[c].pc \in {"ended", "clean", "enter"} /\ CommandOk(c)'
  BY <1>1, <1>4, ProceedOk
<1>6. StepOf(c)
  BY <1>1, <1>2, <1>5 DEF StepOf, LockOk
<1>7. FileOk' /\ RecordedIsDone'
  BY <1>1, <1>5, <1>6, SameFile DEF disk
<1>8. Plain' => Plain
  BY <1>5 DEF Plain
<1>9. ImagesOk'
  BY <1>1, <1>5, <1>8 DEF BuildInv, ImagesOk, Whole
<1>10. InstalledIsWhole'
  BY <1>1, <1>8 DEF BuildInv, ImagesOk, InstalledIsWhole, Whole
<1>11. BuildType'
  BY <1>1, <1>3, <1>5 DEF BuildType, disk, LockOk
<1> QED BY <1>5, <1>6, <1>7, <1>9, <1>10, <1>11, OthersOk DEF BuildInv

-----------------------------------------------------------------------------
(* The theorems.                                                           *)

\* The Portfile is edited while no command runs.
LEMMA EditOk ==
    ASSUME BuildInv, Edit
    PROVE  BuildInv'
<1>1. /\ UNCHANGED <<scen, cur, lock, there, made, result, cmd>> /\ BuildType
      /\ portfile < MaxPortfile /\ portfile' = portfile + 1
      /\ files' = [i \in Inodes |-> [files[i] EXCEPT !.older = i \in InUse]]
  BY DEF Edit, BuildInv
<1>2. scen.alone /\ \A c \in Commands : ~Active(c)
  BY <1>1 DEF Edit, BuildType, Calm
<1>3. portfile \in Nat /\ portfile' \in 1 .. MaxPortfile
  BY <1>1, BoundAssumption DEF BuildType
<1>4. \A i \in Inodes : /\ files'[i].version = files[i].version /\ files'[i].sums = files[i].sums
                        /\ files'[i].targets = files[i].targets
                        /\ files'[i].older = (i \in InUse) /\ files'[i] \in StateFile
  <2>1. SUFFICES ASSUME NEW i \in Inodes
                 PROVE  /\ files'[i].version = files[i].version /\ files'[i].sums = files[i].sums
                        /\ files'[i].targets = files[i].targets
                        /\ files'[i].older = (i \in InUse) /\ files'[i] \in StateFile
    OBVIOUS
  <2> PICK used : used = (i \in InUse)
    OBVIOUS
  <2>2. used \in BOOLEAN /\ files[i] \in StateFile /\ files'[i] = [files[i] EXCEPT !.older = used]
    BY <1>1 DEF BuildType
  <2> QED BY <2>2 DEF StateFile
<1>5. cur # NoFile => cur \in Inodes /\ cur \in InUse
  BY <1>1 DEF BuildType, InUse
<1>6. cur # NoFile => /\ ~Fine(files[cur])'
                     /\ (files[cur].sums # <<>> => Head(files[cur].sums) <= portfile')
  <2>1. SUFFICES ASSUME cur # NoFile
                 PROVE  /\ ~Fine(files[cur])'
                        /\ files[cur].sums # <<>> => Head(files[cur].sums) <= portfile'
    OBVIOUS
  <2>2. /\ files[cur].sums \in Seq(Nat)
        /\ files[cur].sums # <<>> => Head(files[cur].sums) <= portfile
    BY <1>1, <1>5, <2>1 DEF BuildInv, FileOk, BuildType, StateFile
  <2>3. files[cur].sums # <<>> => Head(files[cur].sums) \in Nat
    BY <2>2, HeadTailProperties
  <2>4. files[cur].sums # <<>> => /\ Head(files[cur].sums) <= portfile'
                                  /\ Head(files[cur].sums) # portfile'
    BY <1>1, <1>3, <2>2, <2>3
  <2> QED BY <1>1, <1>4, <1>5, <2>1, <2>4 DEF Fine, Outdated
<1>7. FileOk'
  BY <1>1, <1>4, <1>5, <1>6 DEF BuildInv, FileOk
<1>8. RecordedIsDone'
  BY <1>1, <1>4, <1>5 DEF BuildInv, RecordedIsDone, RecordedTargets, DoneUpTo, Archived, Archive, result
<1>9. \A c \in Commands : CommandOk(c)'
  <2>1. SUFFICES ASSUME NEW c \in Commands PROVE CommandOk(c)'
    OBVIOUS
  <2>2. CommandOk(c) /\ cmd[c].pc \in Idle /\ cmd'[c] = cmd[c]
    BY <1>1, <1>2 DEF BuildInv, Active, Idle
  <2>3. cmd[c].at = 0
    BY <2>2 DEF CommandOk, Asked
  <2> QED BY <1>1, <2>2, <2>3 DEF CommandOk, Holds, Asked, Finds, Idle, Locked, Active
<1>10. Together'
  BY <1>1, <1>2 DEF Together, Active
<1>11. ImagesOk' /\ InstalledIsWhole'
  BY <1>1 DEF BuildInv, ImagesOk, InstalledIsWhole, Whole, Plain, result
<1>12. BuildType'
  <2>1. files' \in [Inodes -> StateFile]
    BY <1>1, <1>4
  <2> QED BY <1>1, <1>3, <2>1 DEF BuildType, result
<1> QED BY <1>7, <1>8, <1>9, <1>10, <1>11, <1>12 DEF BuildInv

\* In the beginning.
LEMMA InitOk ==
    ASSUME Init, \A s \in Scenarios : Calm(s)
    PROVE  BuildInv
<1>1. /\ scen \in Scenarios /\ Calm(scen) /\ portfile = 1
      /\ cur = (IF scen.begun THEN 1 ELSE NoFile) /\ lock = [i \in Inodes |-> None]
      /\ made = Nothing /\ verified = {} /\ image = [v \in Variants |-> NoImage]
      /\ registered = {} /\ cmd = [c \in Commands |-> NewCommand]
  BY DEF Init
<1>2. 1 \in Inodes /\ 1 \in 1 .. MaxPortfile /\ 1 # NoFile
  BY BoundAssumption DEF Inodes, NoFile
<1> PICK first : first = [EmptyFile EXCEPT !.version = TRUE, !.sums = <<1>>]
  OBVIOUS
<1>3. EmptyFile \in StateFile
  BY EmptySeq DEF EmptyFile, StateFile
<1>4. /\ first \in StateFile /\ first.version /\ first.sums = <<1>> /\ first.targets = {}
  <2>1. <<1>> \in Seq(Nat)
    OBVIOUS
  <2> QED BY <1>3, <2>1 DEF StateFile, EmptyFile
<1>5. files = [i \in Inodes |-> IF scen.begun /\ i = 1 THEN first ELSE EmptyFile]
  BY DEF Init
<1>6. /\ files \in [Inodes -> StateFile]
      /\ cur # NoFile => scen.begun /\ cur \in Inodes /\ files[cur] = first
      /\ scen.begun => cur # NoFile
  BY <1>1, <1>2, <1>3, <1>4, <1>5
<1>7. Head(<<1>>) = 1 /\ <<1>> # <<>>
  OBVIOUS
<1>8. NewCommand \in Command /\ 0 <= Last("build")
  <2>1. /\ 0 \in 0 .. SourceLen + 2 /\ {} \in SUBSET UNION Variants /\ "new" \in CommandPcs
        /\ NoFile \in Inodes \cup {NoFile} /\ 1 \in Nat /\ 0 <= Last("build")
    BY StageNames DEF CommandPcs, Idle, Last
  <2> QED BY <2>1 DEF NewCommand, Command, CommandPcs, Idle
<1>9. BuildType
  BY <1>1, <1>2, <1>6, <1>8 DEF BuildType, Nothing
<1>10. \A c \in Commands : /\ cmd[c] = NewCommand /\ cmd[c].pc = "new" /\ cmd[c].at = 0
                           /\ ~cmd[c].fresh /\ cmd[c].fd = NoFile /\ cmd[c].opts = {}
                           /\ cmd[c].goal = "build"
  BY <1>1 DEF NewCommand
<1>11. \A c \in Commands : CommandOk(c)
  BY <1>8, <1>10 DEF CommandOk, Holds, Asked, Finds, Idle, Locked, Active
<1>12. cur # NoFile => Fine(files[cur]) /\ Head(files[cur].sums) = portfile
                       /\ files[cur].targets = {}
  BY <1>1, <1>4, <1>6, <1>7 DEF Fine, Outdated
<1>13. Together
  BY <1>1, <1>4, <1>6, <1>10, <1>12 DEF Together, Calm, Active, AlonePcs
<1>14. FileOk /\ RecordedIsDone
  BY <1>1, <1>2, <1>12 DEF FileOk, RecordedIsDone, RecordedTargets, DoneUpTo
<1>15. ImagesOk /\ InstalledIsWhole
  BY <1>1, <1>10 DEF ImagesOk, InstalledIsWhole
<1> QED BY <1>9, <1>11, <1>13, <1>14, <1>15 DEF BuildInv

\* Every step keeps the invariant.
LEMMA StepsOk ==
    ASSUME BuildInv, [Next]_vars
    PROVE  BuildInv'
<1>1. CASE Edit
  BY <1>1, EditOk
<1>2. ASSUME NEW c \in Commands, Start(c) \/ Step(c) \/ Crash(c)
      PROVE  BuildInv'
  <2>1. CASE OpenStep(c)
    BY <2>1, EnterOk, CompareOk, DiscardOk, OpenOk, LockStepOk, WriteOk DEF OpenStep
  <2>2. CASE TargetStep(c)
    BY <2>2, CheckVariantsOk, SkipOk, ArchiveFoundOk, BeginOk, SucceedOk, FailOk, CleanOk
       DEF TargetStep
  <2>3. CASE InstallStep(c)
    BY <2>3, MoveArchiveOk, DropStateOk, CreateArchiveOk, CreateFailsOk, RegisterOk
       DEF InstallStep
  <2> QED BY <1>2, <2>1, <2>2, <2>3, StartOk, FailOk DEF Step
<1>3. CASE UNCHANGED vars
  <2>1. UNCHANGED <<scen, portfile, files, cur, lock, there, made, verified, image,
                    dirs, registered, cmd>>
    BY <1>3 DEF vars
  <2>2. BuildType'
    BY <2>1 DEF BuildInv, BuildType
  <2>3. Together'
    BY <2>1 DEF BuildInv, Together, Active, Fine
  <2>4. \A c \in Commands : CommandOk(c)'
    BY <2>1 DEF BuildInv, CommandOk, Holds, Asked, Finds, Settled, Fine, Blank, Active
  <2>5. FileOk' /\ RecordedIsDone'
    BY <2>1 DEF BuildInv, FileOk, RecordedIsDone, RecordedTargets, DoneUpTo, Archived, Archive, Plain, Fine
  <2>6. ImagesOk' /\ InstalledIsWhole'
    BY <2>1 DEF BuildInv, ImagesOk, InstalledIsWhole, Whole, Plain
  <2> QED BY <2>2, <2>3, <2>4, <2>5, <2>6 DEF BuildInv
<1> QED BY <1>1, <1>2, <1>3 DEF Next

\* In the calm scenarios the state file, the commands and the work directory agree.
THEOREM BuildInvariant ==
    ASSUME \A s \in Scenarios : Calm(s)
    PROVE  Spec => []BuildInv
<1>1. Init => BuildInv
  BY InitOk
<1>2. BuildInv /\ [Next]_vars => BuildInv'
  BY StepsOk
<1> QED BY <1>1, <1>2, PTL DEF Spec

\* A recorded target is done, with the targets it requires, or an archive or an image
\* directory was found in its place.
THEOREM BuildRecordedIsDone ==
    ASSUME \A s \in Scenarios : Calm(s)
    PROVE  Spec => []RecordedIsDone
<1>1. BuildInv => RecordedIsDone
  BY DEF BuildInv
<1> QED BY <1>1, BuildInvariant, PTL

\* A target that a command skips was done by the Portfile it runs and for its variants.
THEOREM BuildHonouredIsMine ==
    ASSUME \A s \in Scenarios : Calm(s)
    PROVE  Spec => []HonouredIsMine
<1>1. BuildInv => HonouredIsMine
  <2>1. SUFFICES ASSUME BuildInv, Plain, NEW c \in Commands, At(c, Targets), Recorded(c)
                 PROVE  \/ made[Stages[cmd[c].at]] = Work(cmd[c].loaded, cmd[c].vars)
                        \/ Archived(cmd[c].vars)
    BY DEF HonouredIsMine
  <2>2. /\ cmd[c].pc = "opened" /\ cmd[c].at > 0 /\ Stages[cmd[c].at] \in Targets
        /\ Stages[cmd[c].at] \in files[cmd[c].fd].targets /\ cmd[c].opts = {}
    BY <2>1 DEF At, Recorded, Plain
  <2>3. /\ cmd[c].fd = cur /\ cur # NoFile /\ cmd[c].loaded = portfile
        /\ Fine(files[cur]) /\ files[cur].variants = cmd[c].vars
    BY <2>1, <2>2, Here
  <2> QED BY <2>1, <2>2, <2>3 DEF BuildInv, FileOk
<1> QED BY <1>1, BuildInvariant, PTL

\* An installed port is an archive for its variants or all of one Portfile's work for them,
\* unless it was copied over what an earlier install had left.
THEOREM BuildInstalledIsWhole ==
    ASSUME \A s \in Scenarios : Calm(s)
    PROVE  Spec => []InstalledIsWhole
<1>1. BuildInv => InstalledIsWhole
  BY DEF BuildInv
<1> QED BY <1>1, BuildInvariant, PTL
=============================================================================
