------------------------------- MODULE Dlist -------------------------------
(***************************************************************************)
(* The dependency list evaluator of macports1.0/macports_dlist.tcl: the    *)
(* loop that decides in which order MacPorts runs the phases of a build    *)
(* (portutil.tcl, eval_targets), the chosen variants (eval_variants) and   *)
(* the ports a port depends on (macports.tcl, mportexec).                  *)
(*                                                                         *)
(* An item (ditem) is its position in the list it was handed in: the list  *)
(* never gains items, so the items left are a set and "earlier in the      *)
(* list" is "<".  Tokens are the names items provide, require and use.     *)
(***************************************************************************)
EXTENDS Integers, FiniteSets

CONSTANTS
    N,          \* number of items in the list
    Tokens,     \* names that items provide, require or use
    Catalogs,   \* what the items may declare: a set of Catalog records
    Modes,      \* values of the canfail argument to try
    NULL        \* "no item"

Items == 1..N

Catalog == [provides : [Items -> SUBSET Tokens],
            requires : [Items -> SUBSET Tokens],
            uses     : [Items -> SUBSET Tokens]]

ASSUME NAssumption == N \in Nat
ASSUME TokensAssumption == IsFiniteSet(Tokens)
ASSUME CatalogAssumption == Catalogs \subseteq Catalog
ASSUME ModesAssumption == Modes \subseteq BOOLEAN
ASSUME NullAssumption == NULL \notin Items

VARIABLES
    cat,        \* the keys of the items (constant while the list is evaluated)
    canfail,    \* argument canfail
    dlist,      \* the items not yet evaluated
    status,     \* statusdict: "none", or the outcome recorded for a token
    ditem,      \* the item picked by the selector, handed to the handler
    reason,     \* reason_var
    pc,         \* "prerun", "select", "handler", "done"
    ran,        \* history: items whose handler was invoked
    good        \* history: items whose testcond held or whose handler succeeded

evalVars == <<cat, canfail, dlist, status, ditem, reason, pc, ran, good>>

-----------------------------------------------------------------------------
\* dlist_count_unmet
Unmet(tokens) == {t \in tokens : status[t] # "met"}

\* dlist_has_pending
HasPending(tokens) == \E d \in dlist : cat.provides[d] \cap tokens # {}

\* Mutant: soft dependencies do not delay an item.
EligibleMutNoUses(d) == Unmet(cat.requires[d]) = {}

\* Mutant: only soft dependencies are looked at.
EligibleMutNoRequires(d) == ~ (Unmet(cat.uses[d]) # {} /\ HasPending(cat.uses[d]))

\* Mutant: an unmet soft dependency blocks an item even if nothing can meet it.
EligibleMutStrictUses(d) ==
    Unmet(cat.requires[d]) = {} /\ Unmet(cat.uses[d]) = {}

\* The two "continue"s of the loop in dlist_get_next: hard dependencies are
\* unmet, or soft ones are and an item of the list provides one of the tokens
\* used.
Eligible(d) ==
    /\ Unmet(cat.requires[d]) = {}
    /\ ~ (Unmet(cat.uses[d]) # {} /\ HasPending(cat.uses[d]))

\* dlist_get_next keeps the first item with the fewest unmet soft dependencies.
Better(d, e) ==
    \/ Cardinality(Unmet(cat.uses[d])) < Cardinality(Unmet(cat.uses[e]))
    \/ Cardinality(Unmet(cat.uses[d])) = Cardinality(Unmet(cat.uses[e])) /\ d <= e

IsNext(d) ==
    /\ d \in dlist
    /\ Eligible(d)
    /\ \A e \in dlist : Eligible(e) => Better(d, e)

\* set statusdict($token) for every token the items provide
Record(items, outcome) ==
    [t \in Tokens |-> IF \E d \in items : t \in cat.provides[d]
                      THEN outcome ELSE status[t]]

-----------------------------------------------------------------------------
EvalInit ==
    /\ cat \in Catalogs
    /\ canfail \in Modes
    /\ dlist = Items
    /\ status = [t \in Tokens |-> "none"]
    /\ ditem = NULL
    /\ reason = ""
    /\ pc = "prerun"
    /\ ran = {}
    /\ good = {}

\* The pre-run: testcond is 1 for the items of S, which leave the list with
\* their tokens met.  S is empty when there is no testcond.
PreRun ==
    /\ pc = "prerun"
    /\ \E S \in SUBSET dlist :
        /\ status' = Record(S, "met")
        /\ dlist' = dlist \ S
        /\ good' = good \cup S
    /\ pc' = "select"
    /\ UNCHANGED <<cat, canfail, ditem, reason, ran>>

\* The selector finds an item: it is handed to the handler.
Select ==
    /\ pc = "select"
    /\ \E d \in dlist :
        /\ IsNext(d)
        /\ ditem' = d
        /\ ran' = ran \cup {d}
    /\ pc' = "handler"
    /\ UNCHANGED <<cat, canfail, dlist, status, reason, good>>

\* The selector returns {}: the loop ends, with what is left in the list.
Exhausted ==
    /\ pc = "select"
    /\ \A d \in dlist : ~ IsNext(d)
    /\ reason' = IF dlist # {} THEN "unmet_deps" ELSE reason
    /\ pc' = "done"
    /\ UNCHANGED <<cat, canfail, dlist, status, ditem, ran, good>>

\* The handler returns 0 or an empty result.
HandlerOk ==
    /\ pc = "handler"
    /\ status' = Record({ditem}, "met")
    /\ dlist' = dlist \ {ditem}
    /\ good' = good \cup {ditem}
    /\ ditem' = NULL
    /\ pc' = "select"
    /\ UNCHANGED <<cat, canfail, reason, ran>>

\* Mutant: the failing item is dropped and the loop goes on whatever canfail says.
HandlerFailMutGoOn ==
    /\ pc = "handler"
    /\ status' = Record({ditem}, "failed")
    /\ dlist' = dlist \ {ditem}
    /\ pc' = "select"
    /\ ditem' = NULL
    /\ UNCHANGED <<cat, canfail, reason, ran, good>>

\* The handler returns another status: the item's tokens are recorded as
\* failed, and evaluation goes on without the item only when canfail is set.
HandlerFail ==
    /\ pc = "handler"
    /\ status' = Record({ditem}, "failed")
    /\ IF canfail
       THEN /\ dlist' = dlist \ {ditem}
            /\ pc' = "select"
            /\ UNCHANGED reason
       ELSE /\ reason' = "handler"
            /\ pc' = "done"
            /\ UNCHANGED dlist
    /\ ditem' = NULL
    /\ UNCHANGED <<cat, canfail, ran, good>>

\* The handler raises an error: whatever canfail says, dlist_eval returns.
HandlerThrow ==
    /\ pc = "handler"
    /\ reason' = "handler"
    /\ ditem' = NULL
    /\ pc' = "done"
    /\ UNCHANGED <<cat, canfail, dlist, status, ran, good>>

EvalNext == PreRun \/ Select \/ Exhausted \/ HandlerOk \/ HandlerFail \/ HandlerThrow

\* A handler always returns or raises; the loop is sequential code.
EvalSpec == EvalInit /\ [][EvalNext]_evalVars /\ WF_evalVars(EvalNext)

-----------------------------------------------------------------------------
Status == {"none", "met", "failed"}
Reasons == {"", "unmet_deps", "handler"}
PCs == {"prerun", "select", "handler", "done"}

TypeOK ==
    /\ cat \in Catalog
    /\ canfail \in BOOLEAN
    /\ dlist \subseteq Items
    /\ status \in [Tokens -> Status]
    /\ ditem \in Items \cup {NULL}
    /\ reason \in Reasons
    /\ pc \in PCs
    /\ ran \subseteq Items
    /\ good \subseteq Items

\* A token is recorded as met only on the word of an item whose test or handler
\* succeeded.
MetByGood ==
    \A t \in Tokens :
        status[t] = "met" => \E p \in good : t \in cat.provides[p]

\* No phase (or port) starts before every token it requires was supplied by
\* another item that succeeded: what dlist_get_next calls eligible.
RequiresMet ==
    \A d \in ran : \A t \in cat.requires[d] :
        \E p \in good \ {d} : t \in cat.provides[p]

\* Without canfail a failure is the end: no handler runs after one that failed
\* or raised an error.
FailureStops ==
    ~ canfail => \A d \in ran \ good : d = ditem \/ pc = "done"

\* The lists mportexec and eval_targets get back tell the truth: an empty one
\* means that every item was tried, and one returned for "unmet_deps" names
\* items that are stuck: on a required token that nothing left in the list
\* provides, on a provider that is stuck itself (the "dependency cycle"
\* mportexec reports), or on one that only their soft dependencies ask for:
\* items that use one another's tokens defer one another for good, though the
\* comment of dlist_get_next says that deferred items "will eventually be
\* returned if there are no alternatives" (macports_dlist.tcl 240, 265).
WaitsFor(tokens) == \E p \in dlist : cat.provides[p] \cap tokens # {}
Stuck(d) ==
    \/ \E t \in cat.requires[d] :
          status[t] # "met" /\ \A p \in dlist : t \notin cat.provides[p]
    \/ WaitsFor(cat.requires[d])
    \/ WaitsFor(cat.uses[d])
ReturnTruthful ==
    pc = "done" =>
        /\ reason = "" => dlist = {} /\ Items = ran \cup good
        /\ reason = "unmet_deps" => dlist # {} /\ \A d \in dlist : Stuck(d)
        /\ reason = "handler" => \E d \in ran \ good : d \in dlist

\* An item whose soft dependency is unmet when its handler runs waited for
\* everything that could have met it.
SoftDepsAwaited ==
    pc = "handler" =>
        \A t \in Unmet(cat.uses[ditem]) : \A p \in dlist : t \notin cat.provides[p]

\* A handler is invoked at most once per item, and never for an item that the
\* pre-run found done (a port that is already active, for mportexec).
RunOnce ==
    [][ditem' # NULL /\ ditem' # ditem => ditem' \notin ran \cup good]_evalVars
=============================================================================
