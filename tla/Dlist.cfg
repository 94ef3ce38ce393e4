\* Three items, each the only provider of its token or two tokens that they share, with
\* and without canfail.
SPECIFICATION EvalSpec
CONSTANTS
    N = 3
    Tokens = {1, 2, 3}
    Catalogs <- BothKinds
    Modes = {TRUE, FALSE}
    NULL = NULL
INVARIANTS
    FailureStops
    RequiresMet
    SoftDepsAwaited
    ReturnTruthful
\* dlist_eval returns
CHECK_DEADLOCK FALSE
