CONSTANTS
    Configs <- MCConfigs
    MaxProcs = 3
    MaxSignals = 2
    MaxEvents = 1
SPECIFICATION Spec
INVARIANT OneDaemon
PROPERTIES NothingAfterTerm DeathNoticed TermEnds
CHECK_DEADLOCK FALSE
