CONSTANTS
    Procs <- MCProcs
    Programs <- MCPrograms
    Shebang <- MCShebang
    Restricted <- MCRestricted
    SetId <- MCSetId
    Binary <- MCBinary
    WholeTimes = {0, 1}
    MaxUpdates = 1
    MaxFaults = 1
    MaxCalls = 2
    Options <- MCOptions
    MaxLines = 1
    PipeSize = 1
SPECIFICATION Spec
INVARIANTS RunsWhole NeverStale ResultTrue
PROPERTIES CallEnds
CHECK_DEADLOCK FALSE
