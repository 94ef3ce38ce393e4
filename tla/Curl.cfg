CONSTANTS
    o1 = o1
    o2 = o2
    Origins <- MCOrigins
    Timers <- MCTimers
    Affected = TRUE
    Kqueue = TRUE
SPECIFICATION Spec
INVARIANTS SuccessIsWhole ProgressOrdered
PROPERTIES OneOrigin CancelEnds
CHECK_DEADLOCK FALSE
