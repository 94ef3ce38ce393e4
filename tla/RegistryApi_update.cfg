CONSTANTS
    p1 = p1
    p2 = p2
    a = a
    b = b
    f = f
    g = g
    First = 1
    Second = 0
    OlderVersions = {11}
    Procs = {p1, p2}
    Names = {a, b}
    Paths = {f}
    Groups = {g}
    Initial <- MCInitial
    MaxEdits = 1
    MaxOpens <- MCOpens
    MaxCalls <- MCCalls
    MaxObjs = 1
    MaxId = 2
    MaxFaults = 0
SPECIFICATION Spec
PROPERTY OpenIsCurrent
CHECK_DEADLOCK FALSE
