CONSTANTS
    p1 = p1
    p2 = p2
    a = a
    b = b
    f = f
    g = g
    First = 5
    Second = 1
    OlderVersions = {6}
    Procs = {p1, p2}
    Names = {a, b}
    Paths = {f}
    Groups = {g}
    Initial <- MCInitial
    MaxEdits = 1
    MaxOpens <- MCOpens
    MaxCalls <- MCCalls
    MaxObjs = 2
    MaxId = 2
    MaxFaults = 1
SPECIFICATION Spec
INVARIANTS VersionIsSchema NoDangling
PROPERTY RolledBackStayValid
CHECK_DEADLOCK FALSE
