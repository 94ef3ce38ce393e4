CONSTANTS
    p1 = p1
    p2 = p2
    dep = dep
    other = other
    None = None
    Up = ".."
    Here = "."
    Procs = {p1, p2}
    Threads <- MCThreads
    MaxConns = 2
    MaxCalls = 2
    EarlyThreads = FALSE
    Depth = 1
    MaxLinks = 2
    Sessions = 2
    Ports = {dep, other}
    Dirs <- MCDirs
    Files <- MCFiles
    Links <- MCLinks
    FileMap <- MCFileMap
    Calls <- MCCalls
    Owner <- MCOwner
    Deps <- MCDeps
    Fences <- MCFences
SPECIFICATION Spec
INVARIANTS AnswersRight VerdictsRight
PROPERTY NothingHangs
CHECK_DEADLOCK FALSE
