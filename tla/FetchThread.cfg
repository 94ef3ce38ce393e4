SPECIFICATION Spec
CONSTANTS
    f1 = f1
    f2 = f2
    f3 = f3
    c1 = c1
    h1 = h1
    h2 = h2
    d1 = d1
    d2 = d2
    None = None
    Fetches <- MCFetches
    Checks <- MCChecks
    Signed <- MCSigned
    Files <- MCFiles
    File <- MCFile
    Hosts <- MCHosts
    Attempts <- MCAttempts
    Workloads <- MCWorkloads
    Sites <- MCMirrored
    MaxThreads = 2
    MaxFetches = 1
INVARIANTS
    OneWriter
    NothingLeft
PROPERTIES
    ServiceSpec
    RequestsServed
CHECK_DEADLOCK FALSE
