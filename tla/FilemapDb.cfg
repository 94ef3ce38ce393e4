CONSTANTS
    p1 = p1
    p2 = p2
    p3 = p3
    v1 = v1
    v2 = v2
    Procs <- MCProcs
    Owners <- MCOwners
    Paths <- MCPaths
    Values <- MCValues
    InitFiles <- MCFiles
    MaxEdits = 3
    MaxFaults = 1
    Trees <- MCTrees
    EmptyTree <- MCEmptyTree
    Null <- MCNull
    TreeSet <- MCSet
    TreeDelete <- MCDelete
    TreeGet <- MCGet
    TreeList <- MCList
    TreeImage <- MCImage
    TreeLoad <- MCLoad
SYMMETRY Symmetry
SPECIFICATION FileSpec
INVARIANTS TreeIsMap SavedIsWhole NoLostUpdate
CHECK_DEADLOCK FALSE
