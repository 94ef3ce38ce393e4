SPECIFICATION Spec
CONSTANTS
  MaxCommands = 3
  Source <- TwoTargets
  Variants <- PlusXY
  MaxPortfile = 2
  Scenarios <- Orderly
INVARIANTS
  RecordedIsDone
  HonouredIsMine
  InstalledIsWhole
\* Every command may have ended.
CHECK_DEADLOCK FALSE
