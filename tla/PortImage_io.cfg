SPECIFICATION Spec
CONSTANTS
  a1 = a1  a2 = a2  b = b  p = p  q = q  r = r
  None = None  User = User
  Entries = {a1, a2, b}
  Paths = {p, q}
  Image <- SmallImage
  PortOf <- SmallPorts
  ReplacedBy <- BReplaced
  Rename <- NoRenames
  MaxStamp = 3
  Mode = "archive"
  ArchiveOf = {a1, a2, b}
  UserPaths = {p, q}
  Race = FALSE
  SameSecond = FALSE
  Faults = {"io"}
  MaxFaults = 2
INVARIANTS
  TypeOK
  Consistent
PROPERTIES
  AbortIsClean
