SPECIFICATION Spec
CONSTANTS
  a1 = a1  a2 = a2  b = b  p = p  q = q  r = r
  None = None  User = User
  Entries = {a1, a2, b}
  Paths = {p, q, r}
  Image <- ItemImage
  PortOf <- SmallPorts
  ReplacedBy <- BReplaced
  Rename <- ItemRenames
  MaxStamp = 2
  Mode = "directory"
  ArchiveOf = {a1, b}
  UserPaths = {p, q}
  Race = FALSE
  SameSecond = FALSE
  Faults = {"io", "attrs", "delete", "commit", "signal", "crash"}
  MaxFaults = 2
INVARIANTS
  NoFileOwnedTwice
  UserFilesSurvive
  ImageSurvives
PROPERTIES
  ActivePortsSpec
