SPECIFICATION FairSpec
CONSTANTS
  a = a
  b = b
  U32 = 1000
  Names = {a, b}
  Snapshots = {b}
  PriorityDirs <- TwoDirs
  DebugDirs <- DebugB
  Stem <- NoStem
  Allowed = {a, b}
  Sizes = {3}
  PayloadSizes = {2}
  InitialState = "Auto"
  Events = {"set_state", "kill", "os_crash", "io_error"}
  MaxRequests = 1
  MaxIndex = 2
INVARIANTS
  TypeOK
  QueueMatchesState
PROPERTIES
  FilesSent
