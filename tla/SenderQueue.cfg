SPECIFICATION Spec
CONSTANTS
  a = a
  b = b
  U32 = 1000
  Names = {a, b}
  Snapshots = {}
  PriorityDirs <- OneDir
  DebugDirs <- NoDirs
  Stem <- BStem
  Allowed = {a, b}
  Sizes = {1, 2}
  PayloadSizes = {1, 2}
  InitialState = "Auto"
  Events = {"resize", "delete", "chunk_size", "flush", "io_error"}
  MaxRequests = 1
  MaxIndex = 1
INVARIANTS
  NameFirst
  OneFilePerId
PROPERTIES
  ImplementsQueue
  EndsForCause
