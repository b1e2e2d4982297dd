SPECIFICATION Spec
CONSTANTS
  a = a
  b = b
  Absent = Absent
  Hole = Hole
  Sources = {a}
  FileId <- OwnId
  Path <- OwnPath
  Size <- Three
  PayloadSizes = {2}
  ChunkTypes = {"Data"}
  U32 = 16
  SameFs = TRUE
  InterruptAt = {"drop"}
INVARIANTS
  LandedIntact
