SPECIFICATION FairSpec
CONSTANTS
  a = a
  b = b
  Absent = Absent
  Hole = Hole
  Sources = {a, b}
  FileId <- OwnId
  Path <- OwnPath
  Size <- TailAndEmpty
  PayloadSizes = {2}
  ChunkTypes = {"Data"}
  U32 = 16
  SameFs = FALSE
  InterruptAt <- Anywhere
PROPERTIES
  NoByteLost
  ImplementsHolding
  FilesLand
