SPECIFICATION Spec
CONSTANTS
  a = a
  b = b
  Absent = Absent
  Hole = Hole
  Sources = {a, b}
  FileId <- OwnId
  Path <- OwnPath
  Size <- TwoSizes
  PayloadSizes = {2, 3}
  ChunkTypes = {"Data", "Retransmit"}
  U32 = 16
  SameFs = TRUE
  InterruptAt <- BeforeFinalize
INVARIANTS
  TypeOK
  BitsBacked
  LandedIntact
  CompleteIsFinalized
PROPERTIES
  AssembliesProgress
  ImplementsDelivery
