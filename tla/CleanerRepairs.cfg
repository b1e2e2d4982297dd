SPECIFICATION FairSpec
CONSTANTS
  Files = {1}
  Cuts <- TwoSizes
  max_in_flight = 1
  Ttl = 1
  I31 = 8
  None = None
  Faults = {"refused", "chunk_size", "delete", "again", "kill"}
  MaxIncidents = 2
  MaxQueue = 2
  MaxWire = 1
  MaxChunks = 9
INVARIANTS
  BitmapIsASet
PROPERTIES
  Repaired
