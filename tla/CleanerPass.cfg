SPECIFICATION Spec
CONSTANTS
  Files = {1}
  Cuts <- TwoSizes
  max_in_flight = 1
  Ttl = 2
  I31 = 1
  None = None
  Faults = {"timeout", "kill", "operator", "delete", "chunk_size"}
  MaxIncidents = 1
  MaxQueue = 2
  MaxWire = 1
  MaxChunks = 9
INVARIANTS
  TypeOK
PROPERTIES
  NeverDoubled
  NoRefire
  PlansTheGaps
