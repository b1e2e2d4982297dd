SPECIFICATION FairPlane
CONSTANTS
  Configs <- FewFiles
  InitialConfig <- Start
  Overrides <- FewMessages
  Keys = {1, 2}
  ChunkSizes = {2, 3}
  None = None
  Clients = {1, 2}
  MaxCalls <- TwoAndOne
INVARIANTS
  TypeOK
  SettingsUsable
PROPERTIES
  EffectsInOrder
  AsConfigured
  Served
