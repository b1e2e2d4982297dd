SPECIFICATION FairSpec
CONSTANTS
  Configs <- ValidFiles
  InitialConfig <- Start
  Overrides <- Messages
  Keys = {1, 2}
  ChunkSizes = {2, 3}
  None = None
PROPERTIES
  EditsGoLive
