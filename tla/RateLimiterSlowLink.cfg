SPECIFICATION FairSpec
CONSTANTS
  Rates = {3}
  InitialRate = 3
  Datagrams = {2, 5}
  Hz = 2
  MaxIdle = 10
  MaxGranted = 9
  MaxWindow = 6
PROPERTIES
  AcquireReturns
