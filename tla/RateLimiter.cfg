SPECIFICATION FairSpec
CONSTANTS
  Rates = {0, 3, 5}
  InitialRate = 5
  Datagrams = {2, 5}
  Hz = 2
  MaxIdle = 10
  MaxGranted = 14
  MaxWindow = 10
INVARIANTS
  TypeOK
  Paced
PROPERTIES
  GrantFitsBurst
  FittingAcquireReturns
