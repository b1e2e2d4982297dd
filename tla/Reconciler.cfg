SPECIFICATION FairSpec
CONSTANTS
  Files = {1}
  Period = 2
  Grace = 1
  None = None
  Faults = {"unreachable", "timeout", "unreadable", "force", "requeue", "restart", "cut", "delete", "kill"}
  Letters = {"a", ",", "quote", "line break"}
  Digits = {"1"}
  NumberLens = {2}
  MaxNameLen = 2
  MaxRows = 2
  Malformed = Malformed
INVARIANTS
  TypeOK
  ReadsBack
  CutShort
PROPERTIES
  OncePerPeriod
  Recovered
