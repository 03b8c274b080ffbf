SPECIFICATION FairSpec
CONSTANTS
  Services <- TwoServices
  h1 = h1
  h2 = h2
  Hosts <- TwoHosts
  Registered <- BothOfFirst
  Window = 2
  Hour = 2
  Lookback = 5
  Limit = 2
  Busy = {0, 1, 2}
  MaxClock = 6
  MaxUsage = 3
  MaxFaults = 1
  MaxEdits = 1
  NULL = NULL
INVARIANTS
  TypeOK
  CountedOnce
  RunSuffices
PROPERTIES
  NeverShrinks
  Settles
\* A run that hangs stops the only loop (UsageIngestor!Hangs).
CHECK_DEADLOCK FALSE
