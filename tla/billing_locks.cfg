SPECIFICATION FairSpec
CONSTANTS
  Workers = {w1, w2}
  Services <- TwoServices
  CustomerOf <- OwnCustomer
  Snaps <- ThreeSnaps
  Window <- LockWindow
  Bytes <- SomeBytes
  UnitsPerGB = 2
  CentsPerGB = 3
  DiscountPct = 50
  Period = 1
  Factors <- OneFactor
  MaxClock = 2
  MaxStorms = 0
  MaxUpserts = 2
  MaxFaults = 1
  NULL = NULL
INVARIANTS
  BilledOnce
PROPERTIES
  BillsStoredBytes
  ImplementsLedger
  InPeriodBilled
