SPECIFICATION FairSpec
CONSTANTS
  Workers = {w1}
  Services <- OneService
  CustomerOf <- OneCustomer
  Snaps <- TwoSnaps
  Window <- CreditWindow
  Bytes <- ThreeUnits
  UnitsPerGB = 2
  CentsPerGB = 3
  DiscountPct = 50
  Period = 2
  Factors <- TwoFactors
  MaxClock = 2
  MaxStorms = 2
  MaxUpserts = 2
  MaxFaults = 1
  NULL = NULL
INVARIANTS
  OneFactorPerInvoice
  CreditIsFinal
PROPERTIES
  InPeriodBilled
