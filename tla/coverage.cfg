SPECIFICATION CoverageSpec
CONSTANTS
  Start = 1
  End = 4
  Horizon = 5
  MaxRows = 3
  NULL = NULL
INVARIANTS
  CoverageTypeOK
  MergeLosesNothing
  CoveredIsUnion
CHECK_DEADLOCK FALSE
