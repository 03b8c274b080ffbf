SPECIFICATION FairSpec
CONSTANTS
  old = old
  new1 = new1
  new2 = new2
  Processes <- OldAndNew
  Embedded <- Binaries
  Existing = {}
  MaxFaults = 3
  NULL = NULL
INVARIANTS
  SchemaInOrder
  OnlyFaultsFail
PROPERTIES
  Starts
CHECK_DEADLOCK FALSE
