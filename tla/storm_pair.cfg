SPECIFICATION FairSpec
CONSTANTS
  Engines = {e1, e2}
  Services <- OneService
  Kinds = {"http"}
  Policies <- OnePolicy
  PolicyService <- OwnService
  Settings <- OneSetting
  Levels <- TwoLevels
  MaxClock = 1
  MaxFaults = 1
  MaxEdits = 0
  NULL = NULL
INVARIANTS
  ActiveBounded
  EndNotBeforeStart
PROPERTIES
  StormClears
  StormStarts
