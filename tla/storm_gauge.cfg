SPECIFICATION FairSpec
CONSTANTS
  Engines = {e1}
  Services <- OneService
  Kinds = {"http"}
  Policies <- OnePolicy
  PolicyService <- OwnService
  Settings <- OneSetting
  Levels <- TwoLevels
  MaxClock = 1
  MaxFaults = 1
  MaxEdits = 0
  NULL = NULL
PROPERTIES
  GaugeFollowsStorms
