SPECIFICATION Spec
CONSTANTS
  Engines = {e1}
  Services <- OneService
  Kinds = {"http", "tcp"}
  Policies <- TwoPolicies
  PolicyService <- SameService
  Settings <- MixedSettings
  Levels <- TwoLevels
  MaxClock = 2
  MaxFaults = 1
  MaxEdits = 1
  NULL = NULL
INVARIANTS
  TypeOK
  CooldownKept
PROPERTIES
  EndedIsFinal
