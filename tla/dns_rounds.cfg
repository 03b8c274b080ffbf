SPECIFICATION FairSpec
CONSTANTS
  n1 = n1
  n2 = n2
  Names <- TwoNames
  Registered <- Tables
  Weights <- Plans
  Given <- Equal
  Zones <- OneZone
  ZoneOf <- AllInOne
  Services <- TwoServices
  MaxFaults = 1
  MaxEdits = 1
  NULL = NULL
INVARIANTS
  TypeOK
  FreshWeights
  OneRoundSuffices
PROPERTIES
  Converges
