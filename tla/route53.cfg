SPECIFICATION FairSpec
CONSTANTS
  Names <- TwoNames
  Weights <- Plans
  Given <- Initial
  Zones <- TwoZones
  Suffixed <- EndIn
  Within <- Belong
  Length <- Lengths
  MaxAttempts = 2
  MaxFaults = 2
  MaxEdits = 2
  NULL = NULL
INVARIANTS
  TypeOK
  OnlyDroppedReturn
PROPERTIES
  Implements
  CallReturns
