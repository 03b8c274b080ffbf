SPECIFICATION FairSpec
CONSTANTS
  Services <- TwoServices
  DomainIds <- TwoDomains
  Owner <- OwnDomain
  cdn = cdn
  bad = bad
  Cdns <- TwoCdns
  Registered = {1}
  Configured <- FirstHasCdn
  Direct = direct
  Malformed = {bad}
  Down = {cdn}
  Slots <- TwoSlots
  MaxFaults = 1
  MaxEdits = 2
  NULL = NULL
INVARIANTS
  OneLoopPerTarget
  NoFalseFailure
PROPERTIES
  OnlyGoneAreStopped
  Follows
