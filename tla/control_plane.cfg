SPECIFICATION Spec
CONSTANTS
  blank = blank
  plain = plain
  padded = padded
  token1 = token1
  customer1 = customer1
  customer2 = customer2
  Customers <- TwoCustomers
  Requests = {r1, r2}
  Tokens <- OneToken
  Holder <- OfFirst
  Admin = Admin
  Texts <- ThreeTexts
  Blank = blank
  Trim <- Trimmed
  Numbers <- ZeroAndOne
  One = 1
  ServiceColumns = {"name", "backup_cdn"}
  PolicyColumns = {"threshold_avail", "cooldown_seconds"}
  Owners <- OneServiceEach
  StoredName = padded
  MaxFaults = 1
  NULL = NULL
SYMMETRY AnyRequest
INVARIANTS
  TypeOK
PROPERTIES
  TenantIsolation
  PatchKeepsColumns
CHECK_DEADLOCK FALSE
