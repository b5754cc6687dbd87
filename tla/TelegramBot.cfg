SPECIFICATION Spec
CONSTANTS
  Slot = {s1, s2}
  None = None
  Short = {2300}
  MaxFailures = 1
  Wallet = {1, 2}
  User = {manager, guest}
  Manager = manager
  Code = {c1, c2}
  Valid = 2
  Private = TRUE
  MaxTime = 1
  Reader = {r1, r2}
  MaxRetries = 2
  Parts = {"copytrade", "monitor", "trade", "access", "notify"}
  Updates <- UpdatesOf
SYMMETRY Symmetry
INVARIANTS Inv FormSaved
PROPERTIES DeletedStaysDeleted OrderAsAsked
CHECK_DEADLOCK FALSE
