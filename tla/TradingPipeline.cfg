SPECIFICATION TradingFairSpec
CONSTANTS
  Event = {a, b}
  Malformed = {b}
  NumConsumers = 2
  BatchSize = 2
  MaxConcurrent = 1
  MaxFaults = 1
  MaxBoots = 2
  MaxSwaps = 1
  ExecTries = 2
  RecordTries = 2
INVARIANT TradingInv
PROPERTIES AckedIsFinal EventuallyDispatched TaskEndsAnswered EventuallyAnswered
CHECK_DEADLOCK FALSE
