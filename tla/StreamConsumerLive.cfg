SPECIFICATION FairSpec
CONSTANTS
  Payload = {p1, p2}
  NoData = NoData
  BatchSize = 2
  MaxRetries = 1
  MaxLen = 3
  MaxFaults = 0
  MaxStarts = 2
PROPERTY EventuallySettled
CHECK_DEADLOCK FALSE
