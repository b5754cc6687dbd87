SPECIFICATION FairSpec
CONSTANTS
  Wallet = {w1, w2}
  InitWallets = {}
  QueueSize = 1
  NumWorkers = 2
  MaxRetries = 2
  MaxTx = 4
  MaxFaults = 2
  MaxCalls = 2
INVARIANT Inv
PROPERTIES EventuallyStored ServerFollows
CHECK_DEADLOCK FALSE
