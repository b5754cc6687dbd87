SPECIFICATION LogFairSpec
CONSTANTS
  Wallet = {w1, w2}
  None = None
  InitWallets = {}
  MaxRetries = 1
  MaxCalls = 3
  MaxLosses = 2
INVARIANT LogInv
PROPERTIES ComesBack StopEnds
CHECK_DEADLOCK FALSE
