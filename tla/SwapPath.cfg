SPECIFICATION FairSpec
CONSTANTS
  Decimals = 4
  Unit = 10000
  Amount = {0, 5, 2500, 10000, 29999, 30000}
  Percent = {1, 33, 100}
  Polls = 3
INVARIANTS Inv NeverOversells
PROPERTY EverySwapEnds
CHECK_DEADLOCK FALSE
