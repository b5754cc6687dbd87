SPECIFICATION FairSpec
CONSTANTS
  n1 = n1
  n2 = n2
  n3 = n3
  x1 = x1
  x2 = x2
  r1 = r1
  r2 = r2
  fw1 = fw1
  fw2 = fw2
  pw1 = pw1
  pw2 = pw2
  Notice = {n1, n2, n3}
  Tx = {x1, x2}
  TxOf <- MCTxOf
  Whole = {n3}
  Fetcher = {r1, r2}
  FetchWorker = {fw1, fw2}
  ParseWorker = {pw1, pw2}
  MaxFaults = 2
  MaxBoots = 2
INVARIANTS NothingVanishes PublishedOnce Inv
PROPERTIES EventuallyFiled
CHECK_DEADLOCK FALSE
