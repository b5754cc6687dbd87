SPECIFICATION FairSpec
CONSTANTS
  m1 = m1
  m2 = m2
  c1 = c1
  ann = ann
  w1 = w1
  w2 = w2
  Row = {m1, m2, c1}
  Monitors = {m1, m2}
  Old = {m1, m2}
  Chat = {ann}
  Wallet = {w1, w2}
  ChatOf <- MCChatOf
  WalletOf <- MCWalletOf
  MaxInFlight = 2
  MaxCalls = 2
  MaxFaults = 2
  MaxBoots = 2
INVARIANT Inv
PROPERTIES AnnouncedFirst AllOrNothing KeepsUp
CHECK_DEADLOCK FALSE
