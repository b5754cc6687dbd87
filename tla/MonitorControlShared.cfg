SPECIFICATION Spec
CONSTANTS
  m1 = m1
  m2 = m2
  c1 = c1
  ann = ann
  w1 = w1
  w2 = w2
  Row = {m2, c1}
  Monitors = {m2}
  Old = {m2, c1}
  Chat = {ann}
  Wallet = {w2}
  ChatOf <- MCChatOf
  WalletOf <- MCWalletOf
  MaxInFlight = 1
  MaxCalls = 1
  MaxFaults = 0
  MaxBoots = 1
PROPERTY PauseSparesOthers
CHECK_DEADLOCK FALSE
