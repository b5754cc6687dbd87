SPECIFICATION FairSpec
CONSTANTS
  buy = buy
  sale = sale
  f1 = f1
  f2 = f2
  Event = {buy, sale}
  Sale = {sale}
  Follower = {f1, f2}
  FixedBuy = {f1, f2}
  AutoFollow = {f1}
  NoSell = {f1}
  BatchSize = 1
  MaxFaults = 2
  MaxBoots = 2
  MaxEdits = 1
INVARIANT Inv
PROPERTIES AckedIsFinal EventuallyAnswered
CHECK_DEADLOCK FALSE
