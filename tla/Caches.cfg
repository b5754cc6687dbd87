SPECIFICATION CachesFairSpec
CONSTANTS
  Cache = {blockhash, rent}
  Interval = 3
  Pause = 2
  MaxDelay = 1
  MaxTrouble = 1
  Swap = {s1, s2}
  Pool = {p1, p2}
  NoPool = NoPool
  MaxLength = 1
  MaxFailures = 1
INVARIANT CachesInv
PROPERTIES StaysStopped StopEnds KeepsFilled
CHECK_DEADLOCK FALSE
