SPECIFICATION FairSpec
CONSTANTS
  StatsMaps <- MCStatsMaps
  LastWaited = "READV_STATS"
  NumProbes = 2
  PrefixCounts = {1, 3, 4}
  NumPathPrefix = 2
  MaxStarts = 3
INVARIANTS TypeOK SameRing BlockedOnce WholeLists
PROPERTY Settles
CHECK_DEADLOCK FALSE
