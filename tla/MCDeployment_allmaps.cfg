SPECIFICATION Spec
CONSTANTS
  StatsMaps <- MCStatsMaps
  LastWaited = "READV_STATS"
  NumProbes = 2
  PrefixCounts = {2}
  NumPathPrefix = 2
  MaxStarts = 1
INVARIANT AllMapsWritten
CHECK_DEADLOCK FALSE
