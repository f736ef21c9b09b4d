SPECIFICATION FairSpec
CONSTANTS
  Threads = {t1, t2}
  NoThread = NoThread
  Ops = {"vfs_read"}
  Paths <- MCPath
  Rets = {3}
  Prefix <- MCPrefix1
  PathFragLen = 2
  NumPathPrefix = 1
  AggInterval = 1
  MaxEntries = 1
  RingCap = 1
  U64 = 16
  MaxClock = 2
  MaxCalls = 3
  Nests = {}
INVARIANTS
  Conservation
  NoEmptyReport
PROPERTIES
  HandlerTerminates
CHECK_DEADLOCK FALSE
