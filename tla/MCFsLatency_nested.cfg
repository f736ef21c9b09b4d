SPECIFICATION Spec
CONSTANTS
  Threads = {t1, t2}
  NoThread = NoThread
  Ops = {"vfs_write", "vfs_fsync_range"}
  Paths <- MCPath
  Rets = {3}
  Prefix <- MCPrefix1
  PathFragLen = 2
  NumPathPrefix = 1
  AggInterval = 1
  MaxEntries = 2
  RingCap = 1
  U64 = 16
  MaxClock = 3
  MaxCalls = 3
  Nests <- MCNests
INVARIANTS
  NoCallMissed
CHECK_DEADLOCK FALSE
