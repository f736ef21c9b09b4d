SPECIFICATION Spec
CONSTANTS
  Threads = {t1, t2}
  NoThread = NoThread
  Ops = {"vfs_read"}
  Paths <- MCPaths
  Rets <- MCRets
  Prefix <- MCPrefix
  PathFragLen = 2
  NumPathPrefix = 2
  AggInterval = 1
  MaxEntries = 2
  RingCap = 1
  U64 = 16
  MaxClock = 2
  MaxCalls = 2
  Nests = {}
SYMMETRY Symmetry
INVARIANTS
  TypeOK
  Conservation
  NoEmptyReport
  CountersNeverAhead
  OwnRecord
  MetricsExact
  PrefixesServed
  NothingLost
CHECK_DEADLOCK FALSE
