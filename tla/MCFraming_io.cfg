SPECIFICATION FairSpec
CONSTANTS
  Modes = {"async", "sync"}
  Values <- MCValues
  Base = 3
  PrefixLen = 2
  WriterMax = 2
  ReaderMaxes = {1, 2}
  PipeCap = 3
  MaxWrites = 3
  MaxCancels = 2
  MaxErrors = 1
INVARIANTS TypeOK NoneMeansAll
PROPERTY QueueSpec
CHECK_DEADLOCK FALSE
