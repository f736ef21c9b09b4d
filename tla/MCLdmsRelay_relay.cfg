SPECIFICATION FairSpec
CONSTANTS
  Null = Null
  Other = Other
  Inputs <- MCInputs
  Msglimits = {0, 2}
  Intervals = {0, 2}
  TimeOffsets <- MCTimeOffsets
  RingCap = 2
  MaxMsgs = 3
  MaxClock = 4
INVARIANTS TypeOK RateBound RefusedOnlyOverLimit
PROPERTIES RelaySpec DrainedByLoop
CHECK_DEADLOCK FALSE
