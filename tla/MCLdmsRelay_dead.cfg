SPECIFICATION FairSpec
CONSTANTS
  Null = Null
  Other = Other
  Inputs <- MCGoodAndBad
  Msglimits = {1}
  Intervals = {2}
  TimeOffsets <- MCOffset
  RingCap = 2
  MaxMsgs = 3
  MaxClock = 2
PROPERTY Drained
CHECK_DEADLOCK FALSE
