SPECIFICATION FairSpec
CONSTANTS
  Cpus = {c1, c2}
  EntryHists <- MCEntryHists
  ExitHists <- MCExitHists
  ResetHists <- MCResetHists
  LinearHists <- MCLinear
  Values = {0, 1}
  Bits = 2
  MaxEntries = 1
  Spares = 1
  MaxRuns = 3
  MaxResets = 2
INVARIANTS TypeOK CountBacked Exact ResetForgets
PROPERTY ResetHonoured
CHECK_DEADLOCK FALSE
