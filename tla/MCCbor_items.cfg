SPECIFICATION Spec
CONSTANTS
  Inputs <- MCInputs
  Bytes <- Encode
  Tree <- TreeOf
  OpLens = {8, 15}
  PathLens = {0, 32, 700}
  Numbers <- MCNumbers
  Readers <- MCReaders
INVARIANTS TypeOK SkipExact TokensFaithful IntsExact RecordFits ReadBack  Compatible
CHECK_DEADLOCK FALSE
