SPECIFICATION Spec
CONSTANTS
  BLOCK_SIZE = 8
  Lens = {2, 3, 7}
  MaxRecords = 3
  MaxOpens = 3
  MaxFailures = 1
INVARIANTS TrustedRead NothingElse
PROPERTY LoadEnds
CHECK_DEADLOCK FALSE
