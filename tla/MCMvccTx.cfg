CONSTANTS
  Keys = {k1}
  Txs = {t1, t2}
  Clients = {}
  MaxSeq = 5
  MaxFailures = 1
SYMMETRY TxSymmetry
SPECIFICATION Spec
INVARIANTS
  SnapshotCorrect
  ConflictComplete
CHECK_DEADLOCK FALSE
PROPERTIES
  SnapshotMovesOnlyByLateCommit
