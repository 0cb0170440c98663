CONSTANTS
  Keys = {k1, k2}
  Txs = {t1}
  Clients = {c1}
  MaxSeq = 3
  MaxFailures = 0
SPECIFICATION Spec
INVARIANTS
  NoLostWrite
  GetFresh
CHECK_DEADLOCK FALSE
