CONSTANTS
  Keys = {k1}
  Txs = {t1, t2}
  Clients = {}
  MaxSeq = 5
  MaxFailures = 0
SPECIFICATION Spec
INVARIANT FirstCommitterWins
CHECK_DEADLOCK FALSE
