SPECIFICATION Spec
CONSTANTS
  None = None
  Keys <- MCKeys
  ValueOf <- MCValueOf
  HashMod = 256
  Hash <- MCHash
  Rate <- MCRate
  Seeds <- MCSeeds
  BlockSizes = {1, 5, 100}
  RestartIntervals = {2, 3}
INVARIANTS QueryExact IterReturnsData
