CONSTANTS
  SnapshotThreshold = 2
  MaxGen = 9
  MaxLen = 2
  MaxFaults = 2
SPECIFICATION Spec
INVARIANTS TablesRecovered Level0OrderRecovered LevelsRecovered MetaAccurate
CHECK_DEADLOCK FALSE
