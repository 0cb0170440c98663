CONSTANTS
  Keys <- MCKeys
  Thresholds = {1, 2}
  Magnify = 1
  FileSize = 3
  Sizes <- MCSizes
  MaxTasks <- MCMaxTasks
SPECIFICATION Spec
INVARIANTS LevelsDisjoint NoTableTwice NewestOnTop QueryNewest
PROPERTIES OrderLostOnlyAtIndexZero
CHECK_DEADLOCK FALSE
