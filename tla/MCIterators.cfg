SPECIFICATION Spec
CONSTANTS
  None = None
  Keys <- MCKeys
  Stores <- MCStores
  Bounds <- MCBounds
INVARIANTS IterAgreesWithGet SeekIterComplete RangeScanExact
