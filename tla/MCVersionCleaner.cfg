\* Safety and reclamation, with one failing write of the version log.
CONSTANTS
  Readers = {r1, r2}
  InitGen = 2
  MaxNew = 1
  MaxGen = 5
  MaxVersion = 4
  MaxFailures = 1
SPECIFICATION FairSpec
INVARIANTS
  TypeOK
  NoHeldTableRemoved
  NewestIntact
  GarbageAccounted
  RemovedOnce
  NoOrphanEntry
PROPERTIES
  DroppedTablesReclaimed
  ImplementsTableLifetime
CHECK_DEADLOCK FALSE
