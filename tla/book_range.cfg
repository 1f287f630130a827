SPECIFICATION FairSpec
CONSTANTS
  Levels = {bid, ask}
  Mode = "RANGE"
  MaxBuffer = 6
  PushesSnapshots = FALSE
  OmitsIds = FALSE
  OmitsSnapshotIds = TRUE
  RestLags = FALSE
  CrossedVersions = {2}
  MaxVersion = 3
  MaxFaults = 1
INVARIANTS
  Mirror
  ReadyAgreesWithSynced
  ReadyIsNotCrossed
  SyncedMissesNothing
PROPERTIES
  ImplementsMirror
  EventuallyCurrent
CHECK_DEADLOCK FALSE
