SPECIFICATION Spec
CONSTANTS
  Levels = {bid}
  Mode = "RANGE"
  MaxBuffer = 2
  PushesSnapshots = FALSE
  OmitsIds = FALSE
  OmitsSnapshotIds = FALSE
  RestLags = TRUE
  CrossedVersions = {}
  MaxVersion = 4
  MaxFaults = 0
INVARIANT
  SyncedMissesNothing
CHECK_DEADLOCK FALSE
