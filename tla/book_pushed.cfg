SPECIFICATION Spec
CONSTANTS
  Levels = {bid, ask}
  Mode = "PREVIOUS_MATCH"
  MaxBuffer = 2
  PushesSnapshots = TRUE
  OmitsIds = FALSE
  OmitsSnapshotIds = TRUE
  RestLags = TRUE
  CrossedVersions = {2}
  MaxVersion = 4
  MaxFaults = 2
INVARIANTS
  TypeOK
  Mirror
  ReadyAgreesWithSynced
  ReadyIsNotCrossed
CHECK_DEADLOCK FALSE
