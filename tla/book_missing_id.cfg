SPECIFICATION Spec
CONSTANTS
  Levels = {bid}
  Mode = "PREVIOUS_MATCH"
  MaxBuffer = 2
  PushesSnapshots = TRUE
  OmitsIds = TRUE
  OmitsSnapshotIds = FALSE
  RestLags = TRUE
  CrossedVersions = {}
  MaxVersion = 4
  MaxFaults = 0
INVARIANT
  ReadyLostNoDelta
CHECK_DEADLOCK FALSE
