SPECIFICATION MCSpec
CONSTANTS
  a = a
  b = b
  r1 = r1
  r2 = r2
  r3 = r3
  Keys = {a, b}
  Requests = {r1, r2, r3}
  Nobody = nobody
  TimeToLive = 1
  Cooldown = 2
  MaxTime = 2
INVARIANTS
  TypeOK
  OneCollection
  AnswersTheRequest
PROPERTIES
  SnapshotNeverGoesBack
  RequestsEnd
CHECK_DEADLOCK FALSE
