SPECIFICATION Spec
CONSTANTS
  urgent = urgent
  ordinary = ordinary
  NoTask = NoTask
  Tasks = {urgent, ordinary}
  Priority <- Priorities
  Workers = 2
  MaxAttempts = 2
  MaxStarts = 2
INVARIANTS
  TypeOK
  UnfinishedAddsUp
  Whereabouts
  LeftBehindIsLate
  OnePool
PROPERTIES
  VerdictsAreFinal
  TasksEnd
  StopReturns
