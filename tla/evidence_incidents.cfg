SPECIFICATION Spec
CONSTANTS
  stopper = stopper
  request = request
  Handler = handler
  MaxEntries = 1
  MinEntries = 1
  Statuses = {"CERTIFIED"}
  MaxStarts = 2
  Requests = {request}
  Stoppers = {stopper}
  Recorded = 1
  MaxCaptures = 2
  MaxFailures = 1
  Noticed = {"EVIDENCE_CHAIN_BROKEN"}
  Ages = {FALSE}
INVARIANTS
  TypeOK
  OneLoop
  CyclesApart
  JournalIsCoherent
  NoFalseAlarm
PROPERTIES
  LossOnlyByRace
  StopReturns
  BrokenStaysReported
