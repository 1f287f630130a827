SPECIFICATION Spec
CONSTANTS
  yes = yes
  no = no
  Keys = {yes, no}
  InitialCash = 4
  One = 2
  Batches <- Executions
  Loop = loop
  Workers = {worker}
  MarkRequests <- MarkOrders
  SettlementFees = {0, 1}
  WritesFail = FALSE
  MaxSettlements = 0
INVARIANT
  RestartRestoresTrades
