SPECIFICATION Spec
CONSTANTS
  yes = yes
  no = no
  Keys = {yes, no}
  InitialCash = 5
  One = 2
  Batches <- Executions
  Loop = loop
  Workers = {worker}
  MarkRequests <- MarkOrders
  SettlementFees = {0, 1}
  WritesFail = FALSE
  MaxSettlements = 1
PROPERTY
  SettledIsClosed
