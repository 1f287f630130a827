SPECIFICATION Spec
CONSTANTS
  yes = yes
  no = no
  Keys = {yes, no}
  InitialCash = 4
  One = 2
  Batches <- Executions
  Loop = loop
  Workers = {worker}
  MarkRequests <- MarkOrders
  SettlementFees = {1}
  WritesFail = TRUE
  MaxSettlements = 1
INVARIANTS
  TypeOK
  BookedOnce
  BooksBalance
PROPERTY
  ImplementsLedger
