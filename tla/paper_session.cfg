SPECIFICATION Spec
CONSTANTS
  market = market
  leg = leg
  stopper = stopper
  request = request
  MaxStarts = 2
  Stoppers = {stopper}
  Requests = {request}
  Markets = {market}
  Legs = {leg}
  MaxBatch = 2
  MaxCost = 2
  MaxTradeNotional = 2
  MaxTotalExposure = 2
  MaxMarketExposure = 1
  MaxOpenPositions = 4
  WritesFail = TRUE
INVARIANTS
  TypeOK
  RunningIsLive
  CapitalBounded
PROPERTIES
  StopEndsEveryLoop
  StopReturns
