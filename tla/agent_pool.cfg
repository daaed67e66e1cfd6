CONSTANTS
  btc = btc
  d0 = d0
  d1 = d1
  Workers = {w1, w2}
  Symbols = {btc}
  Daily = daily
  SignalKeys = {k1, k2}
  SymbolOf <- OneSymbol
  MaxNow = 2
  DailyKey <- TwoDays
  MaxTickets = 2
  Capacity = 1
  MaxTurns = 2
  UnitsPerCent = 2
  Cap = 1
  Estimate = 1
  Verdicts <- SomeVerdicts
  DefaultNotional = 0
  TradeEnabled = TRUE
  FaultKinds <- PoolFaults
  MaxFaults = 1
  MaxStarts = 2
  None = None
SPECIFICATION Spec
SYMMETRY Symmetries
CHECK_DEADLOCK FALSE
INVARIANTS TypeOK OneDecisionPerSymbol OrdersFollowStoredDecisions
PROPERTIES DecisionsAreFinal
