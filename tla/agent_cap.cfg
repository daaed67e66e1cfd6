CONSTANTS
  btc = btc
  d0 = d0
  d1 = d1
  Workers = {w1, w2}
  Symbols = {btc}
  Daily = daily
  SignalKeys = {k1, k2}
  SymbolOf <- OneSymbol
  MaxNow = 1
  DailyKey <- TwoDays
  MaxTickets = 3
  Capacity = 2
  MaxTurns = 1
  UnitsPerCent = 1
  Cap = 1
  Estimate = 1
  Verdicts <- OneVerdict
  DefaultNotional = 0
  TradeEnabled = TRUE
  FaultKinds <- PoolFaults
  MaxFaults = 0
  MaxStarts = 1
  None = None
SPECIFICATION FairSpec
CHECK_DEADLOCK FALSE
INVARIANTS CapOverrunBounded
PROPERTIES TriggersSettle ShutdownEnds
