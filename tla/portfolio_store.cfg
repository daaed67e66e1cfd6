SPECIFICATION Spec
CONSTANTS
  None = None
  c1 = c1
  c2 = c2
  c3 = c3
  Calls = {c1, c2, c3}
  Symbols <- TwoSymbols
  Btc = "BTC-USD"
  Holdings <- TwoHoldings
  Settings <- ThreeSettings
  Kept <- TwoFit
  FirstSettings = "first"
  Requests <- AllRequests
  MaxMinute = 1
  MaxFaults = 1
SYMMETRY SymmetryOfCalls
INVARIANTS TypeOK HoldingsAreFollowed BtcStaysBenchmark ActiveIsInHistory HistoryEndsActive
PROPERTIES SwitchesHold
CHECK_DEADLOCK FALSE
