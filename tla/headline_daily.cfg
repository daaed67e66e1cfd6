SPECIFICATION Spec
CONSTANTS
  None = None
  Scorers = {"s1", "s2"}
  Granularities <- TwoWidths
  MaxCandles = 1
  Trades <- TwoProducts
  Btc = "BTC-USD"
  Portfolio = "_portfolio"
  Symbols <- ThreeSymbols
  Actions <- BuyOnly
  Duration <- OneHorizon
  NavHorizons <- LongOnly
  LongHorizon = "14d"
  Minute = 2
  Lookback = 4
  Page = 2
  Limit = 1
  MaxDecisions = 2
  MaxNow = 6
  MaxFaults = 1
INVARIANTS HeadlineExcludesDaily
CHECK_DEADLOCK FALSE
