CONSTANTS
  None = None
  Symbols = {1, 2}
  ActionIds = {1}
  InitialCash = 12
  RatioUnit = 2
  Minimum = 2
  Step = 2
  Maximum = 4
  Slippage = 1
  MinimumCommission = 1
  FeeDivisor = 8
  WeightUnit = 2
  LastDay = 2
  Sessions = {1, 2}
  Dividends <- NoActionDividends
  Delistings <- NoDelistings
  Policies = {"error"}
  Events <- IntradayEvents
  Bars <- TradingBars
  Past = {None, 1}
  Quantities = {2, 3}
  Weights <- TradingWeights
  MaxCalls = 2
SPECIFICATION Spec
INVARIANTS AccountNeverRefuses PlannedAreAcceptable SoldOut
