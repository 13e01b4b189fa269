CONSTANTS
  None = None
  Symbols = {1}
  ActionIds = {1, 2}
  InitialCash = 12
  RatioUnit = 2
  Minimum = 2
  Step = 2
  Maximum = 4
  Slippage = 0
  MinimumCommission = 1
  FeeDivisor = 8
  WeightUnit = 2
  LastDay = 6
  Sessions <- ActionSessions
  Dividends <- ActionDividends
  Delistings <- ActionDelistings
  Policies = {"error", "write_off"}
  Events <- DailyEvents
  Bars <- ActionBars
  Past = {None}
  Quantities = {2, 3}
  Weights = {}
  MaxCalls = 2
SPECIFICATION Spec
INVARIANTS TypeOK TPlusOne OneOutcome NoFillAcrossExDay Accounted
