CONSTANTS
  Markets = {1}
  Stocks = {2, 3}
  Periods = {"1m", "tick"}
  StockLimit = 1
  Workers = {w1, w2}
  Callers = {c1, c2}
  MaxGates = 2
  MaxPushes = 2
  None = None
SPECIFICATION Spec
SYMMETRY Threads
INVARIANTS QuotesAgree SettledWhenUnlocked
PROPERTIES NothingAfterClose
