CONSTANTS
  Capacity = 2
  Readers = {r1, r2}
  a = a
  b = b
  MaxAsked = 6
  MaxBatch = 3
  MaxSeq = 5
  None = None
  Quotes <- MCQuotes
  Pushes <- MCPushes
  Reads <- MCReads
SPECIFICATION FairRing
INVARIANTS RingTypeOK RingCurrent NoLostWakeup
PROPERTIES EveryReadReturns ImplementsWindow
