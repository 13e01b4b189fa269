CONSTANTS
  Capacity = 2
  BatchSize = 2
  StartSeq = 1
  MaxPush = 3
  MaxSeq = 5
  MaxEpoch = 2
  MaxFaults = 1
  None = None
SPECIFICATION FairSpec
INVARIANTS DeliveredOnce NothingPassedOver
PROPERTIES CatchesUp
