SPECIFICATION FairSpec
CONSTANTS
  LastDay = 3
  Datasets <- Sets
  Specs <- Listed
  Calendar = "trade_cal"
  KindOf <- Kind
  PartsOf <- Parts
  StockBatches <- Batches
  ChunkDays <- Chunk
  OpenDays <- Open
  Published <- Before
  PublishedLater <- After
  MaxVersion = 1
  Backfills <- Asked
  Selections <- Selected
  IncCalls <- Incs
  CalendarPast = 1
  CalendarFuture = 1
  IncDays <- Back
  Weekly <- Week
  MaxFaults = 1
INVARIANTS MarkedIsStored RangesExact AsksOnlyForMissing SuccessMeansFetched
PROPERTY Completes
