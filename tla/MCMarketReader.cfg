SPECIFICATION ReaderSpec
CONSTANTS
  Missing <- Null
  SupportedFrom = 2
  Never = 9
  Worlds <- AllWorlds
  Instants <- Sampled
  MaxRows = 3
INVARIANTS SourcesAgree AliasesAgree NotTradingWhileSuspended NothingForgotten
PROPERTY AnswersStand
\* The data may have come.
CHECK_DEADLOCK FALSE
