SPECIFICATION FairSpec
CONSTANTS
  Codes <- TwoCodes
  FirstDay = 2
  LastDay = 3
  Traded <- Bars
  Factors <- Announcements
  ReportDays <- Reports
  Calls <- SomeCalls
  AsksAhead = FALSE
  MaxFaults = 1
INVARIANTS MarkedIsFinal MarkedOnce AdjustedIsComplete
PROPERTY CatchesUp
