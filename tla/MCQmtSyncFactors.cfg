SPECIFICATION Spec
CONSTANTS
  Codes <- TwoCodes
  FirstDay = 2
  LastDay = 3
  Traded <- Bars
  Factors <- Announcements
  ReportDays <- Reports
  Calls <- FactorCalls
  AsksAhead = TRUE
  MaxFaults = 1
INVARIANT AdjustedIsComplete
