SPECIFICATION Spec
CONSTANTS
  Missing <- Null
  NaN <- NotANumber
  QuarterEnds <- Ends
  Worlds <- LateError
  Scopes <- UntilYesterday
  LastDay = 3
  MaxRounds = 2
  MaxRepairs = 2
  MaxSyncs = 1
  MaxFaults = 1
INVARIANT ServedWasChecked
