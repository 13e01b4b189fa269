SPECIFICATION Spec
CONSTANTS
  Missing <- Null
  NaN <- NotANumber
  QuarterEnds <- Ends
  Worlds <- MCWorlds
  Scopes <- MCScopes
  LastDay = 3
  MaxRounds = 2
  MaxRepairs = 2
  MaxSyncs = 1
  MaxFaults = 1
INVARIANTS NothingLost ServedWasChecked UsableAnswers
PROPERTY RestoresItsOwn
