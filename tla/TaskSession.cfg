SPECIFICATION Spec
CONSTANTS
  Contents <- MCContents
  FileOf <- MCFileOf
  Units <- MCUnits
  Refactorings <- MCRefactorings
  MaxActions = 2
  MaxRuns = 3
  MaxSaves = 2
  MaxDisturbances = 2
  MaxEvents = 5
INVARIANT TypeOK
PROPERTIES SaveIsExact RetryIsComplete
CHECK_DEADLOCK FALSE
