SPECIFICATION BatchesSpec
CONSTANTS
  i1 = i1
  i2 = i2
  c1 = c1
  c2 = c2
  k1 = k1
  NONE = NONE
  Imports = {i1, i2}
  Callers = {c1, c2}
  Authorizers = {c1}
  Closers = {c2}
  MaxCalls = 2
  MaxCrashes = 1
  MaxRows = 2
  Characters <- MCCharacters
  Files <- MCFiles
  Keys = {k1}
  Asks <- MCAsks
  PoolSizes = {2, 3}
  Exceptions = {"PAYOUT_REJECTED_DESTINATION"}
  References <- MCReferences
INVARIANTS ImportIsExact
PROPERTIES CompletedIsDone EveryImportEnds RowsSurviveCsv
CHECK_DEADLOCK FALSE
