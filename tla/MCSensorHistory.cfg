\* every kind of settings, changed by a user between the values
\* the values and the updates are bounded in number, and the system stops when they are used up
CHECK_DEADLOCK FALSE
SPECIFICATION Spec
CONSTANTS
  Settings <- AllSettings
  Lags <- SomeLags
  Values = {0, 1, 3}
  Dates = {1, 2, 3, 4}
  Tolerance = 2
  MaxItems = 4
  MaxLate = 1
  MaxUpdates = 1
  None = None
INVARIANTS
  TypeOK
  HistoryIsClose
  LastIsKept
  NoThreeEqual
  IncrementIsDifference
PROPERTIES
  HistoryIsBounded
