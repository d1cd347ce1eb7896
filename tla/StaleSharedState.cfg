SPECIFICATION Spec
CONSTANTS
  Wals <- OrderedWals
  MaxCached = 2
  RetryInProcess = TRUE
  MaxRestarts = 1
INVARIANTS
  RowsMatchTheirVersion
CHECK_DEADLOCK FALSE
