SPECIFICATION Spec
CONSTANTS
  Wals <- InterleavedWals
  MaxCached = 2
  RetryInProcess = FALSE
  MaxRestarts = 1
INVARIANTS
  RowsMatchTheirVersion
CHECK_DEADLOCK FALSE
