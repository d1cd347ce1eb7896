SPECIFICATION Spec
CONSTANTS
  Wals <- ThreeDdlWals
  MaxCached = 2
  RetryInProcess = FALSE
  MaxRestarts = 2
INVARIANTS
  DiffStartsFromApplied
CHECK_DEADLOCK FALSE
