SPECIFICATION Spec
CONSTANTS
  t1 = t1
  t2 = t2
  Tables = {t1, t2}
  MaxTx = 2
  Rows <- TwoTablesThenOne
  Permits = 1
  MaxAttempts = 1
  RetryDelay = FALSE
  StoreCanFail = TRUE
  MaxFailures = 1
INVARIANTS
  TwoTablesAreComplete
CHECK_DEADLOCK FALSE
