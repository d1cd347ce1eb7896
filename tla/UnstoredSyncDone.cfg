SPECIFICATION Spec
CONSTANTS
  t1 = t1
  t2 = t2
  Tables = {t1}
  MaxTx = 2
  Rows <- OneTableTwoTx
  Permits = 1
  MaxAttempts = 1
  RetryDelay = TRUE
  StoreCanFail = TRUE
  MaxFailures = 1
INVARIANTS
  HandedOverIsComplete
