SPECIFICATION FairSpec
CONSTANTS
  t1 = t1
  t2 = t2
  Tables = {t1}
  MaxTx = 1
  Rows <- OneTableOneTx
  Permits = 1
  MaxAttempts = 1
  RetryDelay = FALSE
  StoreCanFail = FALSE
  MaxFailures = 1
PROPERTIES
  WaitsEnd
CHECK_DEADLOCK FALSE
