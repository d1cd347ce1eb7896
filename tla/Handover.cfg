SPECIFICATION FairSpec
CONSTANTS
  t1 = t1
  t2 = t2
  Tables = {t1}
  MaxTx = 2
  Rows <- OneTableTwoTx
  Permits = 1
  MaxAttempts = 1
  RetryDelay = TRUE
  StoreCanFail = FALSE
  MaxFailures = 2
INVARIANTS
  TablesAreComplete
  ExactlyOnceWithoutFailures
  ApplierWaitsDuringCatchup
  
PROPERTIES
  TablesSettle
  WaitsEnd
  ReadyTablesFollow
