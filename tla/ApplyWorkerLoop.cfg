SPECIFICATION Spec
CONSTANTS
  MaxTx = 3
  Size <- OneNoneTwo
  StartLsn = 0
  Target = 0
  MaxBatch = 2
  MaxFailures = 1
INVARIANTS
  AccountsBalance
  SkippedIsDelivered
  StreamKeepsOrder
  
