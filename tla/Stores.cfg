SPECIFICATION StoresSpec
CONSTANTS
  Tables = {t1, t2}
  Phases = {Init_, Ready_}
  Fresh = Init_
  NoPhase = NoPhase
  Requests = {r1}
  MaxId = 3
  SourceTables = {"t1", "t2"}
  Publications <- TwoPublications
  Behaviors = {"Error", "Recreate"}
  MaxWal = 2
  MaxLosses = 1
  MaxFaults = 2
  FaultsBeforeValidation = FALSE
  SyncTables = {"t1", "t2"}
  max_table_sync_workers = 1
  MaxSpawns = 3
  SignalDuringStart = FALSE
  ConfigKinds <- AllKinds
  Values <- SpacedOrZero
  Explicit <- NullableFields
  MaxGiven = 1
  MaxEdits = 2
  MaxRotations = 1
INVARIANTS
  HistoryIsChain
  CacheFollowsRows
  
  WorkersAreAccounted
  
PROPERTIES
  ImplementsTableStates
SYMMETRY Symmetry
CHECK_DEADLOCK FALSE
