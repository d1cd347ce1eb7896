SPECIFICATION Spec
INVARIANTS
  
  HandoverIsExact
  
  
  
  RowsMatchTheirVersion
  VersionsAreFound
  MirrorIsExact
  
  
  
  
  
  
CHECK_DEADLOCK FALSE
