SPECIFICATION RowSpec
CONSTANTS
  Texts <- TextsWithMarker
  Toasted <- ShortTexts
  Names = {"c1", "c2", "c3", "x"}
  Identities = {"d"}
  MaxRows = 1
  MaxColumns = 3
  MaxChanges = 1
  MaxAlters = 0
INVARIANTS
  MirrorIsExact
CHECK_DEADLOCK FALSE
