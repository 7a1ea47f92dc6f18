SPECIFICATION Spec
CONSTANTS
  Geometries <- SmallCaches
  Address = {0, 1, 2, 4, 8, 12}
  MaxAccesses = 6
INVARIANTS
  NoDuplicateTags
  OrderMatchesLines
  HoldsMostRecent
  HoldsLatestFills
  WritebacksConserved
