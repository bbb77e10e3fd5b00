SPECIFICATION Spec
CONSTANTS
  Layout <- MCLayout
  PageSize = {1, 2, 3, 16}
  Length <- MCLength
INVARIANTS
  SectorIsRight
PROPERTIES
  WritesOnErased
  OwnRegionOnly
CHECK_DEADLOCK FALSE
