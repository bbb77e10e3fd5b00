SPECIFICATION FairSpec
CONSTANTS
  b1 = b1
  b2 = b2
  Board = {b1, b2}
  ID = {1, 2, 3}
  List <- MCList
  Begin <- MCBegin
  retry_limit = 1
  InboxCap = 2
  MaxRuns = 1
  MaxResets = 1
INVARIANTS
  UniqueIDs
  ReturnMeansSaved
  RetriesSuffice
  PrintsTheBus
PROPERTIES
  ToolEnds
CHECK_DEADLOCK FALSE
