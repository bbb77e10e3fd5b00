SPECIFICATION FairSpec
CONSTANTS
  Board = {b1, b2}
  Stranger = {s1}
  PageCount = 1
  retry_limit = 1
  InboxCap = 2
  RxCap = 2
INVARIANTS
  OkMeansFlashed
  SavedWhenPunctual
PROPERTIES
  DirectSpec
  ServedWhenPunctual
  SessionEnds
