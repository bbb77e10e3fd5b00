SPECIFICATION FairSpec
CONSTANTS
  RELOAD = 5
  WORD = 64
  PER_MS = 3
  timeout_in_millisec = 6
  LOOP = 2
  GAP = 7
  CALL = 2
  HORIZON = 150
INVARIANTS
  OnTime
PROPERTIES
  NeverWraps
  Comes
CHECK_DEADLOCK FALSE
