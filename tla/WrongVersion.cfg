SPECIFICATION Spec
CONSTANTS
  APP = 2
  APP_END = 6
  TOP = 7
  PageOf <- MCPageOf
  InPage = TRUE
  Datum = {d1}
  Erased = Erased
  Class = {motor, sensor}
  Unreadable = Unreadable
  MaxLen = 3
  BYTE = 8
  OUT_CAP = 9
  BIN_HEADER = 2
INVARIANTS
  WrongVersionIsSilent
