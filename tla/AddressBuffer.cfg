SPECIFICATION Spec
CONSTANTS
  BYTE = 8
  CRC_LEN = 2
  LEN_LEN = 2
  FRAME = 4
  ADDR_CAP = 3
  DATA_CAP = 7
  ID = 1
  MaxSends = 2
  client = client
  board_a = board_a
  board_b = board_b
  Source = {client}
  Heard <- MCHeardByBoard
  Client = {client}
  Content <- MCLongWrite
  CrcValue <- MCCrcValue
INVARIANTS
  InsideAddressBuffer
