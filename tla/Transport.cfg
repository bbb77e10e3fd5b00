SPECIFICATION Spec
CONSTANTS
  BYTE = 8
  CRC_LEN = 2
  LEN_LEN = 2
  FRAME = 4
  ADDR_CAP = 2
  DATA_CAP = 5
  ID = 1
  MaxSends = 3
  client = client
  board_a = board_a
  board_b = board_b
  Source = {client, board_a, board_b}
  Heard <- MCHeard
  Client = {client}
  Content <- MCContent
  CrcValue <- MCCrcValue
INVARIANTS
  TypeOK
  AtMostOnce
  SameFrames
PROPERTIES
  CleanDelivery
  HostReadsWhatWasSent
  HostDelivery
