SPECIFICATION FairBoardSpec
CONSTANTS
  Board <- MCBoard
  Code <- MCCode
  BusRate <- MCBusRate
  FlashMHz <- MCFlashMHz
  ResetMHz <- MCResetMHz
INVARIANTS
  SetUpSound
  OnlyBootloaderFrames
PROPERTIES
  Listens
