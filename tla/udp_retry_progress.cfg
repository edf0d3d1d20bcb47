SPECIFICATION Spec
CONSTANTS
  b1 = b1
  b2 = b2
  b3 = b3
  old = old
  OK = OK
  ErrorMd5 = ErrorMd5
  NoAnswer = NoAnswer
  Empty = Empty
  ReadsOk <- MCReadsOk
  Previous <- OldFile
  File <- TwoBlocks
  NO_BLOCKS_TRANSFER = 2
  BufferSize = 4
  MaxLosses = 1
  MaxOvertakes = 0
  MaxLate = 0
  MayFailToOpen = FALSE
CHECK_DEADLOCK FALSE
PROPERTIES
  TransferEnds
