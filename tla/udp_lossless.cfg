SPECIFICATION Spec
CONSTANTS
  b1 = b1
  b2 = b2
  b3 = b3
  old = old
  OK = OK
  ErrorMd5 = ErrorMd5
  NoAnswer = NoAnswer
  Empty = Empty
  ReadsOk <- MCReadsOk
  Previous <- OldFile
  File <- FortyBlocks
  NO_BLOCKS_TRANSFER = 16
  BufferSize = 18
  MaxLosses = 0
  MaxOvertakes = 0
  MaxLate = 0
  MayFailToOpen = FALSE
CHECK_DEADLOCK FALSE
INVARIANTS
  TrancheInFlight
PROPERTIES
  CopiesFile
