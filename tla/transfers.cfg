CONSTANTS
  Sessions = {s1, s2}
  Dirs = {d1, d2}
  Home = d1
  Sizes <- UploadSizes
  QueueSize = 1
  PoolThreads = 2
  Missing = Missing
  MaxTransfers = 2
SPECIFICATION Spec
CHECK_DEADLOCK FALSE
INVARIANTS
  TypeOK
  FileIsNewest
  DownloadWhole
  SecondaryFollows
PROPERTIES
  EveryTransferServed
  EveryUploadCopied
