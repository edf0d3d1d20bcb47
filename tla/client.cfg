CONSTANTS
  a = a
  Names = {a}
  Parent = Parent
  Ls = Ls
  Upload = Upload
  ServerInfo = ServerInfo
  Existing <- TwoDeep
  QueueSize = 1
  MaxTyped = 3
  MaxFaults = 1
SPECIFICATION Spec
CHECK_DEADLOCK FALSE
INVARIANTS
  TypeOK
  NothingForgotten
  OncePerServer
  DirectoryAgrees
  RepeatedInPlace
PROPERTY EveryCommandEnds
