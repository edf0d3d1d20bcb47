SPECIFICATION Spec
CONSTANTS
  p = p
  s = s
  Hosts <- TwoHosts
  Program <- MainPrograms
  SOCKET_TIMEOUT = 2
  HEARTBEAT_SLEEP = 1
  ALLOWED_HEARTBEAT_FAILURES = 3
  BufferSize = 2
  MaxCrashes = 3
  MaxLosses = 2
  Horizon = 16
INVARIANTS
  TypeOK
  TakeoverInTime
PROPERTIES
  NoFalseTakeover
  LoneHostServes
