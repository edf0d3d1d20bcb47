SPECIFICATION Spec
CONSTANTS
  p = p
  s = s
  Hosts <- TwoHosts
  Program <- MainPrograms
  SOCKET_TIMEOUT = 2
  HEARTBEAT_SLEEP = 1
  ALLOWED_HEARTBEAT_FAILURES = 3
  BufferSize = 2
  MaxCrashes = 1
  MaxLosses = 0
  Horizon = 0
PROPERTIES
  SomebodyServes
