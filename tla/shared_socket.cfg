SPECIFICATION Spec
CONSTANTS
  p = p
  s = s
  Hosts <- TwoHosts
  Program <- Deployed
  SOCKET_TIMEOUT = 2
  HEARTBEAT_SLEEP = 1
  ALLOWED_HEARTBEAT_FAILURES = 3
  BufferSize = 3
  MaxCrashes = 1
  MaxLosses = 2
  Horizon = 15
PROPERTIES
  NoFalseTakeover
