SPECIFICATION Spec
CONSTANTS
  c1 = c1
  c2 = c2
  Conns <- OneConn
  Passwords = {p1, p2}
  Dirs = {d1, d2, missing}
  ServerDirs = {d1, d2}
  FirstPassword = p1
  FirstDir = d1
  Torn = Torn
  MaxCommands = 1
  MaxConnects = 2
  MaxCrashes = 1
CHECK_DEADLOCK FALSE
INVARIANTS
  AcknowledgedPasswordKept
