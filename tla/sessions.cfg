SPECIFICATION Spec
CONSTANTS
  c1 = c1
  c2 = c2
  Conns <- TwoConns
  Passwords = {p1, p2}
  Dirs = {d1, d2, missing}
  ServerDirs = {d1, d2}
  FirstPassword = p1
  FirstDir = d1
  Torn = Torn
  MaxCommands = 2
  MaxConnects = 2
  MaxCrashes = 1
CHECK_DEADLOCK FALSE
SYMMETRY AnyOrder
INVARIANTS
  TypeOK
  TokenHeld
  OneSession
  DiskAgrees
  HandedOver
