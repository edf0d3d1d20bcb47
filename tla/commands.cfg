SPECIFICATION Spec
CONSTANTS
  Fields = {dir, pass}
  Senders = 2
  Handlers = 2
  Torn = Torn
  Other = Other
  Altered = {2}
  MaxCommands = 3
  MaxLosses = 1
CHECK_DEADLOCK FALSE
INVARIANTS
  TypeOK
  OnlyHandedOver
  NoChangeUndone
  FileFollowsRecord
PROPERTY
  EveryCommandAnswered
