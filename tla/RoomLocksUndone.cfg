SPECIFICATION LocksSpec
CONSTANTS
  Commands = {c1}
  Rooms = {r1}
  NoLock = NoLock
PROPERTIES DeletedForGood
CHECK_DEADLOCK FALSE
