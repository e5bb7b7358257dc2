SPECIFICATION ServedSpec
CONSTANTS
  Commands = {c1, c2, c3}
  Rooms = {r1}
  NoLock = NoLock
PROPERTIES NoUpdateUndone RequestsEnd
CHECK_DEADLOCK FALSE
