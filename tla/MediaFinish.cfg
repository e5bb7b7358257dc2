CONSTANTS
  Length = 4
  Capacity = 3
  Chunk = 3
  Block = 2
  MaxCommands = 3
SPECIFICATION Spec
PROPERTIES FinishedIsTheEnd
CHECK_DEADLOCK FALSE
