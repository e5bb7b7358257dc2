CONSTANTS
  Length = 5
  Capacity = 3
  Chunk = 3
  Block = 2
  MaxCommands = 3
SPECIFICATION Spec
PROPERTIES PlaysTheTape SongEnds CommandsReturn
CHECK_DEADLOCK FALSE
