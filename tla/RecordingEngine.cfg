SPECIFICATION PreparedSpec
CONSTANTS
  Block = 2
  Lead = 3
  Capacity = 2
  MaxBlocks = 3
  MaxCommands = 5
  MaxChanges = 1
INVARIANTS FileIsTheTake
PROPERTIES PausedTakesNothing RecorderAnswers
CHECK_DEADLOCK FALSE
