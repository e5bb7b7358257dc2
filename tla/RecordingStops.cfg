SPECIFICATION PreparedSpec
CONSTANTS
  Block = 2
  Lead = 3
  Capacity = 2
  MaxBlocks = 2
  MaxCommands = 4
  MaxChanges = 0
PROPERTY StopReturns
CHECK_DEADLOCK FALSE
