SPECIFICATION RestartingSpec
CONSTANTS
  Apps = {a}
  Elsewhere = Elsewhere
  MaxChanges = 3
  MaxFaults = 1
PROPERTIES CatchesUp
CHECK_DEADLOCK FALSE
