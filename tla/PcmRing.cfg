CONSTANTS
  Capacity = 3
  MaxBlock = 2
  MaxFrames = 4
  MaxCalls = 2
  Controls = {k1, k2}
SPECIFICATION Spec
PROPERTIES RingIsQueue ClearEnds
CHECK_DEADLOCK FALSE
