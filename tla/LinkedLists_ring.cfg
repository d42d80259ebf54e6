SPECIFICATION Spec
CONSTANTS
  Nodes = {1, 2, 3, 4}
  Elements = {1, 2}
  MaxSize = 3
  Careful = FALSE
  Classes = {"WGSingleCycleList"}
INVARIANT RingClosed
CHECK_DEADLOCK FALSE
