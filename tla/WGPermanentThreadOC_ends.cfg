SPECIFICATION FairSpec
CONSTANTS
  Callers = {c1, c2}
  Tasks = {k1, k2}
  NoTask = NoTask
  Classes = {"WGPermanentThreadOC"}
PROPERTY ThreadEnds
CHECK_DEADLOCK FALSE
