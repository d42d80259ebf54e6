SPECIFICATION MCSpec
CONSTANTS
  Elements = {1, 2, 3}
  Blank = Blank
  Trap = Trap
  DEFAULT_CAPACITY = 2
  MaxSize = 5
  CallerChecks = TRUE
  ArrayElements = {1, 2}
  Capacities = {1, 2, 3}
  ArrayMax = 4
  NotFound = NotFound
  StackMax = 4
  Addresses = {1, 2, 3, 4}
  ListElements = {1, 2}
  ListMax = 3
  Null = Null
PROPERTY RemoveReturnsTop
VIEW ObjectState
CHECK_DEADLOCK FALSE
