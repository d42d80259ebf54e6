SPECIFICATION Spec
CONSTANTS
  Removers = {r1, r2}
  Adders = {a1, a2}
  Nobody = Nobody
  Allocated = TRUE
  Spurious = FALSE
PROPERTY RemovesSomething
CHECK_DEADLOCK FALSE
