SPECIFICATION Spec
CONSTANTS
  th1 = th1  th2 = th2
  t1 = t1  t2 = t2  t3 = t3
  NoTimer = NoTimer
  NoName = NoName
  Threads <- MCThreads
  Timers <- MCTimers
SYMMETRY MCSymmetry
INVARIANT NamesUnique
