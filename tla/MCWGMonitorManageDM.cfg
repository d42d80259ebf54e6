SPECIFICATION FairSpec
CONSTANTS
  c1 = c1  c2 = c2  c3 = c3  s1 = s1  s2 = s2  b1 = b1  b2 = b2
  Clients <- MCClients  Fits = {b1}  Plans <- MCPlans  MaxSignals = 2
INVARIANT NoLostWakeUp
PROPERTIES WorkServed HangReported
CHECK_DEADLOCK FALSE
