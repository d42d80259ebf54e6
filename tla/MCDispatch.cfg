SPECIFICATION MCFairSpec
CONSTANTS
  a = a  b = b  c = c  NoPort = NoPort  Nobody = Nobody
  Programs <- MCPrograms  MaxCalls = 6  Plans <- MCPlans  Builds <- MCBuilds  MaxGen = 4  Rounds = 2
  Threads <- MCThreads  Roles <- MCRoles  Orig = 1  Calls <- MCCalls  Kinds <- AllKinds
INVARIANTS WakeupsMatchWaiters WaitSawEmpty FreedWhenUnused OnceSeen HeldAndHeard
PROPERTIES ImplementsCounting EverybodyServed EveryOneShotEnds
CHECK_DEADLOCK FALSE
