SPECIFICATION MCFairSpec
CONSTANTS
  saver = saver  drawer = drawer  seller1 = seller1  seller2 = seller2  seller3 = seller3
  NoWorker = NoWorker  Keep = Keep
  Workers <- MCWorkers  Op <- MCOp  LockOf <- MutexLockTest
  Rounds = 2
  Removers <- MCRemovers  Adders <- MCAdders
  LockThreads <- MCLockThreads  When <- MCWhen  Set <- MCSet
  Classes <- MCClasses  Callers <- MCCallers  Tasks <- MCTasks  NoTask = 0
INVARIANTS TypeOK OldIsCurrent SleepersHaveSignal InTurn DroppedOnlyAfterStop RequestsHaveObject
PROPERTIES ImplementsLedger TestsEnd NoTaskTakenAfterStop RequestsServed HeldThreadEnds
CHECK_DEADLOCK FALSE
