------------------------------ MODULE ThreadTests ------------------------------
(***************************************************************************)
(* The tests of TestThreadLock and the permanent threads, one at a time;    *)
(* kind says which one runs:                                                *)
(*   - money: moneyTest and ticketsTest (WGBaseTestLock) at once;           *)
(*   - condition: otherTest of NSConditionTest, called several times, with  *)
(*     spurious wakeups;                                                    *)
(*   - conditionLock: the threads of NSConditionLockTest;                   *)
(*   - permanent: callers that share a permanent thread.                    *)
(***************************************************************************)
EXTENDS WGBaseTestLock, Sequences, FiniteSets

CONSTANTS Removers, Adders,          \* threads of NSConditionTest
          LockThreads, When, Set,    \* threads of NSConditionLockTest, their values
          Keep,                      \* no value: the thread only unlocks
          Classes, Callers, Tasks, NoTask

(* Every call of otherTest starts one remover and one adder. *)
ASSUME ConditionAssumption ==
  /\ IsFiniteSet(Removers) /\ IsFiniteSet(Adders)
  /\ Removers \cap Adders = {}
  /\ Cardinality(Removers) = Cardinality(Adders)

(* __one, __two and __three each wait for a value of their own. *)
ASSUME ConditionLockAssumption ==
  /\ \A t, u \in LockThreads : When[t] = When[u] => t = u
  /\ NoWorker \notin LockThreads

ASSUME PermanentAssumption ==
  /\ Classes \subseteq {"WGPermanentThreadOC", "WGPermanentThreadC"}
  /\ NoTask \notin Tasks

VARIABLES kind,
          data, cHolder, cWaiting, cPc,
          condition_value, lHolder, lWaiting, lPc, log, disturbed,
          class, innerThread, stopped, object, refs, thread, requests, toDo, pPc, arg, task

conditionVars == <<data, cHolder, cWaiting, cPc>>
lockVars == <<condition_value, lHolder, lWaiting, lPc, log, disturbed>>
permanentVars == <<class, innerThread, stopped, object, refs, thread, requests, toDo, pPc, arg, task>>
testVars == <<kind, vars, conditionVars, lockVars, permanentVars>>

Condition == INSTANCE NSConditionTest WITH
  Allocated <- TRUE, Spurious <- TRUE, Nobody <- NoWorker,
  holder <- cHolder, waiting <- cWaiting, pc <- cPc
ConditionLock == INSTANCE NSConditionLockTest WITH
  Threads <- LockThreads, Nobody <- NoWorker,
  holder <- lHolder, waiting <- lWaiting, pc <- lPc
Permanent == INSTANCE WGPermanentThreadOC WITH pc <- pPc

TestsInit ==
  /\ kind \in {"money", "condition", "conditionLock", "permanent"}
  /\ Init /\ Condition!Init /\ ConditionLock!Init /\ Permanent!Init

TestsNext ==
  /\ \/ kind = "money" /\ Next /\ UNCHANGED <<conditionVars, lockVars, permanentVars>>
     \/ kind = "condition" /\ Condition!Next /\ UNCHANGED <<vars, lockVars, permanentVars>>
     \/ kind = "conditionLock" /\ ConditionLock!Next /\ UNCHANGED <<vars, conditionVars, permanentVars>>
     \/ kind = "permanent" /\ Permanent!Next /\ UNCHANGED <<vars, conditionVars, lockVars>>
  /\ UNCHANGED kind

TestsSpec == TestsInit /\ [][TestsNext]_testVars
--------------------------------------------------------------------------------
(* Every sleeper of NSConditionTest has a signal to come (NSConditionTest). *)
SleepersHaveSignal == Condition!SleepersHaveSignal

(* The threads of NSConditionLockTest work in the order of the values. *)
InTurn == ConditionLock!InTurn

(* Every test comes to its end: no thread waits for a lock, a signal or a value for
   ever. *)
TestsEnd ==
  <>(CASE kind = "money" -> AllDone
       [] kind = "condition" -> Condition!AllDone
       [] kind = "conditionLock" -> ConditionLock!AllDone
       [] OTHER -> TRUE)

(* Permanent threads lose and misplace tasks only after a stop (WGPermanentThreadOC). *)
DroppedOnlyAfterStop == Permanent!DroppedOnlyAfterStop

(* The object outlives the requests to it (WGPermanentThreadOC). *)
RequestsHaveObject == Permanent!RequestsHaveObject

(* No pass takes a task after innerStop (WGPermanentThreadOC). *)
NoTaskTakenAfterStop == Permanent!NoTaskTakenAfterStop

(* A started permanent thread serves every stop and every task (WGPermanentThreadOC). *)
RequestsServed == Permanent!StopServed /\ Permanent!TasksServed

(* A stopped permanent thread ends while its object is held (WGPermanentThreadOC). *)
HeldThreadEnds == Permanent!HeldThreadEnds
================================================================================
