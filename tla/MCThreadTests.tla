----------------------------- MODULE MCThreadTests ----------------------------
(***************************************************************************)
(* The tests with one saver, one drawer and three sellers, with fewer       *)
(* rounds than the five of the code; three calls of otherTest; the three    *)
(* threads of NSConditionLockTest; and two callers of a permanent thread    *)
(* with two tasks.                                                          *)
(***************************************************************************)
EXTENDS ThreadTests

CONSTANTS saver, drawer, seller1, seller2, seller3

MCWorkers == {saver, drawer, seller1, seller2, seller3}
MCOp == [w \in MCWorkers |->
           IF w = saver THEN "saveMoney" ELSE IF w = drawer THEN "drawMoney" ELSE "saleTickets"]
MCRemovers == 1..3
MCAdders == 4..6
MCLockThreads == 1..3
MCWhen == <<1, 2, 3>>
MCSet == <<2, 3, Keep>>
MCClasses == {"WGPermanentThreadOC", "WGPermanentThreadC"}
MCCallers == 2..3
MCTasks == 1..2

(* The class matters to the permanent threads only. *)
MCInit == TestsInit /\ (kind # "permanent" => class = "WGPermanentThreadC")

(* The threads of the test that runs are numbered, to state the fairness of all the
   tests at once; the first thread of the permanent ones is the inner thread. *)
Worker == <<saver, drawer, seller1, seller2, seller3>>
ThreadStep(i) ==
  \/ /\ kind = "money" /\ i \in DOMAIN Worker /\ WorkerStep(Worker[i])
     /\ UNCHANGED <<kind, conditionVars, lockVars, permanentVars>>
  \/ /\ kind = "condition" /\ Condition!Step(i)
     /\ UNCHANGED <<kind, vars, lockVars, permanentVars>>
  \/ /\ kind = "conditionLock" /\ i \in LockThreads /\ ConditionLock!Step(i)
     /\ UNCHANGED <<kind, vars, conditionVars, permanentVars>>
  \/ /\ kind = "permanent" /\ IF i = 1 THEN Permanent!LoopStep ELSE i \in Callers /\ Permanent!CallerStep(i)
     /\ UNCHANGED <<kind, class, vars, conditionVars, lockVars>>

MCFairSpec == MCInit /\ [][TestsNext]_testVars /\ \A i \in 1..6 : WF_testVars(ThreadStep(i))
===============================================================================
