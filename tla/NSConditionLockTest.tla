--------------------------- MODULE NSConditionLockTest -------------------------
(***************************************************************************)
(* NSConditionLockTest.m on NSConditionLock as GNUstep's NSLock.m has it: a *)
(* condition variable whose waiters are all woken when the value changes,   *)
(* and go back to sleep if the value is not theirs.  The threads __one,     *)
(* __two and __three start in any order and are to work one after another.  *)
(***************************************************************************)
EXTENDS Naturals, Sequences

CONSTANTS Threads,
          When,        \* argument of lockWhenCondition: in each thread
          Set,         \* argument of unlockWithCondition:, or Keep for unlock
          Keep, Nobody

VARIABLES condition_value, holder,
          waiting,     \* threads asleep in wait, their lock released
          pc,
          log,         \* what the threads print
          disturbed    \* bound: threads whose wait has returned for nothing, once each

vars == <<condition_value, holder, waiting, pc, log, disturbed>>

Init ==
  /\ condition_value = 1 /\ holder = Nobody /\ waiting = {}
  /\ pc = [t \in Threads |-> "start"]
  /\ log = <<>> /\ disturbed = {}

(* Mutant: if instead of while, the value is not looked at again. *)
AcquireOnce(t) ==
  /\ pc[t] \in {"start", "wait"} /\ t \notin waiting
  /\ holder = Nobody /\ holder' = t
  /\ pc' = [pc EXCEPT ![t] = IF pc[t] = "wait" THEN "inside" ELSE "while"]
  /\ UNCHANGED <<condition_value, waiting, log, disturbed>>

(* [_condition lock], at the start of lockWhenCondition: and when wait returns *)
Acquire(t) ==
  /\ pc[t] \in {"start", "wait"} /\ t \notin waiting
  /\ holder = Nobody /\ holder' = t
  /\ pc' = [pc EXCEPT ![t] = "while"]
  /\ UNCHANGED <<condition_value, waiting, log, disturbed>>

(* wait returns though nobody broadcast *)
SpuriousWakeup(t) ==
  /\ t \in waiting \ disturbed
  /\ waiting' = waiting \ {t} /\ disturbed' = disturbed \cup {t}
  /\ UNCHANGED <<condition_value, holder, pc, log>>

(* while (value != _condition_value) wait *)
While(t) ==
  /\ pc[t] = "while"
  /\ IF When[t] # condition_value
     THEN /\ waiting' = waiting \cup {t} /\ holder' = Nobody
          /\ pc' = [pc EXCEPT ![t] = "wait"]
     ELSE /\ pc' = [pc EXCEPT ![t] = "inside"]
          /\ UNCHANGED <<waiting, holder>>
  /\ UNCHANGED <<condition_value, log, disturbed>>

(* NSLog in __one, __two and __three *)
Work(t) ==
  /\ pc[t] = "inside"
  /\ log' = Append(log, t)
  /\ pc' = [pc EXCEPT ![t] = "unlock"]
  /\ UNCHANGED <<condition_value, holder, waiting, disturbed>>

(* Mutant: one waiter is woken. *)
UnlockSignal(t) ==
  /\ pc[t] = "unlock"
  /\ condition_value' = IF Set[t] = Keep THEN condition_value ELSE Set[t]
  /\ IF Set[t] = Keep \/ waiting = {} THEN UNCHANGED waiting
     ELSE \E w \in waiting : waiting' = waiting \ {w}
  /\ holder' = Nobody
  /\ pc' = [pc EXCEPT ![t] = "done"]
  /\ UNCHANGED <<log, disturbed>>

(* unlockWithCondition: sets the value and wakes all; unlock only unlocks. *)
Unlock(t) ==
  /\ pc[t] = "unlock"
  /\ condition_value' = IF Set[t] = Keep THEN condition_value ELSE Set[t]
  /\ waiting' = IF Set[t] = Keep THEN waiting ELSE {}
  /\ holder' = Nobody
  /\ pc' = [pc EXCEPT ![t] = "done"]
  /\ UNCHANGED <<log, disturbed>>

Step(t) == Acquire(t) \/ While(t) \/ Work(t) \/ Unlock(t)

Next == \E t \in Threads : Step(t) \/ SpuriousWakeup(t)

Spec == Init /\ [][Next]_vars

(* Started threads run. *)
FairSpec == Spec /\ \A t \in Threads : WF_vars(Step(t))
--------------------------------------------------------------------------------
(* The threads work one after another, in whatever order they start: a thread works
   after the one that sets its value, though every change of the value wakes all of
   them and a wait may return for nothing. *)
InTurn ==
  /\ log # <<>> => When[log[1]] = 1
  /\ \A i \in 2..Len(log) : Set[log[i - 1]] = When[log[i]]

(* Every thread gets its turn. *)
AllDone == \A t \in Threads : pc[t] = "done"
================================================================================
