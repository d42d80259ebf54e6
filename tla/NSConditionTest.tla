----------------------------- MODULE NSConditionTest ---------------------------
(***************************************************************************)
(* NSConditionTest.m and MutextConditionLock.m: __add puts an element into  *)
(* data and signals; __remove waits once if data is empty and then removes. *)
(* Every call of otherTest starts one remover and one adder.  The property  *)
(* data of MutextConditionLock is never allocated: adding to nil does       *)
(* nothing and its count is 0 (Allocated = FALSE).                          *)
(***************************************************************************)
EXTENDS Integers, FiniteSets

CONSTANTS Removers, Adders,
          Allocated,   \* init allocates data
          Spurious,    \* wait may return without a signal
          Nobody

VARIABLES data,      \* number of elements
          holder,    \* who holds the lock of the condition
          waiting,   \* removers asleep in wait, their lock released
          pc

vars == <<data, holder, waiting, pc>>

Threads == Removers \cup Adders

Init ==
  /\ data = 0 /\ holder = Nobody /\ waiting = {}
  /\ pc = [t \in Threads |-> "start"]

(* [condition lock], at the start and when wait returns *)
Acquire(t) ==
  /\ holder = Nobody /\ t \notin waiting
  /\ \/ pc[t] = "start" /\ pc' = [pc EXCEPT ![t] = "locked"]
     \/ pc[t] = "woken" /\ pc' = [pc EXCEPT ![t] = "remove"]
  /\ holder' = t
  /\ UNCHANGED <<data, waiting>>

(* Mutant: the signal is sent only when the array was not empty before. *)
AddSilent(t) ==
  /\ pc[t] = "locked"
  /\ data' = IF Allocated THEN data + 1 ELSE data
  /\ IF waiting = {} \/ data = 0 THEN UNCHANGED waiting
     ELSE \E r \in waiting : waiting' = waiting \ {r}
  /\ pc' = [pc EXCEPT ![t] = "unlock"]
  /\ UNCHANGED holder

(* addObject and signal, which wakes one waiting thread if there is one *)
Add(t) ==
  /\ pc[t] = "locked"
  /\ data' = IF Allocated THEN data + 1 ELSE data
  /\ IF waiting = {} THEN UNCHANGED waiting
     ELSE \E r \in waiting : waiting' = waiting \ {r}
  /\ pc' = [pc EXCEPT ![t] = "unlock"]
  /\ UNCHANGED holder

(* if (data.count == 0) wait, which gives the lock back while it waits *)
Check(t) ==
  /\ pc[t] = "locked"
  /\ IF data = 0
     THEN /\ waiting' = waiting \cup {t} /\ holder' = Nobody
          /\ pc' = [pc EXCEPT ![t] = "woken"]
     ELSE /\ UNCHANGED <<waiting, holder>>
          /\ pc' = [pc EXCEPT ![t] = "remove"]
  /\ UNCHANGED data

(* removeLastObject (nothing to remove: nothing happens) *)
Remove(t) ==
  /\ pc[t] = "remove"
  /\ data' = IF data = 0 THEN 0 ELSE data - 1
  /\ pc' = [pc EXCEPT ![t] = "unlock"]
  /\ UNCHANGED <<holder, waiting>>

Unlock(t) ==
  /\ pc[t] = "unlock"
  /\ holder' = Nobody
  /\ pc' = [pc EXCEPT ![t] = "done"]
  /\ UNCHANGED <<data, waiting>>

SpuriousWakeup(t) ==
  /\ Spurious
  /\ waiting' = waiting \ {t}
  /\ t \in waiting
  /\ UNCHANGED <<data, holder, pc>>

RemoverStep(t) == Acquire(t) \/ Check(t) \/ Remove(t) \/ Unlock(t)
AdderStep(t) == Acquire(t) \/ Add(t) \/ Unlock(t)

Next ==
  \/ \E t \in Removers : RemoverStep(t) \/ SpuriousWakeup(t)
  \/ \E t \in Adders : AdderStep(t)

Spec == Init /\ [][Next]_vars

(* Started threads run. *)
Step(t) == (t \in Removers /\ RemoverStep(t)) \/ (t \in Adders /\ AdderStep(t))
FairSpec == Spec /\ \A t \in Threads : WF_vars(Step(t))
-------------------------------------------------------------------------------
(* Type invariant: only removers wait for the condition. *)
TypeOK ==
  /\ data \in Nat
  /\ holder \in Threads \cup {Nobody}
  /\ waiting \subseteq Removers
  /\ pc \in [Threads -> {"start", "locked", "woken", "remove", "unlock", "done"}]

(* No signal is lost: every remover asleep in wait has an adder of its own that has
   still to signal. *)
SleepersHaveSignal ==
  Cardinality(waiting) <= Cardinality({a \in Adders : pc[a] \in {"start", "locked"}})

(* As many adders as removers: every remover comes back from its wait. *)
AllDone == \A t \in Threads : pc[t] = "done"

(* "only when there is something can it be removed, when there is nothing it
   cannot" (NSConditionTest.m:35, MutextConditionLock.m:57). *)
RemovesSomething == [][\A r \in Removers : pc[r] = "remove" /\ pc'[r] = "unlock" => data > 0]_vars
===============================================================================
