--------------------------- MODULE ThreadTestsProofs ---------------------------
(***************************************************************************)
(* The lock tests and the permanent threads for any number of threads,      *)
(* callers and tasks.                                                       *)
(*   - NSConditionTest: a remover falls asleep only when no element is      *)
(*     there, and then the adders to come cover all who still need one; a   *)
(*     signal takes one from the adders and one from the sleepers.          *)
(*   - NSConditionLockTest: the value is the one that the last thread that  *)
(*     worked has set.                                                      *)
(*   - Permanent threads: when the last reference goes, the only request    *)
(*     that can still come is the stop of dealloc; after innerStop a pass   *)
(*     begins only if the object is gone, and with it every task.           *)
(***************************************************************************)
EXTENDS ThreadTests, FiniteSetTheorems, SequenceTheorems, TLAPS

Needing == {r \in Removers : cPc[r] \in {"start", "locked", "woken", "remove"}}
Coming == {a \in Adders : cPc[a] \in {"start", "locked"}}

(* The elements there are and the adders to come are enough for the removers. *)
Covered == Cardinality(Needing) <= data + Cardinality(Coming)

(* The adders to come are enough for the sleepers, who have not removed yet. *)
Signalled ==
  /\ cWaiting \subseteq {r \in Removers : cPc[r] = "woken"}
  /\ Cardinality(cWaiting) <= Cardinality(Coming)

ConditionType ==
  /\ data \in Nat
  /\ cPc \in [Removers \cup Adders -> {"start", "locked", "woken", "remove", "unlock", "done"}]

ConditionInv == ConditionType /\ Covered /\ Signalled

(* The sets of threads are counted. *)
LEMMA Counted ==
  /\ IsFiniteSet(Needing) /\ Cardinality(Needing) \in Nat
  /\ IsFiniteSet(Coming) /\ Cardinality(Coming) \in Nat
<1>1. Needing \subseteq Removers /\ Coming \subseteq Adders
  BY DEF Needing, Coming
<1> QED
  BY <1>1, ConditionAssumption, FS_Subset, FS_CardinalityType

LEMMA CountedNext ==
  /\ IsFiniteSet(Needing') /\ Cardinality(Needing') \in Nat
  /\ IsFiniteSet(Coming') /\ Cardinality(Coming') \in Nat
<1>1. Needing' \subseteq Removers /\ Coming' \subseteq Adders
  BY DEF Needing, Coming
<1> QED
  BY <1>1, ConditionAssumption, FS_Subset, FS_CardinalityType

LEMMA SleepersCounted ==
  /\ Signalled => IsFiniteSet(cWaiting) /\ Cardinality(cWaiting) \in Nat
  /\ \A S : S \subseteq cWaiting /\ Signalled =>
       IsFiniteSet(S) /\ Cardinality(S) \in Nat /\ Cardinality(S) <= Cardinality(cWaiting)
<1>1. Signalled => cWaiting \subseteq Removers
  BY DEF Signalled
<1>2. Signalled => IsFiniteSet(cWaiting)
  BY <1>1, ConditionAssumption, FS_Subset
<1> QED
  BY <1>2, FS_Subset, FS_CardinalityType

LEMMA ConditionStart == Condition!Init => ConditionInv
<1> SUFFICES ASSUME Condition!Init PROVE ConditionInv
  OBVIOUS
<1>1. Needing = Removers /\ Coming = Adders
  BY DEF Condition!Init, Condition!Threads, Needing, Coming
<1>2. Cardinality(Removers) <= 0 + Cardinality(Adders)
  BY ConditionAssumption, FS_CardinalityType
<1>3. Signalled
  <2>1. cWaiting = {} /\ Cardinality({}) = 0
    BY FS_EmptySet DEF Condition!Init
  <2> QED
    BY <2>1, Counted DEF Signalled
<1> QED
  BY <1>1, <1>2, <1>3 DEF Condition!Init, Condition!Threads, ConditionInv, ConditionType, Covered

(* An adder that adds stops being one to come, and wakes a sleeper if there is one; a
   remover that removes needs no more; one that falls asleep has found no element, so
   that the adders to come are enough for all who need one. *)
LEMMA ConditionStep == ConditionInv /\ Condition!Next => ConditionInv'
<1> SUFFICES ASSUME ConditionInv, Condition!Next PROVE ConditionInv'
  OBVIOUS
<1>0. Cardinality(Needing) <= data + Cardinality(Coming) /\ data \in Nat
  BY DEF ConditionInv, ConditionType, Covered
<1>1. ASSUME NEW t \in Removers, Condition!Remove(t) PROVE ConditionInv'
  <2>1. Needing' = Needing \ {t} /\ t \in Needing /\ Coming' = Coming
    BY <1>1, ConditionAssumption DEF Condition!Remove, ConditionInv, ConditionType, Needing, Coming
  <2>2. Cardinality(Needing') = Cardinality(Needing) - 1
    BY <2>1, Counted, FS_RemoveElement
  <2>3. ConditionType'
    BY <1>1 DEF Condition!Remove, ConditionInv, ConditionType
  <2>4. Covered'
    <3>1. data' = IF data = 0 THEN 0 ELSE data - 1
      BY <1>1 DEF Condition!Remove
    <3> QED
      BY <1>0, <2>1, <2>2, <3>1, Counted, CountedNext DEF Covered
  <2>5. Signalled'
    BY <1>1, <2>1 DEF Condition!Remove, ConditionInv, ConditionType, Signalled
  <2> QED
    BY <2>3, <2>4, <2>5 DEF ConditionInv
<1>2. ASSUME NEW t \in Adders, Condition!Add(t) PROVE ConditionInv'
  <2>1. Coming' = Coming \ {t} /\ t \in Coming /\ Needing' = Needing
    BY <1>2, ConditionAssumption DEF Condition!Add, ConditionInv, ConditionType, Needing, Coming
  <2>2. Cardinality(Coming') = Cardinality(Coming) - 1
    BY <2>1, Counted, FS_RemoveElement
  <2>3. ConditionType' /\ data' = data + 1
    BY <1>2 DEF Condition!Add, ConditionInv, ConditionType
  <2>4. Covered'
    BY <1>0, <2>1, <2>2, <2>3, Counted, CountedNext DEF Covered
  <2>5. cWaiting' \subseteq cWaiting /\ cWaiting' \subseteq {r \in Removers : cPc'[r] = "woken"}
    BY <1>2, ConditionAssumption DEF Condition!Add, ConditionInv, ConditionType, Signalled
  <2>6. Cardinality(cWaiting') <= Cardinality(Coming')
    <3>1. CASE cWaiting = {}
      <4>1. cWaiting' = {} /\ Cardinality({}) = 0
        BY <2>5, <3>1, FS_EmptySet
      <4> QED
        BY <4>1, CountedNext
    <3>2. CASE cWaiting # {}
      <4>1. PICK r \in cWaiting : cWaiting' = cWaiting \ {r}
        BY <1>2, <3>2 DEF Condition!Add
      <4>2. IsFiniteSet(cWaiting) /\ Cardinality(cWaiting) \in Nat /\ Cardinality(cWaiting) <= Cardinality(Coming)
        BY SleepersCounted DEF ConditionInv, Signalled
      <4>3. Cardinality(cWaiting') = Cardinality(cWaiting) - 1
        BY <4>1, <4>2, FS_RemoveElement
      <4> QED
        BY <2>2, <4>2, <4>3, Counted, CountedNext
    <3> QED
      BY <3>1, <3>2
  <2> QED
    BY <2>3, <2>4, <2>5, <2>6 DEF ConditionInv, Signalled
<1>3. ASSUME NEW t \in Removers \cup Adders,
             \/ Condition!Acquire(t) \/ Condition!Unlock(t) \/ Condition!SpuriousWakeup(t)
             \/ t \in Removers /\ Condition!Check(t)
      PROVE  ConditionInv'
  <2>1. data' = data /\ ConditionType'
    BY <1>3 DEF Condition!Acquire, Condition!Unlock, Condition!SpuriousWakeup, Condition!Check, ConditionInv, ConditionType
  <2>2. Needing' = Needing /\ Coming' = Coming
    BY <1>3, ConditionAssumption
    DEF Condition!Acquire, Condition!Unlock, Condition!SpuriousWakeup, Condition!Check, ConditionInv, ConditionType,
        Needing, Coming
  <2>3. Covered'
    BY <1>0, <2>1, <2>2 DEF Covered
  <2>4. Signalled'
    <3>1. cWaiting' \subseteq {r \in Removers : cPc'[r] = "woken"}
      BY <1>3 DEF Condition!Acquire, Condition!Unlock, Condition!SpuriousWakeup, Condition!Check, ConditionInv,
                  ConditionType, Signalled
    <3>2. CASE cWaiting' \subseteq cWaiting
      BY <2>2, <3>1, <3>2, SleepersCounted, Counted DEF ConditionInv, Signalled
    <3>3. CASE ~(cWaiting' \subseteq cWaiting)
      <4>1. data = 0
        BY <1>3, <3>3 DEF Condition!Acquire, Condition!Unlock, Condition!SpuriousWakeup, Condition!Check
      <4>2. cWaiting' \subseteq Needing
        BY <2>2, <3>1 DEF Needing
      <4>3. Cardinality(cWaiting') \in Nat /\ Cardinality(cWaiting') <= Cardinality(Needing)
        BY <4>2, Counted, FS_Subset, FS_CardinalityType
      <4> QED
        BY <1>0, <2>2, <3>1, <4>1, <4>3, Counted DEF Signalled
    <3> QED
      BY <3>2, <3>3
  <2> QED
    BY <2>1, <2>3, <2>4 DEF ConditionInv
<1> QED
  BY <1>1, <1>2, <1>3 DEF Condition!Next, Condition!RemoverStep, Condition!AdderStep
--------------------------------------------------------------------------------
Last == log[Len(log)]

LockType ==
  /\ lPc \in [LockThreads -> {"start", "while", "wait", "inside", "unlock", "done"}]
  /\ log \in Seq(LockThreads)

(* One thread at a time is past the lock, and works at its value. *)
Owned ==
  \A t \in LockThreads :
    /\ lPc[t] \in {"while", "inside", "unlock"} => lHolder = t
    /\ lPc[t] \in {"inside", "unlock"} => When[t] = condition_value

(* Who is about to unlock has worked last. *)
WorkedLast == \A t \in LockThreads : lPc[t] = "unlock" => Len(log) # 0 /\ Last = t

(* The value is the one the last thread that worked has set, or was working at. *)
ValueSet ==
  IF Len(log) = 0 THEN condition_value = 1
  ELSE /\ lPc[Last] \in {"unlock", "done"}
       /\ lPc[Last] = "done" => condition_value = IF Set[Last] = Keep THEN When[Last] ELSE Set[Last]

LockInv == LockType /\ Owned /\ WorkedLast /\ ValueSet /\ InTurn

LEMMA LockStart == ConditionLock!Init => LockInv
<1> SUFFICES ASSUME ConditionLock!Init PROVE LockInv
  OBVIOUS
<1>1. log = << >> /\ condition_value = 1 /\ lPc = [t \in LockThreads |-> "start"]
  BY DEF ConditionLock!Init
<1>2. << >> \in Seq(LockThreads) /\ Len(<< >>) = 0
  OBVIOUS
<1> QED
  BY <1>1, <1>2 DEF LockInv, LockType, Owned, WorkedLast, ValueSet, InTurn, ConditionLock!InTurn

LEMMA LockStep == LockInv /\ ConditionLock!Next => LockInv'
<1> SUFFICES ASSUME LockInv, NEW t \in LockThreads,
                    ConditionLock!Step(t) \/ ConditionLock!SpuriousWakeup(t)
             PROVE  LockInv'
  BY DEF ConditionLock!Next
<1> USE DEF LockInv
<1>0. Len(log) \in Nat /\ (Len(log) # 0 => Last \in LockThreads)
  BY DEF LockType, Last
<1>1. CASE ConditionLock!SpuriousWakeup(t)
  BY <1>1 DEF ConditionLock!SpuriousWakeup, LockType, Owned, WorkedLast, ValueSet, InTurn, ConditionLock!InTurn, Last
<1>2. CASE ConditionLock!Acquire(t)
  <2>1. UNCHANGED <<condition_value, log>> /\ lHolder = NoWorker /\ lHolder' = t
        /\ lPc' = [lPc EXCEPT ![t] = "while"] /\ lPc[t] \in {"start", "wait"}
    BY <1>2 DEF ConditionLock!Acquire
  <2>2. LockType' /\ InTurn'
    BY <2>1 DEF LockType, InTurn, ConditionLock!InTurn
  <2>3. Owned'
    BY <2>1, ConditionLockAssumption DEF LockType, Owned
  <2>4. ValueSet' /\ WorkedLast'
    BY <1>0, <2>1 DEF LockType, ValueSet, WorkedLast, Last
  <2> QED
    BY <2>2, <2>3, <2>4
<1>3. CASE ConditionLock!While(t)
  <2>1. UNCHANGED <<condition_value, log>> /\ lPc[t] = "while"
        /\ \/ lPc' = [lPc EXCEPT ![t] = "wait"] /\ lHolder' = NoWorker
           \/ lPc' = [lPc EXCEPT ![t] = "inside"] /\ lHolder' = lHolder /\ When[t] = condition_value
    BY <1>3 DEF ConditionLock!While
  <2>2. LockType' /\ InTurn'
    BY <2>1 DEF LockType, InTurn, ConditionLock!InTurn
  <2>3. Owned'
    BY <2>1, ConditionLockAssumption DEF LockType, Owned
  <2>4. ValueSet' /\ WorkedLast'
    BY <1>0, <2>1 DEF LockType, ValueSet, WorkedLast, Last
  <2> QED
    BY <2>2, <2>3, <2>4
<1>4. CASE ConditionLock!Work(t)
  <2>1. UNCHANGED <<condition_value, lHolder>> /\ lPc[t] = "inside" /\ log' = Append(log, t)
        /\ lPc' = [lPc EXCEPT ![t] = "unlock"]
    BY <1>4 DEF ConditionLock!Work
  <2>2. /\ log' \in Seq(LockThreads) /\ Len(log') = Len(log) + 1 /\ log'[Len(log) + 1] = t
        /\ \A i \in 1..Len(log) : log'[i] = log[i]
    BY <2>1 DEF LockType
  <2>3. LockType' /\ Owned' /\ ValueSet' /\ WorkedLast'
    <3>1. Last' = t /\ Len(log') # 0
      BY <1>0, <2>2 DEF Last
    <3> QED
      BY <1>0, <2>1, <2>2, <3>1 DEF LockType, Owned, ValueSet, WorkedLast
  <2>4. Len(log) # 0 => Set[Last] = When[t]
    <3> SUFFICES ASSUME Len(log) # 0 PROVE Set[Last] = When[t]
      OBVIOUS
    <3>1. lPc[Last] \in {"unlock", "done"} /\ Last # t /\ When[t] = condition_value /\ lHolder = t
      BY <2>1 DEF ValueSet, Owned
    <3>2. lPc[Last] = "done"
      BY <1>0, <3>1 DEF Owned
    <3>3. condition_value = IF Set[Last] = Keep THEN When[Last] ELSE Set[Last]
      BY <3>2 DEF ValueSet
    <3>4. When[Last] # When[t]
      BY <1>0, <3>1, ConditionLockAssumption
    <3> QED
      BY <3>1, <3>3, <3>4
  <2>5. Len(log) = 0 => When[t] = 1
    BY <2>1 DEF ValueSet, Owned
  <2>6. When[log'[1]] = 1
    <3>1. CASE Len(log) = 0
      BY <2>2, <2>5, <3>1
    <3>2. CASE Len(log) # 0
      <4>1. log # << >> /\ log'[1] = log[1]
        BY <1>0, <2>2, <3>2
      <4> QED
        BY <4>1 DEF InTurn, ConditionLock!InTurn
    <3> QED
      BY <3>1, <3>2
  <2>7. ASSUME NEW i \in 2..Len(log') PROVE Set[log'[i - 1]] = When[log'[i]]
    <3>1. CASE i = Len(log) + 1
      <4>1. log'[i - 1] = Last /\ log'[i] = t /\ Len(log) # 0
        BY <1>0, <2>2, <3>1 DEF Last
      <4> QED
        BY <2>4, <4>1
    <3>2. CASE i # Len(log) + 1
      <4>1. i \in 2..Len(log) /\ log'[i - 1] = log[i - 1] /\ log'[i] = log[i]
        BY <1>0, <2>2, <3>2
      <4> QED
        BY <4>1 DEF InTurn, ConditionLock!InTurn
    <3> QED
      BY <3>1, <3>2
  <2> QED
    BY <2>3, <2>6, <2>7 DEF InTurn, ConditionLock!InTurn
<1>5. CASE ConditionLock!Unlock(t)
  <2>1. /\ lPc[t] = "unlock" /\ log' = log /\ lHolder' = NoWorker /\ lPc' = [lPc EXCEPT ![t] = "done"]
        /\ condition_value' = IF Set[t] = Keep THEN condition_value ELSE Set[t]
    BY <1>5 DEF ConditionLock!Unlock
  <2>2. LockType' /\ InTurn'
    BY <2>1 DEF LockType, InTurn, ConditionLock!InTurn
  <2>3. \A u \in LockThreads : u # t => lPc[u] \notin {"while", "inside", "unlock"}
    BY <2>1 DEF Owned
  <2>4. Owned'
    BY <2>1, <2>3 DEF LockType, Owned
  <2>5. Len(log) # 0 /\ Last = t /\ Last' = Last /\ When[t] = condition_value
    BY <2>1 DEF WorkedLast, Last, Owned
  <2>6. ValueSet' /\ WorkedLast'
    BY <2>1, <2>3, <2>5 DEF LockType, ValueSet, WorkedLast
  <2> QED
    BY <2>2, <2>4, <2>6
<1> QED
  BY <1>1, <1>2, <1>3, <1>4, <1>5 DEF ConditionLock!Step
--------------------------------------------------------------------------------
(* A caller in the middle of a call that will send a request *)
Active(c) == pPc[c] \in {"executeTask", "stop", "waiting"}

(* Which class runs which loop, and what stops it *)
ClassOfLoop ==
  /\ thread \in {"weak", "flag"} => class = Permanent!OC
  /\ thread = "source" => class # Permanent!OC
  /\ stopped => class = Permanent!OC
  /\ ~innerThread => stopped

(* The loop of a class with a stopped flag ends for the flag or for want of the object;
   a stopped loop begins another pass only for want of the object. *)
LoopEnds ==
  /\ thread = "exited" /\ class = Permanent!OC => stopped \/ object # "alive"
  /\ thread = "runMode" /\ stopped /\ Len(toDo) = 0 => object # "alive"
  /\ thread # "runMode" => Len(toDo) = 0

(* Whoever is in a call holds the object, except the one call that dealloc makes. *)
Held ==
  /\ object = "alive" => \A c \in Callers : Active(c) => c \in refs
  /\ object # "alive" => /\ refs = {}
                         /\ \A c \in Callers : pPc[c] # "executeTask"
                         /\ \A i \in 1..Len(requests) : requests[i].kind = "stop"
                         /\ \A i \in 1..Len(toDo) : toDo[i].kind = "stop"
  /\ object = "gone" => Len(requests) = 0 /\ Len(toDo) = 0 /\ \A c \in Callers : ~Active(c)
  /\ object = "dealloc" => /\ Len(requests) + Len(toDo) <= 1
                           /\ \A c, d \in Callers : Active(c) /\ Active(d) => c = d
                           /\ Len(requests) + Len(toDo) # 0 => \A c \in Callers : pPc[c] # "stop"

(* Who waits for a stop, and which task waits, is known to the run loop. *)
HasStop(q, c) == \E i \in 1..Len(q) : q[i].kind = "stop" /\ q[i].by = c
HasTask(q, k) == \E i \in 1..Len(q) : q[i].kind = "task" /\ q[i].what = k

Known ==
  /\ \A c \in Callers : pPc[c] = "waiting" => HasStop(requests, c) \/ HasStop(toDo, c)
  /\ \A k \in Tasks : task[k] = "queued" => HasTask(requests, k)

(* A task is sent once: it has been sent when it is queued, and it is no more queued
   when a pass has taken it. *)
Sent ==
  /\ \A c \in Callers : pPc[c] = "executeTask" => arg[c] \in Tasks /\ task[arg[c]] = "sending"
  /\ \A c, d \in Callers : pPc[c] = "executeTask" /\ pPc[d] = "executeTask" /\ arg[c] = arg[d] => c = d
  /\ \A k \in Tasks : HasTask(requests, k) => task[k] \notin {"unsent", "sending"}
  /\ \A k \in Tasks : HasTask(toDo, k) => task[k] \notin {"unsent", "sending", "queued"}

PermanentInv ==
  Permanent!TypeOK /\ ClassOfLoop /\ LoopEnds /\ Held /\ Known /\ Sent /\ DroppedOnlyAfterStop

(* Requests are stops and tasks of callers. *)
LEMMA RequestFields ==
  ASSUME NEW r \in Permanent!Requests
  PROVE  r.by \in Callers /\ (r.kind = "task" => r.what \in Tasks)
  BY DEF Permanent!Requests, Permanent!Stop, Permanent!Task

LEMMA StopRequest ==
  ASSUME NEW c \in Callers
  PROVE  /\ Permanent!Stop(c) \in Permanent!Requests
         /\ Permanent!Stop(c).kind = "stop" /\ Permanent!Stop(c).by = c
  BY DEF Permanent!Requests, Permanent!Stop

LEMMA TaskRequest ==
  ASSUME NEW c \in Callers, NEW k \in Tasks
  PROVE  /\ Permanent!Task(c, k) \in Permanent!Requests
         /\ Permanent!Task(c, k).kind = "task" /\ Permanent!Task(c, k).what = k
  BY DEF Permanent!Requests, Permanent!Task

(* A request is put behind the others; the oldest one is taken. *)
LEMMA QueueFacts ==
  ASSUME NEW q \in Seq(Permanent!Requests)
  PROVE  /\ Len(q) \in Nat /\ (q = << >> <=> Len(q) = 0)
         /\ \A i \in 1..Len(q) : q[i] \in Permanent!Requests
         /\ \A r \in Permanent!Requests :
              /\ Append(q, r) \in Seq(Permanent!Requests) /\ Len(Append(q, r)) = Len(q) + 1
              /\ \A i \in 1..Len(q) : Append(q, r)[i] = q[i]
              /\ Append(q, r)[Len(q) + 1] = r
         /\ q # << >> => /\ Head(q) = q[1] /\ Head(q) \in Permanent!Requests
                         /\ Tail(q) \in Seq(Permanent!Requests) /\ Len(Tail(q)) = Len(q) - 1
                         /\ \A i \in 1..Len(Tail(q)) : Tail(q)[i] = q[i + 1]
<1>1. /\ Len(q) \in Nat /\ (q = << >> <=> Len(q) = 0)
      /\ \A i \in 1..Len(q) : q[i] \in Permanent!Requests
  BY EmptySeq
<1>2. ASSUME NEW r \in Permanent!Requests
      PROVE  /\ Append(q, r) \in Seq(Permanent!Requests) /\ Len(Append(q, r)) = Len(q) + 1
             /\ \A i \in 1..Len(q) : Append(q, r)[i] = q[i]
             /\ Append(q, r)[Len(q) + 1] = r
  OBVIOUS
<1>3. ASSUME q # << >>
      PROVE  /\ Head(q) = q[1] /\ Head(q) \in Permanent!Requests
             /\ Tail(q) \in Seq(Permanent!Requests) /\ Len(Tail(q)) = Len(q) - 1
             /\ \A i \in 1..Len(Tail(q)) : Tail(q)[i] = q[i + 1]
  BY <1>3
<1> QED
  BY <1>1, <1>2, <1>3

(* What is in a queue with one more request *)
LEMMA QueueAppend ==
  ASSUME NEW q \in Seq(Permanent!Requests), NEW r \in Permanent!Requests
  PROVE  /\ \A c : HasStop(Append(q, r), c) <=> HasStop(q, c) \/ (r.kind = "stop" /\ r.by = c)
         /\ \A k : HasTask(Append(q, r), k) <=> HasTask(q, k) \/ (r.kind = "task" /\ r.what = k)
  BY QueueFacts DEF HasStop, HasTask

(* What is in a queue without its oldest request *)
LEMMA QueueTail ==
  ASSUME NEW q \in Seq(Permanent!Requests), q # << >>
  PROVE  /\ \A c : HasStop(q, c) <=> HasStop(Tail(q), c) \/ (Head(q).kind = "stop" /\ Head(q).by = c)
         /\ \A k : HasTask(q, k) <=> HasTask(Tail(q), k) \/ (Head(q).kind = "task" /\ Head(q).what = k)
<1>1. /\ Len(q) \in Nat /\ Len(q) # 0 /\ Head(q) = q[1] /\ Len(Tail(q)) = Len(q) - 1
      /\ \A i \in 1..Len(Tail(q)) : Tail(q)[i] = q[i + 1]
  BY QueueFacts
<1>2. \A i \in 1..Len(q) : i # 1 => i - 1 \in 1..Len(Tail(q)) /\ Tail(q)[i - 1] = q[i]
  BY <1>1
<1>3. \A i \in 1..Len(Tail(q)) : i + 1 \in 1..Len(q)
  BY <1>1
<1>4. ASSUME NEW c PROVE HasStop(q, c) => HasStop(Tail(q), c) \/ (Head(q).kind = "stop" /\ Head(q).by = c)
  BY <1>1, <1>2 DEF HasStop
<1>5. ASSUME NEW c PROVE HasStop(Tail(q), c) \/ (Head(q).kind = "stop" /\ Head(q).by = c) => HasStop(q, c)
  BY <1>1, <1>3 DEF HasStop
<1>6. ASSUME NEW k PROVE HasTask(q, k) => HasTask(Tail(q), k) \/ (Head(q).kind = "task" /\ Head(q).what = k)
  BY <1>1, <1>2 DEF HasTask
<1>7. ASSUME NEW k PROVE HasTask(Tail(q), k) \/ (Head(q).kind = "task" /\ Head(q).what = k) => HasTask(q, k)
  BY <1>1, <1>3 DEF HasTask
<1> QED
  BY <1>4, <1>5, <1>6, <1>7

LEMMA QueueEmpty ==
  /\ << >> \in Seq(Permanent!Requests) /\ Len(<< >>) = 0
  /\ \A c : ~HasStop(<< >>, c)
  /\ \A k : ~HasTask(<< >>, k)
  BY DEF HasStop, HasTask

LEMMA PermanentStart == Permanent!Init => PermanentInv
<1> SUFFICES ASSUME Permanent!Init PROVE PermanentInv
  OBVIOUS
<1>1. requests = << >> /\ toDo = << >>
  BY DEF Permanent!Init
<1>2. Permanent!TypeOK
  BY <1>1, QueueEmpty DEF Permanent!Init, Permanent!TypeOK
<1>3. ClassOfLoop /\ LoopEnds
  BY <1>1, QueueEmpty DEF Permanent!Init, ClassOfLoop, LoopEnds
<1>4. Held /\ DroppedOnlyAfterStop
  BY <1>1, QueueEmpty DEF Permanent!Init, Held, Active, DroppedOnlyAfterStop, Permanent!DroppedOnlyAfterStop
<1>5. Known /\ Sent
  BY <1>1, QueueEmpty DEF Permanent!Init, Known, Sent
<1> QED
  BY <1>2, <1>3, <1>4, <1>5 DEF PermanentInv

(* What a caller does before it sends a request *)
LEMMA PermanentCalls ==
  ASSUME PermanentInv, UNCHANGED class, NEW c \in Callers,
         Permanent!Run(c) \/ Permanent!StopCheck(c) \/ \E k \in Tasks : Permanent!ExecuteTask(c, k)
  PROVE  PermanentInv'
<1> USE DEF PermanentInv, Permanent!Ready
<1>0. /\ UNCHANGED <<class, innerThread, stopped, object, refs, requests, toDo>>
      /\ c \in refs /\ pPc[c] = "idle" /\ object = "alive"
  BY DEF Permanent!Run, Permanent!StopCheck, Permanent!ExecuteTask, Held
<1>1. CASE Permanent!Run(c)
  <2>1. /\ UNCHANGED <<arg, task>>
        /\ \/ thread = "new" /\ pPc' = pPc
              /\ thread' = IF class = Permanent!OC THEN "weak" ELSE "source"
           \/ thread' = thread /\ pPc' = [pPc EXCEPT ![c] = "raised"]
    BY <1>1 DEF Permanent!Run
  <2>2. Permanent!TypeOK'
    BY <1>0, <2>1 DEF Permanent!TypeOK
  <2>3. ClassOfLoop' /\ LoopEnds' /\ DroppedOnlyAfterStop'
    BY <1>0, <2>1 DEF ClassOfLoop, LoopEnds, DroppedOnlyAfterStop, Permanent!DroppedOnlyAfterStop
  <2>4. Held'
    BY <1>0, <2>1 DEF Held, Active, Permanent!TypeOK
  <2>5. Known' /\ Sent'
    BY <1>0, <2>1 DEF Known, Sent, Permanent!TypeOK
  <2> QED
    BY <2>2, <2>3, <2>4, <2>5
<1>2. CASE Permanent!StopCheck(c)
  <2>1. UNCHANGED <<thread, arg, task>> /\ pPc' = [pPc EXCEPT ![c] = "stop"]
    BY <1>2 DEF Permanent!StopCheck
  <2>2. Permanent!TypeOK'
    BY <1>0, <2>1 DEF Permanent!TypeOK
  <2>3. ClassOfLoop' /\ LoopEnds' /\ DroppedOnlyAfterStop'
    BY <1>0, <2>1 DEF ClassOfLoop, LoopEnds, DroppedOnlyAfterStop, Permanent!DroppedOnlyAfterStop
  <2>4. Held'
    BY <1>0, <2>1 DEF Held, Active, Permanent!TypeOK
  <2>5. Known' /\ Sent'
    BY <1>0, <2>1 DEF Known, Sent, Permanent!TypeOK
  <2> QED
    BY <2>2, <2>3, <2>4, <2>5
<1>3. ASSUME NEW k \in Tasks, Permanent!ExecuteTask(c, k) PROVE PermanentInv'
  <2>1. /\ UNCHANGED thread /\ task[k] = "unsent"
        /\ \/ /\ pPc' = [pPc EXCEPT ![c] = "executeTask"] /\ arg' = [arg EXCEPT ![c] = k]
              /\ task' = [task EXCEPT ![k] = "sending"]
           \/ ~innerThread /\ task' = [task EXCEPT ![k] = "dropped"] /\ UNCHANGED <<pPc, arg>>
    BY <1>3 DEF Permanent!ExecuteTask
  <2>2. Permanent!TypeOK'
    BY <1>0, <2>1 DEF Permanent!TypeOK
  <2>3. ClassOfLoop' /\ LoopEnds' /\ DroppedOnlyAfterStop'
    BY <1>0, <2>1 DEF ClassOfLoop, LoopEnds, DroppedOnlyAfterStop, Permanent!DroppedOnlyAfterStop, Permanent!TypeOK
  <2>4. Held'
    BY <1>0, <2>1 DEF Held, Active, Permanent!TypeOK
  <2>5. Known'
    BY <1>0, <2>1 DEF Known, Permanent!TypeOK
  <2>6. Sent'
    <3>1. \A j \in Tasks : j # k => task'[j] = task[j]
      BY <2>1 DEF Permanent!TypeOK
    <3>2. ~HasTask(requests, k) /\ ~HasTask(toDo, k)
      BY <2>1 DEF Sent
    <3>3. \A d \in Callers : pPc[d] = "executeTask" => arg[d] \in Tasks /\ arg[d] # k
      BY <2>1 DEF Sent
    <3>4. CASE pPc' = [pPc EXCEPT ![c] = "executeTask"] /\ arg' = [arg EXCEPT ![c] = k] /\ task'[k] = "sending"
      <4>1. \A d \in Callers : d # c => pPc'[d] = pPc[d] /\ arg'[d] = arg[d]
        BY <3>4 DEF Permanent!TypeOK
      <4>2. arg'[c] = k
        BY <3>4 DEF Permanent!TypeOK
      <4> QED
        BY <1>0, <3>1, <3>2, <3>3, <3>4, <4>1, <4>2 DEF Sent
    <3>5. CASE UNCHANGED <<pPc, arg>>
      BY <1>0, <3>1, <3>2, <3>3, <3>5 DEF Sent
    <3> QED
      BY <2>1, <3>4, <3>5 DEF Permanent!TypeOK
  <2> QED
    BY <2>2, <2>3, <2>4, <2>5, <2>6
<1> QED
  BY <1>1, <1>2, <1>3

(* executeTask sends its task: the caller holds the object. *)
LEMMA PermanentSends ==
  ASSUME PermanentInv, UNCHANGED class, NEW c \in Callers, Permanent!PerformTask(c)
  PROVE  PermanentInv'
<1> USE DEF PermanentInv
<1>0. /\ UNCHANGED <<class, innerThread, stopped, object, refs, thread, toDo, arg>>
      /\ pPc[c] = "executeTask" /\ object = "alive"
      /\ arg[c] \in Tasks /\ task[arg[c]] = "sending"
      /\ \/ pPc' = [pPc EXCEPT ![c] = "idle"]
         \/ pPc' = [pPc EXCEPT ![c] = "raised"]
  BY DEF Permanent!PerformTask, Held, Sent, Permanent!TypeOK
<1>1. requests \in Seq(Permanent!Requests)
  BY DEF Permanent!TypeOK
<1>2. CASE requests' = Append(requests, Permanent!Task(c, arg[c])) /\ task' = [task EXCEPT ![arg[c]] = "queued"]
  <2>1. /\ requests' \in Seq(Permanent!Requests)
        /\ \A d : HasStop(requests', d) <=> HasStop(requests, d)
        /\ \A k : HasTask(requests', k) <=> HasTask(requests, k) \/ k = arg[c]
    <3>1. /\ Permanent!Task(c, arg[c]) \in Permanent!Requests
          /\ Permanent!Task(c, arg[c]).kind = "task" /\ Permanent!Task(c, arg[c]).what = arg[c]
      BY <1>0, TaskRequest
    <3> QED
      BY <1>1, <1>2, <3>1, QueueFacts, QueueAppend
  <2>2. Permanent!TypeOK'
    BY <1>0, <1>2, <2>1 DEF Permanent!TypeOK
  <2>3. ClassOfLoop' /\ LoopEnds' /\ DroppedOnlyAfterStop'
    BY <1>0, <1>2 DEF ClassOfLoop, LoopEnds, DroppedOnlyAfterStop, Permanent!DroppedOnlyAfterStop, Permanent!TypeOK
  <2>4. Held'
    BY <1>0 DEF Held, Active, Permanent!TypeOK
  <2>5. Known' /\ Sent'
    BY <1>0, <1>2, <2>1 DEF Known, Sent, Permanent!TypeOK
  <2> QED
    BY <2>2, <2>3, <2>4, <2>5
<1>3. ASSUME UNCHANGED requests, ~innerThread \/ thread = "exited",
             NEW s \in {"astray", "dropped"}, task' = [task EXCEPT ![arg[c]] = s]
      PROVE  PermanentInv'
  <2>1. Permanent!TypeOK'
    BY <1>0, <1>3 DEF Permanent!TypeOK
  <2>2. ClassOfLoop' /\ LoopEnds' /\ DroppedOnlyAfterStop'
    BY <1>0, <1>3 DEF ClassOfLoop, LoopEnds, DroppedOnlyAfterStop, Permanent!DroppedOnlyAfterStop, Permanent!TypeOK
  <2>3. Held'
    BY <1>0, <1>3 DEF Held, Active, Permanent!TypeOK
  <2>4. Known' /\ Sent'
    BY <1>0, <1>3 DEF Known, Sent, Permanent!TypeOK
  <2> QED
    BY <2>1, <2>2, <2>3, <2>4
<1> QED
  BY <1>2, <1>3 DEF Permanent!PerformTask

(* stop sends its request, or finds that there is nobody to send it to. *)
LEMMA PermanentStops ==
  ASSUME PermanentInv, UNCHANGED class, NEW c \in Callers, Permanent!PerformStop(c)
  PROVE  PermanentInv'
<1> USE DEF PermanentInv
<1>0. /\ UNCHANGED <<class, innerThread, stopped, refs, thread, toDo, arg, task>>
      /\ pPc[c] = "stop" /\ object # "gone"
      /\ requests \in Seq(Permanent!Requests) /\ toDo \in Seq(Permanent!Requests)
  BY DEF Permanent!PerformStop, Held, Active, Permanent!TypeOK
<1>1. Len(requests) \in Nat /\ Len(toDo) \in Nat /\ (object = "dealloc" => Len(requests) = 0 /\ Len(toDo) = 0)
  BY <1>0, QueueFacts DEF Held
<1>2. DroppedOnlyAfterStop'
  BY <1>0 DEF DroppedOnlyAfterStop, Permanent!DroppedOnlyAfterStop
<1>3. CASE Permanent!StopDone(c) /\ UNCHANGED requests
  <2>1. /\ UNCHANGED requests /\ pPc' = [pPc EXCEPT ![c] = "idle"]
        /\ object' = IF object = "dealloc" THEN "gone" ELSE object
    BY <1>3 DEF Permanent!StopDone
  <2>2. Permanent!TypeOK'
    BY <1>0, <2>1 DEF Permanent!TypeOK
  <2>3. ClassOfLoop' /\ LoopEnds'
    BY <1>0, <2>1 DEF ClassOfLoop, LoopEnds
  <2>4. Known' /\ Sent'
    BY <1>0, <2>1 DEF Known, Sent, Permanent!TypeOK
  <2>5. Held'
    BY <1>0, <1>1, <2>1 DEF Held, Active, Permanent!TypeOK
  <2> QED
    BY <1>2, <2>2, <2>3, <2>4, <2>5
<1>4. CASE UNCHANGED <<object, requests>> /\ pPc' = [pPc EXCEPT ![c] = "raised"]
  <2>1. Permanent!TypeOK'
    BY <1>0, <1>4 DEF Permanent!TypeOK
  <2>2. ClassOfLoop' /\ LoopEnds'
    BY <1>0, <1>4 DEF ClassOfLoop, LoopEnds
  <2>3. Known' /\ Sent'
    BY <1>0, <1>4 DEF Known, Sent, Permanent!TypeOK
  <2>4. Held'
    BY <1>0, <1>4 DEF Held, Active, Permanent!TypeOK
  <2> QED
    BY <1>2, <2>1, <2>2, <2>3, <2>4
<1>5. CASE UNCHANGED object /\ pPc' = [pPc EXCEPT ![c] = "waiting"] /\ requests' = Append(requests, Permanent!Stop(c))
  <2>1. /\ requests' \in Seq(Permanent!Requests) /\ Len(requests') = Len(requests) + 1
        /\ requests'[Len(requests) + 1].kind = "stop"
        /\ \A d : HasStop(requests', d) <=> HasStop(requests, d) \/ c = d
        /\ \A k : HasTask(requests', k) <=> HasTask(requests, k)
    <3>1. /\ Permanent!Stop(c) \in Permanent!Requests
          /\ Permanent!Stop(c).kind = "stop" /\ Permanent!Stop(c).by = c
      BY StopRequest
    <3> QED
      BY <1>0, <1>5, <3>1, QueueFacts, QueueAppend
  <2>2. Permanent!TypeOK'
    BY <1>0, <1>5, <2>1 DEF Permanent!TypeOK
  <2>3. ClassOfLoop' /\ LoopEnds'
    BY <1>0, <1>5 DEF ClassOfLoop, LoopEnds
  <2>4. Known' /\ Sent'
    BY <1>0, <1>5, <2>1 DEF Known, Sent, Permanent!TypeOK
  <2>5. Held'
    <3>1. CASE object = "alive"
      BY <1>0, <1>5, <3>1 DEF Held, Active, Permanent!TypeOK
    <3>2. CASE object = "dealloc"
      <4>1. Len(requests') = 1 /\ Len(toDo') = 0 /\ \A i \in 1..Len(requests') : requests'[i].kind = "stop"
        BY <1>0, <1>1, <2>1, <3>2
      <4>2. \A d \in Callers : d # c => ~Active(d) /\ pPc'[d] = pPc[d]
        BY <1>0, <1>5, <3>2 DEF Held, Active, Permanent!TypeOK
      <4> QED
        BY <1>0, <1>5, <3>2, <4>1, <4>2 DEF Held, Active, Permanent!TypeOK
    <3> QED
      BY <1>0, <3>1, <3>2 DEF Permanent!TypeOK
  <2> QED
    BY <1>2, <2>2, <2>3, <2>4, <2>5
<1> QED
  BY <1>3, <1>4, <1>5 DEF Permanent!PerformStop

(* The last reference goes: dealloc calls stop, and nobody else is in a call. *)
LEMMA PermanentReleases ==
  ASSUME PermanentInv, UNCHANGED class, NEW c \in Callers, Permanent!Release(c)
  PROVE  PermanentInv'
<1> USE DEF PermanentInv
<1>0. /\ UNCHANGED <<class, innerThread, stopped, thread, requests, toDo, arg, task>>
      /\ c \in refs /\ pPc[c] = "idle" /\ object = "alive" /\ refs' = refs \ {c}
      /\ \/ /\ refs = {c} /\ requests = << >> /\ toDo = << >>
            /\ \/ object' = "dealloc" /\ pPc' = [pPc EXCEPT ![c] = "stop"]
               \/ object' = "gone" /\ pPc' = pPc
         \/ UNCHANGED <<object, pPc>>
  BY DEF Permanent!Release, Permanent!Ready, Held
<1>1. Permanent!TypeOK'
  BY <1>0 DEF Permanent!TypeOK
<1>2. ClassOfLoop' /\ LoopEnds' /\ DroppedOnlyAfterStop'
  BY <1>0 DEF ClassOfLoop, LoopEnds, DroppedOnlyAfterStop, Permanent!DroppedOnlyAfterStop
<1>3. Known' /\ Sent'
  BY <1>0 DEF Known, Sent, Permanent!TypeOK
<1>4. Held'
  <2>1. CASE object' = "alive"
    BY <1>0, <2>1 DEF Held, Active, Permanent!TypeOK
  <2>2. CASE object' # "alive"
    <3>1. /\ refs = {c} /\ refs' = {} /\ Len(requests') = 0 /\ Len(toDo') = 0
          /\ \A d \in Callers : d # c => ~Active(d)
      BY <1>0, <2>2 DEF Held
    <3> QED
      BY <1>0, <2>2, <3>1 DEF Held, Active, Permanent!TypeOK
  <2> QED
    BY <2>1, <2>2
<1> QED
  BY <1>1, <1>2, <1>3, <1>4

(* The thread ends with what is queued for it, and with the references of that. *)
LEMMA PermanentExits ==
  ASSUME PermanentInv, UNCHANGED <<class, innerThread, stopped, refs, toDo, arg>>, Permanent!Exit,
         thread \in {"source", "weak", "flag"},
         class # Permanent!OC \/ stopped \/ object # "alive"
  PROVE  PermanentInv'
<1> USE DEF PermanentInv
<1>0. /\ thread' = "exited" /\ requests' = << >> /\ Len(requests') = 0
      /\ requests' \in Seq(Permanent!Requests)
      /\ task' = [k \in Tasks |-> IF task[k] = "queued" THEN "dropped" ELSE task[k]]
      /\ pPc' = [c \in Callers |-> IF pPc[c] = "waiting" THEN "idle" ELSE pPc[c]]
      /\ object' = IF refs = {} /\ requests # << >> THEN "gone" ELSE object
  BY QueueEmpty DEF Permanent!Exit
<1>1. Permanent!TypeOK'
  BY <1>0 DEF Permanent!TypeOK
<1>2. ClassOfLoop' /\ LoopEnds'
  BY <1>0 DEF ClassOfLoop, LoopEnds
<1>3. Known' /\ Sent'
  BY <1>0, QueueEmpty DEF Known, Sent, Permanent!TypeOK
<1>4. Held'
  <2>1. Len(requests) \in Nat /\ Len(toDo) = 0 /\ (requests # << >> => Len(requests) # 0)
    BY QueueFacts DEF LoopEnds, Permanent!TypeOK
  <2>2. CASE object' = object
    BY <1>0, <2>1, <2>2 DEF Held, Active, Permanent!TypeOK
  <2>3. CASE refs = {} /\ requests # << >>
    <3>1. \A c \in Callers : pPc[c] \notin {"executeTask", "stop"}
      BY <2>1, <2>3 DEF Held, Active, Permanent!TypeOK
    <3> QED
      BY <1>0, <2>1, <2>3, <3>1 DEF Held, Active, Permanent!TypeOK
  <2> QED
    BY <1>0, <2>2, <2>3
<1>5. DroppedOnlyAfterStop'
  <2>1. CASE object # "alive"
    <3>1. \A k \in Tasks : task[k] # "queued"
      BY <2>1 DEF Held, Known, HasTask
    <3> QED
      BY <1>0, <3>1 DEF DroppedOnlyAfterStop, Permanent!DroppedOnlyAfterStop
  <2>2. CASE class # Permanent!OC \/ stopped
    BY <1>0, <2>2 DEF DroppedOnlyAfterStop, Permanent!DroppedOnlyAfterStop
  <2> QED
    BY <2>1, <2>2
<1> QED
  BY <1>1, <1>2, <1>3, <1>4, <1>5

LEMMA PermanentLoops ==
  ASSUME PermanentInv, UNCHANGED class,
         Permanent!RunInMode \/ Permanent!LoopWeak \/ Permanent!LoopFlag
  PROVE  PermanentInv'
<1> USE DEF PermanentInv
<1>0. UNCHANGED <<class, innerThread, stopped, refs, toDo, arg>> /\ thread \in {"source", "weak", "flag"}
  BY DEF Permanent!RunInMode, Permanent!LoopWeak, Permanent!LoopFlag
<1>1. CASE Permanent!Exit
  <2>1. class # Permanent!OC \/ stopped \/ object # "alive"
    BY <1>1 DEF Permanent!RunInMode, Permanent!LoopWeak, Permanent!LoopFlag, Permanent!Exit, Permanent!GoTo, ClassOfLoop
  <2> QED
    BY <1>0, <1>1, <2>1, PermanentExits
<1>2. CASE ~Permanent!Exit
  <2>1. /\ UNCHANGED <<requests, task, pPc, object>> /\ thread # "exited"
        /\ \/ thread' = "runMode" /\ (class # Permanent!OC \/ ~stopped \/ object # "alive")
           \/ thread' = "flag" /\ class = Permanent!OC
    BY <1>2 DEF Permanent!RunInMode, Permanent!LoopWeak, Permanent!LoopFlag, Permanent!GoTo, ClassOfLoop
  <2>2. Permanent!TypeOK'
    BY <1>0, <2>1 DEF Permanent!TypeOK
  <2>3. ClassOfLoop' /\ LoopEnds' /\ DroppedOnlyAfterStop'
    BY <1>0, <2>1 DEF ClassOfLoop, LoopEnds, DroppedOnlyAfterStop, Permanent!DroppedOnlyAfterStop
  <2>4. Held' /\ Known' /\ Sent'
    BY <1>0, <2>1 DEF Held, Known, Sent, Active
  <2> QED
    BY <2>2, <2>3, <2>4
<1> QED
  BY <1>1, <1>2

(* A pass takes the queue over as it is; a stopped loop finds no task there. *)
LEMMA PermanentFires ==
  ASSUME PermanentInv, UNCHANGED class, Permanent!Fire
  PROVE  PermanentInv' /\ (stopped => \A k \in Tasks : task[k] # "queued")
<1> USE DEF PermanentInv
<1>0. /\ UNCHANGED <<class, innerThread, stopped, object, refs, thread, pPc, arg>>
      /\ thread = "runMode" /\ toDo = << >> /\ toDo' = requests /\ requests' = << >>
      /\ task' = [k \in Tasks |-> IF task[k] = "queued" THEN "taken" ELSE task[k]]
  BY DEF Permanent!Fire
<1>1. Len(requests) \in Nat /\ Len(toDo) = 0 /\ Len(requests') = 0
  BY <1>0, QueueEmpty, QueueFacts DEF Permanent!TypeOK
<1>2. Permanent!TypeOK'
  BY <1>0, QueueEmpty DEF Permanent!TypeOK
<1>3. ClassOfLoop' /\ LoopEnds'
  BY <1>0, <1>1 DEF ClassOfLoop, LoopEnds
<1>4. DroppedOnlyAfterStop'
  BY <1>0 DEF DroppedOnlyAfterStop, Permanent!DroppedOnlyAfterStop
<1>5. Held'
  BY <1>0, <1>1 DEF Held, Active
<1>6. Known' /\ Sent'
  BY <1>0, QueueEmpty DEF Known, Sent, Permanent!TypeOK
<1>7. stopped => \A k \in Tasks : task[k] # "queued"
  BY <1>0, <1>1 DEF LoopEnds, Held, Known, HasTask
<1> QED
  BY <1>2, <1>3, <1>4, <1>5, <1>6, <1>7

(* The oldest request of a pass *)
LEMMA PermanentTakes ==
  ASSUME PermanentInv, toDo # << >>
  PROVE  /\ Len(toDo) \in Nat /\ Len(toDo) # 0 /\ Head(toDo) = toDo[1]
         /\ Head(toDo).by \in Callers
         /\ Head(toDo).kind = "task" => Head(toDo).what \in Tasks /\ HasTask(toDo, Head(toDo).what)
         /\ Tail(toDo) \in Seq(Permanent!Requests)
         /\ Len(Tail(toDo)) = Len(toDo) - 1 /\ (Tail(toDo) = << >> <=> Len(Tail(toDo)) = 0)
         /\ \A i \in 1..Len(Tail(toDo)) : Tail(toDo)[i] = toDo[i + 1]
<1>1. toDo \in Seq(Permanent!Requests)
  BY DEF PermanentInv, Permanent!TypeOK
<1>2. /\ Len(toDo) \in Nat /\ Len(toDo) # 0 /\ Head(toDo) = toDo[1]
      /\ Head(toDo) \in Permanent!Requests
      /\ Tail(toDo) \in Seq(Permanent!Requests)
      /\ Len(Tail(toDo)) = Len(toDo) - 1
      /\ \A i \in 1..Len(Tail(toDo)) : Tail(toDo)[i] = toDo[i + 1]
  BY <1>1, QueueFacts
<1>3. Tail(toDo) = << >> <=> Len(Tail(toDo)) = 0
  BY <1>2, QueueFacts
<1>4. Head(toDo).by \in Callers /\ (Head(toDo).kind = "task" => Head(toDo).what \in Tasks)
  BY <1>2, RequestFields, Zenon
<1>5. Head(toDo).kind = "task" => HasTask(toDo, Head(toDo).what)
  BY <1>1, QueueTail
<1> QED
  BY <1>2, <1>3, <1>4, <1>5

(* What innerStop leaves behind; the getter of the other class leaves nothing. *)
LEMMA PermanentStopLoop ==
  ASSUME PermanentInv, UNCHANGED class, Permanent!StopLoop
  PROVE  /\ innerThread' \in BOOLEAN /\ stopped' \in BOOLEAN
         /\ stopped' => class = Permanent!OC
         /\ ~innerThread' => stopped'
         /\ stopped => stopped'
<1>1. CASE class = Permanent!OC
  BY <1>1 DEF PermanentInv, ClassOfLoop, Permanent!StopLoop, Permanent!TypeOK
<1>2. CASE class # Permanent!OC
  BY <1>2 DEF PermanentInv, ClassOfLoop, Permanent!StopLoop, Permanent!TypeOK
<1> QED
  BY <1>1, <1>2

(* A task runs only on an object that is alive; with it the last reference may go. *)
LEMMA PermanentRuns ==
  ASSUME PermanentInv, UNCHANGED class, Permanent!InnerExecuteTask
  PROVE  PermanentInv' /\ \A k \in Tasks : task[k] = "queued" => task'[k] = "queued"
<1> USE DEF PermanentInv
<1> DEFINE what == Head(toDo).what
<1>0. /\ UNCHANGED <<class, refs, requests, pPc, arg>> /\ toDo # << >> /\ thread = "runMode"
      /\ Head(toDo).kind = "task" /\ toDo' = Tail(toDo)
      /\ task' = [task EXCEPT ![what] = "done"]
      /\ thread' = IF Tail(toDo) = << >> THEN (IF class = Permanent!OC THEN "weak" ELSE "runMode") ELSE thread
      /\ \/ refs = {} /\ requests = << >> /\ Tail(toDo) = << >> /\ Permanent!StopLoop /\ object' = "gone"
         \/ UNCHANGED <<innerThread, stopped, object>>
  BY DEF Permanent!InnerExecuteTask, Permanent!Performed, Permanent!AfterPass
<1>1. what \in Tasks /\ HasTask(toDo, what) /\ task[what] \notin {"unsent", "sending", "queued"}
  BY <1>0, PermanentTakes DEF Sent
<1>2. object = "alive"
  BY <1>0, PermanentTakes DEF Held
<1>3. /\ innerThread' \in BOOLEAN /\ stopped' \in BOOLEAN
      /\ stopped' => class = Permanent!OC
      /\ ~innerThread' => stopped'
      /\ stopped => stopped'
  <2>1. CASE UNCHANGED <<innerThread, stopped, object>>
    BY <1>0, <2>1 DEF ClassOfLoop, Permanent!TypeOK
  <2>2. CASE Permanent!StopLoop
    BY <1>0, <2>2, PermanentStopLoop
  <2> QED
    BY <1>0, <2>1, <2>2
<1>4. Permanent!TypeOK'
  BY <1>0, <1>1, <1>3, PermanentTakes DEF Permanent!TypeOK
<1>5. ClassOfLoop'
  BY <1>0, <1>3 DEF ClassOfLoop
<1>6. LoopEnds'
  BY <1>0, <1>2, <1>3, PermanentTakes DEF LoopEnds
<1>7. Held'
  <2>1. CASE object' = "gone" /\ refs = {} /\ requests = << >> /\ Tail(toDo) = << >>
    <3>1. Len(requests') = 0 /\ Len(toDo') = 0 /\ \A c \in Callers : pPc'[c] \notin {"executeTask", "stop", "waiting"}
      BY <1>0, <1>2, <2>1, QueueEmpty DEF Held, Active
    <3>2. object' = "gone" /\ refs' = {}
      BY <1>0, <2>1
    <3> QED
      BY <3>1, <3>2 DEF Held, Active
  <2>2. CASE object' = object
    BY <1>0, <1>2, <2>2 DEF Held, Active
  <2> QED
    BY <1>0, <2>1, <2>2
<1>8. /\ \A c : HasStop(toDo, c) <=> HasStop(toDo', c)
      /\ \A k : HasTask(toDo', k) => HasTask(toDo, k)
  <2>1. toDo \in Seq(Permanent!Requests)
    BY DEF Permanent!TypeOK
  <2> QED
    BY <1>0, <2>1, QueueTail
<1>9. Known'
  BY <1>0, <1>8 DEF Known, Permanent!TypeOK
<1>10. Sent'
  BY <1>0, <1>1, <1>8 DEF Sent, Permanent!TypeOK
<1>11. DroppedOnlyAfterStop'
  BY <1>0, <1>3 DEF DroppedOnlyAfterStop, Permanent!DroppedOnlyAfterStop, Permanent!TypeOK
<1>12. \A k \in Tasks : task[k] = "queued" => task'[k] = "queued"
  BY <1>0, <1>1 DEF Permanent!TypeOK
<1> QED
  BY <1>4, <1>5, <1>6, <1>7, <1>9, <1>10, <1>11, <1>12

(* innerStop: the request of dealloc is the last one. *)
LEMMA PermanentInnerStop ==
  ASSUME PermanentInv, UNCHANGED class, Permanent!InnerStop
  PROVE  PermanentInv'
<1> USE DEF PermanentInv
<1> DEFINE by == Head(toDo).by
<1>0. /\ UNCHANGED <<class, refs, requests, arg, task>> /\ toDo # << >> /\ thread = "runMode"
      /\ Head(toDo).kind = "stop" /\ toDo' = Tail(toDo) /\ Permanent!StopLoop
      /\ thread' = IF Tail(toDo) = << >> THEN (IF class = Permanent!OC THEN "weak" ELSE "runMode") ELSE thread
      /\ pPc' = [pPc EXCEPT ![by] = "idle"]
      /\ object' = IF object = "dealloc" THEN "gone" ELSE object
  BY DEF Permanent!InnerStop, Permanent!Performed, Permanent!AfterPass, Permanent!StopDone
<1>1. by \in Callers
  BY <1>0, PermanentTakes
<1>2. /\ innerThread' \in BOOLEAN /\ stopped' \in BOOLEAN
      /\ stopped' => class = Permanent!OC
      /\ ~innerThread' => stopped'
      /\ stopped => stopped'
  BY <1>0, PermanentStopLoop
<1>3. Permanent!TypeOK'
  BY <1>0, <1>1, <1>2, PermanentTakes DEF Permanent!TypeOK
<1>4. ClassOfLoop'
  BY <1>0, <1>2 DEF ClassOfLoop
<1>5. LoopEnds'
  BY <1>0, <1>2, PermanentTakes DEF LoopEnds
<1>6. DroppedOnlyAfterStop'
  BY <1>0, <1>2 DEF DroppedOnlyAfterStop, Permanent!DroppedOnlyAfterStop
<1>7. /\ \A c : HasStop(toDo, c) <=> HasStop(toDo', c) \/ by = c
      /\ \A k : HasTask(toDo', k) <=> HasTask(toDo, k)
  <2>1. toDo \in Seq(Permanent!Requests)
    BY DEF Permanent!TypeOK
  <2> QED
    BY <1>0, <2>1, QueueTail
<1>8. Known'
  BY <1>0, <1>1, <1>7 DEF Known, Permanent!TypeOK
<1>9. Sent'
  BY <1>0, <1>1, <1>7 DEF Sent, Permanent!TypeOK
<1>10. Held'
  <2>1. CASE object = "alive"
    BY <1>0, <1>1, <2>1 DEF Held, Active, Permanent!TypeOK
  <2>2. CASE object = "dealloc"
    <3>0. /\ Len(toDo) \in Nat /\ Len(toDo) # 0 /\ Len(toDo') = Len(toDo) - 1
          /\ Len(requests) \in Nat /\ requests \in Seq(Permanent!Requests)
      BY <1>0, PermanentTakes, QueueFacts DEF Permanent!TypeOK
    <3>1. Len(requests) = 0 /\ Len(toDo') = 0 /\ requests = << >> /\ toDo' = << >>
      BY <1>0, <2>2, <3>0, QueueFacts, PermanentTakes DEF Held
    <3>2. \A c \in Callers : Active(c) => c = by
      <4>1. \A c \in Callers : HasStop(requests, c) \/ HasStop(toDo, c) => c = by
        BY <1>7, <3>1, QueueEmpty
      <4> QED
        BY <2>2, <3>0, <4>1 DEF Held, Known, Active
    <3>3. \A c \in Callers : ~(Active(c)')
      BY <1>0, <1>1, <3>2 DEF Active, Permanent!TypeOK
    <3>4. /\ object' = "gone" /\ refs' = {} /\ Len(requests') = 0
          /\ \A c \in Callers : pPc'[c] \notin {"executeTask", "stop", "waiting"}
      BY <1>0, <2>2, <3>1, <3>3 DEF Held, Active
    <3> QED
      BY <3>1, <3>4 DEF Held, Active
  <2>3. object # "gone"
    BY <1>0, PermanentTakes DEF Held
  <2> QED
    BY <2>1, <2>2, <2>3 DEF Permanent!TypeOK
<1> QED
  BY <1>3, <1>4, <1>5, <1>6, <1>8, <1>9, <1>10

LEMMA PermanentStep == PermanentInv /\ Permanent!Next => PermanentInv'
  BY PermanentCalls, PermanentSends, PermanentStops, PermanentReleases, PermanentLoops, PermanentFires,
     PermanentRuns, PermanentInnerStop
  DEF Permanent!Next, Permanent!CallerStep, Permanent!LoopStep

(* Only a pass takes tasks from the queue, and none begins with tasks in it once the
   loop has been stopped. *)
LEMMA TakesOnlyUnstopped ==
  ASSUME PermanentInv, Permanent!Next, stopped, NEW k \in Tasks, task[k] = "queued"
  PROVE  task'[k] \in {"queued", "dropped"}
<1>0. UNCHANGED class
  BY DEF Permanent!Next
<1>1. CASE \E c \in Callers : \E j \in Tasks : Permanent!ExecuteTask(c, j)
  BY <1>1 DEF Permanent!ExecuteTask, PermanentInv, Permanent!TypeOK
<1>2. CASE \E c \in Callers : Permanent!PerformTask(c)
  BY <1>2 DEF Permanent!PerformTask, PermanentInv, Permanent!TypeOK, Sent
<1>3. CASE Permanent!RunInMode \/ Permanent!LoopWeak \/ Permanent!LoopFlag
  BY <1>3 DEF Permanent!RunInMode, Permanent!LoopWeak, Permanent!LoopFlag, Permanent!GoTo, Permanent!Exit
<1>4. CASE \E c \in Callers : Permanent!Run(c) \/ Permanent!StopCheck(c) \/ Permanent!Release(c) \/ Permanent!PerformStop(c)
  BY <1>4 DEF Permanent!Run, Permanent!StopCheck, Permanent!Release, Permanent!PerformStop
<1>5. CASE Permanent!Fire
  BY <1>0, <1>5, PermanentFires
<1>6. CASE Permanent!InnerExecuteTask
  BY <1>0, <1>6, PermanentRuns
<1>7. CASE Permanent!InnerStop
  BY <1>7 DEF Permanent!InnerStop
<1> QED
  BY <1>1, <1>2, <1>3, <1>4, <1>5, <1>6, <1>7 DEF Permanent!Next, Permanent!CallerStep, Permanent!LoopStep
--------------------------------------------------------------------------------
(* One test runs; the state of the others stays as it was. *)
TestsInv == ConditionInv /\ LockInv /\ PermanentInv

LEMMA TestsInvariant == TestsSpec => []TestsInv
<1>1. TestsInit => TestsInv
  BY ConditionStart, LockStart, PermanentStart DEF TestsInit, TestsInv
<1>2. TestsInv /\ [TestsNext]_testVars => TestsInv'
  <2> SUFFICES ASSUME TestsInv, [TestsNext]_testVars PROVE TestsInv'
    OBVIOUS
  <2>1. UNCHANGED conditionVars => ConditionInv'
    BY DEF conditionVars, TestsInv, ConditionInv, ConditionType, Covered, Signalled, Needing, Coming
  <2>2. UNCHANGED lockVars => LockInv'
    BY DEF lockVars, TestsInv, LockInv, LockType, Owned, WorkedLast, ValueSet, Last, InTurn, ConditionLock!InTurn
  <2>3. UNCHANGED permanentVars => PermanentInv'
    BY DEF permanentVars, TestsInv, PermanentInv, Permanent!TypeOK, ClassOfLoop, LoopEnds, Held, Known, Sent, Active,
           DroppedOnlyAfterStop, Permanent!DroppedOnlyAfterStop
  <2> QED
    BY <2>1, <2>2, <2>3, ConditionStep, LockStep, PermanentStep DEF TestsInv, TestsNext, testVars
<1> QED
  BY <1>1, <1>2, PTL DEF TestsSpec

(* SleepersHaveSignal (NSConditionTest, the signal of __add and the wait of __remove):
   for any number of calls of otherTest every remover asleep in wait has an adder that
   has still to signal, although a signal that meets no sleeper is forgotten. *)
THEOREM NoSignalLost == TestsSpec => []SleepersHaveSignal
<1>1. TestsInv => SleepersHaveSignal
  <2>1. \A S : Condition!Cardinality(S) = Cardinality(S)
    BY DEF Condition!Cardinality, Cardinality
  <2> QED
    BY <2>1, Zenon DEF TestsInv, ConditionInv, Signalled, Coming, SleepersHaveSignal, Condition!SleepersHaveSignal
<1> QED
  BY <1>1, TestsInvariant, PTL

(* InTurn (lockWhenCondition: and unlockWithCondition: of NSConditionLock): any number
   of threads that wait for different values work in the order of the values they set. *)
THEOREM WorkInTurn == TestsSpec => []InTurn
<1>1. TestsInv => InTurn
  BY DEF TestsInv, LockInv
<1> QED
  BY <1>1, TestsInvariant, PTL

(* DroppedOnlyAfterStop (executeTask reads innerThread twice): with any number of
   callers and tasks a task is lost, or runs on the thread of its caller, only after a
   stop or because WGPermanentThreadC's run loop had no source. *)
THEOREM LostOnlyToStop == TestsSpec => []DroppedOnlyAfterStop
<1>1. TestsInv => DroppedOnlyAfterStop
  BY DEF TestsInv, PermanentInv
<1> QED
  BY <1>1, TestsInvariant, PTL

(* RequestsHaveObject (dealloc calls stop): nothing is performed on an object that is
   gone, and only the stop of dealloc while it is going. *)
THEOREM ObjectOutlivesRequests == TestsSpec => []RequestsHaveObject
<1>1. TestsInv => RequestsHaveObject
  <2> SUFFICES ASSUME PermanentInv PROVE RequestsHaveObject
    BY DEF TestsInv
  <2>1. \A q \in Seq(Permanent!Requests) : DOMAIN q = 1..Len(q) /\ (q # << >> => Len(q) # 0)
    BY QueueFacts
  <2>2. requests \in Seq(Permanent!Requests) /\ toDo \in Seq(Permanent!Requests)
    BY DEF PermanentInv, Permanent!TypeOK
  <2> QED
    BY <2>1, <2>2 DEF RequestsHaveObject, Permanent!RequestsHaveObject, PermanentInv, Held
<1> QED
  BY <1>1, TestsInvariant, PTL

(* NoTaskTakenAfterStop (innerStop, the loop that reads weakSelf twice, and -fire, which
   takes all requests at once): once innerStop has run no step takes a queued task to run
   it, even if the loop goes on because the object is gone. *)
THEOREM StoppedTakesNothing == TestsSpec => NoTaskTakenAfterStop
<1> DEFINE Untaken == stopped => \A k \in Tasks : task[k] = "queued" => task'[k] \in {"queued", "dropped"}
<1>1. TestsInv /\ [TestsNext]_testVars => [Untaken]_permanentVars
  <2> SUFFICES ASSUME TestsInv, [TestsNext]_testVars, stopped, NEW k \in Tasks, task[k] = "queued"
               PROVE  task'[k] \in {"queued", "dropped"} \/ UNCHANGED permanentVars
    OBVIOUS
  <2>1. CASE Permanent!Next
    BY <2>1, TakesOnlyUnstopped DEF TestsInv
  <2>2. CASE UNCHANGED permanentVars
    BY <2>2
  <2> QED
    BY <2>1, <2>2 DEF TestsNext, testVars
<1>2. [Untaken]_permanentVars => [Untaken]_Permanent!vars
  BY DEF permanentVars, Permanent!vars
<1> QED
  BY <1>1, <1>2, TestsInvariant, PTL DEF TestsSpec, NoTaskTakenAfterStop, Permanent!NoTaskTakenAfterStop
================================================================================
