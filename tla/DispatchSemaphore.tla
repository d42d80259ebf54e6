--------------------------- MODULE DispatchSemaphore ---------------------------
(***************************************************************************)
(* dispatch_semaphore_t of libdispatch (src/semaphore.c), with the lazily   *)
(* created kernel semaphore of src/shims/lock.c.  dsema_value counts the    *)
(* permits, or, below zero, the threads that need a wake-up; the kernel     *)
(* semaphore carries the wake-ups.  A wait that times out takes its         *)
(* decrement back, unless a signal has already counted it: then it must     *)
(* drain the wake-up that is on its way.                                    *)
(*                                                                         *)
(* Every atomic operation and every kernel call is a step.  The threads are *)
(* the clients of this repository: a user waits, works and signals          *)
(* (DispatchSemaphoreTest, WGGCDTimer), a poster only signals and a taker   *)
(* only waits (the observers and the monitor thread of WGMonitorManageDM).  *)
(***************************************************************************)
EXTENDS Integers, FiniteSets

CONSTANTS Threads,
          Orig,       \* argument of dispatch_semaphore_create
          Roles,      \* the roles the threads may have
          Calls,      \* bound: calls a user, a poster and a taker makes
          NoPort      \* MACH_PORT_NULL

ASSUME SemaphoreAssumption ==
  /\ IsFiniteSet(Threads) /\ Orig \in Nat
  /\ Calls \in [{"user", "poster", "taker"} -> Nat]
  /\ Roles \subseteq [Threads -> {"user", "poster", "taker"}]
  /\ NoPort \notin Threads

VARIABLES role, left,      \* the client: its role and the calls it still makes
          dsema_value,
          dsema_sema,      \* the kernel semaphore in use: who created it
          units,           \* wake-ups in each kernel semaphore
          pc, timeout,     \* where each thread is, and the argument of its wait
          orig,            \* local variable of _dispatch_semaphore_wait_slow
          ret,             \* what the last wait returned
          object           \* "alive", "disposed" or "crashed"

client == <<role, left>>
kernel == <<dsema_sema, units>>
vars == <<client, dsema_value, kernel, pc, timeout, orig, ret, object>>

Timeouts == {"now", "later", "forever"}

Init ==
  /\ role \in Roles
  /\ left = [t \in Threads |-> Calls[role[t]]]
  /\ dsema_value = Orig
  /\ dsema_sema = NoPort
  /\ units = [t \in Threads |-> 0]
  /\ pc = [t \in Threads |-> "idle"]
  /\ timeout = [t \in Threads |-> "forever"]
  /\ orig = [t \in Threads |-> 0]
  /\ ret = [t \in Threads |-> "none"]
  /\ object = "alive"

Goto(t, where) == pc' = [pc EXCEPT ![t] = where]
--------------------------------------------------------------------------------
(* Mutant: the slow path is taken only when the value was below -1. *)
SignalTooFew(t) ==
  /\ object = "alive"
  /\ \/ role[t] = "user" /\ pc[t] = "inside" /\ UNCHANGED left
     \/ role[t] = "poster" /\ pc[t] = "idle" /\ left[t] > 0 /\ left' = [left EXCEPT ![t] = @ - 1]
  /\ dsema_value' = dsema_value + 1
  /\ Goto(t, IF dsema_value' >= 0 THEN "idle" ELSE "signal_slow")
  /\ UNCHANGED <<role, kernel, timeout, orig, ret, object>>

(* dispatch_semaphore_signal, the increment: nobody waits unless the new value is
   at most zero. *)
Signal(t) ==
  /\ object = "alive"
  /\ \/ role[t] = "user" /\ pc[t] = "inside" /\ UNCHANGED left
     \/ role[t] = "poster" /\ pc[t] = "idle" /\ left[t] > 0 /\ left' = [left EXCEPT ![t] = @ - 1]
  /\ dsema_value' = dsema_value + 1
  /\ Goto(t, IF dsema_value' > 0 THEN "idle" ELSE "signal_slow")
  /\ UNCHANGED <<role, kernel, timeout, orig, ret, object>>

(* A wait returns; its argument and its local are gone. *)
Return(t, result) ==
  /\ ret' = [ret EXCEPT ![t] = result]
  /\ timeout' = [timeout EXCEPT ![t] = "forever"]
  /\ orig' = [orig EXCEPT ![t] = 0]
  /\ Goto(t, IF role[t] = "user" /\ result = "success" THEN "inside" ELSE "idle")

(* dispatch_semaphore_wait, the decrement *)
Wait(t, when) ==
  /\ object = "alive"
  /\ role[t] # "poster" /\ pc[t] = "idle" /\ left[t] > 0
  /\ left' = [left EXCEPT ![t] = @ - 1]
  /\ dsema_value' = dsema_value - 1
  /\ IF dsema_value' >= 0
     THEN Return(t, "success")
     ELSE Goto(t, "wait_slow") /\ timeout' = [timeout EXCEPT ![t] = when] /\ UNCHANGED <<orig, ret>>
  /\ UNCHANGED <<role, kernel, object>>
--------------------------------------------------------------------------------
(* After _dispatch_sema4_create: a signal is sent; a wait switches on its timeout. *)
Created(t) ==
  IF pc[t] \in {"signal_slow", "signal_create"} THEN "sema4_signal"
  ELSE IF timeout[t] = "now" THEN "undo"
  ELSE IF timeout[t] = "later" THEN "timedwait" ELSE "sema4_wait"

(* _dispatch_sema4_create: nothing to do if there is a kernel semaphore; otherwise
   this thread makes one of its own first. *)
Create(t) ==
  /\ pc[t] \in {"signal_slow", "wait_slow"}
  /\ Goto(t, IF dsema_sema # NoPort THEN Created(t)
             ELSE IF pc[t] = "signal_slow" THEN "signal_create" ELSE "wait_create")
  /\ UNCHANGED <<client, dsema_value, kernel, timeout, orig, ret, object>>

(* Mutant: the new semaphore is stored without looking whether there is one. *)
InstallOver(t) ==
  /\ pc[t] \in {"signal_create", "wait_create"}
  /\ dsema_sema' = t
  /\ Goto(t, Created(t))
  /\ UNCHANGED <<client, dsema_value, units, timeout, orig, ret, object>>

(* _dispatch_sema4_create_slow, the compare-and-exchange: the first one stays, any
   other is destroyed again. *)
Install(t) ==
  /\ pc[t] \in {"signal_create", "wait_create"}
  /\ dsema_sema' = IF dsema_sema = NoPort THEN t ELSE dsema_sema
  /\ Goto(t, Created(t))
  /\ UNCHANGED <<client, dsema_value, units, timeout, orig, ret, object>>

(* _dispatch_sema4_signal *)
Sema4Signal(t) ==
  /\ pc[t] = "sema4_signal"
  /\ units' = [units EXCEPT ![dsema_sema] = @ + 1]
  /\ Goto(t, "idle")
  /\ UNCHANGED <<client, dsema_value, dsema_sema, timeout, orig, ret, object>>

(* A wake-up is received, in _dispatch_sema4_wait or _dispatch_sema4_timedwait. *)
Woken(t) ==
  /\ pc[t] \in {"sema4_wait", "timedwait"}
  /\ units[dsema_sema] > 0
  /\ units' = [units EXCEPT ![dsema_sema] = @ - 1]
  /\ Return(t, "success")
  /\ UNCHANGED <<client, dsema_value, dsema_sema, object>>

(* _dispatch_sema4_timedwait gives up: also when there is a wake-up that the
   kernel has meant for somebody else. *)
TimedOut(t) ==
  /\ pc[t] = "timedwait"
  /\ Goto(t, "undo")
  /\ UNCHANGED <<client, dsema_value, kernel, timeout, orig, ret, object>>

(* orig = dsema->dsema_value *)
Load(t) ==
  /\ pc[t] = "undo"
  /\ orig' = [orig EXCEPT ![t] = dsema_value]
  /\ Goto(t, "cmpxchg")
  /\ UNCHANGED <<client, dsema_value, kernel, timeout, ret, object>>

(* Mutant: the decrement is taken back even if a signal has counted this thread. *)
UndoAlways(t) ==
  /\ pc[t] = "cmpxchg"
  /\ dsema_value' = dsema_value + 1 /\ Return(t, "timeout")
  /\ UNCHANGED <<client, kernel, object>>

(* while (orig < 0) take the decrement back, if the value is still orig; once it
   is not negative, a signal is on its way and must be waited for. *)
Undo(t) ==
  /\ pc[t] = "cmpxchg"
  /\ \/ /\ orig[t] < 0 /\ dsema_value = orig[t]
        /\ dsema_value' = orig[t] + 1
        /\ Return(t, "timeout")
     \/ /\ orig[t] < 0 /\ dsema_value # orig[t]
        /\ orig' = [orig EXCEPT ![t] = dsema_value]
        /\ UNCHANGED <<dsema_value, ret, pc, timeout>>
     \/ /\ orig[t] >= 0
        /\ Goto(t, "sema4_wait")
        /\ UNCHANGED <<dsema_value, orig, ret, timeout>>
  /\ UNCHANGED <<client, kernel, object>>
--------------------------------------------------------------------------------
Finished(t) == pc[t] = "idle" /\ left[t] = 0

(* _dispatch_semaphore_dispose, when the last reference goes: nobody is in a call. *)
Dispose ==
  /\ object = "alive" /\ \A t \in Threads : Finished(t)
  /\ object' = IF dsema_value < Orig THEN "crashed" ELSE "disposed"
  /\ UNCHANGED <<client, dsema_value, kernel, pc, timeout, orig, ret>>

Step(t) ==
  \/ Create(t) \/ Install(t) \/ Sema4Signal(t) \/ Woken(t) \/ Load(t) \/ Undo(t)
  \/ role[t] = "user" /\ Signal(t)

Call(t) == Signal(t) \/ \E when \in Timeouts : Wait(t, when)

Next == Dispose \/ \E t \in Threads : Call(t) \/ Step(t) \/ TimedOut(t)

Spec == Init /\ [][Next]_vars

(* Threads run, the calls of a test are made, and a timed wait ends. *)
Fairness == \A t \in Threads : WF_vars(Step(t)) /\ WF_vars(Call(t)) /\ WF_vars(TimedOut(t))
FairSpec == Spec /\ Fairness
--------------------------------------------------------------------------------
WaitPlaces == {"wait_slow", "wait_create", "timedwait", "undo", "cmpxchg", "sema4_wait"}
PostPlaces == {"signal_slow", "signal_create", "sema4_signal"}
Waiting(t) == pc[t] \in WaitPlaces
Waiters == {t \in Threads : Waiting(t)}
Posters == {t \in Threads : pc[t] \in PostPlaces}

(* Wake-ups not received yet: in the kernel semaphore or about to be sent. *)
Wakeups == (IF dsema_sema = NoPort THEN 0 ELSE units[dsema_sema]) + Cardinality(Posters)

(* Type invariant: where every thread can be. *)
TypeOK ==
  /\ role \in Roles /\ left \in [Threads -> Nat]
  /\ dsema_value \in Int /\ dsema_sema \in Threads \cup {NoPort}
  /\ units \in [Threads -> Nat]
  /\ pc \in [Threads -> {"idle", "inside"} \cup WaitPlaces \cup PostPlaces]
  /\ timeout \in [Threads -> Timeouts]
  /\ orig \in [Threads -> Int]
  /\ ret \in [Threads -> {"none", "success", "timeout"}]
  /\ object \in {"alive", "disposed", "crashed"}

(* No wake-up is lost and none is left over: the waiting threads are those for
   whom a wake-up is on its way and those the negative value counts, also while
   waits time out and take their decrement back (semaphore.c:96-136). *)
WakeupsMatchWaiters ==
  Cardinality(Waiters) = Wakeups + (IF dsema_value < 0 THEN -dsema_value ELSE 0)

(* Whoever uses the kernel semaphore finds it made, the others hold nothing, and only
   a wait with a timeout can give up. *)
PortMade ==
  /\ \A t \in Threads :
       pc[t] \in {"sema4_signal", "sema4_wait", "timedwait", "undo", "cmpxchg"} => dsema_sema # NoPort
  /\ \A t \in Threads : t # dsema_sema => units[t] = 0
  /\ \A t \in Threads : pc[t] \in {"timedwait", "undo", "cmpxchg"} => timeout[t] # "forever"

IInv == TypeOK /\ PortMade /\ WakeupsMatchWaiters

(* The refinement mapping: a wait holds no permit before it returns. *)
Permits == dsema_value + Cardinality(Waiters)
Asked == [t \in Threads |-> IF Waiting(t) THEN timeout[t] ELSE "none"]

(* The semaphore implements counting: a timed-out wait takes no permit, and nobody
   passes without one. *)
Counting == INSTANCE CountingSemaphore WITH permits <- Permits, asked <- Asked, result <- ret
ImplementsCounting == Counting!CountingSpec

(* Users that give back what they took never meet the crash of
   _dispatch_semaphore_dispose (semaphore.c:57), however their waits ended. *)
BalancedDispose ==
  object = "crashed" => \E t \in Threads : role[t] = "taker"

(* DispatchSemaphoreTest: every user gets in and finishes. *)
UsersFinished == (\A t \in Threads : role[t] = "user") => \A t \in Threads : Finished(t)
================================================================================
