----------------------------- MODULE DispatchProofs ----------------------------
(***************************************************************************)
(* The objects of libdispatch for any threads and any calls: the unfair     *)
(* lock, dispatch_once (the argument of the comment in lock.h for the fast  *)
(* path without a barrier), the group, and the semaphore from its creation  *)
(* to its end, with any initial value: no wake-up is lost or left over, and *)
(* it implements counting.                                                  *)
(***************************************************************************)
EXTENDS Dispatch, FiniteSetTheorems, SequenceTheorems, TLAPS

--------------------------------------------------------------------------------
(***************************************************************************)
(* The semaphore                                                            *)
(***************************************************************************)
(* How many threads wait or post when one thread goes to another place. *)
LEMMA Counts ==
  /\ Cardinality(Waiters) \in Nat /\ IsFiniteSet(Waiters)
  /\ Cardinality(Posters) \in Nat /\ IsFiniteSet(Posters)
<1>1. IsFiniteSet(Threads)
  BY SemaphoreAssumption
<1>2. Waiters \subseteq Threads /\ Posters \subseteq Threads
  BY DEF Waiters, Posters
<1>3. IsFiniteSet(Waiters) /\ IsFiniteSet(Posters)
  BY <1>1, <1>2, FS_Subset
<1> QED BY <1>3, FS_CardinalityType

LEMMA Moved ==
  ASSUME TypeOK, NEW t \in Threads, NEW w, Goto(t, w)
  PROVE  /\ Cardinality(Waiters') = Cardinality(Waiters) - (IF pc[t] \in WaitPlaces THEN 1 ELSE 0)
                                                         + (IF w \in WaitPlaces THEN 1 ELSE 0)
         /\ Cardinality(Posters') = Cardinality(Posters) - (IF pc[t] \in PostPlaces THEN 1 ELSE 0)
                                                         + (IF w \in PostPlaces THEN 1 ELSE 0)
<1>1. Waiters \ {t} = Waiters' \ {t} /\ Posters \ {t} = Posters' \ {t}
  BY DEF TypeOK, Goto, Waiters, Posters, Waiting
<1>2. /\ t \in Waiters <=> pc[t] \in WaitPlaces
      /\ t \in Waiters' <=> w \in WaitPlaces
      /\ t \in Posters <=> pc[t] \in PostPlaces
      /\ t \in Posters' <=> w \in PostPlaces
  BY DEF TypeOK, Goto, Waiters, Posters, Waiting
<1>3. /\ Cardinality(Waiters') \in Nat /\ IsFiniteSet(Waiters')
      /\ Cardinality(Posters') \in Nat /\ IsFiniteSet(Posters')
  <2>1. IsFiniteSet(Threads)
    BY SemaphoreAssumption
  <2>2. Waiters' \subseteq Threads /\ Posters' \subseteq Threads
    BY DEF Waiters, Posters
  <2>3. IsFiniteSet(Waiters') /\ IsFiniteSet(Posters')
    BY <2>1, <2>2, FS_Subset
  <2> QED BY <2>3, FS_CardinalityType
<1>4. Cardinality(Waiters \ {t}) = IF t \in Waiters THEN Cardinality(Waiters) - 1 ELSE Cardinality(Waiters)
  BY Counts, FS_RemoveElement
<1>5. Cardinality(Posters \ {t}) = IF t \in Posters THEN Cardinality(Posters) - 1 ELSE Cardinality(Posters)
  BY Counts, FS_RemoveElement
<1>6. Cardinality(Waiters' \ {t}) = IF t \in Waiters' THEN Cardinality(Waiters') - 1 ELSE Cardinality(Waiters')
  BY <1>3, FS_RemoveElement
<1>7. Cardinality(Posters' \ {t}) = IF t \in Posters' THEN Cardinality(Posters') - 1 ELSE Cardinality(Posters')
  BY <1>3, FS_RemoveElement
<1>8. Cardinality(Waiters') = Cardinality(Waiters) - (IF pc[t] \in WaitPlaces THEN 1 ELSE 0)
                                                   + (IF w \in WaitPlaces THEN 1 ELSE 0)
  <2>1. Cardinality(Waiters \ {t}) = Cardinality(Waiters' \ {t})
    BY <1>1
  <2>2. Cardinality(Waiters) \in Nat /\ Cardinality(Waiters') \in Nat
    BY <1>3, Counts
  <2> QED BY <1>2, <1>4, <1>6, <2>1, <2>2
<1>9. Cardinality(Posters') = Cardinality(Posters) - (IF pc[t] \in PostPlaces THEN 1 ELSE 0)
                                                   + (IF w \in PostPlaces THEN 1 ELSE 0)
  BY <1>1, <1>2, <1>3, <1>5, <1>7, Counts
<1> QED BY <1>8, <1>9

(* Nobody moves. *)
LEMMA Stayed ==
  ASSUME UNCHANGED pc
  PROVE  Waiters' = Waiters /\ Posters' = Posters
  BY DEF Waiters, Posters, Waiting
--------------------------------------------------------------------------------
LEMMA Initially == Init => IInv
<1> SUFFICES ASSUME Init PROVE IInv
  OBVIOUS
<1>1. TypeOK
  BY SemaphoreAssumption DEF Init, TypeOK, Timeouts, WaitPlaces, PostPlaces
<1>2. PortMade
  BY DEF Init, PortMade
<1>3. Waiters = {} /\ Posters = {}
  BY DEF Init, Waiters, Posters, Waiting, WaitPlaces, PostPlaces
<1>4. dsema_sema = NoPort /\ dsema_value = Orig /\ Orig \in Nat
  BY SemaphoreAssumption DEF Init
<1>5. WakeupsMatchWaiters
  BY <1>3, <1>4, FS_EmptySet DEF WakeupsMatchWaiters, Wakeups
<1> QED BY <1>1, <1>2, <1>5 DEF IInv

(* A wait returns: a type-correct place, result and argument. *)
LEMMA Returns ==
  ASSUME TypeOK, NEW t \in Threads, NEW result \in {"success", "timeout"}, Return(t, result)
  PROVE  /\ \E w \in {"idle", "inside"} : Goto(t, w)
         /\ pc'[t] \in {"idle", "inside"}
         /\ pc' \in [Threads -> {"idle", "inside"} \cup WaitPlaces \cup PostPlaces]
         /\ ret' \in [Threads -> {"none", "success", "timeout"}]
         /\ timeout' = [timeout EXCEPT ![t] = "forever"] /\ timeout' \in [Threads -> Timeouts]
         /\ orig' \in [Threads -> Int]
<1>1. PICK w \in {"idle", "inside"} : Goto(t, w)
  BY DEF Return
<1>2. pc'[t] \in {"idle", "inside"} /\ pc' \in [Threads -> {"idle", "inside"} \cup WaitPlaces \cup PostPlaces]
  BY <1>1 DEF TypeOK, Goto
<1>3. /\ ret' \in [Threads -> {"none", "success", "timeout"}]
      /\ timeout' = [timeout EXCEPT ![t] = "forever"] /\ timeout' \in [Threads -> Timeouts]
      /\ orig' \in [Threads -> Int]
  BY DEF TypeOK, Return, Timeouts
<1> QED BY <1>1, <1>2, <1>3

LEMMA TypeStep ==
  ASSUME TypeOK, PortMade, [Next]_vars
  PROVE  TypeOK'
<1>1. CASE UNCHANGED vars
  BY <1>1 DEF TypeOK, vars, client, kernel
<1>2. CASE Dispose
  BY <1>2 DEF TypeOK, Dispose, client, kernel
<1>3. ASSUME NEW t \in Threads, Signal(t) PROVE TypeOK'
  BY <1>3 DEF TypeOK, Signal, Goto, kernel, WaitPlaces, PostPlaces
<1>4. ASSUME NEW t \in Threads, NEW when \in Timeouts, Wait(t, when) PROVE TypeOK'
  <2>1. CASE dsema_value' >= 0
    <3>1. Return(t, "success")
      BY <1>4, <2>1 DEF Wait
    <3> QED BY <1>4, <3>1, Returns DEF TypeOK, Wait, kernel
  <2>2. CASE ~(dsema_value' >= 0)
    BY <1>4, <2>2 DEF TypeOK, Wait, Goto, kernel, WaitPlaces, PostPlaces
  <2> QED BY <2>1, <2>2
<1>5. ASSUME NEW t \in Threads, Create(t) PROVE TypeOK'
  BY <1>5 DEF TypeOK, Create, Created, Goto, client, kernel, WaitPlaces, PostPlaces, Timeouts
<1>6. ASSUME NEW t \in Threads, Install(t) PROVE TypeOK'
  BY <1>6 DEF TypeOK, Install, Created, Goto, client, WaitPlaces, PostPlaces, Timeouts
<1>7. ASSUME NEW t \in Threads, Sema4Signal(t) PROVE TypeOK'
  BY <1>7 DEF TypeOK, Sema4Signal, PortMade, Goto, client
<1>8. ASSUME NEW t \in Threads, Woken(t) PROVE TypeOK'
  <2>1. Return(t, "success") /\ dsema_sema \in Threads
    BY <1>8 DEF Woken, PortMade, TypeOK
  <2>2. units' \in [Threads -> Nat]
    BY <1>8, <2>1 DEF TypeOK, Woken
  <2> QED BY <1>8, <2>1, <2>2, Returns DEF TypeOK, Woken, client
<1>9. ASSUME NEW t \in Threads, TimedOut(t) PROVE TypeOK'
  BY <1>9 DEF TypeOK, TimedOut, Goto, client, kernel, WaitPlaces
<1>10. ASSUME NEW t \in Threads, Load(t) PROVE TypeOK'
  BY <1>10 DEF TypeOK, Load, Goto, client, kernel, WaitPlaces
<1>11. ASSUME NEW t \in Threads, Undo(t) PROVE TypeOK'
  <2>1. CASE Return(t, "timeout") /\ dsema_value' = orig[t] + 1
    BY <1>11, <2>1, Returns DEF TypeOK, Undo, client, kernel
  <2>2. CASE orig' = [orig EXCEPT ![t] = dsema_value] /\ UNCHANGED <<dsema_value, ret, pc, timeout>>
    BY <1>11, <2>2 DEF TypeOK, Undo, client, kernel
  <2>3. CASE Goto(t, "sema4_wait") /\ UNCHANGED <<dsema_value, orig, ret, timeout>>
    BY <1>11, <2>3 DEF TypeOK, Undo, Goto, client, kernel, WaitPlaces
  <2> QED BY <1>11, <2>1, <2>2, <2>3 DEF Undo
<1> QED BY <1>1, <1>2, <1>3, <1>4, <1>5, <1>6, <1>7, <1>8, <1>9, <1>10, <1>11 DEF Next, Call, Step

LEMMA PortStep ==
  ASSUME TypeOK, PortMade, [Next]_vars
  PROVE  PortMade'
<1> USE DEF PortMade
<1>1. CASE UNCHANGED vars
  BY <1>1 DEF vars, kernel
<1>2. CASE Dispose
  BY <1>2 DEF Dispose, kernel
<1>3. ASSUME NEW t \in Threads, Signal(t) PROVE PortMade'
  BY <1>3 DEF TypeOK, Signal, Goto, kernel
<1>4. ASSUME NEW t \in Threads, NEW when \in Timeouts, Wait(t, when) PROVE PortMade'
  <2>1. CASE dsema_value' >= 0
    <3>1. PICK w \in {"idle", "inside"} : Goto(t, w)
      BY <1>4, <2>1, Returns DEF Wait
    <3>2. timeout' = [timeout EXCEPT ![t] = "forever"]
      BY <1>4, <2>1, Returns DEF Wait
    <3> QED BY <1>4, <3>1, <3>2 DEF TypeOK, Wait, Goto, kernel
  <2>2. CASE ~(dsema_value' >= 0)
    BY <1>4, <2>2 DEF TypeOK, Wait, Goto, kernel
  <2> QED BY <2>1, <2>2
<1>5. ASSUME NEW t \in Threads, Create(t) PROVE PortMade'
  BY <1>5 DEF TypeOK, Create, Created, Goto, kernel
<1>6. ASSUME NEW t \in Threads, Install(t) PROVE PortMade'
  BY <1>6, SemaphoreAssumption DEF TypeOK, Install, Created, Goto
<1>7. ASSUME NEW t \in Threads, Sema4Signal(t) PROVE PortMade'
  BY <1>7 DEF TypeOK, Sema4Signal, Goto
<1>8. ASSUME NEW t \in Threads, Woken(t) PROVE PortMade'
  <2>1. PICK w \in {"idle", "inside"} : Goto(t, w)
    BY <1>8, Returns DEF Woken
  <2>2. timeout' = [timeout EXCEPT ![t] = "forever"]
    BY <1>8, Returns DEF Woken
  <2> QED BY <1>8, <2>1, <2>2 DEF TypeOK, Woken, Goto
<1>9. ASSUME NEW t \in Threads, TimedOut(t) PROVE PortMade'
  BY <1>9 DEF TypeOK, TimedOut, Goto, kernel
<1>10. ASSUME NEW t \in Threads, Load(t) PROVE PortMade'
  BY <1>10 DEF TypeOK, Load, Goto, kernel
<1>11. ASSUME NEW t \in Threads, Undo(t) PROVE PortMade'
  <2>1. CASE Return(t, "timeout")
    <3>1. PICK w \in {"idle", "inside"} : Goto(t, w)
      BY <2>1, Returns
    <3>2. timeout' = [timeout EXCEPT ![t] = "forever"]
      BY <2>1, Returns
    <3> QED BY <1>11, <3>1, <3>2 DEF TypeOK, Undo, Goto, kernel
  <2>2. CASE UNCHANGED <<pc, timeout>>
    BY <1>11, <2>2 DEF Undo, kernel
  <2>3. CASE Goto(t, "sema4_wait") /\ UNCHANGED timeout
    BY <1>11, <2>3 DEF TypeOK, Undo, Goto, kernel
  <2> QED BY <1>11, <2>1, <2>2, <2>3 DEF Undo
<1> QED BY <1>1, <1>2, <1>3, <1>4, <1>5, <1>6, <1>7, <1>8, <1>9, <1>10, <1>11 DEF Next, Call, Step

(* What each step does to the permits: the value plus the waiting threads.  The
   wake-ups keep up with the waiters. *)
LEMMA WakeupsStep ==
  ASSUME IInv, [Next]_vars
  PROVE  WakeupsMatchWaiters'
<1> USE DEF WakeupsMatchWaiters, Wakeups
<1> DEFINE nw == Cardinality(Waiters)
           np == Cardinality(Posters)
<1>0. /\ TypeOK /\ PortMade /\ WakeupsMatchWaiters
      /\ dsema_value \in Int /\ nw \in Nat /\ np \in Nat
      /\ dsema_sema # NoPort => dsema_sema \in Threads /\ units[dsema_sema] \in Nat
  BY Counts DEF IInv, TypeOK
<1>1. CASE UNCHANGED vars
  BY <1>0, <1>1, Stayed DEF vars, kernel
<1>2. CASE Dispose
  BY <1>0, <1>2, Stayed DEF Dispose, kernel
<1>3. ASSUME NEW t \in Threads, Signal(t) PROVE WakeupsMatchWaiters'
  <2>1. pc[t] \in {"inside", "idle"} /\ dsema_value' = dsema_value + 1 /\ UNCHANGED kernel
    BY <1>3 DEF Signal
  <2>2. pc[t] \notin WaitPlaces /\ pc[t] \notin PostPlaces
    BY <2>1 DEF WaitPlaces, PostPlaces
  <2>3. CASE dsema_value' > 0
    <3>1. Goto(t, "idle") /\ "idle" \notin WaitPlaces /\ "idle" \notin PostPlaces
      BY <1>3, <2>3 DEF Signal, WaitPlaces, PostPlaces
    <3>2. Cardinality(Waiters') = nw /\ Cardinality(Posters') = np
      BY <1>0, <2>2, <3>1, Moved
    <3> QED BY <1>0, <2>1, <2>3, <3>2 DEF kernel
  <2>4. CASE ~(dsema_value' > 0)
    <3>1. Goto(t, "signal_slow") /\ "signal_slow" \notin WaitPlaces /\ "signal_slow" \in PostPlaces
      BY <1>3, <2>4 DEF Signal, WaitPlaces, PostPlaces
    <3>2. Cardinality(Waiters') = nw /\ Cardinality(Posters') = np + 1
      BY <1>0, <2>2, <3>1, Moved
    <3> QED BY <1>0, <2>1, <2>4, <3>2 DEF kernel
  <2> QED BY <2>3, <2>4
<1>4. ASSUME NEW t \in Threads, NEW when \in Timeouts, Wait(t, when) PROVE WakeupsMatchWaiters'
  <2>1. pc[t] = "idle" /\ dsema_value' = dsema_value - 1 /\ UNCHANGED kernel
    BY <1>4 DEF Wait
  <2>2. pc[t] \notin WaitPlaces /\ pc[t] \notin PostPlaces
    BY <2>1 DEF WaitPlaces, PostPlaces
  <2>3. CASE dsema_value' >= 0
    <3>1. PICK w \in {"idle", "inside"} : Goto(t, w)
      BY <1>0, <1>4, <2>3, Returns DEF Wait
    <3>2. w \notin WaitPlaces /\ w \notin PostPlaces
      BY DEF WaitPlaces, PostPlaces
    <3>3. Cardinality(Waiters') = nw /\ Cardinality(Posters') = np
      BY <1>0, <2>2, <3>1, <3>2, Moved
    <3> QED BY <1>0, <2>1, <2>3, <3>3 DEF kernel
  <2>4. CASE ~(dsema_value' >= 0)
    <3>1. Goto(t, "wait_slow") /\ "wait_slow" \in WaitPlaces /\ "wait_slow" \notin PostPlaces
      BY <1>4, <2>4 DEF Wait, WaitPlaces, PostPlaces
    <3>2. Cardinality(Waiters') = nw + 1 /\ Cardinality(Posters') = np
      BY <1>0, <2>2, <3>1, Moved
    <3> QED BY <1>0, <2>1, <2>4, <3>2 DEF kernel
  <2> QED BY <2>3, <2>4
<1>5. ASSUME NEW t \in Threads, Create(t) PROVE WakeupsMatchWaiters'
  <2>1. PICK w : Goto(t, w) /\ (w \in WaitPlaces <=> pc[t] \in WaitPlaces)
                           /\ (w \in PostPlaces <=> pc[t] \in PostPlaces)
    BY <1>5 DEF Create, Created, WaitPlaces, PostPlaces
  <2>2. Cardinality(Waiters') = nw /\ Cardinality(Posters') = np
    BY <1>0, <2>1, Moved
  <2> QED BY <1>0, <1>5, <2>2 DEF Create, kernel
<1>6. ASSUME NEW t \in Threads, Install(t) PROVE WakeupsMatchWaiters'
  <2>1. PICK w : Goto(t, w) /\ (w \in WaitPlaces <=> pc[t] \in WaitPlaces)
                           /\ (w \in PostPlaces <=> pc[t] \in PostPlaces)
    BY <1>6 DEF Install, Created, WaitPlaces, PostPlaces
  <2>2. Cardinality(Waiters') = nw /\ Cardinality(Posters') = np
    BY <1>0, <2>1, Moved
  <2>3. dsema_sema = NoPort => units[t] = 0
    BY <1>0, SemaphoreAssumption DEF PortMade
  <2> QED BY <1>0, <1>6, <2>2, <2>3, SemaphoreAssumption DEF Install
<1>7. ASSUME NEW t \in Threads, Sema4Signal(t) PROVE WakeupsMatchWaiters'
  <2>1. /\ Goto(t, "idle") /\ "idle" \notin WaitPlaces /\ "idle" \notin PostPlaces
        /\ pc[t] \in PostPlaces /\ pc[t] \notin WaitPlaces
    BY <1>7 DEF Sema4Signal, WaitPlaces, PostPlaces
  <2>2. Cardinality(Waiters') = nw /\ Cardinality(Posters') = np - 1
    BY <1>0, <2>1, Moved
  <2>3. dsema_sema # NoPort /\ units'[dsema_sema] = units[dsema_sema] + 1
    BY <1>0, <1>7 DEF Sema4Signal, PortMade, TypeOK
  <2> QED BY <1>0, <1>7, <2>2, <2>3 DEF Sema4Signal
<1>8. ASSUME NEW t \in Threads, Woken(t) PROVE WakeupsMatchWaiters'
  <2>1. PICK w \in {"idle", "inside"} : Goto(t, w)
    BY <1>0, <1>8, Returns DEF Woken
  <2>2. w \notin WaitPlaces /\ w \notin PostPlaces /\ pc[t] \in WaitPlaces /\ pc[t] \notin PostPlaces
    BY <1>8 DEF Woken, WaitPlaces, PostPlaces
  <2>3. Cardinality(Waiters') = nw - 1 /\ Cardinality(Posters') = np
    BY <1>0, <2>1, <2>2, Moved
  <2>4. dsema_sema # NoPort /\ units'[dsema_sema] = units[dsema_sema] - 1
    BY <1>0, <1>8 DEF Woken, PortMade, TypeOK
  <2> QED BY <1>0, <1>8, <2>3, <2>4 DEF Woken
<1>9. ASSUME NEW t \in Threads, TimedOut(t) \/ Load(t) PROVE WakeupsMatchWaiters'
  <2>1. PICK w \in {"undo", "cmpxchg"} : Goto(t, w)
    BY <1>9 DEF TimedOut, Load
  <2>2. w \in WaitPlaces /\ w \notin PostPlaces /\ pc[t] \in WaitPlaces /\ pc[t] \notin PostPlaces
    BY <1>9 DEF TimedOut, Load, WaitPlaces, PostPlaces
  <2>3. Cardinality(Waiters') = nw /\ Cardinality(Posters') = np
    BY <1>0, <2>1, <2>2, Moved
  <2> QED BY <1>0, <1>9, <2>3 DEF TimedOut, Load, kernel
<1>10. ASSUME NEW t \in Threads, Undo(t) PROVE WakeupsMatchWaiters'
  <2>0. pc[t] \in WaitPlaces /\ pc[t] \notin PostPlaces /\ UNCHANGED kernel
    BY <1>10 DEF Undo, WaitPlaces, PostPlaces
  <2>1. CASE Return(t, "timeout") /\ dsema_value < 0 /\ dsema_value' = dsema_value + 1
    <3>1. PICK w \in {"idle", "inside"} : Goto(t, w)
      BY <1>0, <2>1, Returns
    <3>2. w \notin WaitPlaces /\ w \notin PostPlaces
      BY DEF WaitPlaces, PostPlaces
    <3>3. Cardinality(Waiters') = nw - 1 /\ Cardinality(Posters') = np
      BY <1>0, <2>0, <3>1, <3>2, Moved
    <3> QED BY <1>0, <2>0, <2>1, <3>3 DEF kernel
  <2>2. CASE UNCHANGED <<pc, dsema_value>>
    BY <1>0, <2>0, <2>2, Stayed DEF kernel
  <2>3. CASE Goto(t, "sema4_wait") /\ UNCHANGED dsema_value
    <3>1. "sema4_wait" \in WaitPlaces /\ "sema4_wait" \notin PostPlaces
      BY DEF WaitPlaces, PostPlaces
    <3>2. Cardinality(Waiters') = nw /\ Cardinality(Posters') = np
      BY <1>0, <2>0, <2>3, <3>1, Moved
    <3> QED BY <1>0, <2>0, <2>3, <3>2 DEF kernel
  <2> QED BY <1>10, <2>1, <2>2, <2>3 DEF Undo
<1> QED BY <1>1, <1>2, <1>3, <1>4, <1>5, <1>6, <1>7, <1>8, <1>9, <1>10 DEF Next, Call, Step

LEMMA Invariance == Spec => []IInv
<1>1. IInv /\ [Next]_vars => IInv'
  <2> SUFFICES ASSUME IInv, [Next]_vars PROVE IInv'
    OBVIOUS
  <2>1. TypeOK /\ PortMade
    BY DEF IInv
  <2> QED BY <2>1, TypeStep, PortStep, WakeupsStep DEF IInv
<1> QED BY <1>1, Initially, PTL DEF Spec
--------------------------------------------------------------------------------
(* No wake-up is lost and none is left over, for any number of threads and any mix
   of signals, waits and timeouts (semaphore.c:83-146). *)
THEOREM NoWakeupLost == Spec => []WakeupsMatchWaiters
<1>1. IInv => WakeupsMatchWaiters
  BY DEF IInv
<1> QED BY <1>1, Invariance, PTL
--------------------------------------------------------------------------------
(* What is asked of the semaphore after a thread has moved. *)
LEMMA AskedMoved ==
  ASSUME TypeOK, NEW t \in Threads, NEW w, Goto(t, w),
         \A u \in Threads : u # t => timeout'[u] = timeout[u]
  PROVE  Asked' = [Asked EXCEPT ![t] = IF w \in WaitPlaces THEN timeout'[t] ELSE "none"]
<1>1. pc' = [pc EXCEPT ![t] = w] /\ pc'[t] = w
  BY DEF Goto, TypeOK
<1>2. ASSUME NEW u \in Threads
      PROVE  (IF pc'[u] \in WaitPlaces THEN timeout'[u] ELSE "none")
               = [Asked EXCEPT ![t] = IF w \in WaitPlaces THEN timeout'[t] ELSE "none"][u]
  BY <1>1 DEF Asked, Waiting, TypeOK
<1> QED BY <1>2 DEF Asked, Waiting

LEMMA AskedStays ==
  ASSUME TypeOK, NEW t \in Threads, NEW w, Goto(t, w), UNCHANGED timeout,
         w \in WaitPlaces <=> pc[t] \in WaitPlaces
  PROVE  Asked' = Asked
BY DEF Asked, Waiting, Goto, TypeOK

LEMMA AskedReturned ==
  ASSUME TypeOK, NEW t \in Threads, NEW result \in {"success", "timeout"}, Return(t, result)
  PROVE  Asked' = [Asked EXCEPT ![t] = "none"] /\ ret' = [ret EXCEPT ![t] = result]
<1>1. PICK w \in {"idle", "inside"} : Goto(t, w)
  BY Returns
<1>2. w \notin WaitPlaces
  BY DEF WaitPlaces
<1>3. \A u \in Threads : u # t => timeout'[u] = timeout[u]
  BY Returns DEF TypeOK
<1>4. Asked' = [Asked EXCEPT ![t] = IF w \in WaitPlaces THEN timeout'[t] ELSE "none"]
  BY <1>1, <1>3, AskedMoved
<1> QED BY <1>2, <1>4 DEF Return

(* Every step is a step of counting, or leaves what counting sees alone. *)
LEMMA StepCounts ==
  ASSUME IInv, [Next]_vars
  PROVE  [Counting!CountingNext]_<<Permits, Asked, ret>>
<1> DEFINE nw == Cardinality(Waiters)
           Same == UNCHANGED <<Permits, Asked, ret>>
<1>0. /\ TypeOK /\ PortMade /\ WakeupsMatchWaiters
      /\ dsema_value \in Int /\ nw \in Nat /\ Cardinality(Posters) \in Nat
  BY Counts DEF IInv, TypeOK
<1>1. ASSUME UNCHANGED vars \/ Dispose PROVE Same
  BY <1>1 DEF vars, Dispose, client, kernel, Permits, Asked, Waiters, Waiting
<1>2. ASSUME NEW t \in Threads, Signal(t) PROVE Counting!Post
  <2>1. PICK w \in {"idle", "signal_slow"} : Goto(t, w)
    BY <1>2 DEF Signal
  <2>2. w \notin WaitPlaces /\ pc[t] \notin WaitPlaces /\ UNCHANGED <<timeout, ret>>
    BY <1>2 DEF Signal, WaitPlaces
  <2>3. Cardinality(Waiters') = nw
    BY <1>0, <2>1, <2>2, Moved
  <2>4. Permits' = Permits + 1
    BY <1>0, <1>2, <2>3 DEF Signal, Permits
  <2>5. Asked' = Asked
    BY <1>0, <2>1, <2>2, AskedStays
  <2> QED BY <2>2, <2>4, <2>5 DEF Counting!Post
<1>3. ASSUME NEW t \in Threads, NEW when \in Timeouts, Wait(t, when)
      PROVE  Counting!Grant(t) \/ Counting!Ask(t, when)
  <2>1. pc[t] = "idle" /\ pc[t] \notin WaitPlaces /\ dsema_value' = dsema_value - 1
    BY <1>3 DEF Wait, WaitPlaces
  <2>2. CASE dsema_value' >= 0
    <3>1. Return(t, "success")
      BY <1>3, <2>2 DEF Wait
    <3>2. PICK w \in {"idle", "inside"} : Goto(t, w)
      BY <1>0, <3>1, Returns
    <3>3. w \notin WaitPlaces
      BY DEF WaitPlaces
    <3>4. Cardinality(Waiters') = nw
      BY <1>0, <2>1, <3>2, <3>3, Moved
    <3>5. Permits > 0 /\ Permits' = Permits - 1
      BY <1>0, <2>1, <2>2, <3>4 DEF Permits
    <3> QED BY <1>0, <3>1, <3>5, AskedReturned DEF Counting!Grant
  <2>3. CASE ~(dsema_value' >= 0)
    <3>1. /\ Goto(t, "wait_slow") /\ "wait_slow" \in WaitPlaces
          /\ timeout' = [timeout EXCEPT ![t] = when] /\ UNCHANGED ret
      BY <1>3, <2>3 DEF Wait, WaitPlaces
    <3>2. Cardinality(Waiters') = nw + 1
      BY <1>0, <2>1, <3>1, Moved
    <3>3. Permits' = Permits
      BY <1>0, <2>1, <3>2 DEF Permits
    <3>4. timeout'[t] = when /\ \A u \in Threads : u # t => timeout'[u] = timeout[u]
      BY <1>0, <3>1 DEF TypeOK
    <3>5. Asked' = [Asked EXCEPT ![t] = IF "wait_slow" \in WaitPlaces THEN timeout'[t] ELSE "none"]
      BY <1>0, <3>1, <3>4, AskedMoved
    <3>6. Asked[t] = "none"
      BY <2>1 DEF Asked, Waiting
    <3> QED BY <3>1, <3>3, <3>4, <3>5, <3>6 DEF Counting!Ask
  <2> QED BY <2>2, <2>3
<1>4. ASSUME NEW t \in Threads, Create(t) \/ Install(t) \/ Sema4Signal(t) \/ TimedOut(t) \/ Load(t)
      PROVE  Same
  <2>1. PICK w : Goto(t, w) /\ (w \in WaitPlaces <=> pc[t] \in WaitPlaces)
    BY <1>4 DEF Create, Install, Sema4Signal, TimedOut, Load, Created, WaitPlaces
  <2>2. UNCHANGED <<dsema_value, timeout, ret>>
    BY <1>4 DEF Create, Install, Sema4Signal, TimedOut, Load
  <2>3. Cardinality(Waiters') = nw
    BY <1>0, <2>1, Moved
  <2>4. Asked' = Asked
    BY <1>0, <2>1, <2>2, AskedStays
  <2> QED BY <2>2, <2>3, <2>4 DEF Permits
<1>5. ASSUME NEW t \in Threads, Woken(t) PROVE Counting!Grant(t)
  <2>1. Return(t, "success") /\ UNCHANGED dsema_value /\ pc[t] \in WaitPlaces
    BY <1>5 DEF Woken, WaitPlaces
  <2>2. PICK w \in {"idle", "inside"} : Goto(t, w)
    BY <1>0, <2>1, Returns
  <2>3. w \notin WaitPlaces
    BY DEF WaitPlaces
  <2>4. Cardinality(Waiters') = nw - 1
    BY <1>0, <2>1, <2>2, <2>3, Moved
  <2>5. dsema_sema # NoPort /\ units[dsema_sema] \in Nat /\ units[dsema_sema] > 0
    BY <1>0, <1>5 DEF Woken, PortMade, TypeOK
  <2>6. dsema_value + nw > 0
    BY <1>0, <2>5 DEF WakeupsMatchWaiters, Wakeups
  <2>7. Permits > 0 /\ Permits' = Permits - 1
    BY <1>0, <2>1, <2>4, <2>6 DEF Permits
  <2> QED BY <1>0, <2>1, <2>7, AskedReturned DEF Counting!Grant
<1>6. ASSUME NEW t \in Threads, Undo(t) PROVE Counting!Expire(t) \/ Same
  <2>1. pc[t] = "cmpxchg" /\ pc[t] \in WaitPlaces
    BY <1>6 DEF Undo, WaitPlaces
  <2>2. CASE Return(t, "timeout") /\ dsema_value' = dsema_value + 1
    <3>1. PICK w \in {"idle", "inside"} : Goto(t, w)
      BY <1>0, <2>2, Returns
    <3>2. w \notin WaitPlaces
      BY DEF WaitPlaces
    <3>3. Cardinality(Waiters') = nw - 1
      BY <1>0, <2>1, <3>1, <3>2, Moved
    <3>4. Permits' = Permits
      BY <1>0, <2>2, <3>3 DEF Permits
    <3>5. Asked[t] \in {"now", "later"}
      BY <1>0, <2>1 DEF PortMade, TypeOK, Timeouts, Asked, Waiting
    <3> QED BY <1>0, <2>2, <3>4, <3>5, AskedReturned DEF Counting!Expire
  <2>3. CASE UNCHANGED <<pc, dsema_value, timeout, ret>>
    BY <2>3 DEF Permits, Asked, Waiters, Waiting
  <2>4. CASE Goto(t, "sema4_wait") /\ UNCHANGED <<dsema_value, timeout, ret>>
    <3>1. "sema4_wait" \in WaitPlaces
      BY DEF WaitPlaces
    <3>2. Cardinality(Waiters') = nw
      BY <1>0, <2>1, <2>4, <3>1, Moved
    <3>3. Asked' = Asked
      BY <1>0, <2>1, <2>4, <3>1, AskedStays
    <3> QED BY <2>4, <3>2, <3>3 DEF Permits
  <2> QED BY <1>6, <2>2, <2>3, <2>4 DEF Undo
<1> QED
  BY <1>1, <1>2, <1>3, <1>4, <1>5, <1>6 DEF Next, Call, Step, Timeouts, Counting!CountingNext

(* A dispatch semaphore implements counting, for any threads, roles and initial
   value: nobody passes without a permit, and a wait that gives up takes none, also
   when a signal arrives while it does (semaphore.c:83-146). *)
THEOREM Implements == Spec => ImplementsCounting
<1>1. Init => Counting!CountingInit
  <2> SUFFICES ASSUME Init PROVE Counting!CountingInit
    OBVIOUS
  <2>1. Waiters = {} /\ Asked = [t \in Threads |-> "none"]
    BY DEF Init, Waiters, Waiting, WaitPlaces, Asked
  <2>2. Permits = Orig
    BY <2>1, FS_EmptySet, SemaphoreAssumption DEF Init, Permits
  <2> QED BY <2>1, <2>2 DEF Init, Counting!CountingInit
<1>2. IInv /\ [Next]_vars => [Counting!CountingNext]_<<Permits, Asked, ret>>
  BY StepCounts
<1> QED
  BY <1>1, <1>2, Invariance, PTL DEF Spec, ImplementsCounting, Counting!CountingSpec, Counting!counting

--------------------------------------------------------------------------------
(***************************************************************************)
(* The unfair lock, dispatch_once, the end of a semaphore, the group        *)
(***************************************************************************)
LEMMA LockFree ==
  ASSUME Unfair!Init
  PROVE  Unfair!IInv
BY DispatchAssumption DEF Unfair!Init, Unfair!IInv, Unfair!TypeOK, Unfair!OwnerHolds, Unfair!FailedUnheard, Unfair!Words, Unfair!Free, Unfair!Word

(* The word stays a word. *)
LEMMA LockWord ==
  ASSUME NEW t \in Threads \cup {Nobody}, NEW waiters \in BOOLEAN
  PROVE  /\ Unfair!Word(t, waiters) \in Unfair!Words /\ Unfair!Word(t, waiters).owner = t /\ ~Unfair!Word(t, waiters).failed
         /\ Unfair!Free \in Unfair!Words /\ Unfair!Free.owner = Nobody /\ ~Unfair!Free.failed
BY DEF Unfair!Word, Unfair!Words, Unfair!Free

LEMMA LockMarked ==
  ASSUME dul_lock \in Unfair!Words, NEW bit \in BOOLEAN
  PROVE  /\ [dul_lock EXCEPT !.waiters = bit] \in Unfair!Words /\ [dul_lock EXCEPT !.failed = bit] \in Unfair!Words
         /\ [dul_lock EXCEPT !.waiters = bit].owner = dul_lock.owner
         /\ [dul_lock EXCEPT !.waiters = bit].failed = dul_lock.failed
         /\ [dul_lock EXCEPT !.failed = bit].owner = dul_lock.owner
         /\ [dul_lock EXCEPT !.failed = bit].failed = bit
BY DEF Unfair!Words

(* A thread that moves takes the lock, gives it back, or leaves its owner alone. *)
LEMMA OwnerKept ==
  ASSUME Unfair!TypeOK, Unfair!OwnerHolds, NEW t \in Threads,
         NEW w \in {"out", "held", "slow", "park", "asleep", "woken", "wake"}, Unfair!Goto(t, w),
         \/ w = "held" /\ dul_lock.owner \in {Nobody, t} /\ dul_lock'.owner = t
         \/ w # "held" /\ dul_lock.owner = t /\ dul_lock'.owner = Nobody
         \/ w # "held" /\ uPc[t] # "held" /\ dul_lock'.owner = dul_lock.owner
  PROVE  uPc' \in [Threads -> {"out", "held", "slow", "park", "asleep", "woken", "wake"}] /\ Unfair!OwnerHolds'
BY DispatchAssumption DEF Unfair!TypeOK, Unfair!OwnerHolds, Unfair!Goto

LEMMA LockStep ==
  ASSUME Unfair!IInv, [Unfair!Next]_(Unfair!vars)
  PROVE  Unfair!IInv'
<1> USE DEF Unfair!IInv, Unfair!TypeOK, Unfair!FailedUnheard
<1>0. /\ Nobody \notin Threads /\ dul_lock \in Unfair!Words /\ Unfair!OwnerHolds
      /\ dul_lock.owner \in Threads \cup {Nobody} /\ dul_lock.failed \in BOOLEAN
  BY DispatchAssumption DEF Unfair!Words
<1>1. CASE UNCHANGED (Unfair!vars)
  BY <1>1 DEF Unfair!vars, Unfair!OwnerHolds
<1>2. ASSUME NEW t \in Threads, Unfair!Lock(t) PROVE Unfair!IInv'
  <2>1. /\ uPc[t] = "out" /\ uLeft' \in [Threads -> Nat] /\ UNCHANGED <<uNext, seen, unheard>>
    BY <1>2 DEF Unfair!Lock, Unfair!Begin
  <2>2. CASE dul_lock = Unfair!Free
    <3>1. dul_lock' = Unfair!Word(t, FALSE) /\ Unfair!Goto(t, "held") /\ dul_lock.owner = Nobody /\ ~dul_lock.failed
      BY <1>2, <2>2, LockWord DEF Unfair!Lock
    <3>2. dul_lock' \in Unfair!Words /\ dul_lock'.owner = t /\ ~dul_lock'.failed
      BY <3>1, LockWord
    <3> QED BY <1>0, <2>1, <3>1, <3>2, OwnerKept
  <2>3. CASE dul_lock # Unfair!Free
    <3>1. dul_lock' = dul_lock /\ Unfair!Goto(t, "slow")
      BY <1>2, <2>3 DEF Unfair!Lock
    <3> QED BY <1>0, <2>1, <3>1, OwnerKept
  <2> QED BY <2>2, <2>3
<1>3. ASSUME NEW t \in Threads, Unfair!LockSlow(t) PROVE Unfair!IInv'
  <2>1. uPc[t] = "slow" /\ UNCHANGED <<uLeft, unheard>>
    BY <1>3 DEF Unfair!LockSlow
  <2>2. CASE dul_lock.owner = Nobody
    <3>1. dul_lock' = Unfair!Word(t, uNext[t]) /\ Unfair!Goto(t, "held")
      BY <1>3, <2>2 DEF Unfair!LockSlow
    <3>2. uNext[t] \in BOOLEAN /\ uNext' \in [Threads -> BOOLEAN] /\ seen' \in [Threads -> Unfair!Words]
      BY <1>3, <2>2, LockWord DEF Unfair!LockSlow
    <3>3. dul_lock' \in Unfair!Words /\ dul_lock'.owner = t /\ ~dul_lock'.failed
      BY <3>1, <3>2, LockWord
    <3> QED BY <1>0, <2>1, <2>2, <3>1, <3>2, <3>3, OwnerKept
  <2>3. CASE dul_lock.owner # Nobody
    <3>1. /\ dul_lock' = [dul_lock EXCEPT !.waiters = TRUE] /\ Unfair!Goto(t, "park")
          /\ seen' = [seen EXCEPT ![t] = dul_lock'] /\ UNCHANGED uNext
      BY <1>3, <2>3 DEF Unfair!LockSlow
    <3>2. dul_lock' \in Unfair!Words /\ dul_lock'.owner = dul_lock.owner /\ dul_lock'.failed = dul_lock.failed
      BY <1>0, <3>1, LockMarked
    <3>3. seen' \in [Threads -> Unfair!Words]
      BY <3>1, <3>2
    <3> QED BY <1>0, <2>1, <3>1, <3>2, <3>3, OwnerKept
  <2> QED BY <2>2, <2>3
<1>4. ASSUME NEW t \in Threads, Unfair!Park(t) PROVE Unfair!IInv'
  BY <1>0, <1>4 DEF Unfair!Park, Unfair!Goto, Unfair!OwnerHolds
<1>5. ASSUME NEW t \in Threads, Unfair!Resume(t) PROVE Unfair!IInv'
  BY <1>0, <1>5 DEF Unfair!Resume, Unfair!Goto, Unfair!OwnerHolds
<1>6. ASSUME NEW t \in Threads, Unfair!Trylock(t) PROVE Unfair!IInv'
  <2>1. uPc[t] = "out" /\ uLeft' \in [Threads -> Nat] /\ UNCHANGED <<uNext, seen>>
    BY <1>6 DEF Unfair!Trylock, Unfair!Begin
  <2>2. CASE dul_lock.owner = Nobody
    <3>1. dul_lock' = Unfair!Word(t, FALSE) /\ Unfair!Goto(t, "held") /\ UNCHANGED unheard
      BY <1>6, <2>2 DEF Unfair!Trylock
    <3>2. dul_lock' \in Unfair!Words /\ dul_lock'.owner = t /\ ~dul_lock'.failed
      BY <3>1, LockWord
    <3> QED BY <1>0, <2>1, <2>2, <3>1, <3>2, OwnerKept
  <2>3. CASE dul_lock.owner # Nobody
    <3>1. dul_lock' = [dul_lock EXCEPT !.failed = TRUE] /\ unheard' = TRUE /\ UNCHANGED uPc
      BY <1>6, <2>3 DEF Unfair!Trylock
    <3>2. dul_lock' \in Unfair!Words /\ dul_lock'.owner = dul_lock.owner /\ dul_lock'.failed
      BY <1>0, <3>1, LockMarked
    <3> QED BY <1>0, <2>1, <2>3, <3>1, <3>2 DEF Unfair!OwnerHolds
  <2> QED BY <2>2, <2>3
<1>7. ASSUME NEW t \in Threads, Unfair!Release(t) PROVE Unfair!IInv'
  <2>1. uPc[t] = "held" /\ dul_lock.owner = t /\ UNCHANGED <<uLeft, uNext, seen>>
    BY <1>0, <1>7 DEF Unfair!Release, Unfair!Tryunlock, Unfair!Unlock, Unfair!OwnerHolds
  <2>2. CASE /\ dul_lock' = [dul_lock EXCEPT !.failed = FALSE] /\ unheard' = FALSE /\ UNCHANGED uPc
    <3>1. dul_lock' \in Unfair!Words /\ dul_lock'.owner = dul_lock.owner /\ ~dul_lock'.failed
      BY <1>0, <2>2, LockMarked
    <3> QED BY <1>0, <2>1, <2>2, <3>1 DEF Unfair!OwnerHolds
  <2>3. CASE dul_lock' = Unfair!Free /\ unheard' = FALSE /\ (Unfair!Goto(t, "wake") \/ Unfair!Goto(t, "out"))
    <3>1. dul_lock' \in Unfair!Words /\ dul_lock'.owner = Nobody /\ ~dul_lock'.failed
      BY <2>3, LockWord
    <3>2. uPc' \in [Threads -> {"out", "held", "slow", "park", "asleep", "woken", "wake"}] /\ Unfair!OwnerHolds'
      BY <1>0, <2>1, <2>3, <3>1, OwnerKept
    <3> QED BY <2>1, <2>3, <3>1, <3>2
  <2>4. dul_lock.failed \/ ~unheard
    OBVIOUS
  <2> QED BY <1>7, <2>2, <2>3, <2>4 DEF Unfair!Release, Unfair!Tryunlock, Unfair!Unlock
<1>8. ASSUME NEW t \in Threads, Unfair!UnlockSlow(t) PROVE Unfair!IInv'
  BY <1>0, <1>8 DEF Unfair!UnlockSlow, Unfair!Goto, Unfair!OwnerHolds
<1> QED BY <1>1, <1>2, <1>3, <1>4, <1>5, <1>6, <1>7, <1>8 DEF Unfair!Next, Unfair!Step
--------------------------------------------------------------------------------
(* The four kinds of word. *)
LEMMA OnceWords ==
  /\ Once!Unlocked \in Once!Words /\ Once!Unlocked.is = "unlocked" /\ Once!Done \in Once!Words /\ Once!Done.is = "done"
  /\ \A g \in Nat : Once!Gen(g) \in Once!Words /\ Once!Gen(g).is = "gen" /\ Once!Gen(g).gen = g
  /\ \A t \in Threads, w \in BOOLEAN :
       Once!Locked(t, w) \in Once!Words /\ Once!Locked(t, w).is = "locked" /\ Once!Locked(t, w).owner = t
BY DEF Once!Words, Once!Unlocked, Once!Done, Once!Gen, Once!Locked

LEMMA OnceMarked ==
  ASSUME dgo_once \in Once!Words
  PROVE  /\ [dgo_once EXCEPT !.waiters = TRUE] \in Once!Words
         /\ [dgo_once EXCEPT !.waiters = TRUE].is = dgo_once.is
         /\ [dgo_once EXCEPT !.waiters = TRUE].owner = dgo_once.owner
BY DEF Once!Words

LEMMA OnceStart ==
  ASSUME Once!Init
  PROVE  Once!IInv
<1>1. Once!TypeOK
  BY DispatchAssumption, OnceWords DEF Once!Init, Once!TypeOK, Once!Places
<1>2. Once!Gate
  BY OnceWords DEF Once!Init, Once!Gate
<1>3. Once!Barriers
  BY DEF Once!Init, Once!Barriers
<1>4. Once!Visible
  BY OnceWords DEF Once!Init, Once!Visible
<1> QED BY <1>1, <1>2, <1>3, <1>4 DEF Once!Init, Once!IInv
--------------------------------------------------------------------------------
(* A thread that only moves, outside the block and the mark, leaves the gate closed. *)
LEMMA GateMoved ==
  ASSUME Once!TypeOK, Once!Gate, NEW t \in Threads, NEW w \in Once!Places, Once!Goto(t, w),
         w \notin {"callout", "broadcast"},
         w = "mark" => dgo_once'.is \in {"gen", "done"},
         dgo_once'.is = "unlocked" => dgo_once' = dgo_once /\ w \in {"out", "load", "tryenter"},
         dgo_once'.is = "done" => dgo_once' = Once!Done,
         dgo_once.is \in {"gen", "done"} => dgo_once'.is \in {"gen", "done"},
         \/ dgo_once'.is = dgo_once.is /\ dgo_once'.owner = dgo_once.owner
         \/ dgo_once.is \in {"gen", "done"} /\ dgo_once'.is \in {"gen", "done"}
         \/ oPc[t] = "broadcast" /\ dgo_once'.is \in {"gen", "done"},
         ran' = ran
  PROVE  Once!Gate' /\ oPc' \in [Threads -> Once!Places]
<1>1. oPc' \in [Threads -> Once!Places] /\ oPc'[t] = w /\ \A u \in Threads : u # t => oPc'[u] = oPc[u]
  BY DEF Once!TypeOK, Once!Goto
<1>2. dgo_once'.is = "unlocked" => /\ dgo_once' = Once!Unlocked /\ ran' = 0
                                   /\ \A u \in Threads : oPc'[u] \in {"out", "load", "tryenter"}
  BY <1>1 DEF Once!Gate
<1>3. dgo_once'.is \in {"gen", "done"} => ran' = 1
  BY <1>1 DEF Once!Gate
<1>4. ASSUME NEW u \in Threads
      PROVE  /\ oPc'[u] \in {"callout", "broadcast"} => dgo_once'.is = "locked" /\ dgo_once'.owner = u
             /\ oPc'[u] = "callout" => ran' = 0
             /\ oPc'[u] = "broadcast" => ran' = 1
             /\ oPc'[u] = "mark" => dgo_once'.is \in {"gen", "done"}
  <2>1. CASE u = t
    BY <1>1, <2>1
  <2>2. CASE u # t
    BY <1>1, <2>2 DEF Once!Gate
  <2> QED BY <2>1, <2>2
<1> QED BY <1>1, <1>2, <1>3, <1>4 DEF Once!Gate

(* While neither a processor switches nor the block runs, a generation keeps its age. *)
LEMMA VisibleMoved ==
  ASSUME Once!TypeOK, Once!Visible, NEW t \in Threads, NEW w \in Once!Places, Once!Goto(t, w), UNCHANGED <<quiescent, Once!machine, fresh>>,
         w # "broadcast", w = "mark" => Once!Covered(saw'[t].gen), saw' = [saw EXCEPT ![t] = saw'[t]],
         dgo_once'.is = "gen" => dgo_once'.gen \in Nat /\ Once!Covered(dgo_once'.gen),
         dgo_once'.is = "done" /\ quiescent => fresh = Threads
  PROVE  Once!Visible'
<1>1. \A u \in Threads : u # t => oPc'[u] = oPc[u] /\ saw'[u] = saw[u]
  BY DEF Once!TypeOK, Once!Goto
<1>2. oPc'[t] = w
  BY DEF Once!TypeOK, Once!Goto
<1>3. UNCHANGED <<counter, mask, since, fresh, quiescent>>
  BY DEF Once!machine
<1> QED BY <1>1, <1>2, <1>3 DEF Once!Visible, Once!Covered

LEMMA OnceBarriers ==
  ASSUME Once!TypeOK, Once!Barriers, [Once!Next]_(Once!vars)
  PROVE  Once!Barriers'
<1>1. CASE UNCHANGED Once!machine
  BY <1>1 DEF Once!Barriers, Once!machine
<1>2. ASSUME NEW t \in Threads, Once!Switch(t) PROVE Once!Barriers'
  <2>1. CASE mask \cup {t} = Threads
    <3>1. mask' = {} /\ counter' = counter + 1 /\ since' = [since EXCEPT ![t] = counter + 1]
      BY <1>2, <2>1 DEF Once!Switch
    <3> QED BY <2>1, <3>1 DEF Once!TypeOK, Once!Barriers
  <2>2. CASE mask \cup {t} # Threads
    <3>1. mask' = mask \cup {t} /\ counter' = counter /\ since' = [since EXCEPT ![t] = counter]
      BY <1>2, <2>2 DEF Once!Switch
    <3> QED BY <3>1 DEF Once!TypeOK, Once!Barriers
  <2> QED BY <2>1, <2>2
<1>3. ASSUME NEW t \in Threads, Once!Step(t) PROVE UNCHANGED Once!machine
  BY <1>3 DEF Once!Step, Once!Call, Once!Load, Once!MarkDoneIfQuiesced, Once!TryEnter, Once!Callout, Once!Broadcast, Once!BroadcastSlow, Once!Wait, Once!Park
<1> QED BY <1>1, <1>2, <1>3 DEF Once!Next, Once!vars

(* A processor that switches makes generations older only as it makes the block seen. *)
LEMMA OnceSwitchStep ==
  ASSUME Once!IInv, NEW t \in Threads, Once!Switch(t)
  PROVE  Once!IInv'
<1>0. Once!TypeOK /\ Once!Gate /\ Once!Barriers /\ Once!Visible /\ blind = {}
  BY DEF Once!IInv
<1>1. /\ UNCHANGED <<quiescent, dgo_once, oPc, saw, ran, blind>>
      /\ fresh' = IF ran > 0 THEN fresh \cup {t} ELSE fresh
      /\ since' = [since EXCEPT ![t] = counter']
  BY DEF Once!Switch
<1>2. counter' \in Nat /\ mask' \subseteq Threads
  <2>1. CASE mask \cup {t} = Threads
    BY <1>0, <2>1 DEF Once!Switch, Once!TypeOK
  <2>2. CASE mask \cup {t} # Threads
    BY <1>0, <2>2 DEF Once!Switch, Once!TypeOK
  <2> QED BY <2>1, <2>2
<1>3. Once!TypeOK'
  BY <1>0, <1>1, <1>2 DEF Once!TypeOK
<1>4. Once!Gate'
  BY <1>0, <1>1 DEF Once!Gate
<1>5. Once!Barriers'
  BY <1>0, OnceBarriers DEF Once!Next
<1>6. ASSUME NEW g \in Nat, Once!Covered(g), ran = 1 PROVE Once!Covered(g)'
  <2>1. fresh' = fresh \cup {t}
    BY <1>1, <1>6
  <2>2. CASE mask \cup {t} = Threads
    <3>1. mask' = {} /\ counter' = counter + 1
      BY <2>2 DEF Once!Switch
    <3>2. counter' >= g + 3 => counter >= g + 2
      BY <1>0, <3>1 DEF Once!TypeOK
    <3>3. counter' >= g + 3 => fresh' = Threads
      BY <1>0, <1>6, <2>1, <2>2, <3>2 DEF Once!Covered, Once!TypeOK
    <3> QED BY <3>1, <3>3 DEF Once!Covered
  <2>3. CASE mask \cup {t} # Threads
    <3>1. mask' = mask \cup {t} /\ counter' = counter
      BY <2>3 DEF Once!Switch
    <3> QED BY <1>0, <1>6, <2>1, <3>1 DEF Once!Covered, Once!TypeOK
  <2> QED BY <2>2, <2>3
<1>7. ASSUME NEW u \in Threads, oPc'[u] = "broadcast" PROVE Once!Covered(since[u])'
  <2>1. CASE u = t
    <3>1. since'[u] = counter'
      BY <1>0, <1>1, <2>1 DEF Once!TypeOK
    <3>2. ~(counter' >= counter' + 2) /\ ~(counter' >= counter' + 3)
      <4>1. \A n \in Nat : ~(n >= n + 2) /\ ~(n >= n + 3)
        OBVIOUS
      <4> QED BY <1>2, <4>1
    <3> QED BY <3>1, <3>2 DEF Once!Covered
  <2>2. CASE u # t
    <3>1. since'[u] = since[u] /\ since[u] \in Nat /\ oPc[u] = "broadcast" /\ ran = 1
      BY <1>0, <1>1, <1>7, <2>2 DEF Once!TypeOK, Once!Gate
    <3>2. Once!Covered(since[u])
      BY <1>0, <3>1 DEF Once!Visible
    <3> QED BY <1>6, <3>1, <3>2 DEF Once!Covered
  <2> QED BY <2>1, <2>2
<1>8. ASSUME NEW u \in Threads, oPc'[u] = "mark" PROVE Once!Covered(saw[u].gen)'
  <2>1. saw'[u] = saw[u] /\ saw[u].gen \in Nat /\ oPc[u] = "mark" /\ ran = 1
    BY <1>0, <1>1, <1>8 DEF Once!TypeOK, Once!Gate, Once!Words
  <2>2. Once!Covered(saw[u].gen)
    BY <1>0, <2>1 DEF Once!Visible
  <2> QED BY <1>6, <2>1, <2>2 DEF Once!Covered
<1>9. dgo_once'.is = "gen" => Once!Covered(dgo_once.gen)'
  <2> SUFFICES ASSUME dgo_once'.is = "gen" PROVE Once!Covered(dgo_once.gen)'
    OBVIOUS
  <2>1. dgo_once' = dgo_once /\ dgo_once.gen \in Nat /\ ran = 1
    BY <1>0, <1>1 DEF Once!TypeOK, Once!Gate, Once!Words
  <2>2. Once!Covered(dgo_once.gen)
    BY <1>0, <1>1 DEF Once!Visible
  <2> QED BY <1>6, <2>1, <2>2 DEF Once!Covered
<1>10. dgo_once'.is = "done" /\ quiescent' => fresh' = Threads
  BY <1>0, <1>1 DEF Once!Visible, Once!TypeOK
<1>11. Once!Visible'
  BY <1>7, <1>8, <1>9, <1>10 DEF Once!Visible
<1> QED BY <1>0, <1>1, <1>3, <1>4, <1>5, <1>11 DEF Once!IInv

(* Every call makes its steps without running the block twice or returning too early. *)
LEMMA OnceThreadStep ==
  ASSUME Once!IInv, NEW t \in Threads, Once!Step(t)
  PROVE  Once!IInv'
<1>0. /\ Once!TypeOK /\ Once!Gate /\ Once!Barriers /\ Once!Visible /\ blind = {} /\ dgo_once \in Once!Words
      /\ saw \in [Threads -> Once!Words] /\ oPc \in [Threads -> Once!Places]
      /\ dgo_once.is = "done" => dgo_once = Once!Done
  BY DEF Once!IInv, Once!TypeOK, Once!Gate
<1>1. Once!Barriers'
  BY <1>0, OnceBarriers DEF Once!Next
<1>2. CASE Once!Callout(t)
  <2>1. /\ oPc[t] = "callout" /\ ran' = ran + 1 /\ fresh' = {t} /\ oPc' = [oPc EXCEPT ![t] = "broadcast"]
        /\ UNCHANGED <<quiescent, calls, dgo_once, saw, blind, counter, mask, since>>
    BY <1>2 DEF Once!Callout, Once!Goto, Once!machine
  <2>2. ran = 0 /\ dgo_once.is = "locked" /\ dgo_once.owner = t
    BY <1>0, <2>1 DEF Once!Gate
  <2>3. Once!TypeOK'
    BY <1>0, <2>1, <2>2 DEF Once!TypeOK, Once!Places
  <2>4. Once!Gate'
    BY <1>0, <2>1, <2>2 DEF Once!Gate
  <2>5. \A u \in Threads : oPc'[u] \notin {"broadcast", "mark"} \/ u = t
    BY <1>0, <2>1, <2>2 DEF Once!Gate
  <2>6. oPc'[t] = "broadcast" /\ ~(counter' >= since'[t] + 2) /\ ~(counter' >= since'[t] + 3)
    BY <1>0, <2>1 DEF Once!TypeOK, Once!Barriers
  <2>7. Once!Visible'
    BY <2>1, <2>2, <2>5, <2>6 DEF Once!Visible, Once!Covered
  <2> QED BY <1>0, <1>1, <2>1, <2>3, <2>4, <2>7 DEF Once!IInv
<1>3. CASE ~Once!Callout(t)
  <2>0. UNCHANGED <<quiescent, ran, Once!machine, fresh>>
    BY <1>3 DEF Once!Step, Once!Call, Once!Load, Once!MarkDoneIfQuiesced, Once!TryEnter, Once!Broadcast, Once!BroadcastSlow, Once!Wait, Once!Park
  <2> DEFINE Rest == /\ dgo_once' \in Once!Words /\ saw' \in [Threads -> Once!Words] /\ blind' = {}
                     /\ oPc' \in [Threads -> Once!Places] /\ Once!Gate' /\ Once!Visible'
  <2>1. Rest => Once!IInv'
    BY <1>0, <1>1, <2>0 DEF Once!IInv, Once!TypeOK, Once!machine
  <2>2. CASE Once!TryEnter(t) /\ dgo_once = Once!Unlocked
    <3>1. /\ dgo_once' = Once!Locked(t, FALSE) /\ oPc' = [oPc EXCEPT ![t] = "callout"]
          /\ UNCHANGED <<saw, blind>>
      BY <2>2 DEF Once!TryEnter, Once!Goto
    <3>2. dgo_once' \in Once!Words /\ dgo_once'.is = "locked" /\ dgo_once'.owner = t
      BY <3>1, OnceWords
    <3>3. dgo_once.is = "unlocked"
      BY <2>2, OnceWords
    <3>4. ran = 0 /\ \A u \in Threads : oPc[u] \in {"out", "load", "tryenter"}
      BY <1>0, <3>3 DEF Once!Gate
    <3>5. oPc' \in [Threads -> Once!Places]
      BY <1>0, <3>1 DEF Once!Places
    <3>6. Once!Gate'
      BY <1>0, <2>0, <3>1, <3>2, <3>4 DEF Once!Gate
    <3>7. Once!Visible'
      BY <1>0, <3>1, <3>2, <3>4 DEF Once!Visible
    <3> QED BY <1>0, <2>1, <3>1, <3>2, <3>5, <3>6, <3>7
  <2>3. CASE Once!BroadcastSlow(t)
    <3>1. /\ oPc' = [s \in Threads |-> IF s = t THEN "out" ELSE IF oPc[s] = "asleep" THEN "wait" ELSE oPc[s]]
          /\ UNCHANGED <<dgo_once, saw, blind>> /\ oPc[t] = "wake"
      BY <2>3 DEF Once!BroadcastSlow
    <3>2. oPc' \in [Threads -> Once!Places]
      BY <1>0, <3>1 DEF Once!Places
    <3>3. dgo_once.is # "unlocked"
      BY <1>0, <3>1 DEF Once!Gate
    <3>4. \A u \in Threads : oPc'[u] \in {"out", "wait", oPc[u]}
      BY <3>1
    <3>5. Once!Gate'
      BY <1>0, <2>0, <3>1, <3>3, <3>4 DEF Once!Gate
    <3>6. Once!Visible'
      BY <1>0, <2>0, <3>1, <3>4 DEF Once!Visible, Once!Covered, Once!machine
    <3> QED BY <1>0, <2>1, <3>1, <3>2, <3>5, <3>6
  <2>4. ASSUME NEW w \in Once!Places, Once!Goto(t, w), w \notin {"callout", "broadcast"},
               saw' = [saw EXCEPT ![t] = saw'[t]], saw'[t] \in Once!Words, dgo_once' \in Once!Words, blind' = {},
               w = "mark" => dgo_once'.is \in {"gen", "done"} /\ Once!Covered(saw'[t].gen),
               dgo_once'.is = "unlocked" => dgo_once' = dgo_once /\ w \in {"out", "load", "tryenter"},
               dgo_once'.is = "done" => dgo_once' = Once!Done /\ (quiescent => fresh = Threads),
               dgo_once'.is = "gen" => Once!Covered(dgo_once'.gen),
               \/ dgo_once'.is = dgo_once.is /\ dgo_once'.owner = dgo_once.owner
               \/ dgo_once.is \in {"gen", "done"} /\ dgo_once'.is \in {"gen", "done"}
               \/ oPc[t] = "broadcast" /\ dgo_once'.is \in {"gen", "done"}
        PROVE  Once!IInv'
    <3>1. dgo_once.is \in {"gen", "done"} => dgo_once'.is \in {"gen", "done"}
      BY <1>0, <2>4 DEF Once!Gate
    <3>2. Once!Gate' /\ oPc' \in [Threads -> Once!Places]
      BY <1>0, <2>0, <2>4, <3>1, GateMoved
    <3>3. dgo_once'.gen \in Nat
      BY <2>4 DEF Once!Words
    <3>4. Once!Visible'
      BY <1>0, <2>0, <2>4, <3>3, VisibleMoved
    <3>5. saw' \in [Threads -> Once!Words]
      BY <1>0, <2>4
    <3> QED BY <2>1, <2>4, <3>2, <3>4, <3>5
  <2>5. CASE Once!Call(t)
    <3>1. CASE dgo_once = Once!Done
      <4>1. dgo_once.is = "done" /\ ran = 1 /\ (quiescent => fresh = Threads)
        BY <1>0, <3>1, OnceWords DEF Once!Gate, Once!Visible
      <4>2. Once!Ordered(t)
        BY <4>1 DEF Once!Ordered
      <4>3. /\ Once!Goto(t, "out") /\ saw' = [saw EXCEPT ![t] = Once!Unlocked] /\ blind' = blind
            /\ dgo_once' = dgo_once
        BY <2>5, <3>1, <4>2 DEF Once!Call, Once!Return
      <4> QED BY <1>0, <2>4, <3>1, <4>1, <4>3, OnceWords DEF Once!Places
    <3>2. CASE dgo_once # Once!Done
      <4>1. PICK w \in {"load", "tryenter"} : Once!Goto(t, w)
        BY <2>5, <3>2 DEF Once!Call
      <4>2. UNCHANGED <<dgo_once, saw, blind>>
        BY <2>5, <3>2 DEF Once!Call
      <4> QED BY <1>0, <2>4, <3>2, <4>1, <4>2 DEF Once!Places, Once!Visible
    <3> QED BY <3>1, <3>2
  <2>6. CASE Once!Load(t)
    <3>1. CASE dgo_once = Once!Done
      <4>1. dgo_once.is = "done" /\ ran = 1 /\ (quiescent => fresh = Threads)
        BY <1>0, <3>1, OnceWords DEF Once!Gate, Once!Visible
      <4>2. /\ Once!Goto(t, "out") /\ saw' = [saw EXCEPT ![t] = Once!Unlocked] /\ blind' = blind
            /\ dgo_once' = dgo_once
        BY <2>6, <3>1, <4>1, OnceWords DEF Once!Load, Once!Return
      <4> QED BY <1>0, <2>4, <3>1, <4>1, <4>2, OnceWords DEF Once!Places
    <3>2. CASE dgo_once.is = "gen"
      <4>1. /\ Once!Goto(t, "mark") /\ saw' = [saw EXCEPT ![t] = dgo_once] /\ blind' = blind
            /\ dgo_once' = dgo_once
        BY <2>6, <3>2, OnceWords DEF Once!Load
      <4>2. Once!Covered(dgo_once.gen)
        BY <1>0, <3>2 DEF Once!Visible
      <4> QED BY <1>0, <2>4, <3>2, <4>1, <4>2 DEF Once!Places
    <3>3. CASE dgo_once # Once!Done /\ dgo_once.is # "gen"
      <4>1. Once!Goto(t, "tryenter") /\ UNCHANGED <<dgo_once, saw, blind>>
        BY <2>6, <3>3 DEF Once!Load
      <4> QED BY <1>0, <2>4, <3>3, <4>1 DEF Once!Places
    <3> QED BY <3>1, <3>2, <3>3
  <2>7. CASE Once!MarkDoneIfQuiesced(t)
    <3>1. /\ oPc[t] = "mark" /\ ran = 1 /\ dgo_once.is \in {"gen", "done"} /\ saw[t].gen \in Nat
          /\ Once!Covered(saw[t].gen)
      BY <1>0, <2>7 DEF Once!MarkDoneIfQuiesced, Once!Gate, Once!Visible, Once!Words
    <3>2. Once!Goto(t, "out") /\ saw' = [saw EXCEPT ![t] = Once!Unlocked] /\ blind' = blind
      BY <2>7, <3>1 DEF Once!MarkDoneIfQuiesced, Once!Return
    <3>3. CASE Once!Quiesced(saw[t].gen)
      <4>1. dgo_once' = Once!Done
        BY <2>7, <3>3 DEF Once!MarkDoneIfQuiesced
      <4>2. counter >= saw[t].gen + 3
        BY <1>0, <3>1, <3>3 DEF Once!Quiesced, Once!SafeDelta, Once!TypeOK
      <4>3. fresh = Threads
        BY <3>1, <4>2 DEF Once!Covered
      <4> QED BY <1>0, <2>4, <3>1, <3>2, <4>1, <4>3, OnceWords DEF Once!Places
    <3>4. CASE ~Once!Quiesced(saw[t].gen)
      <4>1. dgo_once' = dgo_once
        BY <2>7, <3>4 DEF Once!MarkDoneIfQuiesced
      <4>2. /\ dgo_once.is = "gen" => Once!Covered(dgo_once.gen)
            /\ dgo_once.is = "done" => (quiescent => fresh = Threads)
        BY <1>0 DEF Once!Visible
      <4> QED BY <1>0, <2>4, <3>1, <3>2, <4>1, <4>2, OnceWords DEF Once!Places
    <3> QED BY <3>3, <3>4
  <2>8. CASE Once!TryEnter(t) /\ dgo_once # Once!Unlocked
    <3>1. Once!Goto(t, "wait") /\ UNCHANGED <<dgo_once, saw, blind>>
      BY <2>8 DEF Once!TryEnter
    <3>2. /\ dgo_once.is # "unlocked" /\ (dgo_once.is = "gen" => Once!Covered(dgo_once.gen))
          /\ dgo_once.is = "done" => (quiescent => fresh = Threads)
      BY <1>0, <2>8 DEF Once!Gate, Once!Visible
    <3> QED BY <1>0, <2>4, <3>1, <3>2 DEF Once!Places
  <2>9. CASE Once!Broadcast(t)
    <3>1. oPc[t] = "broadcast" /\ ran = 1 /\ Once!Covered(since[t]) /\ since[t] \in Nat /\ counter \in Nat
      BY <1>0, <2>9 DEF Once!Broadcast, Once!Gate, Once!Visible, Once!TypeOK
    <3>2. PICK w \in {"wake", "out"} : Once!Goto(t, w) /\ saw' \in {saw, [saw EXCEPT ![t] = Once!Unlocked]} /\ blind' = blind
      BY <2>9 DEF Once!Broadcast, Once!Return
    <3>3. saw' = [saw EXCEPT ![t] = saw'[t]] /\ saw'[t] \in Once!Words
      BY <1>0, <3>2, OnceWords
    <3>4. CASE quiescent
      <4>1. PICK g \in since[t]..counter : dgo_once' = Once!Gen(g)
        BY <2>9, <3>4 DEF Once!Broadcast
      <4>2. g \in Nat /\ Once!Covered(g)
        BY <3>1, <4>1 DEF Once!Covered
      <4>3. dgo_once' \in Once!Words /\ dgo_once'.is = "gen" /\ dgo_once'.gen = g
        BY <4>1, <4>2, OnceWords
      <4> QED BY <1>0, <2>4, <3>1, <3>2, <3>3, <4>2, <4>3 DEF Once!Places
    <3>5. CASE ~quiescent
      <4>1. dgo_once' = Once!Done
        BY <2>9, <3>5 DEF Once!Broadcast
      <4> QED BY <1>0, <2>4, <3>1, <3>2, <3>3, <3>5, <4>1, OnceWords DEF Once!Places
    <3> QED BY <3>4, <3>5
  <2>10. CASE Once!Wait(t)
    <3>0. oPc[t] = "wait" /\ dgo_once.is # "unlocked"
      BY <1>0, <2>10 DEF Once!Wait, Once!Gate
    <3>1. CASE dgo_once = Once!Done
      <4>1. dgo_once.is = "done" /\ ran = 1 /\ (quiescent => fresh = Threads)
        BY <1>0, <3>1, OnceWords DEF Once!Gate, Once!Visible
      <4>2. Once!Ordered(t)
        BY <4>1 DEF Once!Ordered
      <4>3. /\ Once!Goto(t, "out") /\ saw' = [saw EXCEPT ![t] = Once!Unlocked] /\ blind' = blind
            /\ dgo_once' = dgo_once
        BY <2>10, <3>1, <4>1, <4>2, OnceWords DEF Once!Wait, Once!Return
      <4> QED BY <1>0, <2>4, <3>1, <4>1, <4>3, OnceWords DEF Once!Places
    <3>2. CASE dgo_once.is = "gen"
      <4>1. /\ Once!Goto(t, "mark") /\ saw' = [saw EXCEPT ![t] = dgo_once] /\ blind' = blind
            /\ dgo_once' = dgo_once
        BY <2>10, <3>2, OnceWords DEF Once!Wait
      <4>2. Once!Covered(dgo_once.gen)
        BY <1>0, <3>2 DEF Once!Visible
      <4> QED BY <1>0, <2>4, <3>2, <4>1, <4>2 DEF Once!Places
    <3>3. CASE dgo_once # Once!Done /\ dgo_once.is # "gen"
      <4>1. /\ Once!Goto(t, "park") /\ saw' = [saw EXCEPT ![t] = dgo_once'] /\ blind' = blind
            /\ dgo_once' = [dgo_once EXCEPT !.waiters = TRUE]
        BY <2>10, <3>3 DEF Once!Wait
      <4>2. dgo_once' \in Once!Words /\ dgo_once'.is = dgo_once.is /\ dgo_once'.owner = dgo_once.owner
        BY <1>0, <4>1, OnceMarked
      <4>3. saw' = [saw EXCEPT ![t] = saw'[t]] /\ saw'[t] \in Once!Words
        BY <1>0, <4>1, <4>2
      <4>4. dgo_once'.is \notin {"gen", "done", "unlocked"}
        BY <1>0, <3>0, <3>3, <4>2
      <4> QED BY <1>0, <2>4, <4>1, <4>2, <4>3, <4>4 DEF Once!Places
    <3> QED BY <3>1, <3>2, <3>3
  <2>11. CASE Once!Park(t)
    <3>1. oPc[t] = "park" /\ UNCHANGED <<dgo_once, saw, blind>>
      BY <2>11 DEF Once!Park
    <3>2. PICK w \in {"asleep", "wait"} : Once!Goto(t, w)
      BY <2>11 DEF Once!Park
    <3>3. /\ dgo_once.is # "unlocked" /\ (dgo_once.is = "gen" => Once!Covered(dgo_once.gen))
          /\ dgo_once.is = "done" => (quiescent => fresh = Threads)
      BY <1>0, <3>1 DEF Once!Gate, Once!Visible
    <3> QED BY <1>0, <2>4, <3>1, <3>2, <3>3 DEF Once!Places
  <2> QED BY <1>3, <2>2, <2>3, <2>5, <2>6, <2>7, <2>8, <2>9, <2>10, <2>11 DEF Once!Step
<1> QED BY <1>2, <1>3
--------------------------------------------------------------------------------
(* Who passed a semaphore and has not signalled yet. *)
Insiders == {t \in Threads : pc[t] = "inside"}

(* Posters do not wait, and without takers what is missing from the value is with a
   waiter or an insider. *)
Accounted ==
  /\ \A t \in Threads : role[t] = "poster" => ~Waiting(t)
  /\ (\A t \in Threads : role[t] # "taker") =>
       dsema_value + Cardinality(Waiters) + Cardinality(Insiders) >= Orig

SemaphoreInv == IInv /\ Accounted /\ BalancedDispose

LEMMA InsidersMoved ==
  ASSUME TypeOK, NEW t \in Threads, NEW w, Goto(t, w)
  PROVE  /\ Cardinality(Insiders) \in Nat /\ Cardinality(Insiders') \in Nat
         /\ Cardinality(Insiders') = Cardinality(Insiders) - (IF pc[t] = "inside" THEN 1 ELSE 0)
                                                           + (IF w = "inside" THEN 1 ELSE 0)
<1>1. Insiders \ {t} = Insiders' \ {t}
  BY DEF TypeOK, Goto, Insiders
<1>2. (t \in Insiders <=> pc[t] = "inside") /\ (t \in Insiders' <=> w = "inside")
  BY DEF TypeOK, Goto, Insiders
<1>3. Insiders \subseteq Threads /\ Insiders' \subseteq Threads
  BY DEF Insiders
<1>4. IsFiniteSet(Insiders) /\ IsFiniteSet(Insiders')
  BY <1>3, SemaphoreAssumption, FS_Subset
<1>5. Cardinality(Insiders) \in Nat /\ Cardinality(Insiders') \in Nat
  BY <1>4, FS_CardinalityType
<1>6. Cardinality(Insiders \ {t}) = IF t \in Insiders THEN Cardinality(Insiders) - 1 ELSE Cardinality(Insiders)
  BY <1>4, FS_RemoveElement
<1>7. Cardinality(Insiders' \ {t}) = IF t \in Insiders' THEN Cardinality(Insiders') - 1 ELSE Cardinality(Insiders')
  BY <1>4, FS_RemoveElement
<1>8. Cardinality(Insiders \ {t}) = Cardinality(Insiders' \ {t})
  BY <1>1
<1> QED BY <1>2, <1>5, <1>6, <1>7, <1>8

LEMMA InsidersStayed ==
  ASSUME UNCHANGED pc
  PROVE  Insiders' = Insiders
BY DEF Insiders

LEMMA SemaphoreStart == Init => SemaphoreInv
<1> SUFFICES ASSUME Init PROVE SemaphoreInv
  OBVIOUS
<1>1. Waiters = {} /\ Insiders = {}
  BY DEF Init, Waiters, Waiting, WaitPlaces, Insiders
<1>2. dsema_value + Cardinality(Waiters) + Cardinality(Insiders) >= Orig
  BY <1>1, FS_EmptySet, SemaphoreAssumption DEF Init
<1>3. \A t \in Threads : ~Waiting(t)
  BY <1>1 DEF Waiters
<1> QED BY <1>2, <1>3, Initially DEF Init, SemaphoreInv, Accounted, BalancedDispose

LEMMA AccountedStep ==
  ASSUME IInv, Accounted, [Next]_vars
  PROVE  Accounted'
<1> DEFINE nw == Cardinality(Waiters)
           ni == Cardinality(Insiders)
<1>0. /\ TypeOK /\ PortMade /\ WakeupsMatchWaiters /\ dsema_value \in Int /\ nw \in Nat /\ Orig \in Nat
      /\ UNCHANGED role
  <2>1. UNCHANGED role
    BY DEF Next, Call, Step, Signal, Wait, Create, Install, Sema4Signal, Woken, TimedOut, Load, Undo, Dispose,
           vars, client
  <2> QED BY <2>1, Counts, SemaphoreAssumption DEF IInv, TypeOK
<1>p. \A t \in Threads : role'[t] = "poster" => ~Waiting(t)'
  <2> SUFFICES ASSUME NEW u \in Threads, role[u] = "poster" PROVE pc'[u] \notin WaitPlaces
    BY <1>0 DEF Waiting
  <2>1. pc[u] \notin WaitPlaces
    BY DEF Accounted, Waiting
  <2>2. ASSUME NEW t \in Threads, NEW w, Goto(t, w), w \notin WaitPlaces \/ t # u
        PROVE  pc'[u] \notin WaitPlaces
    BY <1>0, <2>1, <2>2 DEF Goto, TypeOK
  <2>3. CASE UNCHANGED vars \/ Dispose
    BY <2>1, <2>3 DEF vars, Dispose
  <2>4. ASSUME NEW t \in Threads, Signal(t) PROVE pc'[u] \notin WaitPlaces
    BY <2>2, <2>4 DEF Signal, WaitPlaces
  <2>5. ASSUME NEW t \in Threads, NEW when \in Timeouts, Wait(t, when) PROVE pc'[u] \notin WaitPlaces
    BY <2>2, <2>5 DEF Wait, Return
  <2>6. ASSUME NEW t \in Threads, Create(t) \/ Install(t) \/ Sema4Signal(t) \/ TimedOut(t) \/ Load(t) \/ Woken(t)
        PROVE  pc'[u] \notin WaitPlaces
    <3>1. t # u \/ pc[u] \in PostPlaces
      BY <2>1, <2>6 DEF Create, Install, Sema4Signal, TimedOut, Load, Woken, WaitPlaces, PostPlaces
    <3>2. PICK w : Goto(t, w) /\ (pc[t] \in PostPlaces => w \notin WaitPlaces)
      BY <2>6 DEF Create, Install, Sema4Signal, TimedOut, Load, Woken, Return, Created, WaitPlaces, PostPlaces
    <3> QED BY <2>2, <3>1, <3>2
  <2>7. ASSUME NEW t \in Threads, Undo(t) PROVE pc'[u] \notin WaitPlaces
    <3>1. t # u
      BY <2>1, <2>7 DEF Undo, WaitPlaces
    <3> QED BY <1>0, <2>1, <2>7, <3>1 DEF Undo, Return, Goto, TypeOK
  <2> QED BY <2>3, <2>4, <2>5, <2>6, <2>7 DEF Next, Call, Step
<1> SUFFICES ASSUME \A t \in Threads : role[t] # "taker"
             PROVE  dsema_value' + Cardinality(Waiters') + Cardinality(Insiders') >= Orig
  BY <1>0, <1>p DEF Accounted
<1>1. dsema_value + nw + ni >= Orig
  BY DEF Accounted
<1>2. ASSUME UNCHANGED <<pc, dsema_value>>
      PROVE  dsema_value' + Cardinality(Waiters') + Cardinality(Insiders') >= Orig
  BY <1>1, <1>2, Stayed, InsidersStayed
<1>3. ASSUME NEW t \in Threads, NEW w, Goto(t, w), dsema_value' \in Int,
             dsema_value' + (IF w \in WaitPlaces THEN 1 ELSE 0) + (IF w = "inside" THEN 1 ELSE 0)
               >= dsema_value + (IF pc[t] \in WaitPlaces THEN 1 ELSE 0) + (IF pc[t] = "inside" THEN 1 ELSE 0)
      PROVE  dsema_value' + Cardinality(Waiters') + Cardinality(Insiders') >= Orig
  <2>1. Cardinality(Waiters') = nw - (IF pc[t] \in WaitPlaces THEN 1 ELSE 0) + (IF w \in WaitPlaces THEN 1 ELSE 0)
    BY <1>0, <1>3, Moved
  <2>2. /\ ni \in Nat
        /\ Cardinality(Insiders') = ni - (IF pc[t] = "inside" THEN 1 ELSE 0) + (IF w = "inside" THEN 1 ELSE 0)
    BY <1>0, <1>3, InsidersMoved
  <2> DEFINE a == IF pc[t] \in WaitPlaces THEN 1 ELSE 0
             b == IF w \in WaitPlaces THEN 1 ELSE 0
             c == IF pc[t] = "inside" THEN 1 ELSE 0
             d == IF w = "inside" THEN 1 ELSE 0
  <2>3. a \in Int /\ b \in Int /\ c \in Int /\ d \in Int
    OBVIOUS
  <2>4. /\ Cardinality(Waiters') = nw - a + b /\ Cardinality(Insiders') = ni - c + d
        /\ dsema_value' + b + d >= dsema_value + a + c
    BY <1>3, <2>1, <2>2
  <2> HIDE DEF a, b, c, d, nw, ni
  <2>5. \A v, x, n, i \in Int : x + b + d >= v + a + c => x + (n - a + b) + (i - c + d) >= v + n + i
    BY <2>3
  <2>6. dsema_value' + (nw - a + b) + (ni - c + d) >= Orig
    <3>1. dsema_value' + (nw - a + b) + (ni - c + d) >= dsema_value + nw + ni
      <4>1. nw \in Int /\ ni \in Int
        BY <1>0, <2>2
      <4> QED BY <1>0, <1>3, <2>4, <2>5, <4>1
    <3>2. dsema_value + nw + ni \in Int /\ dsema_value' + (nw - a + b) + (ni - c + d) \in Int /\ Orig \in Int
      BY <1>0, <1>3, <2>2, <2>3
    <3>3. \A x, y, z \in Int : x >= y /\ y >= z => x >= z
      OBVIOUS
    <3> QED BY <1>1, <3>1, <3>2, <3>3
  <2> QED BY <2>4, <2>6
<1>4. ASSUME NEW t \in Threads, NEW result \in {"success", "timeout"}, Return(t, result)
      PROVE  Goto(t, IF role[t] = "user" /\ result = "success" THEN "inside" ELSE "idle")
  BY <1>4 DEF Return
<1>5. ASSUME NEW t \in Threads, role[t] # "poster" PROVE role[t] = "user"
  BY <1>0, <1>5, SemaphoreAssumption DEF TypeOK
<1>6. CASE UNCHANGED vars \/ Dispose
  BY <1>2, <1>6 DEF vars, Dispose
<1>7. ASSUME NEW t \in Threads, Signal(t)
      PROVE  dsema_value' + Cardinality(Waiters') + Cardinality(Insiders') >= Orig
  <2>1. PICK w \in {"idle", "signal_slow"} : Goto(t, w)
    BY <1>7 DEF Signal
  <2>2. w \notin WaitPlaces /\ w # "inside" /\ pc[t] \notin WaitPlaces /\ dsema_value' = dsema_value + 1
    BY <1>7 DEF Signal, WaitPlaces
  <2> QED BY <1>0, <1>3, <2>1, <2>2
<1>8. ASSUME NEW t \in Threads, NEW when \in Timeouts, Wait(t, when)
      PROVE  dsema_value' + Cardinality(Waiters') + Cardinality(Insiders') >= Orig
  <2>1. pc[t] = "idle" /\ pc[t] \notin WaitPlaces /\ dsema_value' = dsema_value - 1 /\ role[t] = "user"
    BY <1>5, <1>8 DEF Wait, WaitPlaces
  <2>2. PICK w \in {"inside", "wait_slow"} : Goto(t, w)
    BY <1>4, <1>8, <2>1 DEF Wait
  <2>3. w = "inside" \/ w \in WaitPlaces
    BY DEF WaitPlaces
  <2> QED BY <1>0, <1>3, <2>1, <2>2, <2>3
<1>9. ASSUME NEW t \in Threads, Create(t) \/ Install(t) \/ Sema4Signal(t) \/ TimedOut(t) \/ Load(t)
      PROVE  dsema_value' + Cardinality(Waiters') + Cardinality(Insiders') >= Orig
  <2>1. PICK w : Goto(t, w) /\ (w \in WaitPlaces <=> pc[t] \in WaitPlaces)
    BY <1>9 DEF Create, Install, Sema4Signal, TimedOut, Load, Created, WaitPlaces
  <2>2. pc[t] # "inside" /\ dsema_value' = dsema_value
    BY <1>9 DEF Create, Install, Sema4Signal, TimedOut, Load
  <2> QED BY <1>0, <1>3, <2>1, <2>2
<1>10. ASSUME NEW t \in Threads, Woken(t)
       PROVE  dsema_value' + Cardinality(Waiters') + Cardinality(Insiders') >= Orig
  <2>1. pc[t] \in WaitPlaces /\ pc[t] # "inside" /\ dsema_value' = dsema_value /\ Return(t, "success")
    BY <1>10 DEF Woken, WaitPlaces
  <2>2. role[t] = "user"
    BY <1>5, <2>1 DEF Accounted, Waiting
  <2>3. Goto(t, "inside") /\ "inside" \notin WaitPlaces
    BY <1>4, <2>1, <2>2 DEF WaitPlaces
  <2> QED BY <1>0, <1>3, <2>1, <2>3
<1>11. ASSUME NEW t \in Threads, Undo(t)
       PROVE  dsema_value' + Cardinality(Waiters') + Cardinality(Insiders') >= Orig
  <2>1. pc[t] \in WaitPlaces /\ pc[t] # "inside"
    BY <1>11 DEF Undo, WaitPlaces
  <2>2. CASE Return(t, "timeout") /\ dsema_value' = dsema_value + 1
    <3>1. Goto(t, "idle")
      BY <1>4, <2>2
    <3>2. "idle" \notin WaitPlaces
      BY DEF WaitPlaces
    <3> QED BY <1>0, <1>3, <2>1, <2>2, <3>1, <3>2
  <2>3. CASE UNCHANGED <<pc, dsema_value>>
    BY <1>2, <2>3
  <2>4. CASE Goto(t, "sema4_wait") /\ UNCHANGED dsema_value
    <3>1. "sema4_wait" \in WaitPlaces
      BY DEF WaitPlaces
    <3> QED BY <1>0, <1>3, <2>1, <2>4, <3>1
  <2> QED BY <1>11, <2>2, <2>3, <2>4 DEF Undo
<1> QED BY <1>6, <1>7, <1>8, <1>9, <1>10, <1>11 DEF Next, Call, Step

LEMMA SemaphoreStep ==
  ASSUME SemaphoreInv, [Next]_vars
  PROVE  SemaphoreInv'
<1>1. IInv'
  BY TypeStep, PortStep, WakeupsStep DEF SemaphoreInv, IInv
<1>2. Accounted'
  BY AccountedStep DEF SemaphoreInv
<1>3. BalancedDispose'
  <2>1. CASE Dispose
    <3>1. Waiters = {} /\ Insiders = {}
      BY <2>1 DEF Dispose, Finished, Waiters, Waiting, WaitPlaces, Insiders
    <3>2. (\A t \in Threads : role[t] # "taker") => dsema_value >= Orig
      BY <3>1, FS_EmptySet, SemaphoreAssumption DEF SemaphoreInv, Accounted, IInv, TypeOK
    <3>3. dsema_value \in Int /\ Orig \in Nat /\ UNCHANGED role
      BY <2>1, SemaphoreAssumption DEF SemaphoreInv, IInv, TypeOK, Dispose, client
    <3> QED BY <2>1, <3>2, <3>3 DEF Dispose, BalancedDispose
  <2>2. CASE ~Dispose
    <3>1. UNCHANGED <<role, object>>
      BY <2>2 DEF Next, Call, Step, Signal, Wait, Create, Install, Sema4Signal, Woken, TimedOut, Load, Undo,
                  vars, client
    <3> QED BY <3>1 DEF SemaphoreInv, BalancedDispose
  <2> QED BY <2>1, <2>2
<1> QED BY <1>1, <1>2, <1>3 DEF SemaphoreInv
--------------------------------------------------------------------------------
(* The group.  The calls a thread has not begun, and who is where. *)
GroupCalls == {"enter", "leave", "wait", "notify", "release"}
GroupStates == [gen : Nat, value : Nat, waiters : BOOLEAN, notifs : BOOLEAN]
Waking == {"snapshot", "snapshot_tail", "submit", "wake", "release"}
Sleeping == {"wait", "asleep", "expired"}
GroupPlaces == {"call", "retain", "leave_loop", "link", "set_notifs"} \cup Waking \cup Sleeping

Ahead == [t \in Threads |-> IF gPc[t] = "call" THEN todo[t] ELSE Tail(todo[t])]
Owners == {t \in Threads : \E i \in 1..Len(todo[t]) : todo[t][i] = "release"}
Retaining == {t \in Threads : gPc[t] = "retain"}
Leaving == {t \in Threads : gPc[t] \in {"leave_loop"} \cup Waking /\ Head(todo[t]) = "leave"}
Notified == {t \in Threads : gPc[t] = "set_notifs" \/ (gPc[t] \in Waking /\ gOld[t].notifs)}

(* Whoever has to see to it that the list of notifications is taken. *)
Tokens == {t \in Threads : \/ gPc[t] = "link" /\ last[t] = Nobody
                           \/ gPc[t] \in {"set_notifs", "snapshot", "snapshot_tail"}}

GroupType ==
  /\ todo \in [Threads -> Seq(GroupCalls)] /\ dg_state \in GroupStates
  /\ gOld \in [Threads -> GroupStates] /\ gPc \in [Threads -> GroupPlaces]
  /\ \A t \in Threads : Len(todo[t]) <= MaxCalls
  /\ refs \in Int /\ tail \in (Threads \X (1..MaxCalls)) \cup {Nobody}
  /\ last \in [Threads -> (Threads \X (1..MaxCalls)) \cup {Nobody}]

(* A thread releases its reference last, or has none and only leaves. *)
Fits(s) ==
  /\ \A i \in 1..Len(s) : s[i] = "release" => i = Len(s)
  /\ (\E i \in 1..Len(s) : s[i] = "release") \/ \A i \in 1..Len(s) : s[i] = "leave"

(* What a thread does is the first of its calls. *)
Doing ==
  \A t \in Threads :
    /\ Fits(todo[t])
    /\ gPc[t] # "call" => todo[t] # <<>>
    /\ gPc[t] = "retain" => Head(todo[t]) = "enter"
    /\ gPc[t] \in Sleeping => Head(todo[t]) = "wait"
    /\ gPc[t] \in {"link", "set_notifs"} => Head(todo[t]) = "notify"
    /\ gPc[t] = "leave_loop" => Head(todo[t]) = "leave"
    /\ gPc[t] \in Waking => Head(todo[t]) \in {"leave", "notify"}

(* Enters that are not answered yet are the value; an enter that retains is one. *)
Entered ==
  /\ Cardinality(CallsOf(Ahead, "leave")) = Cardinality(CallsOf(Ahead, "enter")) + dg_state.value
  /\ Cardinality(Retaining) <= dg_state.value

(* The clients' references, those of the blocks in the group and of the last leave,
   and those of the notifications. *)
References ==
  refs = Cardinality(Owners) + Cardinality(Leaving) + Cardinality(Notified)
           + (IF dg_state.value > 0 THEN 1 ELSE 0) - Cardinality(Retaining)
           + (IF dg_state.notifs THEN 1 ELSE 0)

(* The list has notifications if the flag says so or one thread sees to it, never both. *)
Listed ==
  /\ \A t, u \in Tokens : t = u
  /\ dg_state.notifs => Tokens = {}
  /\ tail # Nobody <=> dg_state.notifs \/ Tokens # {}
  /\ head # Nobody => dg_state.notifs \/ \E t \in Threads : gPc[t] \in {"set_notifs", "snapshot"}
  /\ \A t \in Threads : gPc[t] \in {"snapshot", "snapshot_tail"} => gOld[t].notifs

(* An empty group shows waiters only until the last leave takes the flag. *)
WaitersSeen ==
  dg_state.value = 0 /\ dg_state.waiters =>
    \E t \in Threads : gPc[t] = "leave_loop" /\ gOld[t].waiters /\ gOld[t].value = 0

(* A wait that sleeps on an older generation has been through an empty group. *)
Generations ==
  /\ begun \subseteq Threads \X (1..MaxCalls) /\ emptied \subseteq begun
  /\ done \in [Threads \X (1..MaxCalls) -> {"no", "success", "timeout"}]
  /\ \A t \in Threads :
       gPc[t] \in Sleeping =>
         /\ Group!Id(t) \in begun
         /\ gOld[t].gen <= dg_state.gen
         /\ gOld[t].gen # dg_state.gen => Group!Id(t) \in emptied
  /\ WaitSawEmpty

GroupInv ==
  GroupType /\ Doing /\ Entered /\ References /\ Listed /\ WaitersSeen /\ Generations
--------------------------------------------------------------------------------
(* Words of the group's state, and what the operations make of them. *)
LEMMA GroupFields ==
  ASSUME NEW s \in GroupStates
  PROVE  s.gen \in Nat /\ s.value \in Nat /\ s.waiters \in BOOLEAN /\ s.notifs \in BOOLEAN
BY DEF GroupStates

LEMMA GroupEmpty ==
  /\ Group!Empty \in GroupStates /\ Group!Empty.gen = 0 /\ Group!Empty.value = 0
  /\ ~Group!Empty.waiters /\ ~Group!Empty.notifs
BY DEF GroupStates, Group!Empty

LEMMA GroupEntered ==
  ASSUME NEW s \in GroupStates, NEW r, r = [s EXCEPT !.value = @ + 1]
  PROVE  r \in GroupStates /\ r.value = s.value + 1 /\ r.gen = s.gen /\ r.waiters = s.waiters /\ r.notifs = s.notifs
BY DEF GroupStates

LEMMA GroupLeft ==
  ASSUME NEW s \in GroupStates, s.value > 0
  PROVE  LET r == [s EXCEPT !.value = @ - 1, !.gen = IF s.value = 1 THEN @ + 1 ELSE @] IN
         /\ r \in GroupStates /\ r.value = s.value - 1 /\ r.waiters = s.waiters /\ r.notifs = s.notifs
         /\ r.gen = IF s.value = 1 THEN s.gen + 1 ELSE s.gen
<1>1. s.value - 1 \in Nat /\ s.gen \in Nat /\ s.gen + 1 \in Nat
  BY GroupFields
<1>2. (IF s.value = 1 THEN s.gen + 1 ELSE s.gen) \in Nat
  BY <1>1
<1>3. ASSUME NEW n \in Nat, NEW g \in Nat
      PROVE  LET q == [s EXCEPT !.value = n, !.gen = g] IN
             q \in GroupStates /\ q.value = n /\ q.gen = g /\ q.waiters = s.waiters /\ q.notifs = s.notifs
  BY DEF GroupStates
<1> QED BY <1>1, <1>2, <1>3, Zenon

LEMMA GroupTaken ==
  ASSUME NEW s \in GroupStates
  PROVE  /\ Group!Taken(s) \in GroupStates /\ Group!Taken(s).gen = s.gen /\ Group!Taken(s).value = s.value
         /\ Group!Taken(s).waiters = (IF s.value = 0 THEN FALSE ELSE s.waiters) /\ ~Group!Taken(s).notifs
BY DEF GroupStates, Group!Taken

LEMMA GroupWaiters ==
  ASSUME NEW s \in GroupStates
  PROVE  LET r == [s EXCEPT !.waiters = TRUE] IN
         r \in GroupStates /\ r.value = s.value /\ r.gen = s.gen /\ r.waiters /\ r.notifs = s.notifs
BY DEF GroupStates

LEMMA GroupNotifs ==
  ASSUME NEW s \in GroupStates
  PROVE  LET r == [s EXCEPT !.notifs = TRUE] IN
         r \in GroupStates /\ r.value = s.value /\ r.gen = s.gen /\ r.waiters = s.waiters /\ r.notifs
BY DEF GroupStates
--------------------------------------------------------------------------------
(* A step of thread t: the others stay, or are woken. *)
Others(t) ==
  \A u \in Threads :
    u # t => /\ todo'[u] = todo[u] /\ gOld'[u] = gOld[u] /\ last'[u] = last[u]
             /\ gPc'[u] = gPc[u] \/ (gPc[u] = "asleep" /\ gPc'[u] = "wait")
Returned(t) == todo'[t] = Tail(todo[t]) /\ gPc'[t] = "call"
Goes(t) == todo'[t] = todo[t] /\ gPc'[t] # "call"

LEMMA GroupReturn ==
  ASSUME GroupType, NEW t \in Threads, Group!Return(t), todo[t] # <<>>
  PROVE  /\ Others(t) /\ Returned(t) /\ gOld'[t] = Group!Empty /\ last'[t] = Nobody
         /\ todo' \in [Threads -> Seq(GroupCalls)] /\ gOld' \in [Threads -> GroupStates]
         /\ gPc' \in [Threads -> GroupPlaces] /\ \A u \in Threads : Len(todo'[u]) <= MaxCalls
         /\ last' \in [Threads -> (Threads \X (1..MaxCalls)) \cup {Nobody}]
<1>1. todo[t] \in Seq(GroupCalls) /\ Tail(todo[t]) \in Seq(GroupCalls) /\ Len(Tail(todo[t])) = Len(todo[t]) - 1
  BY HeadTailProperties DEF GroupType
<1>2. Others(t) /\ Returned(t) /\ gOld'[t] = Group!Empty /\ last'[t] = Nobody
  BY DEF GroupType, Group!Return, Group!Goto, Others, Returned
<1>3. Len(Tail(todo[t])) <= MaxCalls
  <2>1. Len(todo[t]) \in Nat /\ Len(todo[t]) <= MaxCalls /\ MaxCalls \in Nat
    BY <1>1, LenProperties, GroupAssumption DEF GroupType
  <2> QED BY <1>1, <2>1
<1>4. todo' \in [Threads -> Seq(GroupCalls)] /\ \A u \in Threads : Len(todo'[u]) <= MaxCalls
  BY <1>1, <1>3 DEF GroupType, Group!Return
<1>5. /\ gOld' \in [Threads -> GroupStates] /\ gPc' \in [Threads -> GroupPlaces]
      /\ last' \in [Threads -> (Threads \X (1..MaxCalls)) \cup {Nobody}]
  BY GroupEmpty DEF GroupType, Group!Return, Group!Goto, GroupPlaces
<1> QED BY <1>2, <1>4, <1>5

LEMMA GroupGoto ==
  ASSUME GroupType, NEW t \in Threads, NEW w \in GroupPlaces, w # "call", Group!Goto(t, w), UNCHANGED todo,
         gOld' = [gOld EXCEPT ![t] = gOld'[t]], last' = [last EXCEPT ![t] = last'[t]]
  PROVE  Others(t) /\ Goes(t) /\ gPc'[t] = w /\ gPc' \in [Threads -> GroupPlaces]
BY DEF GroupType, Group!Goto, Others, Goes

(* The first call is over; what thread t does fits what it still has to do. *)
LEMMA FitsTail ==
  ASSUME NEW s \in Seq(GroupCalls), s # <<>>, Fits(s)
  PROVE  /\ Fits(Tail(s)) /\ Tail(s) \in Seq(GroupCalls) /\ Len(Tail(s)) = Len(s) - 1 /\ Len(s) \in Nat /\ Len(s) > 0
         /\ \A i \in 1..Len(Tail(s)) : Tail(s)[i] = s[i + 1]
         /\ Head(s) = s[1] /\ Head(s) \in GroupCalls
         /\ Head(s) = "release" => Len(s) = 1
         /\ Head(s) # "release" => ((\E i \in 1..Len(s) : s[i] = "release")
                                     <=> \E i \in 1..Len(Tail(s)) : Tail(s)[i] = "release")
         /\ Head(s) # "leave" => \E i \in 1..Len(s) : s[i] = "release"
<1>1. /\ Len(s) \in Nat /\ Len(s) > 0 /\ Tail(s) \in Seq(GroupCalls) /\ Len(Tail(s)) = Len(s) - 1
      /\ \A i \in 1..Len(Tail(s)) : Tail(s)[i] = s[i + 1]
  BY HeadTailProperties, LenProperties, EmptySeq
<1>2. Head(s) = s[1] /\ Head(s) \in GroupCalls
  BY HeadTailProperties
<1>3. Head(s) = "release" => Len(s) = 1
  <2>1. 1 \in 1..Len(s)
    BY <1>1
  <2> QED BY <1>2, <2>1 DEF Fits
<1>4. Head(s) # "release" => ((\E i \in 1..Len(s) : s[i] = "release")
                               <=> \E i \in 1..Len(Tail(s)) : Tail(s)[i] = "release")
  <2> SUFFICES ASSUME Head(s) # "release"
               PROVE  (\E i \in 1..Len(s) : s[i] = "release")
                         <=> \E i \in 1..Len(Tail(s)) : Tail(s)[i] = "release"
    OBVIOUS
  <2>1. ASSUME NEW i \in 1..Len(s), s[i] = "release" PROVE \E j \in 1..Len(Tail(s)) : Tail(s)[j] = "release"
    <3>1. i # 1 /\ i - 1 \in 1..Len(Tail(s)) /\ (i - 1) + 1 = i
      BY <1>1, <1>2, <2>1
    <3> QED BY <1>1, <2>1, <3>1
  <2>2. ASSUME NEW i \in 1..Len(Tail(s)), Tail(s)[i] = "release" PROVE \E j \in 1..Len(s) : s[j] = "release"
    <3>1. i + 1 \in 1..Len(s)
      BY <1>1
    <3> QED BY <1>1, <2>2, <3>1
  <2> QED BY <2>1, <2>2
<1>5. Head(s) # "leave" => \E i \in 1..Len(s) : s[i] = "release"
  <2>1. 1 \in 1..Len(s)
    BY <1>1
  <2> QED BY <1>2, <2>1 DEF Fits
<1>6. \A i \in 1..Len(Tail(s)) : Tail(s)[i] = "release" => i = Len(Tail(s))
  <2> SUFFICES ASSUME NEW i \in 1..Len(Tail(s)), Tail(s)[i] = "release" PROVE i = Len(Tail(s))
    OBVIOUS
  <2>1. i + 1 \in 1..Len(s) /\ s[i + 1] = "release"
    BY <1>1
  <2>2. i + 1 = Len(s)
    BY <2>1 DEF Fits
  <2>3. \A m, n, k \in Int : m + 1 = n /\ k = n - 1 => m = k
    OBVIOUS
  <2>4. i \in Int /\ Len(s) \in Int /\ Len(Tail(s)) \in Int /\ Len(Tail(s)) = Len(s) - 1
    BY <1>1
  <2> QED BY <2>2, <2>3, <2>4, Zenon
<1>7. (\E i \in 1..Len(Tail(s)) : Tail(s)[i] = "release") \/ \A i \in 1..Len(Tail(s)) : Tail(s)[i] = "leave"
  <2>1. CASE Head(s) = "release"
    BY <1>1, <1>3, <2>1
  <2>2. CASE Head(s) # "release" /\ \E i \in 1..Len(s) : s[i] = "release"
    BY <1>4, <2>2
  <2>3. CASE \A i \in 1..Len(s) : s[i] = "leave"
    <3>1. \A i \in 1..Len(Tail(s)) : i + 1 \in 1..Len(s)
      BY <1>1
    <3> QED BY <1>1, <2>3, <3>1
  <2> QED BY <2>1, <2>2, <2>3 DEF Fits
<1>8. Fits(Tail(s))
  BY <1>6, <1>7 DEF Fits
<1> QED BY <1>1, <1>2, <1>3, <1>4, <1>5, <1>8
--------------------------------------------------------------------------------
One(b) == IF b THEN 1 ELSE 0

(* Two finite sets that differ in at most one element. *)
LEMMA CountChange ==
  ASSUME NEW S, NEW T, NEW x, IsFiniteSet(S), IsFiniteSet(T), S \ {x} = T \ {x}
  PROVE  /\ Cardinality(S) \in Nat /\ Cardinality(T) \in Nat
         /\ Cardinality(T) = Cardinality(S) - One(x \in S) + One(x \in T)
<1>1. Cardinality(S) \in Nat /\ Cardinality(T) \in Nat
  BY FS_CardinalityType
<1>2. Cardinality(S \ {x}) = IF x \in S THEN Cardinality(S) - 1 ELSE Cardinality(S)
  BY FS_RemoveElement
<1>3. Cardinality(T \ {x}) = IF x \in T THEN Cardinality(T) - 1 ELSE Cardinality(T)
  BY FS_RemoveElement
<1>4. Cardinality(S \ {x}) = Cardinality(T \ {x})
  OBVIOUS
<1> QED BY <1>1, <1>2, <1>3, <1>4 DEF One

LEMMA Shifted ==
  ASSUME GroupType, NEW t \in Threads, Others(t)
  PROVE  /\ Cardinality(Owners) \in Nat /\ Cardinality(Leaving) \in Nat
         /\ Cardinality(Notified) \in Nat /\ Cardinality(Retaining) \in Nat
         /\ Cardinality(Owners') = Cardinality(Owners) - One(t \in Owners) + One(t \in Owners')
         /\ Cardinality(Leaving') = Cardinality(Leaving) - One(t \in Leaving) + One(t \in Leaving')
         /\ Cardinality(Notified') = Cardinality(Notified) - One(t \in Notified) + One(t \in Notified')
         /\ Cardinality(Retaining') = Cardinality(Retaining) - One(t \in Retaining) + One(t \in Retaining')
         /\ Tokens \ {t} = Tokens' \ {t}
<1>0. \A S \in SUBSET Threads : IsFiniteSet(S)
  BY SemaphoreAssumption, FS_Subset
<1>1. Owners \ {t} = Owners' \ {t} /\ Owners \in SUBSET Threads /\ Owners' \in SUBSET Threads
  BY DEF Others, Owners
<1>2. Leaving \ {t} = Leaving' \ {t} /\ Leaving \in SUBSET Threads /\ Leaving' \in SUBSET Threads
  BY DEF Others, Leaving, Waking
<1>3. Notified \ {t} = Notified' \ {t} /\ Notified \in SUBSET Threads /\ Notified' \in SUBSET Threads
  BY DEF Others, Notified, Waking
<1>4. Retaining \ {t} = Retaining' \ {t} /\ Retaining \in SUBSET Threads /\ Retaining' \in SUBSET Threads
  BY DEF Others, Retaining
<1>5. Tokens \ {t} = Tokens' \ {t}
  BY DEF Others, Tokens
<1>6. /\ Cardinality(Owners) \in Nat
      /\ Cardinality(Owners') = Cardinality(Owners) - One(t \in Owners) + One(t \in Owners')
  BY <1>0, <1>1, CountChange
<1>7. /\ Cardinality(Leaving) \in Nat
      /\ Cardinality(Leaving') = Cardinality(Leaving) - One(t \in Leaving) + One(t \in Leaving')
  BY <1>0, <1>2, CountChange
<1>8. /\ Cardinality(Notified) \in Nat
      /\ Cardinality(Notified') = Cardinality(Notified) - One(t \in Notified) + One(t \in Notified')
  BY <1>0, <1>3, CountChange
<1>9. /\ Cardinality(Retaining) \in Nat
      /\ Cardinality(Retaining') = Cardinality(Retaining) - One(t \in Retaining) + One(t \in Retaining')
  BY <1>0, <1>4, CountChange
<1> QED BY <1>5, <1>6, <1>7, <1>8, <1>9

(* The count of references changes as what t and the group hold. *)
RefsMove(t) ==
  refs' = refs + (One(t \in Owners') - One(t \in Owners)) + (One(t \in Leaving') - One(t \in Leaving))
            + (One(t \in Notified') - One(t \in Notified))
            + (One(dg_state'.value > 0) - One(dg_state.value > 0))
            - (One(t \in Retaining') - One(t \in Retaining))
            + (One(dg_state'.notifs) - One(dg_state.notifs))

LEMMA ReferencesKept ==
  ASSUME GroupType, NEW t \in Threads, Others(t), References,
         RefsMove(t)
  PROVE  References'
<1> DEFINE o == Cardinality(Owners)
           l == Cardinality(Leaving)
           n == Cardinality(Notified)
           r == Cardinality(Retaining)
<1>1. o \in Int /\ l \in Int /\ n \in Int /\ r \in Int
  BY Shifted
<1>2. refs = o + l + n + One(dg_state.value > 0) - r + One(dg_state.notifs)
  BY DEF References, One
<1>3. \A b : One(b) \in Int
  BY DEF One
<1>4. References' <=> refs' = (o - One(t \in Owners) + One(t \in Owners'))
                               + (l - One(t \in Leaving) + One(t \in Leaving'))
                               + (n - One(t \in Notified) + One(t \in Notified'))
                               + One(dg_state'.value > 0) - (r - One(t \in Retaining) + One(t \in Retaining'))
                               + One(dg_state'.notifs)
  BY Shifted DEF References, One
<1> HIDE DEF o, l, n, r
<1> QED BY <1>1, <1>2, <1>3, <1>4 DEF RefsMove

(* What t owns and has to do after a call. *)
LEMMA DoingReturned ==
  ASSUME GroupType, Doing, NEW t \in Threads, Others(t), Returned(t), todo[t] # <<>>
  PROVE  /\ Doing' /\ t \notin Leaving' /\ t \notin Notified' /\ t \notin Retaining'
         /\ Head(todo[t]) # "release" => (t \in Owners' <=> t \in Owners)
         /\ Head(todo[t]) = "release" => t \in Owners /\ t \notin Owners'
<1>0. /\ todo[t] \in Seq(GroupCalls) /\ Fits(todo[t])
  BY DEF GroupType, Doing
<1>1. Fits(todo'[t]) /\ gPc'[t] = "call"
  BY <1>0, FitsTail DEF Returned
<1>2. ASSUME NEW u \in Threads, u # t
      PROVE  /\ todo'[u] = todo[u]
             /\ gPc'[u] = gPc[u] \/ (gPc[u] = "asleep" /\ gPc'[u] = "wait")
  BY <1>2 DEF Others
<1>3. Doing'
  BY <1>1, <1>2 DEF Doing, Waking, Sleeping
<1>4. t \notin Leaving' /\ t \notin Notified' /\ t \notin Retaining'
  BY <1>1 DEF Leaving, Notified, Retaining, Waking
<1>5. Head(todo[t]) # "release" => (t \in Owners' <=> t \in Owners)
  <2> SUFFICES ASSUME Head(todo[t]) # "release" PROVE t \in Owners' <=> t \in Owners
    OBVIOUS
  <2>1. (\E i \in 1..Len(todo[t]) : todo[t][i] = "release")
           <=> \E i \in 1..Len(Tail(todo[t])) : Tail(todo[t])[i] = "release"
    BY <1>0, FitsTail
  <2> QED BY <2>1 DEF Owners, Returned
<1>6. Head(todo[t]) = "release" => t \in Owners /\ t \notin Owners'
  <2> SUFFICES ASSUME Head(todo[t]) = "release" PROVE t \in Owners /\ t \notin Owners'
    OBVIOUS
  <2>1. Len(Tail(todo[t])) = 0 /\ 1 \in 1..Len(todo[t]) /\ todo[t][1] = "release"
    BY <1>0, FitsTail
  <2>2. Len(todo'[t]) = 0 /\ 1..0 = {}
    BY <2>1 DEF Returned
  <2>3. t \in Owners
    BY <2>1 DEF Owners
  <2> QED BY <2>2, <2>3 DEF Owners
<1> QED BY <1>3, <1>4, <1>5, <1>6

LEMMA DoingGoes ==
  ASSUME GroupType, Doing, NEW t \in Threads, Others(t), Goes(t), todo[t] # <<>>,
         gPc'[t] = "retain" => Head(todo[t]) = "enter",
         gPc'[t] \in Sleeping => Head(todo[t]) = "wait",
         gPc'[t] \in {"link", "set_notifs"} => Head(todo[t]) = "notify",
         gPc'[t] = "leave_loop" => Head(todo[t]) = "leave",
         gPc'[t] \in Waking => Head(todo[t]) \in {"leave", "notify"}
  PROVE  Doing' /\ (t \in Owners' <=> t \in Owners)
<1>1. todo'[t] = todo[t]
  BY DEF Goes
<1>2. ASSUME NEW u \in Threads, u # t
      PROVE  /\ todo'[u] = todo[u]
             /\ gPc'[u] = gPc[u] \/ (gPc[u] = "asleep" /\ gPc'[u] = "wait")
  BY <1>2 DEF Others
<1>3. Doing'
  BY <1>1, <1>2 DEF Doing, Waking, Sleeping
<1> QED BY <1>1, <1>3 DEF Owners
--------------------------------------------------------------------------------
(* The calls that are ahead: one fewer when a call begins, the same otherwise. *)
LEMMA CallsFinite ==
  ASSUME NEW p, NEW what
  PROVE  IsFiniteSet(CallsOf(p, what)) /\ Cardinality(CallsOf(p, what)) \in Nat
<1>1. IsFiniteSet(Threads) /\ IsFiniteSet(1..MaxCalls)
  BY SemaphoreAssumption, GroupAssumption, FS_Interval
<1>2. IsFiniteSet(Threads \X (1..MaxCalls))
  BY <1>1, FS_Product
<1>3. CallsOf(p, what) \subseteq Threads \X (1..MaxCalls)
  BY DEF CallsOf
<1> QED BY <1>2, <1>3, FS_Subset, FS_CardinalityType

LEMMA CallsTail ==
  ASSUME NEW p \in [Threads -> Seq(GroupCalls)], NEW t \in Threads, NEW what,
         p[t] # <<>>, Len(p[t]) <= MaxCalls
  PROVE  Cardinality(CallsOf([p EXCEPT ![t] = Tail(p[t])], what))
           = Cardinality(CallsOf(p, what)) - (IF Head(p[t]) = what THEN 1 ELSE 0)
<1> DEFINE n == Len(p[t])
           q == [p EXCEPT ![t] = Tail(p[t])]
<1>1. /\ p[t] \in Seq(GroupCalls) /\ n \in Nat /\ n > 0 /\ n <= MaxCalls /\ MaxCalls \in Nat
      /\ Len(q[t]) = n - 1 /\ q[t] = Tail(p[t]) /\ \A u \in Threads : u # t => q[u] = p[u]
  BY HeadTailProperties, EmptySeq, GroupAssumption
<1>2. (\A i \in 1..(n - 1) : q[t][i] = p[t][i + 1]) /\ Head(p[t]) = p[t][1]
  <2>1. \A i \in 1..Len(Tail(p[t])) : Tail(p[t])[i] = p[t][i + 1]
    BY <1>1, HeadTailProperties
  <2> QED BY <1>1, <2>1
<1>3. ASSUME NEW c \in Threads \X (1..MaxCalls), c # <<t, n>>
      PROVE  c \in CallsOf(p, what) <=> c \in CallsOf(q, what)
  <2>1. PICK u \in Threads, k \in 1..MaxCalls : c = <<u, k>> /\ c[1] = u /\ c[2] = k
    OBVIOUS
  <2>2. CASE u # t
    BY <1>1, <2>1, <2>2 DEF CallsOf
  <2>3. CASE u = t
    <3>1. k # n
      BY <1>3, <2>1, <2>3, Zenon
    <3>2. (k <= n <=> k <= n - 1) /\ (k <= n - 1 => n - k \in 1..(n - 1) /\ n - k + 1 = n + 1 - k /\ n - 1 + 1 - k = n - k)
      <4>1. \A m \in Nat, i \in 1..MaxCalls : i # m =>
              (i <= m <=> i <= m - 1) /\ (i <= m - 1 => m - i \in 1..(m - 1) /\ m - i + 1 = m + 1 - i /\ m - 1 + 1 - i = m - i)
        BY GroupAssumption
      <4>2. n \in Nat
        BY <1>1
      <4> QED BY <3>1, <4>1, <4>2, Zenon
    <3>3. k <= n - 1 => q[t][n - 1 + 1 - k] = p[t][n + 1 - k]
      BY <1>2, <3>2
    <3> QED BY <1>1, <2>1, <2>3, <3>2, <3>3 DEF CallsOf
  <2> QED BY <2>2, <2>3
<1>4. <<t, n>> \in Threads \X (1..MaxCalls) /\ n + 1 - n = 1 /\ ~(n <= n - 1)
  BY <1>1
<1>5. <<t, n>> \in CallsOf(p, what) <=> Head(p[t]) = what
  BY <1>1, <1>2, <1>4 DEF CallsOf
<1>6. <<t, n>> \notin CallsOf(q, what)
  BY <1>1, <1>4 DEF CallsOf
<1>7. CallsOf(p, what) \subseteq Threads \X (1..MaxCalls) /\ CallsOf(q, what) \subseteq Threads \X (1..MaxCalls)
  BY DEF CallsOf
<1>8. CallsOf(p, what) \ {<<t, n>>} = CallsOf(q, what) \ {<<t, n>>}
  BY <1>3, <1>7
<1>9. PICK x : x = <<t, n>>
  OBVIOUS
<1>10. /\ Cardinality(CallsOf(p, what)) \in Nat
       /\ Cardinality(CallsOf(q, what))
            = Cardinality(CallsOf(p, what)) - One(x \in CallsOf(p, what)) + One(x \in CallsOf(q, what))
  <2>1. CallsOf(p, what) \ {x} = CallsOf(q, what) \ {x}
    BY <1>8, <1>9, Zenon
  <2> QED BY <2>1, CallsFinite, CountChange
<1>11. (x \in CallsOf(p, what) <=> Head(p[t]) = what) /\ x \notin CallsOf(q, what)
  BY <1>5, <1>6, <1>9, Zenon
<1> QED BY <1>10, <1>11 DEF One

LEMMA AheadSeqs ==
  ASSUME GroupType, Doing
  PROVE  Ahead \in [Threads -> Seq(GroupCalls)]
BY HeadTailProperties DEF GroupType, Doing, Ahead

(* A call begins. *)
LEMMA EnteredBegun ==
  ASSUME GroupType, Doing, Entered, NEW t \in Threads, Others(t), gPc[t] = "call", todo[t] # <<>>,
         Returned(t) \/ Goes(t), dg_state'.value \in Nat,
         dg_state'.value = dg_state.value + One(Head(todo[t]) = "enter") - One(Head(todo[t]) = "leave"),
         Cardinality(Retaining) + One(t \in Retaining') <= dg_state'.value
  PROVE  Entered'
<1>0. Ahead \in [Threads -> Seq(GroupCalls)] /\ Ahead[t] = todo[t] /\ Len(todo[t]) <= MaxCalls
  BY AheadSeqs DEF Ahead, GroupType
<1>1. Ahead' = [Ahead EXCEPT ![t] = Tail(Ahead[t])]
  <2>1. ASSUME NEW u \in Threads
        PROVE  (IF gPc'[u] = "call" THEN todo'[u] ELSE Tail(todo'[u]))
                  = IF u = t THEN Tail(todo[t]) ELSE IF gPc[u] = "call" THEN todo[u] ELSE Tail(todo[u])
    BY DEF Others, Returned, Goes
  <2> QED BY <1>0, <2>1 DEF Ahead
<1>2. ASSUME NEW what
      PROVE  /\ Cardinality(CallsOf(Ahead, what)) \in Nat
             /\ Cardinality(CallsOf(Ahead', what)) = Cardinality(CallsOf(Ahead, what)) - One(Head(todo[t]) = what)
  <2>1. /\ Ahead \in [Threads -> Seq(GroupCalls)] /\ Ahead[t] # <<>> /\ Len(Ahead[t]) <= MaxCalls
        /\ Ahead[t] = todo[t]
    BY <1>0
  <2>2. Cardinality(CallsOf(Ahead', what)) = Cardinality(CallsOf(Ahead, what)) - (IF Head(Ahead[t]) = what THEN 1 ELSE 0)
    <3>1. Cardinality(CallsOf([Ahead EXCEPT ![t] = Tail(Ahead[t])], what))
            = Cardinality(CallsOf(Ahead, what)) - (IF Head(Ahead[t]) = what THEN 1 ELSE 0)
      BY <2>1, CallsTail
    <3> QED BY <1>1, <3>1, Zenon
  <2> QED BY <2>1, <2>2, CallsFinite DEF One
<1>3. CallsOf(Ahead, "leave")' = CallsOf(Ahead', "leave") /\ CallsOf(Ahead, "enter")' = CallsOf(Ahead', "enter")
  BY DEF CallsOf
<1>4. Cardinality(Retaining') <= dg_state'.value
  <2>1. t \notin Retaining
    BY DEF Retaining
  <2>2. Cardinality(Retaining') = Cardinality(Retaining) - One(t \in Retaining) + One(t \in Retaining')
    BY Shifted
  <2>3. Cardinality(Retaining) \in Nat
    BY Shifted
  <2> QED BY <2>1, <2>2, <2>3 DEF One
<1>5. dg_state.value \in Nat
  BY GroupFields DEF GroupType
<1>6. Cardinality(CallsOf(Ahead', "leave")) = Cardinality(CallsOf(Ahead', "enter")) + dg_state'.value
  <2> DEFINE a == Cardinality(CallsOf(Ahead, "leave"))
             b == Cardinality(CallsOf(Ahead, "enter"))
             d == One(Head(todo[t]) = "leave")
             e == One(Head(todo[t]) = "enter")
  <2>1. /\ a \in Nat /\ b \in Nat /\ d \in Int /\ e \in Int /\ a = b + dg_state.value
        /\ dg_state'.value = dg_state.value + e - d
        /\ Cardinality(CallsOf(Ahead', "leave")) = a - d /\ Cardinality(CallsOf(Ahead', "enter")) = b - e
    <3>1. d \in Int /\ e \in Int
      BY DEF One
    <3>2. a \in Nat /\ b \in Nat
      BY <1>2
    <3>3. a = b + dg_state.value
      BY DEF Entered
    <3>4. Cardinality(CallsOf(Ahead', "leave")) = a - d /\ Cardinality(CallsOf(Ahead', "enter")) = b - e
      BY <1>2
    <3> QED BY <3>1, <3>2, <3>3, <3>4
  <2> HIDE DEF a, b, d, e
  <2> QED BY <1>5, <2>1
<1> QED BY <1>3, <1>4, <1>6 DEF Entered

(* A call goes on or ends. *)
LEMMA EnteredKept ==
  ASSUME GroupType, Doing, Entered, NEW t \in Threads, Others(t), gPc[t] # "call",
         Returned(t) \/ Goes(t), dg_state'.value = dg_state.value, t \notin Retaining'
  PROVE  Entered'
<1>1. Ahead' = Ahead
  <2>1. ASSUME NEW u \in Threads
        PROVE  (IF gPc'[u] = "call" THEN todo'[u] ELSE Tail(todo'[u]))
                  = IF gPc[u] = "call" THEN todo[u] ELSE Tail(todo[u])
    BY DEF Others, Returned, Goes
  <2> QED BY <2>1 DEF Ahead
<1>2. CallsOf(Ahead, "leave")' = CallsOf(Ahead, "leave") /\ CallsOf(Ahead, "enter")' = CallsOf(Ahead, "enter")
  BY <1>1 DEF CallsOf
<1>3. Cardinality(Retaining') <= dg_state'.value
  <2>1. Cardinality(Retaining') = Cardinality(Retaining) - One(t \in Retaining) + One(t \in Retaining')
    BY Shifted
  <2>2. Cardinality(Retaining) \in Nat /\ dg_state.value \in Nat
    BY Shifted, GroupFields DEF GroupType
  <2> QED BY <2>1, <2>2 DEF One, Entered
<1> QED BY <1>2, <1>3 DEF Entered
--------------------------------------------------------------------------------
(* A step that leaves the list and the flag alone, and the duty to take the list. *)
LEMMA ListedKept ==
  ASSUME GroupType, Listed, NEW t \in Threads, Others(t), t \in Tokens' <=> t \in Tokens,
         tail' # Nobody <=> tail # Nobody, head' = head, dg_state'.notifs = dg_state.notifs,
         gPc[t] \in {"set_notifs", "snapshot"} => gPc'[t] \in {"set_notifs", "snapshot"},
         gPc'[t] \in {"snapshot", "snapshot_tail"} => gOld'[t].notifs
  PROVE  Listed'
<1>1. Tokens' = Tokens
  <2>1. Tokens \ {t} = Tokens' \ {t}
    BY Shifted
  <2> QED BY <2>1
<1>2. head' # Nobody => dg_state'.notifs \/ \E u \in Threads : gPc'[u] \in {"set_notifs", "snapshot"}
  BY DEF Listed, Others
<1>3. \A u \in Threads : gPc'[u] \in {"snapshot", "snapshot_tail"} => gOld'[u].notifs
  BY DEF Listed, Others
<1> QED BY <1>1, <1>2, <1>3 DEF Listed

(* A step that shows no waiters in an empty group, by no leave. *)
LEMMA WaitersKept ==
  ASSUME WaitersSeen, NEW t \in Threads, Others(t), gPc[t] # "leave_loop",
         dg_state'.value = 0 /\ dg_state'.waiters => dg_state.value = 0 /\ dg_state.waiters
  PROVE  WaitersSeen'
<1> SUFFICES ASSUME dg_state'.value = 0 /\ dg_state'.waiters
             PROVE  \E u \in Threads : gPc'[u] = "leave_loop" /\ gOld'[u].waiters /\ gOld'[u].value = 0
  BY DEF WaitersSeen
<1>1. PICK u \in Threads : gPc[u] = "leave_loop" /\ gOld[u].waiters /\ gOld[u].value = 0
  BY DEF WaitersSeen
<1>2. u # t
  BY <1>1
<1>3. gPc'[u] = "leave_loop" /\ gOld'[u] = gOld[u]
  BY <1>1, <1>2 DEF Others
<1> QED BY <1>1, <1>3

LEMMA GroupIds ==
  /\ Group!CallIds = Threads \X (1..MaxCalls)
  /\ WaitSawEmpty <=> \A c \in Threads \X (1..MaxCalls) : done[c] = "success" => c \in emptied
  /\ WaitSawEmpty' <=> \A c \in Threads \X (1..MaxCalls) : done'[c] = "success" => c \in emptied'
<1>1. Group!CallIds = Threads \X (1..MaxCalls)
  BY DEF Group!CallIds
<1>2. WaitSawEmpty <=> \A c \in Threads \X (1..MaxCalls) : done[c] = "success" => c \in emptied
  BY <1>1, Zenon DEF WaitSawEmpty, Group!WaitSawEmpty
<1>3. WaitSawEmpty' <=> \A c \in Threads \X (1..MaxCalls) : done'[c] = "success" => c \in emptied'
  BY DEF WaitSawEmpty, Group!WaitSawEmpty, Group!CallIds
<1> QED BY <1>1, <1>2, <1>3

LEMMA GroupId ==
  ASSUME GroupType, NEW t \in Threads, todo[t] # <<>>
  PROVE  Group!Id(t) \in Threads \X (1..MaxCalls) /\ Group!Id(t) = <<t, Len(todo[t])>>
<1>1. Len(todo[t]) \in Nat \ {0} /\ Len(todo[t]) <= MaxCalls /\ MaxCalls \in Nat
  BY EmptySeq, GroupAssumption DEF GroupType
<1> QED BY <1>1 DEF Group!Id

(* Nothing is begun or emptied, and sleepers go on sleeping. *)
LEMMA GenerationsKept ==
  ASSUME GroupType, Generations, NEW t \in Threads, Others(t), dg_state.gen \in Nat,
         dg_state'.gen \in Nat, dg_state.gen <= dg_state'.gen,
         begun \subseteq begun', emptied \subseteq emptied', emptied' \subseteq begun',
         begun' \subseteq Threads \X (1..MaxCalls),
         dg_state'.gen # dg_state.gen => emptied' = begun',
         done' \in [Threads \X (1..MaxCalls) -> {"no", "success", "timeout"}],
         \A c \in Threads \X (1..MaxCalls) : done'[c] = "success" => done[c] = "success" \/ c \in emptied',
         gPc'[t] \in Sleeping =>
           /\ Goes(t) /\ Group!Id(t) \in begun' /\ gOld'[t].gen <= dg_state'.gen
           /\ gOld'[t].gen # dg_state'.gen => Group!Id(t) \in emptied'
  PROVE  Generations'
<1>1. ASSUME NEW u \in Threads, gPc'[u] \in Sleeping
      PROVE  /\ Group!Id(u)' \in begun' /\ gOld'[u].gen <= dg_state'.gen
             /\ gOld'[u].gen # dg_state'.gen => Group!Id(u)' \in emptied'
  <2>1. CASE u = t
    BY <1>1, <2>1 DEF Goes, Group!Id
  <2>2. CASE u # t
    <3>1. gPc[u] \in Sleeping /\ todo'[u] = todo[u] /\ gOld'[u] = gOld[u]
      BY <1>1, <2>2 DEF Others, Sleeping
    <3>2. /\ Group!Id(u) \in begun /\ gOld[u].gen <= dg_state.gen
          /\ gOld[u].gen # dg_state.gen => Group!Id(u) \in emptied
      BY <3>1 DEF Generations
    <3>3. gOld[u].gen \in Nat
      BY GroupFields DEF GroupType
    <3>4. Group!Id(u)' = Group!Id(u)
      BY <3>1 DEF Group!Id
    <3>5. gOld'[u].gen <= dg_state'.gen
      BY <3>1, <3>2, <3>3
    <3>6. gOld'[u].gen # dg_state'.gen => Group!Id(u) \in emptied'
      BY <3>1, <3>2
    <3> QED BY <3>2, <3>4, <3>5, <3>6
  <2> QED BY <2>1, <2>2
<1>2. WaitSawEmpty'
  BY GroupIds DEF Generations
<1> QED BY <1>1, <1>2 DEF Generations
--------------------------------------------------------------------------------
LEMMA GroupFacts ==
  ASSUME GroupInv
  PROVE  /\ GroupType /\ Doing /\ Entered /\ References /\ Listed /\ WaitersSeen /\ Generations
         /\ dg_state \in GroupStates /\ dg_state.gen \in Nat /\ dg_state.value \in Nat
         /\ refs \in Int /\ Cardinality(Retaining) \in Nat
         /\ begun \subseteq Threads \X (1..MaxCalls) /\ emptied \subseteq begun
         /\ done \in [Threads \X (1..MaxCalls) -> {"no", "success", "timeout"}]
<1>1. GroupType /\ Doing /\ Entered /\ References /\ Listed /\ WaitersSeen /\ Generations
  BY DEF GroupInv
<1>2. dg_state \in GroupStates /\ dg_state.gen \in Nat /\ dg_state.value \in Nat /\ refs \in Int
  BY <1>1, GroupFields DEF GroupType
<1>3. Retaining \subseteq Threads
  BY DEF Retaining
<1>4. Cardinality(Retaining) \in Nat
  BY <1>3, SemaphoreAssumption, FS_Subset, FS_CardinalityType
<1>5. /\ begun \subseteq Threads \X (1..MaxCalls) /\ emptied \subseteq begun
      /\ done \in [Threads \X (1..MaxCalls) -> {"no", "success", "timeout"}]
  BY <1>1 DEF Generations
<1> QED BY <1>1, <1>2, <1>4, <1>5

LEMMA EnterKeeps ==
  ASSUME GroupInv, NEW t \in Threads, Group!Enter(t)
  PROVE  GroupInv'
<1>0. /\ GroupType /\ Doing /\ Entered /\ References /\ Listed /\ WaitersSeen /\ Generations
      /\ dg_state \in GroupStates /\ dg_state.gen \in Nat /\ dg_state.value \in Nat
      /\ refs \in Int /\ Cardinality(Retaining) \in Nat
      /\ begun \subseteq Threads \X (1..MaxCalls) /\ emptied \subseteq begun
      /\ done \in [Threads \X (1..MaxCalls) -> {"no", "success", "timeout"}]
  BY GroupFacts
<1>1. /\ gPc[t] = "call" /\ todo[t] # <<>> /\ Head(todo[t]) = "enter" /\ begun' = begun
      /\ dg_state' = [dg_state EXCEPT !.value = @ + 1]
      /\ emptied' = IF dg_state'.value = 0 THEN begun' ELSE emptied
      /\ UNCHANGED <<head, tail, refs, done>>
  BY DEF Group!Enter, Group!Calling, Group!Note
<1>2. /\ dg_state' \in GroupStates /\ dg_state'.value = dg_state.value + 1 /\ dg_state'.gen = dg_state.gen
      /\ dg_state'.waiters = dg_state.waiters /\ dg_state'.notifs = dg_state.notifs
  BY <1>0, <1>1, GroupEntered
<1>3. emptied' = emptied /\ dg_state'.value \in Nat /\ dg_state'.value > 0
  BY <1>0, <1>1, <1>2
<1>4. t \notin Retaining /\ t \notin Leaving /\ t \notin Notified /\ t \notin Tokens
  BY <1>1 DEF Retaining, Leaving, Notified, Tokens, Waking
<1>5. ASSUME GroupType', Doing', Others(t), Returned(t) \/ Goes(t), t \in Owners' <=> t \in Owners,
             gPc'[t] \in {"call", "retain"}, gPc'[t] = "retain" <=> dg_state.value = 0
      PROVE  GroupInv'
  <2>1. /\ t \notin Leaving' /\ t \notin Notified' /\ t \notin Tokens'
        /\ t \in Retaining' <=> dg_state.value = 0
    BY <1>5 DEF Retaining, Leaving, Notified, Tokens, Waking
  <2>2. Entered'
    <3>1. dg_state'.value = dg_state.value + One(Head(todo[t]) = "enter") - One(Head(todo[t]) = "leave")
      BY <1>0, <1>1, <1>2 DEF One
    <3>2. Cardinality(Retaining) + One(t \in Retaining') <= dg_state'.value
      BY <1>0, <1>2, <2>1 DEF Entered, One
    <3> QED BY <1>0, <1>1, <1>3, <1>5, <3>1, <3>2, EnteredBegun
  <2>3. References'
    <3>1. RefsMove(t)
      BY <1>0, <1>1, <1>2, <1>3, <1>4, <1>5, <2>1 DEF RefsMove, One
    <3> QED BY <1>0, <1>5, <3>1, ReferencesKept
  <2>4. Listed'
    BY <1>0, <1>1, <1>2, <1>4, <1>5, <2>1, ListedKept
  <2>5. WaitersSeen'
    BY <1>0, <1>1, <1>3, <1>5, WaitersKept
  <2>6. Generations'
    <3>1. gPc'[t] \notin Sleeping
      BY <1>5 DEF Sleeping
    <3> QED BY <1>0, <1>1, <1>2, <1>3, <1>5, <3>1, GenerationsKept
  <2> QED BY <1>5, <2>2, <2>4, <2>3, <2>5, <2>6 DEF GroupInv
<1>6. CASE dg_state.value = 0
  <2>1. Group!Goto(t, "retain") /\ UNCHANGED <<todo, gOld, last>>
    BY <1>6 DEF Group!Enter
  <2>2. gOld' = [gOld EXCEPT ![t] = gOld'[t]] /\ last' = [last EXCEPT ![t] = last'[t]] /\ "retain" \in GroupPlaces
    BY <1>0, <2>1 DEF GroupType, GroupPlaces
  <2>3. Others(t) /\ Goes(t) /\ gPc'[t] = "retain" /\ gPc' \in [Threads -> GroupPlaces]
    BY <1>0, <2>1, <2>2, GroupGoto
  <2>4. GroupType'
    BY <1>0, <1>1, <1>2, <2>1, <2>3 DEF GroupType
  <2>5. Doing' /\ (t \in Owners' <=> t \in Owners)
    BY <1>0, <1>1, <2>3, DoingGoes DEF Waking, Sleeping
  <2> QED BY <1>5, <1>6, <2>3, <2>4, <2>5
<1>7. CASE dg_state.value # 0
  <2>1. Group!Return(t)
    BY <1>7 DEF Group!Enter
  <2>2. Others(t) /\ Returned(t) /\ gPc'[t] = "call"
    BY <1>0, <1>1, <2>1, GroupReturn DEF Returned
  <2>3. GroupType'
    BY <1>0, <1>1, <1>2, <2>1, GroupReturn DEF GroupType
  <2>4. Doing' /\ (t \in Owners' <=> t \in Owners)
    BY <1>0, <1>1, <2>2, DoingReturned
  <2> QED BY <1>5, <1>7, <2>2, <2>3, <2>4
<1> QED BY <1>6, <1>7

LEMMA RetainKeeps ==
  ASSUME GroupInv, NEW t \in Threads, Group!Retain(t)
  PROVE  GroupInv'
<1>0. /\ GroupType /\ Doing /\ Entered /\ References /\ Listed /\ WaitersSeen /\ Generations
      /\ dg_state.gen \in Nat /\ refs \in Int
      /\ begun \subseteq Threads \X (1..MaxCalls) /\ emptied \subseteq begun
      /\ done \in [Threads \X (1..MaxCalls) -> {"no", "success", "timeout"}]
  BY GroupFacts
<1>1. /\ gPc[t] = "retain" /\ todo[t] # <<>> /\ Head(todo[t]) = "enter" /\ refs' = refs + 1 /\ Group!Return(t)
      /\ UNCHANGED <<dg_state, head, tail, begun, emptied, done>>
  BY <1>0 DEF Group!Retain, Group!history, Doing
<1>2. Others(t) /\ Returned(t) /\ gPc'[t] = "call"
  BY <1>0, <1>1, GroupReturn DEF Returned
<1>3. GroupType'
  BY <1>0, <1>1, GroupReturn DEF GroupType
<1>4. /\ Doing' /\ t \notin Leaving' /\ t \notin Notified' /\ t \notin Retaining' /\ t \notin Tokens'
      /\ t \in Owners' <=> t \in Owners
  BY <1>0, <1>1, <1>2, DoingReturned DEF Tokens
<1>5. t \in Retaining /\ t \notin Leaving /\ t \notin Notified /\ t \notin Tokens
  BY <1>1 DEF Retaining, Leaving, Notified, Tokens, Waking
<1>6. Entered'
  BY <1>0, <1>1, <1>2, <1>4, EnteredKept
<1>7. References'
  <2>1. RefsMove(t)
    BY <1>0, <1>1, <1>4, <1>5 DEF RefsMove, One
  <2> QED BY <1>0, <1>2, <2>1, ReferencesKept
<1>8. Listed'
  BY <1>0, <1>1, <1>2, <1>4, <1>5, ListedKept
<1>9. WaitersSeen'
  BY <1>0, <1>1, <1>2, WaitersKept
<1>10. Generations'
  <2>1. gPc'[t] \notin Sleeping
    BY <1>2 DEF Sleeping
  <2> QED BY <1>0, <1>1, <1>2, <2>1, GenerationsKept
<1> QED BY <1>3, <1>4, <1>6, <1>7, <1>8, <1>9, <1>10 DEF GroupInv

LEMMA GroupCardinality ==
  ASSUME NEW S
  PROVE  Group!Cardinality(S) = Cardinality(S)
BY DEF Group!Cardinality, Cardinality

LEMMA LeaveKeeps ==
  ASSUME GroupInv, NEW t \in Threads, Group!Leave(t)
  PROVE  GroupInv'
<1>0. /\ GroupType /\ Doing /\ Entered /\ References /\ Listed /\ WaitersSeen /\ Generations
      /\ dg_state \in GroupStates /\ dg_state.gen \in Nat /\ dg_state.value \in Nat
      /\ refs \in Int /\ Cardinality(Retaining) \in Nat
      /\ begun \subseteq Threads \X (1..MaxCalls) /\ emptied \subseteq begun
      /\ done \in [Threads \X (1..MaxCalls) -> {"no", "success", "timeout"}]
  BY GroupFacts
<1>1. /\ gPc[t] = "call" /\ todo[t] # <<>> /\ Head(todo[t]) = "leave" /\ begun' = begun
      /\ dg_state' = [dg_state EXCEPT !.value = @ - 1, !.gen = IF dg_state.value = 1 THEN @ + 1 ELSE @]
      /\ emptied' = IF dg_state'.value = 0 THEN begun' ELSE emptied
      /\ dg_state.value > Cardinality(Retaining)
      /\ UNCHANGED <<head, tail, refs, done>>
  <2>1. dg_state.value > Group!Cardinality(Retaining)
    BY DEF Group!Leave, Retaining
  <2>2. dg_state.value > Cardinality(Retaining)
    BY <2>1, GroupCardinality, Zenon
  <2> QED BY <2>2 DEF Group!Leave, Group!Calling, Group!Note
<1>2. /\ dg_state' \in GroupStates /\ dg_state'.value = dg_state.value - 1
      /\ dg_state'.gen = IF dg_state.value = 1 THEN dg_state.gen + 1 ELSE dg_state.gen
      /\ dg_state'.waiters = dg_state.waiters /\ dg_state'.notifs = dg_state.notifs
  <2>1. dg_state \in GroupStates /\ dg_state.value > 0
    BY <1>0, <1>1
  <2> QED BY <1>1, <2>1, GroupLeft, Zenon
<1>3. /\ dg_state'.value \in Nat /\ dg_state'.gen \in Nat /\ dg_state.gen <= dg_state'.gen
      /\ dg_state'.gen # dg_state.gen => emptied' = begun'
      /\ emptied \subseteq emptied' /\ emptied' \subseteq begun'
  BY <1>0, <1>1, <1>2
<1>4. t \notin Retaining /\ t \notin Leaving /\ t \notin Notified /\ t \notin Tokens
  BY <1>1 DEF Retaining, Leaving, Notified, Tokens, Waking
<1>5. ASSUME GroupType', Doing', Others(t), Returned(t) \/ Goes(t), t \in Owners' <=> t \in Owners,
             gPc'[t] \in {"call", "leave_loop"}, t \in Leaving' <=> dg_state'.value = 0, WaitersSeen'
      PROVE  GroupInv'
  <2>1. t \notin Retaining' /\ t \notin Notified' /\ t \notin Tokens'
    BY <1>5 DEF Retaining, Notified, Tokens, Waking
  <2>2. Entered'
    <3>1. dg_state'.value = dg_state.value + One(Head(todo[t]) = "enter") - One(Head(todo[t]) = "leave")
      BY <1>0, <1>1, <1>2 DEF One
    <3>2. Cardinality(Retaining) + One(t \in Retaining') <= dg_state'.value
      BY <1>0, <1>1, <1>2, <2>1 DEF One
    <3> QED BY <1>0, <1>1, <1>3, <1>5, <3>1, <3>2, EnteredBegun
  <2>3. References'
    <3>1. RefsMove(t)
      BY <1>0, <1>1, <1>2, <1>3, <1>4, <1>5, <2>1 DEF RefsMove, One
    <3> QED BY <1>0, <1>5, <3>1, ReferencesKept
  <2>4. Listed'
    BY <1>0, <1>1, <1>2, <1>4, <1>5, <2>1, ListedKept
  <2>5. Generations'
    <3>1. gPc'[t] \notin Sleeping
      BY <1>5 DEF Sleeping
    <3> QED BY <1>0, <1>1, <1>2, <1>3, <1>5, <3>1, GenerationsKept
  <2> QED BY <1>5, <2>2, <2>4, <2>3, <2>5 DEF GroupInv
<1>6. CASE dg_state'.value = 0
  <2>1. Group!Goto(t, "leave_loop") /\ gOld' = [gOld EXCEPT ![t] = dg_state'] /\ UNCHANGED <<todo, last>>
    BY <1>1, <1>6 DEF Group!Leave
  <2>2. /\ gOld' = [gOld EXCEPT ![t] = gOld'[t]] /\ last' = [last EXCEPT ![t] = last'[t]]
        /\ gOld'[t] = dg_state' /\ "leave_loop" \in GroupPlaces
    BY <1>0, <2>1 DEF GroupType, GroupPlaces
  <2>3. Others(t) /\ Goes(t) /\ gPc'[t] = "leave_loop" /\ gPc' \in [Threads -> GroupPlaces]
    BY <1>0, <2>1, <2>2, GroupGoto
  <2>4. GroupType'
    BY <1>0, <1>1, <1>2, <2>1, <2>3 DEF GroupType
  <2>5. Doing' /\ (t \in Owners' <=> t \in Owners)
    BY <1>0, <1>1, <2>3, DoingGoes DEF Waking, Sleeping
  <2>6. t \in Leaving'
    BY <1>1, <2>1, <2>3 DEF Leaving
  <2>7. WaitersSeen'
    BY <1>6, <2>2, <2>3 DEF WaitersSeen
  <2> QED BY <1>5, <1>6, <2>3, <2>4, <2>5, <2>6, <2>7
<1>7. CASE dg_state'.value # 0
  <2>1. Group!Return(t)
    BY <1>1, <1>7 DEF Group!Leave
  <2>2. Others(t) /\ Returned(t) /\ gPc'[t] = "call"
    BY <1>0, <1>1, <2>1, GroupReturn DEF Returned
  <2>3. GroupType'
    BY <1>0, <1>1, <1>2, <2>1, GroupReturn DEF GroupType
  <2>4. Doing' /\ (t \in Owners' <=> t \in Owners) /\ t \notin Leaving'
    BY <1>0, <1>1, <2>2, DoingReturned
  <2>5. WaitersSeen'
    BY <1>7 DEF WaitersSeen
  <2> QED BY <1>5, <1>7, <2>2, <2>4, <2>3, <2>5
<1> QED BY <1>6, <1>7
--------------------------------------------------------------------------------
(* What is left to show of a step inside a call that does not enter or leave. *)
LEMMA InsideCall ==
  ASSUME GroupInv, NEW t \in Threads, gPc[t] # "call", GroupType', Doing', Listed', WaitersSeen', RefsMove(t),
         Others(t), Returned(t) \/ Goes(t), t \notin Retaining',
         dg_state'.value = dg_state.value, dg_state'.gen = dg_state.gen, begun' = begun, emptied' = emptied,
         done' \in [Threads \X (1..MaxCalls) -> {"no", "success", "timeout"}],
         \A c \in Threads \X (1..MaxCalls) : done'[c] = "success" => done[c] = "success" \/ c \in emptied,
         gPc'[t] \in Sleeping => gPc[t] \in Sleeping /\ gOld'[t] = gOld[t] /\ Goes(t)
  PROVE  GroupInv'
<1>0. /\ GroupType /\ Doing /\ Entered /\ References /\ Generations /\ dg_state.gen \in Nat
      /\ begun \subseteq Threads \X (1..MaxCalls) /\ emptied \subseteq begun
  BY GroupFacts
<1>1. Entered'
  BY <1>0, EnteredKept
<1>2. References'
  BY <1>0, ReferencesKept
<1>3. gPc'[t] \in Sleeping =>
        /\ Goes(t) /\ Group!Id(t) \in begun' /\ gOld'[t].gen <= dg_state'.gen
        /\ gOld'[t].gen # dg_state'.gen => Group!Id(t) \in emptied'
  BY <1>0 DEF Generations
<1>4. dg_state'.gen \in Nat /\ dg_state.gen <= dg_state'.gen
  BY <1>0
<1>5. Generations'
  BY <1>0, <1>3, <1>4, GenerationsKept
<1> QED BY <1>1, <1>2, <1>5 DEF GroupInv

(* The thread with the flag's duty is the only one. *)
LEMMA TokenAlone ==
  ASSUME GroupType, Listed, NEW t \in Threads, t \in Tokens, Others(t)
  PROVE  /\ ~dg_state.notifs /\ tail # Nobody
         /\ Tokens' = IF t \in Tokens' THEN {t} ELSE {}
         /\ \A u \in Threads : u # t => gPc'[u] \notin {"set_notifs", "snapshot", "snapshot_tail"}
<1>1. Tokens = {t} /\ ~dg_state.notifs /\ tail # Nobody
  BY DEF Listed
<1>2. Tokens \ {t} = Tokens' \ {t}
  BY Shifted
<1>3. \A u \in Threads : u # t => gPc'[u] \notin {"set_notifs", "snapshot", "snapshot_tail"}
  BY <1>1, <1>2 DEF Tokens
<1> QED BY <1>1, <1>2, <1>3

LEMMA LeaveLoopKeeps ==
  ASSUME GroupInv, NEW t \in Threads, Group!LeaveLoop(t)
  PROVE  GroupInv'
<1>0. /\ GroupType /\ Doing /\ Listed /\ WaitersSeen
      /\ dg_state \in GroupStates /\ dg_state.value \in Nat /\ refs \in Int
      /\ done \in [Threads \X (1..MaxCalls) -> {"no", "success", "timeout"}]
      /\ gOld[t] \in GroupStates
  BY GroupFacts DEF GroupType
<1>1. /\ gPc[t] = "leave_loop" /\ todo[t] # <<>> /\ Head(todo[t]) = "leave"
      /\ UNCHANGED <<todo, head, tail, refs, last, begun, emptied, done>>
  BY <1>0 DEF Group!LeaveLoop, Group!history, Doing
<1> DEFINE new == Group!Taken(gOld[t])
<1>2. /\ new \in GroupStates /\ new.gen = gOld[t].gen /\ new.value = gOld[t].value
      /\ new.waiters = (IF gOld[t].value = 0 THEN FALSE ELSE gOld[t].waiters) /\ ~new.notifs
  BY <1>0, GroupTaken
<1>3. t \notin Retaining /\ t \in Leaving /\ t \notin Notified /\ t \notin Tokens
  BY <1>1 DEF Retaining, Leaving, Notified, Tokens, Waking
<1> HIDE DEF new
<1>4. ASSUME NEW w \in {"snapshot", "wake", "release"}, Group!Goto(t, w), gOld' = gOld, dg_state' \in GroupStates,
             dg_state'.value = dg_state.value, dg_state'.gen = dg_state.gen, WaitersSeen',
             w = "snapshot" <=> gOld[t].notifs, 
             (w = "snapshot" /\ dg_state.notifs /\ ~dg_state'.notifs)
               \/ (w # "snapshot" /\ dg_state'.notifs = dg_state.notifs)
      PROVE  GroupInv'
  <2>1. gOld' = [gOld EXCEPT ![t] = gOld'[t]] /\ last' = [last EXCEPT ![t] = last'[t]] /\ w \in GroupPlaces /\ w # "call"
    BY <1>0, <1>1, <1>4 DEF GroupType, GroupPlaces, Waking
  <2>2. Others(t) /\ Goes(t) /\ gPc'[t] = w /\ gPc' \in [Threads -> GroupPlaces]
    BY <1>0, <1>1, <1>4, <2>1, GroupGoto
  <2>3. GroupType'
    BY <1>0, <1>1, <1>4, <2>2 DEF GroupType
  <2>4. Doing' /\ (t \in Owners' <=> t \in Owners)
    BY <1>0, <1>1, <2>2, DoingGoes DEF Waking, Sleeping
  <2>5. t \notin Retaining' /\ t \in Leaving' /\ (t \in Notified' <=> gOld[t].notifs) /\ (t \in Tokens' <=> w = "snapshot")
    BY <1>1, <1>4, <2>2 DEF Retaining, Leaving, Notified, Tokens, Waking
  <2>6. RefsMove(t)
    BY <1>0, <1>1, <1>3, <1>4, <2>4, <2>5 DEF RefsMove, One
  <2>7. Listed'
    <3>1. CASE w # "snapshot"
      BY <1>0, <1>1, <1>3, <1>4, <2>2, <2>5, <3>1, ListedKept
    <3>2. CASE w = "snapshot"
      <4>1. Tokens = {} /\ tail # Nobody
        BY <1>0, <1>4, <3>2 DEF Listed
      <4>2. Tokens \ {t} = Tokens' \ {t}
        BY <1>0, <2>2, Shifted
      <4>3. Tokens' = {t}
        BY <2>5, <3>2, <4>1, <4>2
      <4>4. \A u \in Threads : gPc'[u] \in {"snapshot", "snapshot_tail"} => gOld'[u].notifs
        BY <1>0, <1>4, <2>2, <3>2 DEF Listed, Others
      <4> QED BY <1>1, <1>4, <2>2, <3>2, <4>1, <4>3, <4>4 DEF Listed
    <3> QED BY <3>1, <3>2
  <2>8. gPc'[t] \notin Sleeping
    BY <1>4, <2>2 DEF Sleeping
  <2> QED BY <1>0, <1>1, <1>4, <2>2, <2>4, <2>3, <2>5, <2>6, <2>7, <2>8, InsideCall
<1>5. Group!WakeFrom(gOld[t]) \in {"snapshot", "wake", "release"} /\ (Group!WakeFrom(gOld[t]) = "snapshot" <=> gOld[t].notifs)
  BY DEF Group!WakeFrom
<1>6. CASE new = gOld[t]
  <2>1. dg_state' = dg_state /\ Group!Goto(t, Group!WakeFrom(gOld[t])) /\ gOld' = gOld
    BY <1>6 DEF Group!LeaveLoop, new
  <2>2. ~gOld[t].notifs /\ ~(gOld[t].waiters /\ gOld[t].value = 0)
    BY <1>2, <1>6
  <2>3. Others(t)
    BY <1>0, <1>1, <2>1 DEF Others, Group!Goto, GroupType
  <2>4. WaitersSeen'
    <3> SUFFICES ASSUME dg_state.value = 0 /\ dg_state.waiters
                 PROVE  \E u \in Threads : gPc'[u] = "leave_loop" /\ gOld'[u].waiters /\ gOld'[u].value = 0
      BY <2>1 DEF WaitersSeen
    <3>1. PICK u \in Threads : gPc[u] = "leave_loop" /\ gOld[u].waiters /\ gOld[u].value = 0
      BY <1>0 DEF WaitersSeen
    <3>2. gPc'[u] = "leave_loop" /\ gOld'[u] = gOld[u]
      BY <2>2, <2>3, <3>1 DEF Others
    <3> QED BY <3>1, <3>2
  <2> QED BY <1>0, <1>4, <1>5, <2>1, <2>2, <2>4
<1>7. CASE new # gOld[t] /\ dg_state = gOld[t]
  <2>1. dg_state' = new /\ Group!Goto(t, Group!WakeFrom(gOld[t])) /\ gOld' = gOld
    BY <1>7 DEF Group!LeaveLoop, new
  <2>2. dg_state'.value = dg_state.value /\ dg_state'.gen = dg_state.gen /\ dg_state' \in GroupStates /\ ~dg_state'.notifs
    BY <1>2, <1>7, <2>1
  <2>3. WaitersSeen'
    BY <1>2, <1>7, <2>1 DEF WaitersSeen
  <2>4. dg_state.notifs \in BOOLEAN /\ dg_state'.notifs \in BOOLEAN
    BY <1>0, <2>2, GroupFields
  <2>5. CASE gOld[t].notifs
    BY <1>4, <1>5, <1>7, <2>1, <2>2, <2>3, <2>5
  <2>6. CASE ~gOld[t].notifs
    <3>1. dg_state'.notifs = dg_state.notifs
      BY <1>7, <2>2, <2>4, <2>6
    <3> QED BY <1>4, <1>5, <1>7, <2>1, <2>2, <2>3, <2>6, <3>1
  <2> QED BY <2>5, <2>6
<1>8. CASE new # gOld[t] /\ dg_state # gOld[t]
  <2>1. gOld' = [gOld EXCEPT ![t] = dg_state] /\ UNCHANGED <<dg_state, gPc>>
    BY <1>8 DEF Group!LeaveLoop, new
  <2>2. Others(t) /\ Goes(t) /\ gPc'[t] = "leave_loop" /\ gOld'[t] = dg_state /\ gOld' \in [Threads -> GroupStates]
    BY <1>0, <1>1, <2>1 DEF Others, Goes, GroupType
  <2>3. GroupType'
    BY <1>0, <1>1, <2>1, <2>2 DEF GroupType
  <2>4. Doing' /\ (t \in Owners' <=> t \in Owners)
    BY <1>0, <1>1, <2>2, DoingGoes DEF Waking, Sleeping
  <2>5. t \notin Retaining' /\ t \in Leaving' /\ t \notin Notified' /\ t \notin Tokens'
    BY <1>1, <2>2 DEF Retaining, Leaving, Notified, Tokens, Waking
  <2>6. RefsMove(t)
    BY <1>0, <1>1, <1>3, <2>1, <2>4, <2>5 DEF RefsMove, One
  <2>7. Listed'
    BY <1>0, <1>1, <1>3, <2>1, <2>2, <2>5, ListedKept
  <2>8. WaitersSeen'
    BY <2>1, <2>2 DEF WaitersSeen
  <2>9. gPc'[t] \notin Sleeping
    BY <2>2 DEF Sleeping
  <2> QED BY InsideCall, <1>0, <1>1, <2>1, <2>2, <2>9, <2>3, <2>4, <2>6, <2>5, <2>7, <2>8
<1> QED BY <1>6, <1>7, <1>8
--------------------------------------------------------------------------------
LEMMA SnapshotHeadKeeps ==
  ASSUME GroupInv, NEW t \in Threads, Group!SnapshotHead(t)
  PROVE  GroupInv'
<1>0. /\ GroupType /\ Doing /\ Listed /\ WaitersSeen /\ refs \in Int
      /\ done \in [Threads \X (1..MaxCalls) -> {"no", "success", "timeout"}]
  BY GroupFacts
<1>1. /\ gPc[t] = "snapshot" /\ todo[t] # <<>> /\ Head(todo[t]) \in {"leave", "notify"} /\ gOld[t].notifs
      /\ Group!Goto(t, "snapshot_tail") /\ head' = Nobody
      /\ UNCHANGED <<todo, dg_state, tail, refs, gOld, last, begun, emptied, done>>
  BY <1>0 DEF Group!SnapshotHead, Group!history, Doing, Listed, Waking
<1>2. /\ gOld' = [gOld EXCEPT ![t] = gOld'[t]] /\ last' = [last EXCEPT ![t] = last'[t]]
      /\ "snapshot_tail" \in GroupPlaces
  BY <1>0, <1>1 DEF GroupType, GroupPlaces, Waking
<1>3. Others(t) /\ Goes(t) /\ gPc'[t] = "snapshot_tail" /\ gPc' \in [Threads -> GroupPlaces]
  BY <1>0, <1>1, <1>2, GroupGoto
<1>4. GroupType'
  BY <1>0, <1>1, <1>3 DEF GroupType
<1>5. Doing' /\ (t \in Owners' <=> t \in Owners)
  BY <1>0, <1>1, <1>3, DoingGoes DEF Waking, Sleeping
<1>6. /\ t \notin Retaining /\ t \in Notified /\ t \in Tokens /\ (t \in Leaving <=> Head(todo[t]) = "leave")
      /\ t \notin Retaining' /\ t \in Notified' /\ t \in Tokens' /\ (t \in Leaving' <=> Head(todo[t]) = "leave")
  BY <1>1, <1>3 DEF Retaining, Leaving, Notified, Tokens, Waking
<1>7. RefsMove(t)
  BY <1>0, <1>1, <1>5, <1>6 DEF RefsMove, One
<1>8. Listed'
  <2>1. Tokens' = {t} /\ ~dg_state.notifs /\ tail # Nobody
    BY <1>0, <1>3, <1>6, TokenAlone
  <2>2. \A u \in Threads : gPc'[u] \in {"snapshot", "snapshot_tail"} => gOld'[u].notifs
    BY <1>0, <1>1, <1>3 DEF Listed, Others
  <2> QED BY <1>1, <2>1, <2>2 DEF Listed
<1>9. WaitersSeen'
  BY <1>0, <1>1, <1>3, WaitersKept
<1>10. gPc'[t] \notin Sleeping
  BY <1>3 DEF Sleeping
<1> QED BY <1>0, <1>1, <1>3, <1>4, <1>5, <1>6, <1>7, <1>8, <1>9, <1>10, InsideCall

LEMMA SnapshotTailKeeps ==
  ASSUME GroupInv, NEW t \in Threads, Group!SnapshotTail(t)
  PROVE  GroupInv'
<1>0. /\ GroupType /\ Doing /\ Listed /\ WaitersSeen /\ refs \in Int
      /\ done \in [Threads \X (1..MaxCalls) -> {"no", "success", "timeout"}]
  BY GroupFacts
<1>1. /\ gPc[t] = "snapshot_tail" /\ todo[t] # <<>> /\ Head(todo[t]) \in {"leave", "notify"} /\ gOld[t].notifs
      /\ Group!Goto(t, "submit") /\ tail' = Nobody /\ last' = [last EXCEPT ![t] = tail]
      /\ UNCHANGED <<todo, dg_state, head, refs, gOld, begun, emptied, done>>
  BY <1>0 DEF Group!SnapshotTail, Group!history, Doing, Listed, Waking
<1>2. /\ gOld' = [gOld EXCEPT ![t] = gOld'[t]] /\ last' = [last EXCEPT ![t] = last'[t]]
      /\ "submit" \in GroupPlaces
  BY <1>0, <1>1 DEF GroupType, GroupPlaces, Waking
<1>3. Others(t) /\ Goes(t) /\ gPc'[t] = "submit" /\ gPc' \in [Threads -> GroupPlaces]
  BY <1>0, <1>1, <1>2, GroupGoto
<1>4. GroupType'
  BY <1>0, <1>1, <1>3 DEF GroupType
<1>5. Doing' /\ (t \in Owners' <=> t \in Owners)
  BY <1>0, <1>1, <1>3, DoingGoes DEF Waking, Sleeping
<1>6. /\ t \notin Retaining /\ t \in Notified /\ t \in Tokens /\ (t \in Leaving <=> Head(todo[t]) = "leave")
      /\ t \notin Retaining' /\ t \in Notified' /\ t \notin Tokens' /\ (t \in Leaving' <=> Head(todo[t]) = "leave")
  BY <1>1, <1>3 DEF Retaining, Leaving, Notified, Tokens, Waking
<1>7. RefsMove(t)
  BY <1>0, <1>1, <1>5, <1>6 DEF RefsMove, One
<1>8. Listed'
  <2>1. /\ Tokens' = {} /\ ~dg_state.notifs
        /\ \A u \in Threads : u # t => gPc'[u] \notin {"set_notifs", "snapshot", "snapshot_tail"}
    BY <1>0, <1>3, <1>6, TokenAlone
  <2>2. head = Nobody
    BY <1>0, <1>1, <1>3, <2>1 DEF Listed, Others
  <2>3. \A u \in Threads : gPc'[u] \in {"snapshot", "snapshot_tail"} => gOld'[u].notifs
    BY <1>3, <2>1
  <2> QED BY <1>1, <2>1, <2>2, <2>3 DEF Listed
<1>9. WaitersSeen'
  BY <1>0, <1>1, <1>3, WaitersKept
<1>10. gPc'[t] \notin Sleeping
  BY <1>3 DEF Sleeping
<1> QED BY <1>0, <1>1, <1>3, <1>4, <1>5, <1>6, <1>7, <1>8, <1>9, <1>10, InsideCall

(* Submitting and waking: the thread has taken the list already. *)
LEMMA WakingKeeps ==
  ASSUME GroupInv, NEW t \in Threads, gPc[t] \in {"submit", "wake"}, gPc'[t] \in {"submit", "wake", "release"},
         gPc' \in [Threads -> GroupPlaces], \A u \in Threads : u # t => gPc'[u] = gPc[u] \/ (gPc[u] = "asleep" /\ gPc'[u] = "wait"),
         UNCHANGED <<todo, dg_state, head, tail, refs, gOld, last, begun, emptied, done>>
  PROVE  GroupInv'
<1>0. /\ GroupType /\ Doing /\ Listed /\ WaitersSeen /\ refs \in Int
      /\ done \in [Threads \X (1..MaxCalls) -> {"no", "success", "timeout"}]
  BY GroupFacts
<1>1. todo[t] # <<>> /\ Head(todo[t]) \in {"leave", "notify"}
  BY <1>0 DEF Doing, Waking
<1>3. Others(t) /\ Goes(t)
  BY DEF Others, Goes
<1>4. GroupType'
  BY <1>0 DEF GroupType
<1>5. Doing' /\ (t \in Owners' <=> t \in Owners)
  BY <1>0, <1>1, <1>3, DoingGoes DEF Waking, Sleeping
<1>6. /\ t \notin Retaining /\ t \notin Tokens /\ (t \in Leaving <=> Head(todo[t]) = "leave")
      /\ t \notin Retaining' /\ t \notin Tokens' /\ (t \in Leaving' <=> Head(todo[t]) = "leave")
      /\ t \in Notified <=> t \in Notified'
  BY DEF Retaining, Leaving, Notified, Tokens, Waking
<1>7. RefsMove(t)
  BY <1>0, <1>5, <1>6 DEF RefsMove, One
<1>8. Listed'
  BY <1>0, <1>3, <1>6, ListedKept
<1>9. WaitersSeen'
  BY <1>0, <1>3, WaitersKept
<1>10. gPc'[t] \notin Sleeping
  BY DEF Sleeping
<1> QED BY <1>0, <1>3, <1>4, <1>5, <1>6, <1>7, <1>8, <1>9, <1>10, InsideCall

LEMMA SubmitKeeps ==
  ASSUME GroupInv, NEW t \in Threads, Group!Submit(t)
  PROVE  GroupInv'
<1>0. gPc \in [Threads -> GroupPlaces]
  BY GroupFacts DEF GroupType
<1>1. /\ gPc[t] = "submit" 
      /\ UNCHANGED <<todo, dg_state, head, tail, refs, gOld, last, begun, emptied, done>>
  BY DEF Group!Submit, Group!shared
<1>2. PICK w \in {"submit", "wake", "release"} : gPc' = [gPc EXCEPT ![t] = w]
  <2>1. CASE dc[t] = last[t]
    BY <2>1 DEF Group!Submit, Group!Goto
  <2>2. CASE dc[t] # last[t]
    BY <1>0, <1>1, <2>2 DEF Group!Submit
  <2> QED BY <2>1, <2>2
<1>3. /\ gPc'[t] \in {"submit", "wake", "release"} /\ gPc' \in [Threads -> GroupPlaces]
      /\ \A u \in Threads : u # t => gPc'[u] = gPc[u]
  BY <1>0, <1>2 DEF GroupPlaces, Waking
<1> QED BY <1>1, <1>3, WakingKeeps

LEMMA WakeKeeps ==
  ASSUME GroupInv, NEW t \in Threads, Group!Wake(t)
  PROVE  GroupInv'
<1>0. gPc \in [Threads -> GroupPlaces]
  BY GroupFacts DEF GroupType
<1>1. /\ gPc[t] = "wake"
      /\ UNCHANGED <<todo, dg_state, head, tail, refs, gOld, last, begun, emptied, done>>
      /\ gPc' = [u \in Threads |-> IF u = t THEN "release" ELSE IF gPc[u] = "asleep" THEN "wait" ELSE gPc[u]]
  BY DEF Group!Wake, Group!shared, Group!history
<1>2. /\ gPc'[t] \in {"submit", "wake", "release"}
      /\ \A u \in Threads : u # t => gPc'[u] = gPc[u] \/ (gPc[u] = "asleep" /\ gPc'[u] = "wait")
  BY <1>1
<1>3. gPc' \in [Threads -> GroupPlaces]
  BY <1>0, <1>1 DEF GroupPlaces, Waking, Sleeping
<1> QED BY <1>1, <1>2, <1>3, WakingKeeps

LEMMA ReleaseKeeps ==
  ASSUME GroupInv, NEW t \in Threads, Group!Release(t)
  PROVE  GroupInv'
<1>0. /\ GroupType /\ Doing /\ Listed /\ WaitersSeen /\ refs \in Int
      /\ done \in [Threads \X (1..MaxCalls) -> {"no", "success", "timeout"}]
  BY GroupFacts
<1>1. /\ gPc[t] = "release" /\ todo[t] # <<>> /\ Head(todo[t]) \in {"leave", "notify"} /\ Group!Return(t)
      /\ refs' = refs - (IF Head(todo[t]) = "leave" THEN 1 ELSE 0) - (IF gOld[t].notifs THEN 1 ELSE 0)
      /\ UNCHANGED <<dg_state, head, tail, begun, emptied, done>>
  BY <1>0 DEF Group!Release, Group!history, Doing, Waking
<1>2. Others(t) /\ Returned(t) /\ gPc'[t] = "call"
  BY <1>0, <1>1, GroupReturn DEF Returned
<1>3. GroupType'
  <2>1. refs' \in Int
    BY <1>0, <1>1
  <2> QED BY <1>0, <1>1, <2>1, GroupReturn DEF GroupType
<1>4. /\ Doing' /\ t \notin Leaving' /\ t \notin Notified' /\ t \notin Retaining' /\ t \notin Tokens'
      /\ t \in Owners' <=> t \in Owners
  BY <1>0, <1>1, <1>2, DoingReturned DEF Tokens
<1>5. /\ t \notin Retaining /\ t \notin Tokens
      /\ (t \in Leaving <=> Head(todo[t]) = "leave") /\ (t \in Notified <=> gOld[t].notifs)
  BY <1>1 DEF Retaining, Leaving, Notified, Tokens, Waking
<1>6. RefsMove(t)
  BY <1>0, <1>1, <1>4, <1>5 DEF RefsMove, One
<1>7. Listed'
  BY <1>0, <1>1, <1>2, <1>4, <1>5, ListedKept
<1>8. WaitersSeen'
  BY <1>0, <1>1, <1>2, WaitersKept
<1>9. gPc'[t] \notin Sleeping
  BY <1>2 DEF Sleeping
<1> QED BY <1>0, <1>1, <1>2, <1>3, <1>4, <1>6, <1>7, <1>8, <1>9, InsideCall
--------------------------------------------------------------------------------
(* What is left to show of the first step of a call other than enter and leave,
   which begins new for the history. *)
LEMMA CallBegins ==
  ASSUME GroupInv, NEW t \in Threads, gPc[t] = "call", todo[t] # <<>>, Head(todo[t]) \in {"wait", "notify", "release"},
         GroupType', Doing', Listed', RefsMove(t), Others(t), Returned(t) \/ Goes(t), t \notin Retaining',
         dg_state'.value = dg_state.value, dg_state'.gen = dg_state.gen,
         dg_state'.value = 0 /\ dg_state'.waiters => dg_state.value = 0 /\ dg_state.waiters,
         begun \subseteq begun', begun' \subseteq Threads \X (1..MaxCalls),
         emptied' = emptied \/ emptied' = begun',
         done' \in [Threads \X (1..MaxCalls) -> {"no", "success", "timeout"}],
         \A c \in Threads \X (1..MaxCalls) : done'[c] = "success" => done[c] = "success" \/ c \in emptied',
         gPc'[t] \in Sleeping => Goes(t) /\ Group!Id(t) \in begun' /\ gOld'[t].gen = dg_state'.gen
  PROVE  GroupInv'
<1>0. /\ GroupType /\ Doing /\ Entered /\ References /\ Listed /\ WaitersSeen /\ Generations
      /\ dg_state.gen \in Nat /\ dg_state.value \in Nat /\ Cardinality(Retaining) \in Nat
      /\ begun \subseteq Threads \X (1..MaxCalls) /\ emptied \subseteq begun
  BY GroupFacts
<1>1. Entered'
  <2>1. dg_state'.value = dg_state.value + One(Head(todo[t]) = "enter") - One(Head(todo[t]) = "leave")
    BY <1>0 DEF One
  <2>2. Cardinality(Retaining) + One(t \in Retaining') <= dg_state'.value
    BY <1>0 DEF Entered, One
  <2> QED BY <1>0, <2>1, <2>2, EnteredBegun
<1>2. References'
  BY <1>0, ReferencesKept
<1>3. WaitersSeen'
  BY <1>0, WaitersKept
<1>4. dg_state'.gen \in Nat /\ dg_state.gen <= dg_state'.gen /\ emptied \subseteq emptied' /\ emptied' \subseteq begun'
  BY <1>0
<1>5. gPc'[t] \in Sleeping =>
        /\ Goes(t) /\ Group!Id(t) \in begun' /\ gOld'[t].gen <= dg_state'.gen
        /\ gOld'[t].gen # dg_state'.gen => Group!Id(t) \in emptied'
  BY <1>4
<1>6. Generations'
  BY <1>0, <1>4, <1>5, GenerationsKept
<1> QED BY <1>1, <1>2, <1>3, <1>6 DEF GroupInv

LEMMA WaitKeeps ==
  ASSUME GroupInv, NEW t \in Threads, NEW when, Group!Wait(t, when)
  PROVE  GroupInv'
<1>0. /\ GroupType /\ Doing /\ Listed /\ dg_state \in GroupStates /\ dg_state.value \in Nat /\ refs \in Int
      /\ begun \subseteq Threads \X (1..MaxCalls) /\ emptied \subseteq begun
      /\ done \in [Threads \X (1..MaxCalls) -> {"no", "success", "timeout"}]
  BY GroupFacts
<1>1. /\ gPc[t] = "call" /\ todo[t] # <<>> /\ Head(todo[t]) = "wait" /\ begun' = begun \cup {Group!Id(t)}
      /\ emptied' = IF dg_state'.value = 0 THEN begun' ELSE emptied
      /\ UNCHANGED <<head, tail, refs>>
  BY DEF Group!Wait, Group!Calling, Group!Note
<1>2. Group!Id(t) \in Threads \X (1..MaxCalls)
  BY <1>0, <1>1, GroupId
<1>3. begun \subseteq begun' /\ begun' \subseteq Threads \X (1..MaxCalls) /\ Group!Id(t) \in begun'
  BY <1>0, <1>1, <1>2
<1>4. t \notin Retaining /\ t \notin Leaving /\ t \notin Notified /\ t \notin Tokens
  BY <1>1 DEF Retaining, Leaving, Notified, Tokens, Waking
<1>5. CASE dg_state.value = 0 \/ when = "now"
  <2>1. /\ dg_state' = dg_state /\ Group!Return(t)
        /\ done' = [done EXCEPT ![Group!Id(t)] = IF dg_state.value = 0 THEN "success" ELSE "timeout"]
    BY <1>5 DEF Group!Wait
  <2>2. Others(t) /\ Returned(t) /\ gPc'[t] = "call"
    BY <1>0, <1>1, <2>1, GroupReturn DEF Returned
  <2>3. GroupType'
    BY <1>0, <1>1, <2>1, GroupReturn DEF GroupType
  <2>4. /\ Doing' /\ t \notin Leaving' /\ t \notin Notified' /\ t \notin Retaining' /\ t \notin Tokens'
        /\ t \in Owners' <=> t \in Owners
    BY <1>0, <1>1, <2>2, DoingReturned DEF Tokens
  <2>5. RefsMove(t)
    BY <1>0, <1>1, <1>4, <2>1, <2>4 DEF RefsMove, One
  <2>6. Listed'
    BY <1>0, <1>1, <1>4, <2>1, <2>2, <2>4, ListedKept
  <2>7. /\ done' \in [Threads \X (1..MaxCalls) -> {"no", "success", "timeout"}]
        /\ \A c \in Threads \X (1..MaxCalls) : done'[c] = "success" => done[c] = "success" \/ c \in emptied'
    BY <1>0, <1>1, <1>2, <1>3, <2>1
  <2>8. gPc'[t] \notin Sleeping
    BY <2>2 DEF Sleeping
  <2> QED BY CallBegins, <1>0, <1>1, <1>3, <2>1, <2>2, <2>4, <2>3, <2>6, <2>5, <2>7, <2>8
<1>6. CASE dg_state.value # 0 /\ when # "now"
  <2>1. /\ dg_state' = [dg_state EXCEPT !.waiters = TRUE] /\ gOld' = [gOld EXCEPT ![t] = dg_state']
        /\ Group!Goto(t, "wait") /\ UNCHANGED <<todo, last, done>>
    BY <1>6 DEF Group!Wait
  <2>2. /\ dg_state' \in GroupStates /\ dg_state'.value = dg_state.value /\ dg_state'.gen = dg_state.gen
        /\ dg_state'.notifs = dg_state.notifs
    BY <1>0, <2>1, GroupWaiters, Zenon
  <2>3. /\ gOld' = [gOld EXCEPT ![t] = gOld'[t]] /\ last' = [last EXCEPT ![t] = last'[t]]
        /\ gOld'[t] = dg_state' /\ "wait" \in GroupPlaces
    BY <1>0, <2>1 DEF GroupType, GroupPlaces, Sleeping
  <2>4. Others(t) /\ Goes(t) /\ gPc'[t] = "wait" /\ gPc' \in [Threads -> GroupPlaces]
    BY <1>0, <2>1, <2>3, GroupGoto
  <2>5. GroupType'
    <3>1. gOld' \in [Threads -> GroupStates]
      BY <1>0, <2>1, <2>2 DEF GroupType
    <3> QED BY <1>0, <1>1, <2>1, <2>2, <2>4, <3>1 DEF GroupType
  <2>6. Doing' /\ (t \in Owners' <=> t \in Owners)
    BY <1>0, <1>1, <2>4, DoingGoes DEF Waking, Sleeping
  <2>7. t \notin Retaining' /\ t \notin Leaving' /\ t \notin Notified' /\ t \notin Tokens'
    BY <2>4 DEF Retaining, Leaving, Notified, Tokens, Waking
  <2>8. RefsMove(t)
    BY <1>0, <1>1, <1>4, <2>2, <2>6, <2>7 DEF RefsMove, One
  <2>9. Listed'
    BY <1>0, <1>1, <1>4, <2>2, <2>4, <2>7, ListedKept
  <2> QED BY CallBegins, <1>0, <1>1, <1>3, <1>6, <2>1, <2>2, <2>9, <2>3, <2>4, <2>6, <2>5, <2>7, <2>8
<1> QED BY <1>5, <1>6

(* A wait goes to sleep, or its time is over. *)
LEMMA SleepingKeeps ==
  ASSUME GroupInv, NEW t \in Threads, gPc[t] \in Sleeping, NEW w \in Sleeping, Group!Goto(t, w),
         UNCHANGED <<todo, dg_state, head, tail, refs, gOld, last, begun, emptied, done>>
  PROVE  GroupInv'
<1>0. /\ GroupType /\ Doing /\ Listed /\ WaitersSeen /\ refs \in Int
      /\ done \in [Threads \X (1..MaxCalls) -> {"no", "success", "timeout"}]
      /\ todo[t] # <<>> /\ Head(todo[t]) = "wait" /\ gPc[t] # "call" /\ gPc[t] # "leave_loop"
  BY GroupFacts DEF Doing, Sleeping
<1>2. /\ gOld' = [gOld EXCEPT ![t] = gOld'[t]] /\ last' = [last EXCEPT ![t] = last'[t]]
      /\ w \in GroupPlaces /\ w # "call"
  BY <1>0 DEF GroupType, GroupPlaces, Sleeping
<1>3. Others(t) /\ Goes(t) /\ gPc'[t] = w /\ gPc' \in [Threads -> GroupPlaces]
  BY <1>0, <1>2, GroupGoto
<1>4. GroupType'
  BY <1>0, <1>3 DEF GroupType
<1>5. Doing' /\ (t \in Owners' <=> t \in Owners)
  BY <1>0, <1>3, DoingGoes DEF Waking, Sleeping
<1>6. /\ t \notin Retaining /\ t \notin Leaving /\ t \notin Notified /\ t \notin Tokens
      /\ t \notin Retaining' /\ t \notin Leaving' /\ t \notin Notified' /\ t \notin Tokens'
  BY <1>3 DEF Retaining, Leaving, Notified, Tokens, Waking, Sleeping
<1>7. RefsMove(t)
  BY <1>0, <1>5, <1>6 DEF RefsMove, One
<1>8. Listed'
  BY <1>0, <1>3, <1>6, ListedKept DEF Sleeping
<1>9. WaitersSeen'
  BY <1>0, <1>3, WaitersKept
<1> QED BY <1>0, <1>3, <1>4, <1>5, <1>6, <1>7, <1>8, <1>9, InsideCall

(* A wait ends: with success only after its generation. *)
LEMMA WaitEnds ==
  ASSUME GroupInv, NEW t \in Threads, gPc[t] \in Sleeping, Group!Return(t), NEW r \in {"success", "timeout"},
         r = "success" => dg_state.gen # gOld[t].gen, done' = [done EXCEPT ![Group!Id(t)] = r],
         UNCHANGED <<dg_state, head, tail, refs, begun, emptied>>
  PROVE  GroupInv'
<1>0. /\ GroupType /\ Doing /\ Listed /\ WaitersSeen /\ Generations /\ refs \in Int
      /\ done \in [Threads \X (1..MaxCalls) -> {"no", "success", "timeout"}]
      /\ todo[t] # <<>> /\ Head(todo[t]) = "wait" /\ gPc[t] # "call" /\ gPc[t] # "leave_loop"
  BY GroupFacts DEF Doing, Sleeping
<1>1. Others(t) /\ Returned(t) /\ gPc'[t] = "call"
  BY <1>0, GroupReturn DEF Returned
<1>2. GroupType'
  BY <1>0, GroupReturn DEF GroupType
<1>3. /\ Doing' /\ t \notin Leaving' /\ t \notin Notified' /\ t \notin Retaining' /\ t \notin Tokens'
      /\ t \in Owners' <=> t \in Owners
  BY <1>0, <1>1, DoingReturned DEF Tokens
<1>4. t \notin Retaining /\ t \notin Leaving /\ t \notin Notified /\ t \notin Tokens
  BY DEF Retaining, Leaving, Notified, Tokens, Waking, Sleeping
<1>5. RefsMove(t)
  BY <1>0, <1>3, <1>4 DEF RefsMove, One
<1>6. Listed'
  BY <1>0, <1>1, <1>3, <1>4, ListedKept DEF Sleeping
<1>7. WaitersSeen'
  BY <1>0, <1>1, WaitersKept
<1>8. r = "success" => Group!Id(t) \in emptied
  BY <1>0 DEF Generations
<1>9. /\ done' \in [Threads \X (1..MaxCalls) -> {"no", "success", "timeout"}]
      /\ \A c \in Threads \X (1..MaxCalls) : done'[c] = "success" => done[c] = "success" \/ c \in emptied
  <2>1. \A c \in Threads \X (1..MaxCalls) : done'[c] = IF c = Group!Id(t) THEN r ELSE done[c]
    BY <1>0
  <2> QED BY <1>0, <1>8, <2>1
<1>10. gPc'[t] \notin Sleeping
  BY <1>1 DEF Sleeping
<1> QED BY <1>0, <1>1, <1>2, <1>3, <1>5, <1>6, <1>7, <1>9, <1>10, InsideCall

LEMMA WaitSlowKeeps ==
  ASSUME GroupInv, NEW t \in Threads, Group!WaitSlow(t)
  PROVE  GroupInv'
<1>1. /\ gPc[t] \in Sleeping /\ "asleep" \in Sleeping
      /\ UNCHANGED <<dg_state, head, tail, refs, begun, emptied>>
  BY DEF Group!WaitSlow, Group!shared, Sleeping
<1>2. CASE dg_state.gen = gOld[t].gen
  <2>1. Group!Goto(t, "asleep") /\ UNCHANGED <<todo, gOld, last, done>>
    BY <1>2 DEF Group!WaitSlow
  <2> QED BY <1>1, <2>1, SleepingKeeps
<1>3. CASE dg_state.gen # gOld[t].gen
  <2>1. Group!Return(t) /\ done' = [done EXCEPT ![Group!Id(t)] = "success"]
    BY <1>3 DEF Group!WaitSlow
  <2> QED BY <1>1, <1>3, <2>1, WaitEnds
<1> QED BY <1>2, <1>3

LEMMA ExpireKeeps ==
  ASSUME GroupInv, NEW t \in Threads, Group!Expire(t)
  PROVE  GroupInv'
<1>1. /\ gPc[t] \in Sleeping /\ "expired" \in Sleeping /\ Group!Goto(t, "expired")
      /\ UNCHANGED <<todo, dg_state, head, tail, refs, gOld, last, begun, emptied, done>>
  BY DEF Group!Expire, Group!shared, Group!history, Sleeping
<1> QED BY <1>1, SleepingKeeps

LEMMA ExpiredKeeps ==
  ASSUME GroupInv, NEW t \in Threads, Group!Expired(t)
  PROVE  GroupInv'
<1>1. PICK r \in {"success", "timeout"} : r = IF dg_state.gen = gOld[t].gen THEN "timeout" ELSE "success"
  OBVIOUS
<1>2. /\ gPc[t] \in Sleeping /\ Group!Return(t) /\ done' = [done EXCEPT ![Group!Id(t)] = r]
      /\ r = "success" => dg_state.gen # gOld[t].gen
      /\ UNCHANGED <<dg_state, head, tail, refs, begun, emptied>>
  BY <1>1 DEF Group!Expired, Group!shared, Sleeping
<1> QED BY <1>2, WaitEnds
--------------------------------------------------------------------------------
LEMMA NotifyKeeps ==
  ASSUME GroupInv, NEW t \in Threads, Group!Notify(t)
  PROVE  GroupInv'
<1>0. /\ GroupType /\ Doing /\ Listed /\ refs \in Int
      /\ begun \subseteq Threads \X (1..MaxCalls) /\ emptied \subseteq begun
      /\ done \in [Threads \X (1..MaxCalls) -> {"no", "success", "timeout"}]
  BY GroupFacts
<1>1. /\ gPc[t] = "call" /\ todo[t] # <<>> /\ Head(todo[t]) = "notify" /\ begun' = begun \cup {Group!Id(t)}
      /\ emptied' = IF dg_state'.value = 0 THEN begun' ELSE emptied
      /\ last' = [last EXCEPT ![t] = tail] /\ tail' = Group!Id(t) /\ Group!Goto(t, "link")
      /\ UNCHANGED <<todo, dg_state, head, refs, gOld, done>>
  BY DEF Group!Notify, Group!Calling, Group!Note
<1>2. Group!Id(t) \in Threads \X (1..MaxCalls) /\ Group!Id(t) # Nobody
  <2>1. Group!Id(t) \in Threads \X (1..MaxCalls)
    BY <1>0, <1>1, GroupId
  <2> QED BY <2>1, DispatchAssumption
<1>3. begun \subseteq begun' /\ begun' \subseteq Threads \X (1..MaxCalls)
  BY <1>0, <1>1, <1>2
<1>4. t \notin Retaining /\ t \notin Leaving /\ t \notin Notified /\ t \notin Tokens
  BY <1>1 DEF Retaining, Leaving, Notified, Tokens, Waking
<1>5. /\ gOld' = [gOld EXCEPT ![t] = gOld'[t]] /\ last' = [last EXCEPT ![t] = last'[t]]
      /\ last'[t] = tail /\ "link" \in GroupPlaces
  BY <1>0, <1>1 DEF GroupType, GroupPlaces
<1>6. Others(t) /\ Goes(t) /\ gPc'[t] = "link" /\ gPc' \in [Threads -> GroupPlaces]
  BY <1>0, <1>1, <1>5, GroupGoto
<1>7. GroupType'
  BY <1>0, <1>1, <1>2, <1>6 DEF GroupType
<1>8. Doing' /\ (t \in Owners' <=> t \in Owners)
  BY <1>0, <1>1, <1>6, DoingGoes DEF Waking, Sleeping
<1>9. t \notin Retaining' /\ t \notin Leaving' /\ t \notin Notified' /\ (t \in Tokens' <=> tail = Nobody)
  BY <1>5, <1>6 DEF Retaining, Leaving, Notified, Tokens, Waking
<1>10. RefsMove(t)
  BY <1>0, <1>1, <1>4, <1>8, <1>9 DEF RefsMove, One
<1>11. Listed'
  <2>1. CASE tail # Nobody
    BY <1>0, <1>1, <1>2, <1>4, <1>6, <1>9, <2>1, ListedKept
  <2>2. CASE tail = Nobody
    <3>1. Tokens = {} /\ ~dg_state.notifs
      BY <1>0, <2>2 DEF Listed
    <3>2. Tokens \ {t} = Tokens' \ {t}
      BY <1>0, <1>6, Shifted
    <3>3. Tokens' = {t}
      BY <1>9, <2>2, <3>1, <3>2
    <3>4. head = Nobody
      BY <1>0, <3>1 DEF Listed, Tokens
    <3>5. \A u \in Threads : gPc'[u] \in {"snapshot", "snapshot_tail"} => gOld'[u].notifs
      BY <1>0, <1>6 DEF Listed, Others
    <3> QED BY <1>1, <1>2, <3>1, <3>3, <3>4, <3>5 DEF Listed
  <2> QED BY <2>1, <2>2
<1>12. gPc'[t] \notin Sleeping
  BY <1>6 DEF Sleeping
<1> QED BY <1>0, <1>1, <1>3, <1>6, <1>7, <1>8, <1>9, <1>10, <1>11, <1>12, CallBegins

LEMMA LinkKeeps ==
  ASSUME GroupInv, NEW t \in Threads, Group!Link(t)
  PROVE  GroupInv'
<1>0. /\ GroupType /\ Doing /\ Listed /\ WaitersSeen /\ refs \in Int
      /\ done \in [Threads \X (1..MaxCalls) -> {"no", "success", "timeout"}]
  BY GroupFacts
<1>1. /\ gPc[t] = "link" /\ todo[t] # <<>> /\ Head(todo[t]) = "notify"
      /\ UNCHANGED <<dg_state, tail, begun, emptied, done>>
  BY <1>0 DEF Group!Link, Group!history, Doing
<1>2. t \notin Retaining /\ t \notin Leaving /\ t \notin Notified /\ (t \in Tokens <=> last[t] = Nobody)
  BY <1>1 DEF Retaining, Leaving, Notified, Tokens, Waking
<1>3. CASE last[t] = Nobody
  <2>1. head' = Group!Id(t) /\ refs' = refs + 1 /\ Group!Goto(t, "set_notifs") /\ UNCHANGED <<todo, gOld, last>>
    BY <1>3 DEF Group!Link
  <2>2. /\ gOld' = [gOld EXCEPT ![t] = gOld'[t]] /\ last' = [last EXCEPT ![t] = last'[t]]
        /\ "set_notifs" \in GroupPlaces
    BY <1>0, <2>1 DEF GroupType, GroupPlaces
  <2>3. Others(t) /\ Goes(t) /\ gPc'[t] = "set_notifs" /\ gPc' \in [Threads -> GroupPlaces]
    BY <1>0, <2>1, <2>2, GroupGoto
  <2>4. GroupType'
    BY <1>0, <1>1, <2>1, <2>3 DEF GroupType
  <2>5. Doing' /\ (t \in Owners' <=> t \in Owners)
    BY <1>0, <1>1, <2>3, DoingGoes DEF Waking, Sleeping
  <2>6. t \notin Retaining' /\ t \notin Leaving' /\ t \in Notified' /\ t \in Tokens'
    BY <2>3 DEF Retaining, Leaving, Notified, Tokens, Waking
  <2>7. RefsMove(t)
    BY <1>0, <1>1, <1>2, <2>1, <2>5, <2>6 DEF RefsMove, One
  <2>8. Listed'
    <3>1. Tokens' = {t} /\ ~dg_state.notifs /\ tail # Nobody
      BY <1>0, <1>2, <1>3, <2>3, <2>6, TokenAlone
    <3>2. \A u \in Threads : gPc'[u] \in {"snapshot", "snapshot_tail"} => gOld'[u].notifs
      BY <1>0, <2>3 DEF Listed, Others
    <3> QED BY <1>1, <2>3, <3>1, <3>2 DEF Listed
  <2>9. WaitersSeen'
    BY <1>0, <1>1, <2>3, WaitersKept
  <2>10. gPc'[t] \notin Sleeping
    BY <2>3 DEF Sleeping
  <2> QED BY <1>0, <1>1, <2>3, <2>4, <2>5, <2>6, <2>7, <2>8, <2>9, <2>10, InsideCall
<1>4. CASE last[t] # Nobody
  <2>1. Group!Return(t) /\ UNCHANGED <<head, refs>>
    BY <1>4 DEF Group!Link
  <2>2. Others(t) /\ Returned(t) /\ gPc'[t] = "call"
    BY <1>0, <1>1, <2>1, GroupReturn DEF Returned
  <2>3. GroupType'
    BY <1>0, <1>1, <2>1, GroupReturn DEF GroupType
  <2>4. /\ Doing' /\ t \notin Leaving' /\ t \notin Notified' /\ t \notin Retaining' /\ t \notin Tokens'
        /\ t \in Owners' <=> t \in Owners
    BY <1>0, <1>1, <2>2, DoingReturned DEF Tokens
  <2>5. RefsMove(t)
    BY <1>0, <1>1, <1>2, <2>1, <2>4 DEF RefsMove, One
  <2>6. Listed'
    BY <1>0, <1>1, <1>2, <1>4, <2>1, <2>2, <2>4, ListedKept
  <2>7. WaitersSeen'
    BY <1>0, <1>1, <2>2, WaitersKept
  <2>8. gPc'[t] \notin Sleeping
    BY <2>2 DEF Sleeping
  <2> QED BY <1>0, <1>1, <2>2, <2>4, <2>3, <2>5, <2>6, <2>7, <2>8, InsideCall
<1> QED BY <1>3, <1>4

LEMMA SetNotifsKeeps ==
  ASSUME GroupInv, NEW t \in Threads, Group!SetNotifs(t)
  PROVE  GroupInv'
<1>0. /\ GroupType /\ Doing /\ Listed /\ WaitersSeen /\ refs \in Int /\ dg_state \in GroupStates
      /\ done \in [Threads \X (1..MaxCalls) -> {"no", "success", "timeout"}]
  BY GroupFacts
<1>1. /\ gPc[t] = "set_notifs" /\ todo[t] # <<>> /\ Head(todo[t]) = "notify"
      /\ UNCHANGED <<head, tail, refs, begun, emptied, done>>
  BY <1>0 DEF Group!SetNotifs, Group!history, Doing
<1>2. t \notin Retaining /\ t \notin Leaving /\ t \in Notified /\ t \in Tokens
  BY <1>1 DEF Retaining, Leaving, Notified, Tokens, Waking
<1>3. LET r == [dg_state EXCEPT !.notifs = TRUE] IN
      r \in GroupStates /\ r.value = dg_state.value /\ r.gen = dg_state.gen /\ r.waiters = dg_state.waiters /\ r.notifs
  BY <1>0, GroupNotifs
<1>4. CASE dg_state.value = 0 /\ ~dg_state.waiters /\ ~dg_state.notifs
  <2>1. /\ gOld' = [gOld EXCEPT ![t] = [dg_state EXCEPT !.notifs = TRUE]]
        /\ Group!Goto(t, "snapshot") /\ UNCHANGED <<todo, dg_state, last>>
    BY <1>4 DEF Group!SetNotifs
  <2>2. PICK r \in GroupStates : r = [dg_state EXCEPT !.notifs = TRUE] /\ r.notifs
    BY <1>3, Zenon
  <2>3. gOld' = [gOld EXCEPT ![t] = r]
    BY <2>1, <2>2, Zenon
  <2>4. /\ gOld' = [gOld EXCEPT ![t] = gOld'[t]] /\ last' = [last EXCEPT ![t] = last'[t]]
        /\ gOld'[t] = r /\ gOld'[t].notifs /\ gOld' \in [Threads -> GroupStates] /\ "snapshot" \in GroupPlaces
    BY <1>0, <2>1, <2>2, <2>3 DEF GroupType, GroupPlaces, Waking
  <2>5. Others(t) /\ Goes(t) /\ gPc'[t] = "snapshot" /\ gPc' \in [Threads -> GroupPlaces]
    BY <1>0, <2>1, <2>4, GroupGoto
  <2>6. GroupType'
    BY <1>0, <1>1, <2>1, <2>4, <2>5 DEF GroupType
  <2>7. Doing' /\ (t \in Owners' <=> t \in Owners)
    BY <1>0, <1>1, <2>5, DoingGoes DEF Waking, Sleeping
  <2>8. t \notin Retaining' /\ t \notin Leaving' /\ t \in Notified' /\ t \in Tokens'
    BY <1>1, <2>1, <2>4, <2>5 DEF Retaining, Leaving, Notified, Tokens, Waking
  <2>9. RefsMove(t)
    BY <1>0, <1>1, <1>2, <2>1, <2>7, <2>8 DEF RefsMove, One
  <2>10. Listed'
    BY <1>0, <1>1, <1>2, <2>1, <2>4, <2>5, <2>8, ListedKept
  <2>11. WaitersSeen'
    BY <1>0, <1>1, <2>1, <2>5, WaitersKept
  <2>12. gPc'[t] \notin Sleeping
    BY <2>5 DEF Sleeping
  <2> QED BY <1>0, <1>1, <2>1, <2>5, <2>6, <2>7, <2>8, <2>9, <2>10, <2>11, <2>12, InsideCall
<1>5. CASE ~(dg_state.value = 0 /\ ~dg_state.waiters /\ ~dg_state.notifs)
  <2>1. dg_state' = [dg_state EXCEPT !.notifs = TRUE] /\ Group!Return(t)
    BY <1>5 DEF Group!SetNotifs
  <2>2. /\ dg_state' \in GroupStates /\ dg_state'.value = dg_state.value /\ dg_state'.gen = dg_state.gen
        /\ dg_state'.waiters = dg_state.waiters /\ dg_state'.notifs
    BY <1>3, <2>1, Zenon
  <2>3. Others(t) /\ Returned(t) /\ gPc'[t] = "call"
    BY <1>0, <1>1, <2>1, GroupReturn DEF Returned
  <2>4. GroupType'
    BY <1>0, <1>1, <2>1, <2>2, GroupReturn DEF GroupType
  <2>5. /\ Doing' /\ t \notin Leaving' /\ t \notin Notified' /\ t \notin Retaining' /\ t \notin Tokens'
        /\ t \in Owners' <=> t \in Owners
    BY <1>0, <1>1, <2>3, DoingReturned DEF Tokens
  <2>6. /\ ~dg_state.notifs /\ tail # Nobody /\ Tokens' = {}
        /\ \A u \in Threads : u # t => gPc'[u] \notin {"set_notifs", "snapshot", "snapshot_tail"}
    BY <1>0, <1>2, <2>3, <2>5, TokenAlone
  <2>7. RefsMove(t)
    BY <1>0, <1>1, <1>2, <2>2, <2>5, <2>6 DEF RefsMove, One
  <2>8. Listed'
    <3>1. \A u \in Threads : gPc'[u] \in {"snapshot", "snapshot_tail"} => gOld'[u].notifs
      BY <2>3, <2>6
    <3> QED BY <1>1, <2>2, <2>6, <3>1 DEF Listed
  <2>9. WaitersSeen'
    BY <1>0, <1>1, <2>2, <2>3, WaitersKept
  <2>10. gPc'[t] \notin Sleeping
    BY <2>3 DEF Sleeping
  <2> QED BY <1>0, <1>1, <2>2, <2>4, <2>3, <2>5, <2>7, <2>8, <2>9, <2>10, InsideCall
<1> QED BY <1>4, <1>5

LEMMA DropKeeps ==
  ASSUME GroupInv, NEW t \in Threads, Group!Drop(t)
  PROVE  GroupInv'
<1>0. /\ GroupType /\ Doing /\ Listed /\ refs \in Int
      /\ begun \subseteq Threads \X (1..MaxCalls)
      /\ done \in [Threads \X (1..MaxCalls) -> {"no", "success", "timeout"}]
  BY GroupFacts
<1>1. /\ gPc[t] = "call" /\ todo[t] # <<>> /\ Head(todo[t]) = "release" /\ refs' = refs - 1 /\ Group!Return(t)
      /\ UNCHANGED <<dg_state, head, tail, begun, emptied, done>>
  BY DEF Group!Drop, Group!Calling, Group!history
<1>2. Others(t) /\ Returned(t) /\ gPc'[t] = "call"
  BY <1>0, <1>1, GroupReturn DEF Returned
<1>3. GroupType'
  BY <1>0, <1>1, GroupReturn DEF GroupType
<1>4. /\ Doing' /\ t \notin Leaving' /\ t \notin Notified' /\ t \notin Retaining' /\ t \notin Tokens'
      /\ t \in Owners /\ t \notin Owners'
  BY <1>0, <1>1, <1>2, DoingReturned DEF Tokens
<1>5. t \notin Retaining /\ t \notin Leaving /\ t \notin Notified /\ t \notin Tokens
  BY <1>1 DEF Retaining, Leaving, Notified, Tokens, Waking
<1>6. RefsMove(t)
  BY <1>0, <1>1, <1>4, <1>5 DEF RefsMove, One
<1>7. Listed'
  BY <1>0, <1>1, <1>2, <1>4, <1>5, ListedKept
<1>8. gPc'[t] \notin Sleeping
  BY <1>2 DEF Sleeping
<1> QED BY <1>0, <1>1, <1>2, <1>3, <1>4, <1>6, <1>7, <1>8, CallBegins
--------------------------------------------------------------------------------
LEMMA GroupStart ==
  ASSUME Group!Init
  PROVE  GroupInv
<1>1. /\ todo \in Programs /\ dg_state = Group!Empty /\ head = Nobody /\ tail = Nobody
      /\ gPc = [t \in Threads |-> "call"] /\ gOld = [t \in Threads |-> Group!Empty]
      /\ last = [t \in Threads |-> Nobody] /\ begun = {} /\ emptied = {}
  BY DEF Group!Init
<1>2. /\ todo \in [Threads -> Seq(GroupCalls)] /\ \A t \in Threads : Len(todo[t]) <= MaxCalls
      /\ Cardinality(CallsOf(todo, "leave")) = Cardinality(CallsOf(todo, "enter"))
  BY <1>1, GroupAssumption DEF GroupCalls
<1>3. refs = Cardinality(Owners)
  <2>1. \A t \in Threads : DOMAIN todo[t] = 1..Len(todo[t])
    BY <1>2
  <2>2. {t \in Threads : \E i \in DOMAIN todo[t] : todo[t][i] = "release"} = Owners
    BY <2>1 DEF Owners
  <2>3. refs = Group!Cardinality({t \in Threads : \E i \in DOMAIN todo[t] : todo[t][i] = "release"})
    BY DEF Group!Init
  <2> QED BY <2>2, <2>3, GroupCardinality, Zenon
<1>4. Retaining = {} /\ Leaving = {} /\ Notified = {} /\ Tokens = {} /\ Ahead = todo
  BY <1>1, <1>2 DEF Retaining, Leaving, Notified, Tokens, Ahead, Waking
<1>5. Cardinality(Retaining) = 0 /\ Cardinality(Leaving) = 0 /\ Cardinality(Notified) = 0 /\ Cardinality(Owners) \in Nat
  <2>1. Owners \subseteq Threads
    BY DEF Owners
  <2> QED BY <1>4, <2>1, SemaphoreAssumption, FS_Subset, FS_CardinalityType, FS_EmptySet
<1>6. GroupType
  BY <1>1, <1>2, <1>3, <1>5, GroupEmpty DEF GroupType, GroupPlaces
<1>7. Doing
  <2>1. ASSUME NEW t \in Threads PROVE Fits(todo[t])
    <3>1. todo[t] \in Seq(GroupCalls) /\ Len(todo[t]) \in Nat
      BY <1>2
    <3>2. \A i \in 1..Len(todo[t]) : todo[t][i] = "release" => i = Len(todo[t])
      BY <1>1, GroupAssumption
    <3>3. \/ Len(todo[t]) = 0 \/ todo[t][Len(todo[t])] = "release"
          \/ \A i \in 1..Len(todo[t]) : todo[t][i] = "leave"
      BY <1>1, GroupAssumption
    <3>4. Len(todo[t]) # 0 => Len(todo[t]) \in 1..Len(todo[t])
      BY <3>1
    <3>5. Len(todo[t]) = 0 => 1..Len(todo[t]) = {}
      BY <3>1
    <3> QED BY <3>2, <3>3, <3>4, <3>5 DEF Fits
  <2> QED BY <1>1, <2>1 DEF Doing, Waking, Sleeping
<1>8. Entered
  <2>1. Cardinality(CallsOf(todo, "leave")) \in Nat /\ Cardinality(CallsOf(todo, "enter")) \in Nat
    BY CallsFinite
  <2> QED BY <1>1, <1>2, <1>4, <1>5, <2>1, GroupEmpty DEF Entered
<1>9. References
  BY <1>1, <1>3, <1>5, GroupEmpty DEF References
<1>10. Listed /\ WaitersSeen
  BY <1>1, <1>4, GroupEmpty DEF Listed, WaitersSeen
<1>11. Generations
  <2>1. done = [c \in Threads \X (1..MaxCalls) |-> "no"]
    BY GroupIds DEF Group!Init
  <2>2. WaitSawEmpty
    BY <2>1, GroupIds
  <2> QED BY <1>1, <2>1, <2>2 DEF Generations, Sleeping
<1> QED BY <1>6, <1>7, <1>8, <1>9, <1>10, <1>11 DEF GroupInv

(* The invariant speaks of these variables only. *)
LEMMA GroupStutter ==
  ASSUME GroupInv, UNCHANGED Group!vars
  PROVE  GroupInv'
<1>1. /\ todo' = todo /\ dg_state' = dg_state /\ head' = head /\ tail' = tail /\ refs' = refs /\ gPc' = gPc
      /\ gOld' = gOld /\ last' = last /\ begun' = begun /\ emptied' = emptied /\ done' = done
  BY DEF Group!vars, Group!shared, Group!local, Group!history
<1>2. /\ Ahead' = Ahead /\ Owners' = Owners /\ Retaining' = Retaining /\ Leaving' = Leaving
      /\ Notified' = Notified /\ Tokens' = Tokens
  BY <1>1 DEF Ahead, Owners, Retaining, Leaving, Notified, Tokens
<1>3. CallsOf(Ahead, "leave")' = CallsOf(Ahead, "leave") /\ CallsOf(Ahead, "enter")' = CallsOf(Ahead, "enter")
  BY <1>2 DEF CallsOf
<1>4. GroupType' /\ Doing'
  BY <1>1 DEF GroupInv, GroupType, Doing
<1>5. Entered' /\ References' /\ Listed' /\ WaitersSeen'
  BY <1>1, <1>2, <1>3 DEF GroupInv, Entered, References, Listed, WaitersSeen
<1>6. WaitSawEmpty'
  BY <1>1, GroupIds DEF GroupInv, Generations
<1>7. Generations'
  BY <1>1, <1>6 DEF GroupInv, Generations, Group!Id
<1> QED BY <1>4, <1>5, <1>7 DEF GroupInv

LEMMA GroupStep ==
  ASSUME GroupInv, [Group!Next]_(Group!vars)
  PROVE  GroupInv'
<1>1. CASE UNCHANGED Group!vars
  BY <1>1, GroupStutter
<1>2. ASSUME NEW t \in Threads, Group!Call(t)
      PROVE  GroupInv'
  BY <1>2, EnterKeeps, LeaveKeeps, NotifyKeeps, DropKeeps, WaitKeeps DEF Group!Call
<1>3. ASSUME NEW t \in Threads, Group!Step(t)
      PROVE  GroupInv'
  BY <1>3, RetainKeeps, LeaveLoopKeeps, SnapshotHeadKeeps, SnapshotTailKeeps, SubmitKeeps, WakeKeeps, ReleaseKeeps,
     WaitSlowKeeps, ExpiredKeeps, LinkKeeps, SetNotifsKeeps DEF Group!Step
<1> QED BY <1>1, <1>2, <1>3, ExpireKeeps DEF Group!Next

(* A count of references of zero leaves nobody who could still use the group: no owner,
   so no enter and no notify to come, and then no leave either. *)
LEMMA GroupUnused ==
  ASSUME GroupInv
  PROVE  Group!FreedWhenUnused
<1>0. /\ GroupType /\ Doing /\ Entered /\ References /\ Listed /\ WaitersSeen
      /\ dg_state \in GroupStates /\ dg_state.value \in Nat /\ Cardinality(Retaining) \in Nat
  BY GroupFacts
<1>1. \A S \in SUBSET Threads : IsFiniteSet(S) /\ Cardinality(S) \in Nat /\ (Cardinality(S) = 0 => S = {})
  BY SemaphoreAssumption, FS_Subset, FS_CardinalityType, FS_EmptySet
<1>2. /\ Owners \in SUBSET Threads /\ Leaving \in SUBSET Threads /\ Notified \in SUBSET Threads
      /\ Retaining \in SUBSET Threads
  BY DEF Owners, Leaving, Notified, Retaining
<1>3. ASSUME NEW t \in Threads, todo[t] # <<>>, t \notin Owners
      PROVE  Head(todo[t]) = "leave" /\ Len(todo[t]) \in 1..MaxCalls /\ todo[t][1] = "leave"
  <2>1. /\ todo[t] \in Seq(GroupCalls) /\ Fits(todo[t]) /\ Len(todo[t]) <= MaxCalls /\ MaxCalls \in Nat
        /\ ~ \E i \in 1..Len(todo[t]) : todo[t][i] = "release"
    BY <1>0, <1>3, GroupAssumption DEF GroupType, Doing, Owners
  <2> QED BY <1>3, <2>1, FitsTail
<1>4. Retaining \subseteq Owners
  <2> SUFFICES ASSUME NEW t \in Threads, gPc[t] = "retain" PROVE t \in Owners
    BY DEF Retaining
  <2>1. todo[t] # <<>> /\ Head(todo[t]) = "enter"
    BY <1>0 DEF Doing
  <2> QED BY <1>3, <2>1
<1>5. Cardinality(Retaining) <= Cardinality(Owners)
  BY <1>1, <1>2, <1>4, FS_Subset
<1>6. refs >= 0 /\ (refs = 0 => /\ Cardinality(Leaving) = 0 /\ Cardinality(Notified) = 0
                                /\ Cardinality(Owners) = Cardinality(Retaining)
                                /\ dg_state.value = 0 /\ ~dg_state.notifs)
  <2> DEFINE o == Cardinality(Owners)
             l == Cardinality(Leaving)
             n == Cardinality(Notified)
             r == Cardinality(Retaining)
             v == IF dg_state.value > 0 THEN 1 ELSE 0
             f == IF dg_state.notifs THEN 1 ELSE 0
  <2>1. o \in Nat /\ l \in Nat /\ n \in Nat /\ r \in Nat /\ r <= o
    BY <1>1, <1>2, <1>5
  <2>2. v \in Nat /\ (v = 0 => dg_state.value = 0)
    BY <1>0
  <2>3. f \in Nat /\ (f = 0 => ~dg_state.notifs)
    OBVIOUS
  <2>4. refs = o + l + n + v - r + f
    BY <1>0 DEF References
  <2> HIDE DEF o, l, n, r, v, f
  <2>5. refs >= 0 /\ (refs = 0 => l = 0 /\ n = 0 /\ o = r /\ v = 0 /\ f = 0)
    BY <2>1, <2>2, <2>3, <2>4
  <2> QED BY <2>2, <2>3, <2>5 DEF o, l, n, r
<1>7. ASSUME refs = 0
      PROVE  /\ Group!Over /\ head = Nobody /\ tail = Nobody
             /\ dg_state.value = 0 /\ ~dg_state.waiters /\ ~dg_state.notifs
  <2>1. Leaving = {} /\ Notified = {} /\ dg_state.value = 0 /\ ~dg_state.notifs
    BY <1>1, <1>2, <1>6, <1>7
  <2>2. Owners = {}
    <3>1. Cardinality(Retaining) = 0
      BY <1>0, <2>1 DEF Entered
    <3> QED BY <1>1, <1>2, <1>6, <1>7, <3>1
  <2>3. ASSUME NEW t \in Threads PROVE gPc[t] = "call"
    <3> SUFFICES ASSUME gPc[t] # "call" PROVE FALSE
      OBVIOUS
    <3>1. todo[t] # <<>> /\ gPc[t] \in GroupPlaces
      BY <1>0 DEF Doing, GroupType
    <3>2. Head(todo[t]) = "leave"
      BY <1>3, <2>2, <3>1
    <3>3. gPc[t] \in {"leave_loop"} \cup Waking
      BY <1>0, <3>1, <3>2 DEF Doing, GroupPlaces, Sleeping
    <3> QED BY <2>1, <3>2, <3>3 DEF Leaving
  <2>4. Ahead = todo
    BY <1>0, <2>3 DEF Ahead, GroupType
  <2>5. CallsOf(todo, "enter") = {}
    <3> SUFFICES ASSUME NEW t \in Threads, NEW k \in 1..MaxCalls, k <= Len(todo[t]),
                        todo[t][Len(todo[t]) + 1 - k] = "enter"
                 PROVE  FALSE
      BY DEF CallsOf
    <3>1. Len(todo[t]) \in Nat /\ MaxCalls \in Nat
      BY <1>0, GroupAssumption DEF GroupType
    <3>2. Len(todo[t]) + 1 - k \in 1..Len(todo[t])
      BY <3>1
    <3>3. \A i \in 1..Len(todo[t]) : todo[t][i] = "leave"
      BY <1>0, <2>2 DEF Doing, Fits, Owners
    <3> QED BY <3>2, <3>3
  <2>6. CallsOf(todo, "leave") = {}
    <3>1. Cardinality(CallsOf(todo, "enter")) = 0
      BY <2>5, FS_EmptySet
    <3>2. Cardinality(CallsOf(todo, "leave")) = 0
      BY <1>0, <2>1, <2>4, <3>1 DEF Entered
    <3> QED BY <3>2, CallsFinite, FS_EmptySet
  <2>7. ASSUME NEW t \in Threads PROVE todo[t] = <<>>
    <3> SUFFICES ASSUME todo[t] # <<>> PROVE FALSE
      OBVIOUS
    <3>1. Len(todo[t]) \in 1..MaxCalls /\ todo[t][1] = "leave"
      BY <1>3, <2>2
    <3>2. Len(todo[t]) <= Len(todo[t]) /\ Len(todo[t]) + 1 - Len(todo[t]) = 1
      BY <3>1, GroupAssumption
    <3>3. <<t, Len(todo[t])>> \in CallsOf(todo, "leave")
      BY <3>1, <3>2 DEF CallsOf
    <3> QED BY <2>6, <3>3
  <2>8. Tokens = {}
    BY <2>3 DEF Tokens
  <2>9. head = Nobody /\ tail = Nobody
    BY <1>0, <2>1, <2>3, <2>8 DEF Listed
  <2>10. ~dg_state.waiters
    BY <1>0, <2>1, <2>3 DEF WaitersSeen
  <2> QED BY <2>1, <2>3, <2>7, <2>9, <2>10 DEF Group!Over, Group!Idle
<1> QED BY <1>6, <1>7 DEF Group!FreedWhenUnused
--------------------------------------------------------------------------------
(* Whichever object the threads use, its own invariant holds, and those of the others
   hold because nobody touches them. *)
DispatchInv == SemaphoreInv /\ GroupInv /\ Once!IInv /\ Unfair!IInv

LEMMA OnceStep ==
  ASSUME Once!IInv, [Once!Next]_(Once!vars)
  PROVE  Once!IInv'
<1>1. CASE UNCHANGED Once!vars
  BY <1>1 DEF Once!vars, Once!machine, Once!IInv, Once!TypeOK, Once!Gate, Once!Barriers, Once!Visible, Once!Covered
<1> QED BY <1>1, OnceSwitchStep, OnceThreadStep DEF Once!Next

LEMMA DispatchInvariant == DispatchSpec => []DispatchInv
<1>1. DispatchInit => DispatchInv
  BY SemaphoreStart, GroupStart, OnceStart, LockFree DEF DispatchInit, DispatchInv
<1>2. DispatchInv /\ [DispatchNext]_allVars => DispatchInv'
  <2> SUFFICES ASSUME DispatchInv, [DispatchNext]_allVars PROVE DispatchInv'
    OBVIOUS
  <2>1. [Next]_vars
    BY DEF DispatchNext, allVars
  <2>2. [Group!Next]_(Group!vars)
    BY DEF DispatchNext, allVars, groupVars, Group!vars, Group!shared, Group!local, Group!history
  <2>3. [Once!Next]_(Once!vars)
    BY DEF DispatchNext, allVars, onceVars, Once!vars, Once!machine
  <2>4. [Unfair!Next]_(Unfair!vars)
    BY DEF DispatchNext, allVars, lockVars, Unfair!vars
  <2> QED BY <2>1, SemaphoreStep, <2>2, GroupStep, <2>3, OnceStep, <2>4, LockStep DEF DispatchInv
<1> QED BY <1>1, <1>2, PTL DEF DispatchSpec

(* dispatch_group_wait (semaphore.c:208-243): a wait returns success only when the group was
   empty at some moment since the call, whatever enters, leaves, waits and timeouts the
   other threads put in between; for any number of threads and any programs. *)
THEOREM WaitsSeeEmpty == DispatchSpec => []WaitSawEmpty
<1>1. DispatchInv => WaitSawEmpty
  BY DEF DispatchInv, GroupInv, Generations
<1> QED BY <1>1, DispatchInvariant, PTL

(* _dispatch_group_dispose and _dispatch_semaphore_dispose (semaphore.c:51-63, 179-188):
   the references that enters, notifications and clients hold are counted exactly, so the
   group is freed with nothing in it and nobody to use it, and a semaphore that is given
   back is not freed below its first value. *)
THEOREM NothingFreedInUse == DispatchSpec => []FreedWhenUnused
<1>1. DispatchInv => FreedWhenUnused
  BY GroupUnused DEF DispatchInv, SemaphoreInv, FreedWhenUnused
<1> QED BY <1>1, DispatchInvariant, PTL

(* dispatch_once (once.c:41-71, lock.h:613-695): the block runs once, nobody returns before it has run,
   and whoever returns sees what it did, also through the fast path without a barrier. *)
THEOREM OnceRunsAndIsSeen == DispatchSpec => []OnceSeen
<1>1. DispatchInv => OnceSeen
  BY DEF DispatchInv, Once!IInv, Once!TypeOK, Once!OnceSeen, OnceSeen
<1> QED BY <1>1, DispatchInvariant, PTL

(* _dispatch_unfair_lock (lock.h:357-434, lock.c:573-645): at most one thread holds the lock,
   and the word is not free again before an owner was told of a failed trylock. *)
THEOREM LockExcludes == DispatchSpec => []HeldAndHeard
<1>1. DispatchInv => HeldAndHeard
  BY DEF DispatchInv, Unfair!IInv, Unfair!OwnerHolds, Unfair!FailedUnheard, Unfair!HeldAndHeard, HeldAndHeard
<1> QED BY <1>1, DispatchInvariant, PTL
================================================================================
