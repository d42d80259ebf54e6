-------------------------- MODULE WGGCDTimerProofs ----------------------------
(* The table invariants of WGGCDTimer, for any number of threads and timers. *)
EXTENDS WGGCDTimer, FiniteSetTheorems, TLAPS

(* timerDic.count is a natural number: the table is finite. *)
LEMMA CountIsNat == TypeOK => Cardinality(DOMAIN timerDic) \in Nat
  BY FS_CardinalityType DEF TypeOK

(* The table starts empty, semp free and every actor idle. *)
LEMMA InitIInv == Init => IInv
  <1> SUFFICES ASSUME Init PROVE IInv OBVIOUS
  <1>1. DOMAIN timerDic = {} BY DEF Init
  <1>2. TypeOK
    BY <1>1, FS_EmptySet, ActorsDisjoint DEF Init, TypeOK, Names, Actors
  <1>3. SempExcludes /\ OwnPart /\ OwnSource /\ LookupCurrent
    BY DEF Init, SempExcludes, OwnPart, OwnSource, LookupCurrent, Critical, Creating, Actors
  <1>4. TableSound /\ Cancellable
    BY <1>1 DEF Init, TableSound, Cancellable
  <1> QED BY <1>2, <1>3, <1>4 DEF IInv

(* Creating a source or refusing the request leaves the table alone. *)
LEMMA HandlerTaskStep ==
  ASSUME IInv, NEW th \in Threads, NEW task \in BOOLEAN, NEW start \in {-1, 0},
         NEW interval \in {0, 1}, NEW rep \in BOOLEAN,
         HandlerTask(th, task, start, interval, rep)
  PROVE  IInv'
  <1> USE DEF IInv
  <1>1. CASE Accepted(task, start, interval, rep)
    <2>1. PICK t \in Timers :
            /\ source[t] = "unused"
            /\ Goto(th, "idle", "wait")
            /\ source' = [source EXCEPT ![t] = "suspended"]
            /\ repeats' = [repeats EXCEPT ![t] = rep]
            /\ timer' = [timer EXCEPT ![th] = t]
            /\ UNCHANGED <<handle, timerDic, semp, captured, timerName>>
      BY <1>1 DEF HandlerTask
    <2>2. TypeOK'
      BY <2>1 DEF TypeOK, Goto, Actors
    <2>3. SempExcludes' /\ OwnPart'
      BY <2>1, ActorsDisjoint DEF TypeOK, Goto, Actors, SempExcludes, OwnPart, Critical, Creating
    <2>4. ~Stored(t, timerDic)
      BY <2>1 DEF TableSound, Stored
    <2>5. OwnSource'
      BY <2>1, <2>4 DEF TypeOK, Goto, Actors, OwnSource, Creating, Stored
    <2>6. LookupCurrent'
      BY <2>1 DEF TypeOK, Goto, Actors, LookupCurrent
    <2>7. TableSound'
      BY <2>1, <2>4 DEF TypeOK, TableSound, Stored
    <2>8. Cancellable'
      BY <2>1 DEF TypeOK, Goto, Actors, Cancellable, HeldBy, Creating
    <2> QED BY <2>2, <2>3, <2>5, <2>6, <2>7, <2>8
  <1>2. CASE ~Accepted(task, start, interval, rep)
    BY <1>2 DEF HandlerTask, TypeOK, Names, SempExcludes, OwnPart, OwnSource, LookupCurrent,
                TableSound, Cancellable, Critical, Creating, HeldBy, Stored
  <1> QED BY <1>1, <1>2

(* Taking semp: it was free, so nobody else is in a critical section. *)
LEMMA SemaphoreWaitStep ==
  ASSUME IInv, NEW a \in Actors, SemaphoreWait(a) PROVE IInv'
  <1> USE DEF IInv, SemaphoreWait, Goto
  <1>1. TypeOK' BY DEF TypeOK
  <1>2. SempExcludes' BY DEF TypeOK, SempExcludes, Critical
  <1>3. OwnPart' BY DEF TypeOK, OwnPart, Creating, Actors
  <1>4. OwnSource' BY DEF TypeOK, OwnSource, Creating, Stored, Actors
  <1>5. LookupCurrent' /\ TableSound' BY DEF TypeOK, LookupCurrent, TableSound
  <1>6. Cancellable' BY DEF TypeOK, Cancellable, HeldBy, Creating, Actors
  <1> QED BY <1>1, <1>2, <1>3, <1>4, <1>5, <1>6

(* The name is read and, later, stored while semp is held. *)
LEMMA TakeNameStep ==
  ASSUME IInv, NEW th \in Threads, TakeName(th) PROVE IInv'
  <1> USE DEF IInv, TakeName, Goto
  <1>0. Cardinality(DOMAIN timerDic) \in Nat BY CountIsNat
  <1>1. TypeOK' BY <1>0 DEF TypeOK, Actors, Names
  <1>2. SempExcludes' BY DEF TypeOK, SempExcludes, Critical, Actors
  <1>3. OwnPart' BY ActorsDisjoint DEF TypeOK, OwnPart, Creating, Actors
  <1>4. OwnSource' BY <1>0 DEF TypeOK, OwnSource, Creating, Stored, Actors
  <1>5. LookupCurrent' /\ TableSound' BY DEF TypeOK, LookupCurrent, TableSound, Actors
  <1>6. Cancellable' BY DEF TypeOK, Cancellable, HeldBy, Creating, Actors
  <1> QED BY <1>1, <1>2, <1>3, <1>4, <1>5, <1>6

(* AfterRelease touches active sources only, and none that is referred to. *)
LEMMA ReleaseFacts ==
  ASSUME TypeOK, NEW dic, NEW O, NEW t \in Timers
  PROVE  /\ AfterRelease(dic, O)[t] \in {source[t], "cancelled"}
         /\ source[t] # "active" => AfterRelease(dic, O)[t] = source[t]
         /\ Stored(t, dic) => AfterRelease(dic, O)[t] = source[t]
         /\ AfterRelease(dic, O)[t] = "active" =>
              source[t] = "active" /\ (Stored(t, dic) \/ \E th \in O : HeldBy(th, t))
  BY DEF AfterRelease, TypeOK

(* Storing under the name: what the key held before loses its place, and stops
   if nothing else refers to it. *)
LEMMA StoreStep ==
  ASSUME IInv, NEW th \in Threads, Store(th) PROVE IInv'
  <1> DEFINE n == timerName[th]
             t == timer[th]
  <1>1. /\ pc[th] = "store" /\ pc' = [pc EXCEPT ![th] = "resume"]
        /\ timerDic' = With(n, t)
        /\ source' = AfterRelease(With(n, t), Threads)
        /\ captured' = [captured EXCEPT ![t] = n]
        /\ semp' = 1
        /\ UNCHANGED <<repeats, timer, timerName, handle>>
    BY DEF Store, Goto, IInv, SempExcludes, Critical, Actors
  <1>2. /\ n \in Nat /\ t \in Timers /\ source[t] = "suspended" /\ ~Stored(t, timerDic)
        /\ \A o \in Threads : Creating(o) /\ timer[o] = t => o = th
        /\ Creating(th)
    BY <1>1 DEF IInv, OwnSource, Creating
  <1>3. /\ DOMAIN timerDic' = DOMAIN timerDic \cup {n}
        /\ timerDic'[n] = t
        /\ \A m \in DOMAIN timerDic \ {n} : timerDic'[m] = timerDic[m] /\ timerDic[m] # t
    BY <1>1, <1>2 DEF With, Stored
  <1>4. \A u \in Timers :
          /\ source'[u] \in {source[u], "cancelled"}
          /\ source[u] # "active" => source'[u] = source[u]
          /\ Stored(u, timerDic') => source'[u] = source[u]
          /\ source'[u] = "active" =>
               source[u] = "active" /\ (Stored(u, timerDic') \/ \E o \in Threads : HeldBy(o, u))
    BY <1>1, ReleaseFacts DEF IInv
  <1>5. source' \in [Timers -> {"unused", "suspended", "active", "cancelled"}]
    BY <1>1, <1>4 DEF AfterRelease, IInv, TypeOK
  <1>6. TypeOK'
    <2>1. IsFiniteSet(DOMAIN timerDic')
      BY <1>3, FS_AddElement DEF IInv, TypeOK
    <2> QED BY <1>1, <1>2, <1>3, <1>5, <2>1 DEF IInv, TypeOK, Actors, Names
  <1>7. SempExcludes'
    BY <1>1 DEF IInv, TypeOK, SempExcludes, Critical, Actors
  <1>8. OwnPart'
    BY <1>1, ActorsDisjoint DEF IInv, TypeOK, OwnPart, Creating, Actors
  <1>9. ASSUME NEW o \in Threads, o # th, Critical(o) PROVE FALSE
    BY <1>9, <1>1 DEF IInv, SempExcludes, Critical, Actors
  <1>10. OwnSource'
    <2> SUFFICES ASSUME NEW o \in Threads, Creating(o)'
                 PROVE  /\ timer[o] \in Timers
                        /\ source'[timer[o]] # "unused"
                        /\ pc'[o] \in {"wait", "name", "store"} =>
                             source'[timer[o]] = "suspended" /\ ~Stored(timer[o], timerDic')
                        /\ pc'[o] = "store" => timerName[o] \in Nat
                        /\ \A q \in Threads : Creating(q)' /\ timer[q] = timer[o] => q = o
      BY <1>1 DEF OwnSource, Stored
    <2>1. /\ \A q \in Threads : Creating(q)' => Creating(q)
          /\ o # th => pc'[o] = pc[o]
          /\ pc'[th] = "resume"
      BY <1>1 DEF IInv, TypeOK, Creating, Actors
    <2>2. timer[o] \in Timers /\ source'[timer[o]] # "unused"
      BY <2>1, <1>4 DEF IInv, OwnSource
    <2>3. CASE o = th
      BY <2>1, <2>2, <2>3 DEF IInv, OwnSource
    <2>4. CASE o # th
      <3>1. timer[o] # t BY <2>1, <2>4, <1>2
      <3>2. Stored(timer[o], timerDic') => Stored(timer[o], timerDic)
        BY <3>1, <1>3 DEF Stored
      <3> QED BY <2>1, <2>2, <2>4, <3>2, <1>4 DEF IInv, OwnSource
    <2> QED BY <2>3, <2>4
  <1>11. LookupCurrent'
    <2> SUFFICES ASSUME NEW a \in Actors, pc'[a] = "cancel" PROVE FALSE
      BY <1>1 DEF LookupCurrent
    <2>1. a # th /\ pc[a] = "cancel" BY <1>1 DEF IInv, TypeOK, Actors
    <2> QED BY <2>1, <1>1 DEF IInv, SempExcludes, Critical, Actors
  <1>12. TableSound'
    <2> SUFFICES ASSUME NEW m \in DOMAIN timerDic'
                 PROVE  /\ source'[timerDic'[m]] \in {"suspended", "active"}
                        /\ captured'[timerDic'[m]] = m
      BY DEF TableSound
    <2>1. timerDic'[m] \in Timers /\ Stored(timerDic'[m], timerDic')
      BY <1>6 DEF TypeOK, Stored
    <2>2. source'[timerDic'[m]] = source[timerDic'[m]]
      BY <2>1, <1>4
    <2>3. CASE m = n BY <2>2, <2>3, <1>1, <1>2, <1>3 DEF IInv, TypeOK
    <2>4. CASE m # n BY <2>1, <2>2, <2>4, <1>1, <1>2, <1>3 DEF IInv, TypeOK, TableSound
    <2> QED BY <2>3, <2>4
  <1>13. Cancellable'
    <2> SUFFICES ASSUME NEW u \in Timers, source'[u] = "active"
                 PROVE  \/ captured'[u] \in DOMAIN timerDic' /\ timerDic'[captured'[u]] = u
                        \/ \E o \in Threads : HeldBy(o, u)'
      BY DEF Cancellable
    <2>1. CASE Stored(u, timerDic')
      BY <2>1, <1>12 DEF Stored, TableSound
    <2>2. ASSUME NEW o \in Threads, HeldBy(o, u) PROVE HeldBy(o, u)'
      BY <2>2, <1>1 DEF HeldBy, Creating, IInv, TypeOK, Actors
    <2> QED BY <2>1, <2>2, <1>4
  <1> QED BY <1>6, <1>7, <1>8, <1>10, <1>11, <1>12, <1>13 DEF IInv

(* The source becomes active while the calling thread still holds it. *)
LEMMA ResumeStep ==
  ASSUME IInv, NEW th \in Threads, Resume(th) PROVE IInv'
  <1> USE DEF IInv, Resume, Goto
  <1>0. timer[th] \in Timers /\ source[timer[th]] # "unused"
    BY DEF OwnSource, Creating
  <1>1. TypeOK' BY <1>0 DEF TypeOK, Actors
  <1>2. SempExcludes' BY DEF TypeOK, SempExcludes, Critical, Actors
  <1>3. OwnPart' BY ActorsDisjoint DEF TypeOK, OwnPart, Creating, Actors
  <1>4. OwnSource'
    <2>1. Creating(th) BY DEF Creating
    <2>2. \A o \in Threads \ {th} : Creating(o) => timer[o] # timer[th]
      BY <2>1 DEF OwnSource
    <2> QED BY <1>0, <2>1, <2>2 DEF TypeOK, OwnSource, Creating, Stored, Actors
  <1>5. LookupCurrent' BY DEF TypeOK, LookupCurrent, Actors
  <1>6. TableSound' BY <1>0 DEF TypeOK, TableSound
  <1>7. Cancellable' BY <1>0 DEF TypeOK, Cancellable, HeldBy, Creating, Actors
  <1> QED BY <1>1, <1>2, <1>3, <1>4, <1>5, <1>6, <1>7

(* Returning drops the local reference: a source that lost its place in the
   table meanwhile stops now. *)
LEMMA ReturnStep ==
  ASSUME IInv, NEW th \in Threads, Return(th) PROVE IInv'
  <1>1. /\ pc[th] = "return" /\ pc' = [pc EXCEPT ![th] = "idle"]
        /\ handle' = [handle EXCEPT ![th] = timerName[th]]
        /\ timer' = [timer EXCEPT ![th] = NoTimer]
        /\ source' = AfterRelease(timerDic, Threads \ {th})
        /\ UNCHANGED <<timerDic, semp, repeats, captured, timerName>>
    BY DEF Return, Goto
  <1>4. \A u \in Timers :
          /\ source'[u] \in {source[u], "cancelled"}
          /\ source[u] # "active" => source'[u] = source[u]
          /\ Stored(u, timerDic) => source'[u] = source[u]
          /\ source'[u] = "active" =>
               Stored(u, timerDic) \/ \E o \in Threads \ {th} : HeldBy(o, u)
    BY <1>1, ReleaseFacts DEF IInv
  <1>5. source' \in [Timers -> {"unused", "suspended", "active", "cancelled"}]
    BY <1>1, <1>4 DEF AfterRelease, IInv, TypeOK
  <1>6. TypeOK' BY <1>1, <1>5 DEF IInv, TypeOK, Actors, Names
  <1>7. SempExcludes' BY <1>1 DEF IInv, TypeOK, SempExcludes, Critical, Actors
  <1>8. OwnPart' BY <1>1, ActorsDisjoint DEF IInv, TypeOK, OwnPart, Creating, Actors
  <1>9. OwnSource'
    <2>1. \A o \in Threads : Creating(o)' =>
            Creating(o) /\ o # th /\ pc'[o] = pc[o] /\ timer'[o] = timer[o]
      BY <1>1 DEF IInv, TypeOK, Creating, Actors
    <2> SUFFICES ASSUME NEW o \in Threads, Creating(o)'
                 PROVE  /\ timer'[o] \in Timers
                        /\ source'[timer'[o]] # "unused"
                        /\ pc'[o] \in {"wait", "name", "store"} =>
                             source'[timer'[o]] = "suspended" /\ ~Stored(timer'[o], timerDic')
                        /\ pc'[o] = "store" => timerName'[o] \in Nat
                        /\ \A q \in Threads : Creating(q)' /\ timer'[q] = timer'[o] => q = o
      BY DEF OwnSource, Stored
    <2>2. timer[o] \in Timers /\ source'[timer[o]] # "unused"
      BY <2>1, <1>4 DEF IInv, OwnSource
    <2>3. timerDic' = timerDic /\ timerName' = timerName
      BY <1>1
    <2> QED BY <2>1, <2>2, <2>3, <1>4 DEF IInv, OwnSource
  <1>10. LookupCurrent' BY <1>1 DEF IInv, TypeOK, LookupCurrent, Actors
  <1>11. TableSound' BY <1>1, <1>4 DEF IInv, TypeOK, TableSound, Stored
  <1>12. Cancellable'
    <2> SUFFICES ASSUME NEW u \in Timers, source'[u] = "active"
                 PROVE  \/ captured[u] \in DOMAIN timerDic /\ timerDic[captured[u]] = u
                        \/ \E o \in Threads : HeldBy(o, u)'
      BY <1>1 DEF Cancellable
    <2>1. CASE Stored(u, timerDic) BY <2>1 DEF Stored, IInv, TableSound
    <2>2. ASSUME NEW o \in Threads \ {th}, HeldBy(o, u) PROVE HeldBy(o, u)'
      BY <2>2, <1>1 DEF HeldBy, Creating, IInv, TypeOK, Actors
    <2> QED BY <2>1, <2>2, <1>4
  <1> QED BY <1>6, <1>7, <1>8, <1>9, <1>10, <1>11, <1>12 DEF IInv

(* Steps that change neither the table nor a source. *)
LEMMA QuietSteps ==
  ASSUME IInv, NEW a \in Actors,
         \/ a \in Threads /\ CancelTask(a)
         \/ a \in Timers /\ (Fire(a) \/ TaskDone(a))
         \/ Lookup(a)
  PROVE  IInv'
  <1> USE DEF IInv, CancelTask, Fire, TaskDone, Lookup, Goto
  <1>1. TypeOK' BY ActorsDisjoint DEF TypeOK, Actors, Names
  <1>2. SempExcludes' BY DEF TypeOK, SempExcludes, Critical
  <1>3. OwnPart' BY ActorsDisjoint DEF TypeOK, OwnPart, Creating, Actors
  <1>4. OwnSource' BY ActorsDisjoint DEF TypeOK, OwnSource, OwnPart, Creating, Stored, Actors
  <1>5. LookupCurrent' BY DEF TypeOK, LookupCurrent
  <1>6. TableSound' BY DEF TableSound
  <1>7. Cancellable' BY DEF TypeOK, Cancellable, HeldBy, Creating, Actors
  <1> QED BY <1>1, <1>2, <1>3, <1>4, <1>5, <1>6, <1>7

(* cancelTask acts on what it looked up: the key goes with its source. *)
LEMMA CancelStep ==
  ASSUME IInv, NEW a \in Actors, Cancel(a) PROVE IInv'
  <1> DEFINE n == timerName[a]
             t == timer[a]
  <1>1. /\ pc[a] = "cancel" /\ pc' = [pc EXCEPT ![a] = "idle"]
        /\ timer' = [timer EXCEPT ![a] = NoTimer]
        /\ semp' = 1
        /\ UNCHANGED <<repeats, captured, timerName, handle>>
    BY DEF Cancel, Goto, IInv, SempExcludes, Critical
  <1>2. SempExcludes' BY <1>1 DEF IInv, TypeOK, SempExcludes, Critical
  <1>3. OwnPart' BY <1>1 DEF IInv, TypeOK, OwnPart, Creating, Actors
  <1>4. LookupCurrent'
    <2> SUFFICES ASSUME NEW b \in Actors, pc'[b] = "cancel" PROVE FALSE
      BY DEF LookupCurrent
    <2> QED BY <1>1 DEF IInv, TypeOK, SempExcludes, Critical
  <1>5. \A o \in Threads : Creating(o)' =>
          Creating(o) /\ o # a /\ pc'[o] = pc[o] /\ timer'[o] = timer[o]
    BY <1>1 DEF IInv, TypeOK, Creating, Actors
  <1>6. CASE t = NoTimer
    <2>1. UNCHANGED <<source, timerDic>> BY <1>6 DEF Cancel
    <2>2. TypeOK' BY <1>1, <2>1 DEF IInv, TypeOK
    <2>3. OwnSource' BY <1>1, <1>5, <2>1 DEF IInv, OwnSource, Stored
    <2>4. TableSound' BY <1>1, <2>1 DEF IInv, TableSound
    <2>5. Cancellable' BY <1>1, <2>1 DEF IInv, TypeOK, Cancellable, HeldBy, Creating, Actors
    <2> QED BY <2>2, <2>3, <2>4, <2>5, <1>2, <1>3, <1>4 DEF IInv
  <1>7. CASE t # NoTimer
    <2>1. /\ source' = [source EXCEPT ![t] = "cancelled"]
          /\ timerDic' = Without(n)
      BY <1>7 DEF Cancel
    <2>2. n \in DOMAIN timerDic /\ timerDic[n] = t /\ t \in Timers
      BY <1>1, <1>7 DEF IInv, LookupCurrent, TypeOK
    <2>3. /\ DOMAIN timerDic' = DOMAIN timerDic \ {n}
          /\ \A m \in DOMAIN timerDic' : timerDic'[m] = timerDic[m] /\ timerDic[m] # t
      BY <2>1, <2>2 DEF Without, IInv, TableSound
    <2>4. IsFiniteSet(DOMAIN timerDic')
      BY <2>3, FS_Subset DEF IInv, TypeOK
    <2>5. TypeOK' BY <1>1, <2>1, <2>2, <2>3, <2>4 DEF IInv, TypeOK
    <2>6. OwnSource'
      <3>1. \A u \in Timers : Stored(u, timerDic') => Stored(u, timerDic)
        BY <2>3 DEF Stored
      <3>2. Stored(t, timerDic) BY <2>2 DEF Stored
      <3> QED BY <1>1, <1>5, <2>1, <2>2, <3>1, <3>2 DEF IInv, TypeOK, OwnSource
    <2>7. TableSound' BY <1>1, <2>1, <2>2, <2>3 DEF IInv, TypeOK, TableSound
    <2>8. Cancellable'
      BY <1>1, <2>1, <2>2, <2>3 DEF IInv, TypeOK, Cancellable, HeldBy, Creating, Actors
    <2> QED BY <2>5, <2>6, <2>7, <2>8, <1>2, <1>3, <1>4 DEF IInv
  <1> QED BY <1>6, <1>7

(* Every step preserves the inductive invariant. *)
LEMMA NextIInv == IInv /\ [Next]_vars => IInv'
  <1> SUFFICES ASSUME IInv, [Next]_vars PROVE IInv' OBVIOUS
  <1>1. CASE \E th \in Threads, task \in BOOLEAN, start \in {-1, 0}, interval \in {0, 1},
                rep \in BOOLEAN : HandlerTask(th, task, start, interval, rep)
    BY <1>1, HandlerTaskStep
  <1>2. CASE \E th \in Threads : ThreadStep(th) \/ CancelTask(th)
    BY <1>2, TakeNameStep, StoreStep, ResumeStep, ReturnStep, QuietSteps DEF ThreadStep, Actors
  <1>3. CASE \E a \in Actors : ActorStep(a)
    BY <1>3, SemaphoreWaitStep, CancelStep, QuietSteps DEF ActorStep
  <1>4. CASE \E t \in Timers : HandlerStep(t)
    BY <1>4, QuietSteps DEF HandlerStep, Actors
  <1>5. CASE UNCHANGED vars
    BY <1>5 DEF vars, IInv, TypeOK, SempExcludes, OwnPart, OwnSource, LookupCurrent, TableSound,
                Cancellable, Critical, Creating, HeldBy, Stored
  <1> QED BY <1>1, <1>2, <1>3, <1>4, <1>5 DEF Next

(* The variables of WGGCDTimer keep their types, whatever the calls made. *)
THEOREM TypeCorrect == Spec => []TypeOK
  <1>1. IInv => TypeOK BY DEF IInv
  <1> QED BY <1>1, InitIInv, NextIInv, PTL DEF Spec

(* What cancelTask looked up is what it removes (the stretch of the code between
   the two is covered by semp). *)
THEOREM CancelActsOnCurrent == Spec => []LookupCurrent
  <1>1. IInv => LookupCurrent BY DEF IInv
  <1> QED BY <1>1, InitIInv, NextIInv, PTL DEF Spec

(* timerDic only ever holds timers that are not cancelled, under the name their
   own handler captured. *)
THEOREM TableIsSound == Spec => []TableSound
  <1>1. IInv => TableSound BY DEF IInv
  <1> QED BY <1>1, InitIInv, NextIInv, PTL DEF Spec

(* No timer that can fire is out of the reach of cancelTask once handlerTask
   has returned. *)
THEOREM NoTimerOutOfReach == Spec => []Cancellable
  <1>1. IInv => Cancellable BY DEF IInv
  <1> QED BY <1>1, InitIInv, NextIInv, PTL DEF Spec
===============================================================================
