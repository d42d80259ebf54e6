------------------------------ MODULE WGGCDTimer ------------------------------
(***************************************************************************)
(* WGGCDTimer.m: GCD timers kept in the static dictionary timerDic under a *)
(* name, created by +handlerTask:... and cancelled by +cancelTask:.  The   *)
(* semaphore semp(1) serialises the accesses to timerDic.                  *)
(*                                                                         *)
(* An actor is a calling thread or the event handler of a timer, which GCD *)
(* runs on a queue of its own (never concurrently with itself).  A source  *)
(* is kept alive by timerDic and, until handlerTask returns, by its local  *)
(* variable timer; libdispatch stops a source whose last reference goes.   *)
(***************************************************************************)
EXTENDS Integers, FiniteSets

CONSTANTS Threads,   \* threads that call the two class methods
          Timers,    \* the dispatch sources that may be created
          NoTimer,   \* nil, as a dispatch_source_t
          NoName     \* nil, as an NSString

ASSUME ActorsDisjoint ==
  /\ Threads \cap Timers = {}
  /\ NoTimer \notin Timers
  /\ NoName \notin Nat
  /\ IsFiniteSet(Timers)

VARIABLES timerDic,   \* name -> source
          semp,       \* value of the semaphore
          source,     \* state of each source
          repeats,    \* the argument repeats, captured by the handler block
          captured,   \* timerName, captured by the handler block
          pc,         \* where each actor is
          timer,      \* local variable timer of the actor's current call
          timerName,  \* local timerName (handlerTask) or argument (cancelTask)
          handle      \* the name each thread got back from its last handlerTask

vars == <<timerDic, semp, source, repeats, captured, pc, timer,
          timerName, handle>>

Actors == Threads \cup Timers
Names == Nat \cup {NoName}

Init ==
  /\ timerDic = [n \in {} |-> NoTimer]
  /\ semp = 1
  /\ source = [t \in Timers |-> "unused"]
  /\ repeats = [t \in Timers |-> FALSE]
  /\ captured = [t \in Timers |-> NoName]
  /\ pc = [a \in Actors |-> "idle"]
  /\ timer = [a \in Actors |-> NoTimer]
  /\ timerName = [a \in Actors |-> NoName]
  /\ handle = [th \in Threads |-> NoName]

Goto(a, from, to) == pc[a] = from /\ pc' = [pc EXCEPT ![a] = to]

(* timerDic without the key n *)
Without(n) == [m \in DOMAIN timerDic \ {n} |-> timerDic[m]]

(* timerDic with the key n mapped to t *)
With(n, t) == [m \in DOMAIN timerDic \cup {n} |-> IF m = n THEN t ELSE timerDic[m]]

(* Some reference keeps t alive. *)
Stored(t, dic) == \E n \in DOMAIN dic : dic[n] = t
Creating(th) == pc[th] \in {"wait", "name", "store", "resume", "return"}
HeldBy(th, t) == timer[th] = t /\ Creating(th)

(* The argument checks of handlerTask. *)
Accepted(task, start, interval, rep) ==
  task /\ ~(start < 0 \/ (interval <= 0 /\ rep))

(* handlerTask up to dispatch_semaphore_wait: a refused call returns nil, an
   accepted one has created a suspended source. *)
HandlerTask(th, task, start, interval, rep) ==
  /\ IF Accepted(task, start, interval, rep)
     THEN \E t \in Timers :
            /\ source[t] = "unused"
            /\ Goto(th, "idle", "wait")
            /\ source' = [source EXCEPT ![t] = "suspended"]
            /\ repeats' = [repeats EXCEPT ![t] = rep]
            /\ timer' = [timer EXCEPT ![th] = t]
            /\ UNCHANGED handle
     ELSE /\ pc[th] = "idle"
          /\ handle' = [handle EXCEPT ![th] = NoName]
          /\ UNCHANGED <<source, repeats, timer, pc>>
  /\ UNCHANGED <<timerDic, semp, captured, timerName>>

(* Mutant: the wait is left out, the signal is not. *)
SemaphoreWaitMissing(a) ==
  /\ Goto(a, "wait", "name") \/ Goto(a, "cancelWait", "lookup")
  /\ UNCHANGED <<timerDic, semp, source, repeats, captured, timer, timerName, handle>>

(* dispatch_semaphore_wait(semp, DISPATCH_TIME_FOREVER) in either method *)
SemaphoreWait(a) ==
  /\ semp > 0
  /\ semp' = semp - 1
  /\ \/ Goto(a, "wait", "name")
     \/ Goto(a, "cancelWait", "lookup")
  /\ UNCHANGED <<timerDic, source, repeats, captured, timer, timerName, handle>>

(* timerName is timerDic.count, formatted as a decimal *)
TakeName(th) ==
  /\ Goto(th, "name", "store")
  /\ timerName' = [timerName EXCEPT ![th] = Cardinality(DOMAIN timerDic)]
  /\ UNCHANGED <<timerDic, semp, source, repeats, captured, timer, handle>>

(* Sources after the table became dic and thread th let go of its local
   reference: libdispatch cancels the active ones nobody refers to. *)
AfterRelease(dic, others) ==
  [t \in Timers |->
     IF source[t] = "active" /\ ~Stored(t, dic) /\ ~\E th \in others : HeldBy(th, t)
     THEN "cancelled" ELSE source[t]]

(* timerDic[timerName] = timer, which releases what the key held; signal *)
Store(th) ==
  LET n == timerName[th] IN
  /\ Goto(th, "store", "resume")
  /\ timerDic' = With(n, timer[th])
  /\ source' = AfterRelease(With(n, timer[th]), Threads)
  /\ captured' = [captured EXCEPT ![timer[th]] = n]
  /\ semp' = semp + 1
  /\ UNCHANGED <<repeats, timer, timerName, handle>>

(* dispatch_source_set_event_handler and dispatch_resume *)
Resume(th) ==
  /\ Goto(th, "resume", "return")
  /\ source' = [source EXCEPT ![timer[th]] = IF @ = "suspended" THEN "active" ELSE @]
  /\ UNCHANGED <<timerDic, semp, repeats, captured, timer, timerName, handle>>

(* Mutant: the handler block captures the source, a retain cycle. *)
ReturnRetained(th) ==
  /\ Goto(th, "return", "idle")
  /\ handle' = [handle EXCEPT ![th] = timerName[th]]
  /\ timer' = [timer EXCEPT ![th] = NoTimer]
  /\ UNCHANGED <<timerDic, semp, source, repeats, captured, timerName>>

(* Mutant: the source is returned instead of its name. *)
ReturnSource(th) ==
  /\ Goto(th, "return", "idle")
  /\ handle' = [handle EXCEPT ![th] = timer[th]]
  /\ timer' = [timer EXCEPT ![th] = NoTimer]
  /\ source' = AfterRelease(timerDic, Threads \ {th})
  /\ UNCHANGED <<timerDic, semp, repeats, captured, timerName>>

(* return timerName: the local reference to the source ends *)
Return(th) ==
  /\ Goto(th, "return", "idle")
  /\ handle' = [handle EXCEPT ![th] = timerName[th]]
  /\ timer' = [timer EXCEPT ![th] = NoTimer]
  /\ source' = AfterRelease(timerDic, Threads \ {th})
  /\ UNCHANGED <<timerDic, semp, repeats, captured, timerName>>

(* A thread calls cancelTask with the name it was given (nil: early return). *)
CancelTask(th) ==
  /\ handle[th] # NoName
  /\ Goto(th, "idle", "cancelWait")
  /\ timerName' = [timerName EXCEPT ![th] = handle[th]]
  /\ UNCHANGED <<timerDic, semp, source, repeats, captured, timer, handle>>

(* timer = [timerDic objectForKey:timerName] *)
Lookup(a) ==
  LET n == timerName[a] IN
  /\ Goto(a, "lookup", "cancel")
  /\ timer' = [timer EXCEPT ![a] = IF n \in DOMAIN timerDic THEN timerDic[n] ELSE NoTimer]
  /\ UNCHANGED <<timerDic, semp, source, repeats, captured, timerName, handle>>

(* Mutant: the key of the cancelled timer stays in the table. *)
CancelKeepsKey(a) ==
  /\ Goto(a, "cancel", "idle")
  /\ source' = IF timer[a] # NoTimer THEN [source EXCEPT ![timer[a]] = "cancelled"] ELSE source
  /\ timer' = [timer EXCEPT ![a] = NoTimer]
  /\ semp' = semp + 1
  /\ UNCHANGED <<timerDic, repeats, captured, timerName, handle>>

(* if (timer) cancel it and remove the key; signal *)
Cancel(a) ==
  /\ Goto(a, "cancel", "idle")
  /\ IF timer[a] # NoTimer
     THEN /\ source' = [source EXCEPT ![timer[a]] = "cancelled"]
          /\ timerDic' = Without(timerName[a])
     ELSE UNCHANGED <<source, timerDic>>
  /\ timer' = [timer EXCEPT ![a] = NoTimer]
  /\ semp' = semp + 1
  /\ UNCHANGED <<repeats, captured, timerName, handle>>

(* The timer fires: its handler runs the task. *)
Fire(t) ==
  /\ source[t] = "active"
  /\ Goto(t, "idle", "task")
  /\ UNCHANGED <<timerDic, semp, source, repeats, captured, timer, timerName, handle>>

(* Mutant: the handler does not cancel a one-shot timer. *)
TaskDoneKeeps(t) ==
  /\ Goto(t, "task", "idle")
  /\ UNCHANGED <<timerDic, semp, source, repeats, captured, timer, timerName, handle>>

(* After task(): a one-shot timer calls [self cancelTask:timerName]. *)
TaskDone(t) ==
  /\ Goto(t, "task", IF repeats[t] THEN "idle" ELSE "cancelWait")
  /\ timerName' = [timerName EXCEPT ![t] = captured[t]]
  /\ UNCHANGED <<timerDic, semp, source, repeats, captured, timer, handle>>

ThreadStep(th) == TakeName(th) \/ Store(th) \/ Resume(th) \/ Return(th)
ActorStep(a) == SemaphoreWait(a) \/ Lookup(a) \/ Cancel(a)
HandlerStep(t) == Fire(t) \/ TaskDone(t)

Next ==
  \/ \E th \in Threads, task \in BOOLEAN, start \in {-1, 0}, interval \in {0, 1},
        rep \in BOOLEAN : HandlerTask(th, task, start, interval, rep)
  \/ \E th \in Threads : ThreadStep(th) \/ CancelTask(th)
  \/ \E a \in Actors : ActorStep(a)
  \/ \E t \in Timers : HandlerStep(t)

Spec == Init /\ [][Next]_vars

(* Threads and handlers keep running and the semaphore serves its waiters;
   nothing obliges a thread to start another call. *)
Fairness ==
  /\ \A th \in Threads : WF_vars(ThreadStep(th))
  /\ \A a \in Actors : SF_vars(SemaphoreWait(a)) /\ WF_vars(Lookup(a) \/ Cancel(a))
  /\ \A t \in Timers : WF_vars(HandlerStep(t))
-------------------------------------------------------------------------------
(* Type invariant: timerDic is a finite table from names to timers. *)
TypeOK ==
  /\ DOMAIN timerDic \subseteq Nat /\ IsFiniteSet(DOMAIN timerDic)
  /\ \A n \in DOMAIN timerDic : timerDic[n] \in Timers
  /\ semp \in Nat
  /\ source \in [Timers -> {"unused", "suspended", "active", "cancelled"}]
  /\ repeats \in [Timers -> BOOLEAN]
  /\ captured \in [Timers -> Names]
  /\ pc \in [Actors -> {"idle", "wait", "name", "store", "resume", "return",
                        "cancelWait", "lookup", "cancel", "task"}]
  /\ timer \in [Actors -> Timers \cup {NoTimer}]
  /\ timerName \in [Actors -> Names]
  /\ handle \in [Threads -> Names]

(* Every entry of timerDic is a source that can still be stopped through it:
   not cancelled, and stored under the very name its own handler will pass to
   cancelTask.  (cancelTask looks up, cancels and removes under semp.) *)
TableSound ==
  \A n \in DOMAIN timerDic :
    /\ source[timerDic[n]] \in {"suspended", "active"}
    /\ captured[timerDic[n]] = n

(* No timer runs on out of reach: a source that can fire is in timerDic under
   the name its handler captured, unless handlerTask has not returned yet. *)
Cancellable ==
  \A t \in Timers :
    source[t] = "active" =>
      \/ captured[t] \in DOMAIN timerDic /\ timerDic[captured[t]] = t
      \/ \E th \in Threads : HeldBy(th, t)

(* The facts the two invariants rest on: semp admits one actor at a time, each
   handler and each thread stays in its own part of the code, the source a
   handlerTask call works on is its own and not stored before the store step,
   and what cancelTask looked up is still in the table when it acts on it. *)
Critical(a) == pc[a] \in {"name", "store", "lookup", "cancel"}

SempExcludes ==
  /\ semp <= 1
  /\ \A a \in Actors : Critical(a) => semp = 0
  /\ \A a, b \in Actors : Critical(a) /\ Critical(b) => a = b

OwnPart ==
  /\ \A th \in Threads : pc[th] # "task"
  /\ \A t \in Timers : ~Creating(t)

OwnSource ==
  \A th \in Threads : Creating(th) =>
    /\ timer[th] \in Timers
    /\ source[timer[th]] # "unused"
    /\ pc[th] \in {"wait", "name", "store"} =>
         source[timer[th]] = "suspended" /\ ~Stored(timer[th], timerDic)
    /\ pc[th] = "store" => timerName[th] \in Nat
    /\ \A o \in Threads : Creating(o) /\ timer[o] = timer[th] => o = th

LookupCurrent ==
  \A a \in Actors : pc[a] = "cancel" /\ timer[a] # NoTimer =>
    timerName[a] \in DOMAIN timerDic /\ timerDic[timerName[a]] = timer[a]

IInv == TypeOK /\ SempExcludes /\ OwnPart /\ OwnSource /\ LookupCurrent
          /\ TableSound /\ Cancellable

(* A one-shot timer that runs: one that can still fire. *)
OneShotRuns(t) == source[t] = "active" /\ ~repeats[t]

(* "the unique identifier of the timer" (WGGCDTimer.h:16): the name handlerTask
   is about to store a timer under is not the name of a timer in the table. *)
NamesUnique ==
  \A th \in Threads : pc[th] = "store" => timerName[th] \notin DOMAIN timerDic
===============================================================================
