-------------------------------- MODULE CFRunLoop ------------------------------
(***************************************************************************)
(* One run loop of CFRunLoop.c, run again and again in one mode by its own  *)
(* thread, while other threads signal sources, queue blocks and stop it.    *)
(* The loop thread holds the lock of the run loop except while it calls out *)
(* or waits; the calls of the other threads take that lock.                 *)
(*                                                                         *)
(* CFRunLoopWakeUp sends nothing while ignoreWakeUps is set, which is from  *)
(* the moment the loop thread has woken up until its next round begins:     *)
(* whatever a caller has queued by then is found by the coming round.  The  *)
(* flag and the stopped flag belong to one run (_perRunData).               *)
(*                                                                         *)
(* The mode is never empty (it has sources, or the port of the main queue), *)
(* its sources and observers stay valid, and callouts do not run the loop   *)
(* again.  A callout may take for ever: hung.                               *)
(***************************************************************************)
EXTENDS Naturals, Sequences, FiniteSets

CONSTANTS Clients,   \* other threads
          Fits,      \* blocks whose mode is the mode of the loop
          Plans      \* what a client does, arguments the loop is run with, how many
                     \* observers the mode has, whether the loop serves the main
                     \* queue, and whether callouts may hang

VARIABLES plan,                         \* one of Plans
          stopped, ignoreWakeUps,      \* _perRunData
          modeStopped,                 \* _stopped of the mode
          ports,                       \* ports with a message
          signaled, blocks,            \* signalled sources and _blocks_head
          term, timerWake,             \* timeout_context, and its handler about to wake
          at,                          \* where each client is
          pc,                          \* where the loop thread is
          run,                         \* arguments of this run
          handled, poll, didDispatchPortLastTime, livePort,
          taken, kept, collected,      \* locals of DoBlocks and DoSources0
          activity, called, resume,    \* locals of DoObservers; where a callee returns
          hung,
          performed        \* history: sources performed and blocks called

flags == <<stopped, ignoreWakeUps, modeStopped>>
timer == <<term, timerWake>>
round == <<handled, poll, didDispatchPortLastTime, livePort>>
observing == <<activity, called>>
loopVars == <<plan, flags, ports, signaled, blocks, timer, at, pc, run, round,
              taken, kept, collected, observing, resume, hung, performed>>

LoopInit ==
  /\ plan \in Plans
  /\ stopped = FALSE /\ ignoreWakeUps = TRUE /\ modeStopped = FALSE
  /\ ports = {} /\ signaled = {} /\ blocks = <<>>
  /\ term = "none" /\ timerWake = FALSE
  /\ at = [c \in Clients |-> "start"]
  /\ pc = "out" /\ run \in plan.runs
  /\ handled = FALSE /\ poll = FALSE /\ didDispatchPortLastTime = TRUE /\ livePort = "none"
  /\ taken = <<>> /\ kept = <<>> /\ collected = {}
  /\ activity = "Exit" /\ called = 0 /\ resume = "out"
  /\ hung = FALSE /\ performed = {}

(* The loop thread does not hold the lock. *)
Unlocked == pc \in {"out", "observe", "block", "perform", "called", "wait", "awake"}
--------------------------------------------------------------------------------
(* CFRunLoopWakeUp: the port's queue has room for one message. *)
WakeUp ==
  /\ Unlocked
  /\ ports' = IF ignoreWakeUps THEN ports ELSE ports \cup {"wakeUp"}

To(c, where) == at' = [at EXCEPT ![c] = where]

(* CFRunLoopSourceSignal: takes the lock of the source only *)
Signal(c) ==
  /\ at[c] = "start" /\ plan.job[c].do = "signal"
  /\ signaled' = signaled \cup {plan.job[c].what}
  /\ To(c, "wake")
  /\ UNCHANGED <<flags, ports, blocks>>

(* CFRunLoopPerformBlock *)
PerformBlock(c) ==
  /\ at[c] = "start" /\ plan.job[c].do = "block" /\ Unlocked
  /\ blocks' = Append(blocks, plan.job[c].what)
  /\ To(c, "wake")
  /\ UNCHANGED <<flags, ports, signaled>>

(* CFRunLoopStop: nothing to stop if the loop is not running in a mode *)
Stop(c) ==
  /\ at[c] = "start" /\ plan.job[c].do = "stop" /\ Unlocked
  /\ stopped' = (stopped \/ pc # "out")
  /\ To(c, IF pc # "out" THEN "wake" ELSE "done")
  /\ UNCHANGED <<ignoreWakeUps, modeStopped, ports, signaled, blocks>>

(* _CFRunLoopStopMode *)
StopMode(c) ==
  /\ at[c] = "start" /\ plan.job[c].do = "stopMode" /\ Unlocked
  /\ modeStopped' = TRUE
  /\ To(c, "wake")
  /\ UNCHANGED <<stopped, ignoreWakeUps, ports, signaled, blocks>>

(* A message for a port of the wait set: the main queue, a timer, a version 1 source *)
Message(c) ==
  /\ at[c] = "start" /\ plan.job[c].do = "message"
  /\ ports' = ports \cup {plan.job[c].what}
  /\ To(c, "done")
  /\ UNCHANGED <<flags, signaled, blocks>>

(* The wake-up a client sends after its call *)
WakeAfter(c) ==
  /\ at[c] = "wake" /\ WakeUp
  /\ To(c, "done")
  /\ UNCHANGED <<flags, signaled, blocks>>

ClientStep(c) ==
  /\ Signal(c) \/ PerformBlock(c) \/ Stop(c) \/ StopMode(c) \/ Message(c) \/ WakeAfter(c)
  /\ UNCHANGED <<plan, timer, pc, run, round, taken, kept, collected, observing, resume,
                 hung, performed>>

(* The end of a run that has a time limit comes, and __CFRunLoopTimeout is called:
   it clears termTSR and wakes the loop up. *)
TimeoutStep ==
  /\ \/ term = "armed" /\ term' = "due" /\ UNCHANGED <<timerWake, ports>>
     \/ term = "due" /\ term' = "past" /\ timerWake' = TRUE /\ UNCHANGED ports
     \/ timerWake /\ WakeUp /\ timerWake' = FALSE /\ UNCHANGED term
  /\ UNCHANGED <<plan, flags, signaled, blocks, at, pc, run, round, taken, kept, collected,
                 observing, resume, hung, performed>>
--------------------------------------------------------------------------------
(* __CFRunLoopDoObservers: call the observers for an activity, then go on. *)
DoObservers(what, then) ==
  /\ pc' = IF plan.observers = 0 THEN then ELSE "observe"
  /\ activity' = what /\ called' = 0
  /\ resume' = then

CallObserver ==
  /\ pc = "observe"
  /\ called' = called + 1
  /\ pc' = IF called' = plan.observers THEN resume ELSE "observe"
  /\ UNCHANGED <<plan, flags, ports, signaled, blocks, timer, at, run, round, taken, kept,
                 collected, activity, resume, hung, performed>>

(* CFRunLoopRunSpecific: the flags of this run are pushed. *)
RunSpecific ==
  /\ pc = "out"
  /\ run' \in plan.runs
  /\ stopped' = FALSE /\ ignoreWakeUps' = FALSE
  /\ DoObservers("Entry", "start")
  /\ UNCHANGED <<modeStopped, ports, signaled, blocks, timer, at, round, taken, kept, collected,
                 hung, performed>>

(* A run ends: its timer is cancelled, the exit observers are called. *)
End ==
  /\ term' = "none" /\ UNCHANGED timerWake
  /\ DoObservers("Exit", "pop")

(* A stop is taken by the run that sees it. *)
TakeStop ==
  /\ stopped \/ modeStopped
  /\ stopped' = FALSE
  /\ modeStopped' = (modeStopped /\ stopped)
  /\ UNCHANGED ignoreWakeUps

(* __CFRunLoopRun begins: it was stopped before, or its time limit is set. *)
Start ==
  /\ pc = "start"
  /\ \/ TakeStop /\ End /\ UNCHANGED didDispatchPortLastTime
     \/ /\ ~stopped /\ ~modeStopped
        /\ term' = CASE run.seconds = "none" -> "past"
                     [] run.seconds = "some" -> "armed"
                     [] run.seconds = "forever" -> "none"
        /\ didDispatchPortLastTime' = TRUE
        /\ pc' = "top" /\ UNCHANGED <<flags, timerWake, observing, resume>>
  /\ UNCHANGED <<ports, signaled, blocks, at, run, handled, poll, livePort, taken, kept, collected,
                 hung, performed>>

(* Mutant: wake-ups stay ignored in the rounds after the first. *)
TopIgnoring ==
  /\ pc = "top"
  /\ DoObservers("BeforeTimers", "beforeSources")
  /\ UNCHANGED <<flags, ports, signaled, blocks, timer, at, run, round, taken, kept, collected,
                 hung, performed>>

(* A round begins: wake-ups count again. *)
Top ==
  /\ pc = "top"
  /\ ignoreWakeUps' = FALSE
  /\ DoObservers("BeforeTimers", "beforeSources")
  /\ UNCHANGED <<stopped, modeStopped, ports, signaled, blocks, timer, at, run, round,
                 taken, kept, collected, hung, performed>>

BeforeSources ==
  /\ pc = "beforeSources"
  /\ DoObservers("BeforeSources", "blocks0")
  /\ UNCHANGED <<flags, ports, signaled, blocks, timer, at, run, round, taken, kept, collected,
                 hung, performed>>
--------------------------------------------------------------------------------
(* __CFRunLoopDoBlocks is called before the sources, after them if one was handled,
   and at the end of the round; where it goes on. *)
AfterBlocks == CASE pc = "blocks0" -> "sources0" [] pc = "blocks1" -> "poll" [] pc = "blocks2" -> "decide"

(* __CFRunLoopDoBlocks takes the whole list and unlocks *)
TakeBlocks ==
  /\ pc \in {"blocks0", "blocks1", "blocks2"}
  /\ taken' = blocks /\ blocks' = <<>>
  /\ resume' = AfterBlocks
  /\ pc' = IF blocks = <<>> THEN AfterBlocks ELSE "block"
  /\ UNCHANGED <<flags, ports, signaled, timer, at, run, round, kept, collected, observing,
                 hung, performed>>

(* calls one block, or keeps it if it is for another mode *)
DoBlock ==
  /\ pc = "block" /\ taken # <<>>
  /\ taken' = Tail(taken)
  /\ IF Head(taken) \in Fits
     THEN hung' \in plan.hangs /\ performed' = performed \cup {Head(taken)} /\ UNCHANGED kept
     ELSE kept' = Append(kept, Head(taken)) /\ UNCHANGED <<hung, performed>>
  /\ UNCHANGED <<flags, ports, signaled, blocks, timer, at, pc, run, round, collected, observing, resume>>

(* Mutant: the kept ones replace those that were queued in between. *)
PutBackOver ==
  /\ pc = "block" /\ taken = <<>>
  /\ blocks' = (IF kept = <<>> THEN blocks ELSE kept) /\ kept' = <<>>
  /\ pc' = resume
  /\ UNCHANGED <<flags, ports, signaled, timer, at, run, round, taken, collected, observing, resume,
                 hung, performed>>

(* and puts the kept ones before those that were queued in between. *)
PutBack ==
  /\ pc = "block" /\ taken = <<>>
  /\ blocks' = kept \o blocks /\ kept' = <<>>
  /\ pc' = resume
  /\ UNCHANGED <<flags, ports, signaled, timer, at, run, round, taken, collected, observing, resume,
                 hung, performed>>

(* __CFRunLoopDoSources0 collects the signalled sources *)
CollectSources0 ==
  /\ pc = "sources0"
  /\ collected' = signaled /\ handled' = FALSE
  /\ pc' = IF signaled = {} THEN "poll" ELSE "perform"
  /\ UNCHANGED <<flags, ports, signaled, blocks, timer, at, run, poll, didDispatchPortLastTime,
                 livePort, taken, kept, observing, resume, hung, performed>>

Enough == collected = {} \/ (run.stopAfterHandle /\ handled)

(* performs one of them *)
PerformSource0 ==
  /\ pc = "perform" /\ ~Enough
  /\ \E s \in collected : /\ collected' = collected \ {s} /\ signaled' = signaled \ {s}
                          /\ performed' = performed \cup {s}
  /\ handled' = TRUE
  /\ hung' \in plan.hangs
  /\ UNCHANGED <<flags, ports, blocks, timer, at, pc, run, poll, didDispatchPortLastTime, livePort,
                 taken, kept, observing, resume>>

(* and locks again when it is through, or after one source if the run is to stop then. *)
Performed ==
  /\ pc = "perform" /\ Enough
  /\ collected' = {}
  /\ pc' = IF handled THEN "blocks1" ELSE "poll"
  /\ UNCHANGED <<flags, ports, signaled, blocks, timer, at, run, round, taken, kept, observing, resume, hung, performed>>
--------------------------------------------------------------------------------
(* Look at the main queue first, unless it came last time; then wait, without
   sleeping if something was handled or the time is over. *)
Poll ==
  /\ pc = "poll"
  /\ poll' = (handled \/ term = "past")
  /\ IF plan.main /\ ~didDispatchPortLastTime /\ "main" \in ports
     THEN /\ livePort' = "main" /\ ports' = ports \ {"main"} /\ pc' = "handle"
          /\ UNCHANGED <<didDispatchPortLastTime, observing, resume>>
     ELSE /\ didDispatchPortLastTime' = FALSE
          /\ IF poll' THEN pc' = "wait" /\ UNCHANGED <<observing, resume>>
                      ELSE DoObservers("BeforeWaiting", "wait")
          /\ UNCHANGED <<livePort, ports>>
  /\ UNCHANGED <<flags, signaled, blocks, timer, at, run, handled, taken, kept, collected,
                 hung, performed>>

(* __CFRunLoopServiceMachPort: a message, or none if there is no time to wait *)
Receive ==
  /\ pc = "wait"
  /\ \/ \E p \in ports : livePort' = p /\ ports' = ports \ {p}
     \/ poll /\ ports = {} /\ livePort' = "none" /\ UNCHANGED ports
  /\ pc' = "awake"
  /\ UNCHANGED <<flags, signaled, blocks, timer, at, run, handled, poll, didDispatchPortLastTime,
                 taken, kept, collected, observing, resume, hung, performed>>

Awake ==
  /\ pc = "awake"
  /\ ignoreWakeUps' = TRUE
  /\ IF poll THEN pc' = "handle" /\ UNCHANGED <<observing, resume>>
             ELSE DoObservers("AfterWaiting", "handle")
  /\ UNCHANGED <<stopped, modeStopped, ports, signaled, blocks, timer, at, run, round,
                 taken, kept, collected, hung, performed>>

(* handle_msg: a wake-up alone needs nothing; the others call out. *)
HandleMessage ==
  /\ pc = "handle"
  /\ ignoreWakeUps' = TRUE
  /\ IF livePort \in {"none", "wakeUp"}
     THEN pc' = "blocks2" /\ UNCHANGED <<handled, didDispatchPortLastTime, hung>>
     ELSE /\ pc' = "called"
          /\ handled' = (handled \/ livePort # "timer")
          /\ didDispatchPortLastTime' = (didDispatchPortLastTime \/ livePort = "main")
          /\ hung' \in plan.hangs
  /\ UNCHANGED <<stopped, modeStopped, ports, signaled, blocks, timer, at, run, poll, livePort,
                 taken, kept, collected, observing, resume, performed>>

Called ==
  /\ pc = "called"
  /\ pc' = "blocks2"
  /\ UNCHANGED <<flags, ports, signaled, blocks, timer, at, run, round, taken, kept, collected,
                 observing, resume, hung, performed>>

(* The end of a round: return, or another one. *)
Decide ==
  /\ pc = "decide"
  /\ livePort' = "none"
  /\ \/ (handled /\ run.stopAfterHandle) /\ End /\ UNCHANGED flags
     \/ ~(handled /\ run.stopAfterHandle) /\ term \in {"due", "past"} /\ End /\ UNCHANGED flags
     \/ ~(handled /\ run.stopAfterHandle) /\ term \notin {"due", "past"} /\ TakeStop /\ End
     \/ /\ ~(handled /\ run.stopAfterHandle) /\ term \notin {"due", "past"} /\ ~stopped /\ ~modeStopped
        /\ pc' = "top" /\ UNCHANGED <<flags, timer, observing, resume>>
  /\ UNCHANGED <<ports, signaled, blocks, at, run, handled, poll, didDispatchPortLastTime,
                 taken, kept, collected, hung, performed>>

(* The flags of the run are popped. *)
Pop ==
  /\ pc = "pop"
  /\ pc' = "out"
  /\ stopped' = FALSE /\ ignoreWakeUps' = TRUE
  /\ UNCHANGED <<modeStopped, ports, signaled, blocks, timer, at, run, round, taken, kept, collected,
                 observing, resume, hung, performed>>

(* What the loop thread does besides calling observers *)
LoopStep ==
  /\ ~hung /\ UNCHANGED plan
  /\ \/ RunSpecific \/ Start \/ Top \/ BeforeSources \/ TakeBlocks \/ DoBlock \/ PutBack
     \/ CollectSources0 \/ PerformSource0 \/ Performed \/ Poll \/ Receive \/ Awake
     \/ HandleMessage \/ Called \/ Decide \/ Pop

(* A callout that has hung comes back after all. *)
Recover ==
  /\ hung /\ hung' = FALSE
  /\ UNCHANGED <<plan, flags, ports, signaled, blocks, timer, at, pc, run, round, taken, kept,
                 collected, observing, resume, performed>>
--------------------------------------------------------------------------------
Asleep == pc = "wait" /\ ~poll /\ ports = {}

(* No wake-up is lost: when the loop sleeps and nobody is about to wake it, there is
   nothing for it to do, although wake-ups sent while it was busy were ignored and
   two wake-ups may have left one message (comment at CFRunLoopWakeUp). *)
NoLostWakeUp ==
  (Asleep /\ ~timerWake /\ \A c \in Clients : at[c] # "wake") =>
    /\ signaled = {} /\ ~stopped /\ ~modeStopped /\ term # "past"
    /\ \A i \in DOMAIN blocks : blocks[i] \notin Fits

Asked(c) == at[c] # "start" /\ (plan.job[c].do = "signal" \/ plan.job[c].what \in Fits)

(* Everything that was asked for is done, whatever the loop was at when it was asked:
   sources are performed, blocks for this mode called although DoBlocks works on a list
   it has taken, and the stop of a run taken, unless a callout hangs. *)
WorkServed ==
  /\ \A c \in Clients : Asked(c) ~> (plan.job[c].what \in performed \/ hung)
  /\ (stopped \/ modeStopped) ~> ((~stopped /\ ~modeStopped) \/ hung)
================================================================================
