------------------------ MODULE WGMonitorManageDMProofs ------------------------
(***************************************************************************)
(* No wake-up of the run loop is lost, for every set of threads, every set  *)
(* of jobs they do and every way the loop is run: the loop never sleeps on  *)
(* work somebody has queued.                                                *)
(*                                                                         *)
(* A wake-up that is sent while the loop ignores them leaves no trace, so   *)
(* the invariant says, for each place of the round, what the loop will look *)
(* at again before it sleeps, and that all else has a wake-up on its way.   *)
(***************************************************************************)
EXTENDS WGMonitorManageDM, TLAPS

(* A wake-up that the loop has not received, or that somebody is about to send *)
Coming == "wakeUp" \in ports \/ timerWake \/ \E c \in Clients : at[c] = "wake"

(* Where the round goes on: a callee of it has been called from there. *)
Place == IF pc \in {"observe", "block"} THEN resume ELSE pc

Work == {p.job[c].what : p \in Plans, c \in Clients}

(* What the loop will not look for again in this round once it is at the place *)
SeenStops == {"beforeSources", "blocks0", "sources0", "perform", "blocks1", "poll", "wait"}
SeenBlocks == {"sources0", "perform", "blocks1", "poll", "wait"}

LoopType ==
  /\ plan \in Plans
  /\ at \in [Clients -> {"start", "wake", "done"}]
  /\ stopped \in BOOLEAN /\ modeStopped \in BOOLEAN /\ ignoreWakeUps \in BOOLEAN
  /\ handled \in BOOLEAN /\ poll \in BOOLEAN
  /\ blocks \in Seq(Work) /\ taken \in Seq(Work) /\ kept \in Seq(Work)
  /\ pc = "observe" => resume \in {"start", "beforeSources", "blocks0", "wait", "handle", "pop"}
  /\ pc = "block" => resume \in {"sources0", "poll", "decide"}

(* A block that DoBlocks keeps is for another mode. *)
KeptForOthers == \A i \in 1..Len(kept) : kept[i] \notin Fits

(* Wake-ups count from the beginning of a round to its end. *)
Listening == Place \in SeenStops => ~ignoreWakeUps

StopsSeen ==
  /\ pc = "top" => ~stopped /\ ~modeStopped
  /\ Place \in SeenStops /\ (stopped \/ modeStopped) => Coming

BlocksSeen ==
  Place \in SeenBlocks /\ (\E i \in 1..Len(blocks) : blocks[i] \in Fits) => Coming

(* A source that is signalled is collected, or there will be no sleep. *)
SourcesSeen ==
  /\ Place = "perform" => (signaled \subseteq collected \/ Coming)
  /\ Place = "blocks1" => handled
  /\ Place = "poll" => (handled \/ signaled = {} \/ Coming)
  /\ Place = "wait" => (poll \/ signaled = {} \/ Coming)

TimeoutSeen == Place = "wait" => (poll \/ term # "past" \/ Coming)

LoopInv == LoopType /\ KeptForOthers /\ Listening /\ StopsSeen /\ BlocksSeen /\ SourcesSeen /\ TimeoutSeen

--------------------------------------------------------------------------------
LEMMA LoopInit1 == Init => LoopInv
<1> SUFFICES ASSUME Init PROVE LoopInv
  OBVIOUS
<1>1. pc = "out" /\ Place = "out" /\ kept = << >> /\ blocks = << >> /\ taken = << >>
  BY DEF Init, LoopInit, Place
<1>2. << >> \in Seq(Work) /\ Len(<< >>) = 0
  OBVIOUS
<1>3. LoopType
  BY <1>1, <1>2 DEF Init, LoopInit, LoopType
<1> QED
  BY <1>1, <1>2, <1>3 DEF LoopInv, KeptForOthers, Listening, StopsSeen, BlocksSeen, SourcesSeen, TimeoutSeen,
     SeenStops, SeenBlocks

(* What a client does brings a wake-up with it: the loop does not move. *)
LEMMA LoopClient ==
  ASSUME LoopInv, NEW c \in Clients, ClientStep(c)
  PROVE  LoopInv'
<1> USE DEF LoopInv, Unlocked, To
<1>0. /\ plan.job[c].what \in Work
      /\ pc' = pc /\ resume' = resume /\ Place' = Place /\ handled' = handled /\ poll' = poll
      /\ term' = term /\ timerWake' = timerWake /\ collected' = collected /\ kept' = kept
      /\ taken' = taken /\ plan' = plan
  BY DEF ClientStep, Work, LoopType, Place, round, timer
<1>t. KeptForOthers'
  BY <1>0 DEF KeptForOthers
<1>1. CASE Signal(c)
  <2>1. Coming' /\ at' \in [Clients -> {"start", "wake", "done"}]
    BY <1>1 DEF Signal, LoopType, Coming
  <2> QED
    BY <1>0, <1>1, <1>t, <2>1 DEF Signal, flags, LoopType, Listening, StopsSeen, BlocksSeen, SourcesSeen, TimeoutSeen
<1>2. CASE PerformBlock(c)
  <2>1. Coming' /\ at' \in [Clients -> {"start", "wake", "done"}]
    BY <1>2 DEF PerformBlock, LoopType, Coming
  <2>2. blocks' \in Seq(Work)
    BY <1>0, <1>2 DEF PerformBlock, LoopType
  <2> QED
    BY <1>0, <1>2, <1>t, <2>1, <2>2
    DEF PerformBlock, flags, LoopType, Listening, StopsSeen, BlocksSeen, SourcesSeen, TimeoutSeen
<1>3. CASE Stop(c)
  <2>1. at' \in [Clients -> {"start", "wake", "done"}]
    BY <1>3 DEF Stop, LoopType
  <2>2. CASE pc = "out"
    <3>1. stopped' = stopped
      BY <1>3, <2>2 DEF Stop, LoopType
    <3> QED
      BY <1>0, <1>3, <1>t, <2>1, <2>2, <3>1 DEF Stop, LoopType, Listening, StopsSeen, BlocksSeen, SourcesSeen, TimeoutSeen,
         Place, SeenStops, SeenBlocks
  <2>3. CASE pc # "out"
    <3>1. Coming' /\ stopped' \in BOOLEAN
      BY <1>3, <2>3 DEF Stop, LoopType, Coming
    <3>2. pc # "top"
      BY <1>3 DEF Stop
    <3> QED
      BY <1>0, <1>3, <1>t, <2>1, <3>1, <3>2 DEF Stop, LoopType, Listening, StopsSeen, BlocksSeen, SourcesSeen, TimeoutSeen
  <2> QED
    BY <2>2, <2>3
<1>4. CASE StopMode(c)
  <2>1. Coming' /\ at' \in [Clients -> {"start", "wake", "done"}]
    BY <1>4 DEF StopMode, LoopType, Coming
  <2> QED
    BY <1>0, <1>4, <1>t, <2>1
    DEF StopMode, LoopType, Listening, StopsSeen, BlocksSeen, SourcesSeen, TimeoutSeen
<1>5. CASE Message(c)
  <2>1. at' \in [Clients -> {"start", "wake", "done"}] /\ (Coming => Coming')
    BY <1>0, <1>5 DEF Message, LoopType, Coming
  <2> QED
    BY <1>0, <1>5, <1>t, <2>1
    DEF Message, flags, LoopType, Listening, StopsSeen, BlocksSeen, SourcesSeen, TimeoutSeen
<1>6. CASE WakeAfter(c)
  <2>1. at' \in [Clients -> {"start", "wake", "done"}]
    BY <1>6 DEF WakeAfter, LoopType
  <2>2. ~ignoreWakeUps => Coming'
    BY <1>6 DEF WakeAfter, WakeUp, Coming
  <2>3. Place \in SeenStops => Coming'
    BY <2>2 DEF Listening
  <2>4. Place \in SeenBlocks \cup {"wait"} => Place \in SeenStops
    BY DEF SeenBlocks, SeenStops
  <2> QED
    BY <1>0, <1>6, <1>t, <2>1, <2>3, <2>4
    DEF WakeAfter, flags, LoopType, Listening, StopsSeen, BlocksSeen, SourcesSeen, TimeoutSeen, SeenStops
<1> QED
  BY <1>1, <1>2, <1>3, <1>4, <1>5, <1>6 DEF ClientStep

LEMMA LoopTimeout == LoopInv /\ TimeoutStep => LoopInv'
<1> SUFFICES ASSUME LoopInv, TimeoutStep PROVE LoopInv'
  OBVIOUS
<1> USE DEF LoopInv
<1>0. /\ pc' = pc /\ resume' = resume /\ Place' = Place /\ handled' = handled /\ poll' = poll
      /\ collected' = collected /\ kept' = kept /\ blocks' = blocks /\ signaled' = signaled
      /\ taken' = taken /\ plan' = plan /\ at' = at
      /\ stopped' = stopped /\ modeStopped' = modeStopped /\ ignoreWakeUps' = ignoreWakeUps
  BY DEF TimeoutStep, Place, round, flags
<1>1. LoopType' /\ KeptForOthers' /\ Listening'
  BY <1>0 DEF LoopType, KeptForOthers, Listening
<1>2. /\ Place \in SeenStops => (Coming => Coming')
      /\ Place \in SeenStops => (term' = "past" => (term = "past" \/ Coming'))
  BY <1>0 DEF TimeoutStep, WakeUp, Coming, Listening
<1>3. Place \in SeenBlocks \cup {"perform", "poll", "wait"} => Place \in SeenStops
  BY DEF SeenBlocks, SeenStops
<1> QED
  BY <1>0, <1>1, <1>2, <1>3 DEF StopsSeen, BlocksSeen, SourcesSeen, TimeoutSeen, SeenStops

LEMMA LoopObserver == LoopInv /\ CallObserver => LoopInv'
<1> SUFFICES ASSUME LoopInv, CallObserver PROVE LoopInv'
  OBVIOUS
<1> USE DEF LoopInv
<1>0. /\ resume' = resume /\ handled' = handled /\ poll' = poll /\ term' = term
      /\ collected' = collected /\ kept' = kept /\ blocks' = blocks /\ signaled' = signaled
      /\ taken' = taken /\ plan' = plan /\ at' = at /\ Coming' = Coming
      /\ stopped' = stopped /\ modeStopped' = modeStopped /\ ignoreWakeUps' = ignoreWakeUps
      /\ pc = "observe" /\ pc' \in {"observe", resume}
  BY DEF CallObserver, round, flags, timer, Coming
<1>1. Place' = Place /\ pc' # "top" /\ pc' # "block"
  BY <1>0 DEF LoopType, Place
<1> QED
  BY <1>0, <1>1 DEF LoopType, KeptForOthers, Listening, StopsSeen, BlocksSeen, SourcesSeen, TimeoutSeen
--------------------------------------------------------------------------------
(* The steps of the loop thread that leave the places where something could be missed *)
LEMMA LoopOutside ==
  ASSUME LoopInv,
         RunSpecific \/ Start \/ Receive \/ Awake \/ HandleMessage \/ Called \/ Decide \/ Pop,
         UNCHANGED plan
  PROVE  LoopInv'
<1> USE DEF LoopInv
<1>0. /\ at' = at /\ kept' = kept /\ blocks' = blocks /\ taken' = taken /\ plan' = plan
      /\ poll' = poll /\ handled' \in BOOLEAN
  BY DEF RunSpecific, Start, Receive, Awake, HandleMessage, Called, Decide, Pop, round, LoopType
<1>1. /\ stopped' \in BOOLEAN /\ modeStopped' \in BOOLEAN /\ ignoreWakeUps' \in BOOLEAN
      /\ pc' \in {"observe", "top", "awake", "handle", "blocks2", "called", "start", "pop", "out"}
      /\ pc' = "observe" => resume' \in {"start", "handle", "pop"}
      /\ pc' = "top" => ~stopped' /\ ~modeStopped'
  <2>0. TakeStop => stopped' \in BOOLEAN /\ modeStopped' \in BOOLEAN /\ ignoreWakeUps' = ignoreWakeUps
    BY Zenon DEF TakeStop
  <2>1. CASE Start
    <3>1. \/ TakeStop /\ End
          \/ ~stopped /\ ~modeStopped /\ pc' = "top" /\ UNCHANGED flags
      BY <2>1, Zenon DEF Start
    <3> QED
      BY <2>0, <3>1 DEF End, DoObservers, flags, LoopType
  <2>2. CASE Decide
    <3>1. \/ UNCHANGED flags /\ End
          \/ TakeStop /\ End
          \/ ~stopped /\ ~modeStopped /\ pc' = "top" /\ UNCHANGED flags
      BY <2>2, Zenon DEF Decide
    <3> QED
      BY <2>0, <3>1 DEF End, DoObservers, flags, LoopType
  <2>3. CASE RunSpecific \/ Receive \/ Awake \/ HandleMessage \/ Called \/ Pop
    BY <2>3 DEF RunSpecific, Receive, Awake, HandleMessage, Called, Pop, DoObservers, flags, LoopType
  <2> QED
    BY <2>1, <2>2, <2>3
<1>2. Place' \notin SeenStops \cup SeenBlocks
  BY <1>1 DEF Place, SeenStops, SeenBlocks
<1> QED
  BY <1>0, <1>1, <1>2 DEF LoopType, KeptForOthers, Listening, StopsSeen, BlocksSeen, SourcesSeen, TimeoutSeen,
     SeenStops
--------------------------------------------------------------------------------
(* A round begins, and DoBlocks and DoSources0 look for work. *)
LEMMA LoopTop ==
  ASSUME LoopInv, Top \/ BeforeSources, UNCHANGED plan
  PROVE  LoopInv'
<1> USE DEF LoopInv
<1>0. /\ at' = at /\ kept' = kept /\ blocks' = blocks /\ taken' = taken /\ plan' = plan
      /\ poll' = poll /\ handled' = handled /\ stopped' = stopped /\ modeStopped' = modeStopped
      /\ Coming' = Coming
  BY DEF Top, BeforeSources, round, timer, flags, Coming
<1>1. /\ pc' = "observe" => resume' \in {"beforeSources", "blocks0"}
      /\ pc' \in {"observe", "beforeSources", "blocks0"}
      /\ ~ignoreWakeUps'
      /\ (stopped \/ modeStopped) => Coming
  BY DEF Top, BeforeSources, DoObservers, flags, Listening, StopsSeen, Place, SeenStops, LoopType
<1>2. Place' \in {"beforeSources", "blocks0"}
  BY <1>1 DEF Place
<1>3. LoopType'
  <2>1. ignoreWakeUps' \in BOOLEAN
    BY DEF Top, BeforeSources, flags, LoopType
  <2> QED
    BY <1>0, <1>1, <2>1 DEF LoopType
<1> QED
  BY <1>0, <1>1, <1>2, <1>3 DEF KeptForOthers, Listening, StopsSeen, BlocksSeen, SourcesSeen, TimeoutSeen,
     SeenStops, SeenBlocks

LEMMA LoopBlocks ==
  ASSUME LoopInv, TakeBlocks \/ DoBlock \/ PutBack, UNCHANGED plan
  PROVE  LoopInv'
<1> USE DEF LoopInv
<1>0. /\ at' = at /\ plan' = plan /\ poll' = poll /\ handled' = handled /\ term' = term
      /\ stopped' = stopped /\ modeStopped' = modeStopped /\ ignoreWakeUps' = ignoreWakeUps
      /\ signaled' = signaled /\ collected' = collected /\ Coming' = Coming
  BY DEF TakeBlocks, DoBlock, PutBack, round, timer, flags, Coming
<1>1. CASE TakeBlocks
  <2>1. /\ pc = "blocks0" => AfterBlocks = "sources0"
        /\ pc = "blocks1" => AfterBlocks = "poll"
        /\ pc = "blocks2" => AfterBlocks = "decide"
    BY Zenon DEF AfterBlocks
  <2>2. /\ taken' \in Seq(Work) /\ blocks' = << >> /\ kept' = kept
        /\ pc' \in {"block", "sources0", "poll", "decide"}
        /\ Place' = AfterBlocks
        /\ pc' = "block" => resume' \in {"sources0", "poll", "decide"}
        /\ Place = pc
    BY <1>1, <2>1 DEF TakeBlocks, LoopType, Place
  <2>3. blocks' \in Seq(Work) /\ Len(blocks') = 0
    BY <2>2
  <2> QED
    BY <1>0, <1>1, <2>1, <2>2, <2>3 DEF TakeBlocks, LoopType, KeptForOthers, Listening, StopsSeen, BlocksSeen,
       SourcesSeen, TimeoutSeen, SeenStops, SeenBlocks
<1>2. CASE DoBlock
  <2>1. /\ taken' \in Seq(Work) /\ blocks' = blocks /\ pc' = pc /\ resume' = resume /\ Place' = Place
        /\ Head(taken) \in Work
    BY <1>2 DEF DoBlock, LoopType, Place
  <2>2. kept' \in Seq(Work) /\ KeptForOthers'
    <3>1. CASE Head(taken) \in Fits
      BY <1>2, <3>1 DEF DoBlock, LoopType, KeptForOthers
    <3>2. CASE Head(taken) \notin Fits
      <4>1. kept' = Append(kept, Head(taken)) /\ kept \in Seq(Work)
        BY <1>2, <3>2 DEF DoBlock, LoopType
      <4>2. /\ kept' \in Seq(Work) /\ Len(kept') = Len(kept) + 1 /\ Len(kept) \in Nat
            /\ \A i \in 1..(Len(kept) + 1) : kept'[i] = IF i <= Len(kept) THEN kept[i] ELSE Head(taken)
        BY <2>1, <4>1
      <4> QED
        BY <3>2, <4>2 DEF KeptForOthers
    <3> QED
      BY <3>1, <3>2
  <2> QED
    BY <1>0, <2>1, <2>2 DEF LoopType, Listening, StopsSeen, BlocksSeen, SourcesSeen, TimeoutSeen
<1>3. CASE PutBack
  <2>1. /\ blocks' = kept \o blocks /\ kept' = << >> /\ taken' = taken /\ pc' = resume /\ resume' = resume
        /\ pc = "block" /\ resume \in {"sources0", "poll", "decide"}
    BY <1>3 DEF PutBack, LoopType
  <2>2. /\ blocks' \in Seq(Work) /\ kept' \in Seq(Work) /\ Len(kept') = 0 /\ Place' = Place
    BY <2>1 DEF LoopType, Place
  <2>3. (\E i \in 1..Len(blocks') : blocks'[i] \in Fits) => \E i \in 1..Len(blocks) : blocks[i] \in Fits
    <3> SUFFICES ASSUME NEW i \in 1..Len(kept \o blocks), (kept \o blocks)[i] \in Fits
                 PROVE  \E j \in 1..Len(blocks) : blocks[j] \in Fits
      BY <2>1
    <3>1. /\ Len(kept) \in Nat /\ Len(blocks) \in Nat /\ i \in 1..(Len(kept) + Len(blocks))
          /\ (kept \o blocks)[i] = IF i <= Len(kept) THEN kept[i] ELSE blocks[i - Len(kept)]
      BY DEF LoopType
    <3>2. ~(i <= Len(kept))
      BY <3>1 DEF KeptForOthers
    <3> QED
      BY <3>1, <3>2
  <2> QED
    BY <1>0, <2>1, <2>2, <2>3 DEF LoopType, KeptForOthers, Listening, StopsSeen, BlocksSeen, SourcesSeen, TimeoutSeen
<1> QED
  BY <1>1, <1>2, <1>3

LEMMA LoopSources ==
  ASSUME LoopInv, CollectSources0 \/ PerformSource0 \/ Performed, UNCHANGED plan
  PROVE  LoopInv'
<1> USE DEF LoopInv
<1>0. /\ at' = at /\ plan' = plan /\ poll' = poll /\ term' = term
      /\ stopped' = stopped /\ modeStopped' = modeStopped /\ ignoreWakeUps' = ignoreWakeUps
      /\ blocks' = blocks /\ taken' = taken /\ kept' = kept /\ resume' = resume /\ Coming' = Coming
  BY DEF CollectSources0, PerformSource0, Performed, round, timer, flags, Coming
<1>1. /\ pc \in {"sources0", "perform"} /\ pc' \in {"perform", "blocks1", "poll"}
      /\ handled' \in BOOLEAN
  BY DEF CollectSources0, PerformSource0, Performed, LoopType, round
<1>2. Place = pc /\ Place' = pc'
  BY <1>1 DEF Place
<1>3. LoopType' /\ KeptForOthers' /\ Listening' /\ StopsSeen' /\ BlocksSeen' /\ TimeoutSeen'
  BY <1>0, <1>1, <1>2 DEF LoopType, KeptForOthers, Listening, StopsSeen, BlocksSeen, TimeoutSeen, SeenStops, SeenBlocks
<1>4. SourcesSeen'
  BY <1>0, <1>1, <1>2 DEF CollectSources0, PerformSource0, Performed, Enough, SourcesSeen, round, LoopType
<1> QED
  BY <1>3, <1>4

(* The last look before the loop sleeps *)
LEMMA LoopPoll ==
  ASSUME LoopInv, Poll, UNCHANGED plan
  PROVE  LoopInv'
<1> USE DEF LoopInv
<1>0. /\ at' = at /\ plan' = plan /\ term' = term /\ timerWake' = timerWake /\ handled' = handled
      /\ stopped' = stopped /\ modeStopped' = modeStopped /\ ignoreWakeUps' = ignoreWakeUps
      /\ blocks' = blocks /\ taken' = taken /\ kept' = kept /\ signaled' = signaled
      /\ pc = "poll" /\ poll' = (handled \/ term = "past")
      /\ ports \ {"main"} \subseteq ports'
  BY DEF Poll, timer, flags
<1>1. /\ pc' \in {"handle", "wait", "observe"}
      /\ pc' = "observe" => resume' = "wait"
  BY DEF Poll, DoObservers
<1>2. /\ Place = "poll" /\ Place' \in {"handle", "wait"} /\ (Coming => Coming') /\ poll' \in BOOLEAN
  BY <1>0, <1>1 DEF Place, Coming, LoopType
<1> QED
  BY <1>0, <1>1, <1>2 DEF LoopType, KeptForOthers, Listening, StopsSeen, BlocksSeen, SourcesSeen, TimeoutSeen,
     SeenStops, SeenBlocks
--------------------------------------------------------------------------------
(* NoLostWakeUp (CFRunLoopWakeUp drops a wake-up while ignoreWakeUps is set): the loop
   never sleeps on a signalled source, a block for its mode, a stop or a time that is
   over unless somebody is about to wake it up, whatever threads there are and whatever
   they ask for, and however the loop is run. *)
THEOREM WakeUpsAreNotLost == Spec => []NoLostWakeUp
<1>1. Init => LoopInv
  BY LoopInit1
<1>2. LoopInv /\ [Next]_vars => LoopInv'
  <2> SUFFICES ASSUME LoopInv, [Next]_vars PROVE LoopInv'
    OBVIOUS
  <2>1. CASE CallObserver
    BY <2>1, LoopObserver
  <2>2. CASE LoopStep
    BY <2>2, LoopOutside, LoopTop, LoopBlocks, LoopSources, LoopPoll DEF LoopStep
  <2>3. CASE TimeoutStep
    BY <2>3, LoopTimeout
  <2>4. CASE \E c \in Clients : ClientStep(c)
    BY <2>4, LoopClient
  <2>5. CASE Recover \/ UNCHANGED loopVars
    <3>1. /\ UNCHANGED <<plan, flags, ports, signaled, blocks, timer, at, pc, round, taken, kept, collected,
                         resume>>
      BY <2>5 DEF Recover, loopVars
    <3> QED
      BY <3>1 DEF LoopInv, LoopType, KeptForOthers, Listening, StopsSeen, BlocksSeen, SourcesSeen, TimeoutSeen,
         Place, Coming, flags, timer, round
  <2> QED
    BY <2>4, <2>1, <2>5, <2>3, <2>2 DEF Next, vars, Observed, LoopOnly, MonitorStep
<1>3. LoopInv => NoLostWakeUp
  <2> SUFFICES ASSUME LoopInv, Asleep, ~timerWake, \A c \in Clients : at[c] # "wake"
               PROVE  /\ signaled = {} /\ ~stopped /\ ~modeStopped /\ term # "past"
                      /\ \A i \in DOMAIN blocks : blocks[i] \notin Fits
    BY DEF NoLostWakeUp
  <2>1. Place = "wait" /\ ~Coming /\ ~poll
    BY DEF Asleep, Place, Coming
  <2> QED
    BY <2>1 DEF LoopInv, LoopType, StopsSeen, BlocksSeen, SourcesSeen, TimeoutSeen, SeenStops, SeenBlocks
<1> QED
  BY <1>1, <1>2, <1>3, PTL DEF Spec
================================================================================
