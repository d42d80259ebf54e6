------------------------------- MODULE MCDispatch ------------------------------
(***************************************************************************)
(* Each object of libdispatch, used by three threads:                       *)
(*   - semaphore: three users; a user beside a poster and a taker; two      *)
(*     takers that compete for what a poster signals;                       *)
(*   - group: waits while the group empties, fills and empties again, and   *)
(*     notifications of two threads against the last leave of a third;      *)
(*   - once: three first calls; and, with the quiescent counter, two and a  *)
(*     later one, while the counter moves as far as the code waits for;     *)
(*   - lock: two rounds of each thread;                                     *)
(*   - timers: the timers of WGGCDTimer, which a dispatch semaphore guards;  *)
(*     one thread creates and cancels three of them.                        *)
(* The objects that are not used start in one way only: the state space is  *)
(* the sum of theirs.                                                       *)
(***************************************************************************)
EXTENDS Dispatch

CONSTANTS a, b, c

ByThread(x, y, z) == [t \in {a, b, c} |-> IF t = a THEN x ELSE IF t = b THEN y ELSE z]

MCThreads == {a, b, c}
MCCalls == [r \in {"user", "poster", "taker"} |-> IF r = "user" THEN 1 ELSE 2]
MCRoles == {ByThread("user", "user", "user"), ByThread("user", "poster", "taker"),
            ByThread("taker", "poster", "taker")}
AllKinds == {"semaphore", "group", "once", "lock", "timers"}
GroupOnly == {"group"}

MCPrograms ==
  {ByThread(<<"enter", "leave", "leave", "release">>, <<"enter", "wait", "release">>, <<"wait", "release">>),
   ByThread(<<"enter", "notify", "release">>, <<"enter", "notify", "release">>, <<"leave", "leave">>),
   ByThread(<<"enter", "leave", "enter", "leave", "release">>, <<"wait", "wait", "release">>,
            <<"wait", "notify", "release">>),
   ByThread(<<"enter", "leave", "notify", "release">>, <<"enter", "leave", "notify", "release">>,
            <<"wait", "release">>)}
MCPlans == {ByThread(1, 1, 1), ByThread(2, 1, 0)}
MCBuilds == BOOLEAN
MCTimers == 1..3

VARIABLES timerDic, semp, source, repeats, captured, tPc, timer, timerName, handle

timerVars == <<timerDic, semp, source, repeats, captured, tPc, timer, timerName, handle>>

Gcd == INSTANCE WGGCDTimer WITH
  Threads <- {a}, Timers <- MCTimers, NoTimer <- Nobody, NoName <- NoPort, pc <- tPc

(* The timers are all alike: they are created in the order of their numbers. *)
InOrder == \A t \in MCTimers \ {1} : source[t] # "unused" => source[t - 1] # "unused"

MCInit ==
  /\ DispatchInit
  /\ kind # "semaphore" => role = ByThread("user", "user", "user")
  /\ kind # "group" => refs = 2
  /\ kind # "once" => ~quiescent
  /\ quiescent = (calls[c] = 0)
  /\ Gcd!Init

MCNext ==
  \/ DispatchNext /\ UNCHANGED timerVars
  \/ kind = "timers" /\ UNCHANGED allVars /\ Gcd!Next /\ InOrder'

mcVars == <<allVars, timerVars>>
MCSpec == MCInit /\ [][MCNext]_mcVars

(* The steps of a thread that Fairness of each module is about, by kind. *)
ThreadStep(t) ==
  /\ \/ kind = "semaphore" /\ Step(t) /\ UNCHANGED <<kind, groupVars, onceVars, lockVars>>
     \/ kind = "group" /\ Group!Step(t) /\ UNCHANGED <<kind, vars, onceVars, lockVars>>
     \/ kind = "once" /\ Once!Step(t) /\ UNCHANGED <<kind, vars, groupVars, lockVars>>
     \/ kind = "lock" /\ Unfair!Step(t) /\ UNCHANGED <<kind, vars, groupVars, onceVars>>
  /\ UNCHANGED timerVars
ThreadCall(t) ==
  /\ \/ kind = "semaphore" /\ Call(t) /\ UNCHANGED <<kind, groupVars, onceVars, lockVars>>
     \/ kind = "group" /\ Group!Call(t) /\ UNCHANGED <<kind, vars, onceVars, lockVars>>
  /\ UNCHANGED timerVars
ThreadTimedOut(t) ==
  kind = "semaphore" /\ TimedOut(t) /\ UNCHANGED <<kind, groupVars, onceVars, lockVars, timerVars>>

MCFairSpec ==
  /\ MCSpec
  /\ \A t \in Threads :
       WF_mcVars(ThreadStep(t)) /\ WF_mcVars(ThreadCall(t)) /\ WF_mcVars(ThreadTimedOut(t))
  /\ Gcd!Fairness
--------------------------------------------------------------------------------
(* Every one-shot timer is eventually cancelled, by its own handler or because
   cancelTask or handlerTask let go of it (the event handler block of
   WGGCDTimer.m).  The three timers are created once each, so it is enough that in
   the end none of them runs. *)
EveryOneShotEnds == <>[](\A t \in MCTimers : ~Gcd!OneShotRuns(t))
================================================================================
