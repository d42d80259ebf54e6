--------------------------- MODULE WGMonitorManageDM ---------------------------
(***************************************************************************)
(* WGMonitorManageDM.m composed with the run loop it watches: two observers *)
(* of the main run loop store the activity and signal a semaphore, and a    *)
(* thread of its own waits for that semaphore for six seconds at a time.    *)
(* When a wait times out and the last activity says that the loop was at    *)
(* work, a hang is reported.                                                *)
(*                                                                         *)
(* The semaphore is the counting semaphore DispatchSemaphore implements.    *)
(* Six seconds pass only while the loop sleeps or a callout hangs: what the *)
(* loop does in between is short.  g_bRun, g_tvRun and g_runLoopMode are    *)
(* written and never read, and left out.                                    *)
(***************************************************************************)
EXTENDS CFRunLoop

CONSTANT MaxSignals   \* bound: signals the monitor has not taken yet

VARIABLES semaphore, g_runLoopActivity,
          monitor,     \* "waiting", or "expired" between the timeout and the test
          wasHung,     \* history: at that timeout a callout was hanging
          reported     \* a hang has been reported since the loop last moved

monitorVars == <<semaphore, g_runLoopActivity, monitor, wasHung, reported>>
vars == <<loopVars, monitorVars>>

(* -init; the globals are zero, which is no activity. *)
Init ==
  /\ LoopInit
  /\ semaphore = 0 /\ g_runLoopActivity = "none"
  /\ monitor = "waiting" /\ wasHung = FALSE /\ reported = FALSE

(* myRunLoopBeginCallback (the first observer) and myRunLoopEndCallback (the last) *)
Callback ==
  /\ semaphore < MaxSignals
  /\ g_runLoopActivity' = activity
  /\ semaphore' = semaphore + 1
  /\ reported' = FALSE
  /\ UNCHANGED <<monitor, wasHung>>

(* -startMonitor: dispatch_semaphore_wait succeeds *)
Signalled ==
  /\ monitor = "waiting" /\ semaphore > 0
  /\ semaphore' = semaphore - 1
  /\ UNCHANGED <<g_runLoopActivity, monitor, wasHung, reported>>

(* or times out: result != 0 *)
TimedOut ==
  /\ monitor = "waiting" /\ semaphore = 0
  /\ hung \/ Asleep
  /\ monitor' = "expired" /\ wasHung' = hung
  /\ UNCHANGED <<semaphore, g_runLoopActivity, reported>>

(* Mutant: only the work after a sleep is watched. *)
TestActivityOnce ==
  /\ monitor = "expired"
  /\ reported' = (reported \/ g_runLoopActivity = "AfterWaiting")
  /\ monitor' = "waiting" /\ wasHung' = FALSE
  /\ UNCHANGED <<semaphore, g_runLoopActivity>>

(* The last activity is looked at, and the hang reported. *)
TestActivity ==
  /\ monitor = "expired"
  /\ reported' = (reported \/ g_runLoopActivity \in {"BeforeSources", "AfterWaiting"})
  /\ monitor' = "waiting" /\ wasHung' = FALSE
  /\ UNCHANGED <<semaphore, g_runLoopActivity>>

Observed == CallObserver /\ Callback
LoopOnly == LoopStep /\ UNCHANGED monitorVars
MonitorStep ==
  /\ plan.observers > 0
  /\ Signalled \/ TimedOut \/ TestActivity
  /\ UNCHANGED loopVars

Next ==
  \/ Observed \/ LoopOnly \/ MonitorStep
  \/ (TimeoutStep \/ Recover \/ \E c \in Clients : ClientStep(c)) /\ UNCHANGED monitorVars

Spec == Init /\ [][Next]_vars

(* The threads run, clients make their calls, and time passes. *)
Fairness ==
  /\ WF_vars(Observed) /\ WF_vars(LoopOnly) /\ WF_vars(MonitorStep)
  /\ \A c \in Clients : WF_vars(ClientStep(c) /\ UNCHANGED monitorVars)
  /\ WF_vars(TimeoutStep /\ UNCHANGED monitorVars)
FairSpec == Spec /\ Fairness
--------------------------------------------------------------------------------
(* A callout that hangs is reported, wherever in the round it was called. *)
HangReported == hung ~> (reported \/ ~hung)

(* "用于监控卡死情况" (WGMonitorManageDM.h:29, to watch for hangs): what is reported is a
   hang, so at the timeout a callout was hanging. *)
ReportsOnlyHangs == [][reported' /\ ~reported => wasHung]_vars
================================================================================
