-------------------------- MODULE WGPermanentThreadOC -------------------------
(***************************************************************************)
(* WGPermanentThreadOC.m: a thread kept alive by a run loop, to which other *)
(* threads send tasks (performSelector:onThread:, not waiting) and a stop   *)
(* request (the same, waiting).  The object lives while a caller or a       *)
(* request that has not been performed refers to it; the loop of the inner  *)
(* thread refers to it weakly.                                              *)
(*                                                                         *)
(* Requests go the way of GNUstep's NSThread.m and NSRunLoop.m: a pass of   *)
(* the run loop takes all the requests there are and performs them one by   *)
(* one before it returns, so a task queued behind innerStop may still run   *)
(* in the same pass.  A thread that ends invalidates what is queued for it. *)
(*                                                                         *)
(* WGPermanentThreadC.m is the same object with CFRunLoopRunInMode instead  *)
(* of the loop.  It has no stopped flag, its stop performs the getter       *)
(* innerThread where the other class performs innerStop, and it releases    *)
(* its run-loop source before it adds it: the run loop may or may not have  *)
(* a source then, and ends at once without one.                             *)
(***************************************************************************)
EXTENDS Naturals, Sequences

CONSTANTS Classes,   \* the classes considered
          Callers,   \* threads that share the object
          Tasks,     \* the blocks they pass to executeTask
          NoTask     \* not one of Tasks

VARIABLES class,
          innerThread,  \* property innerThread is not nil
          stopped,      \* property stopped
          object,       \* "alive", "dealloc" (weakSelf is nil) or "gone"
          refs,         \* callers that hold a strong reference
          thread,       \* where the inner thread is
          requests,     \* requests queued on its run loop, oldest first
          toDo,         \* those that the present pass has taken and not performed
          pc, arg,      \* where each caller is, and the task it passes
          task          \* what became of each task: "done" on the inner thread,
                        \* "astray" on the thread of the caller, or "dropped"

vars == <<class, innerThread, stopped, object, refs, thread, requests, toDo, pc, arg, task>>

Stop(c) == [kind |-> "stop", by |-> c, what |-> NoTask]
Task(c, k) == [kind |-> "task", by |-> c, what |-> k]
Requests == {Stop(c) : c \in Callers} \cup {Task(c, k) : c \in Callers, k \in Tasks}

OC == "WGPermanentThreadOC"

Init ==
  /\ class \in Classes
  /\ innerThread = TRUE /\ stopped = FALSE
  /\ object = "alive" /\ refs = Callers
  /\ thread = "new" /\ requests = <<>> /\ toDo = <<>>
  /\ pc = [c \in Callers |-> "idle"]
  /\ arg = [c \in Callers |-> NoTask]
  /\ task = [k \in Tasks |-> "unsent"]

Ready(c) == c \in refs /\ pc[c] = "idle"

(* run: NSThread raises when it is started twice. *)
Run(c) ==
  /\ Ready(c)
  /\ innerThread
  /\ IF thread = "new"
     THEN thread' = (IF class = OC THEN "weak" ELSE "source") /\ UNCHANGED pc
     ELSE pc' = [pc EXCEPT ![c] = "raised"] /\ UNCHANGED thread
  /\ UNCHANGED <<innerThread, stopped, object, refs, requests, toDo, arg, task>>

(* executeTask, the check: a nil innerThread refuses the task *)
ExecuteTask(c, k) ==
  /\ Ready(c)
  /\ task[k] = "unsent"
  /\ IF innerThread
     THEN /\ pc' = [pc EXCEPT ![c] = "executeTask"]
          /\ arg' = [arg EXCEPT ![c] = k]
          /\ task' = [task EXCEPT ![k] = "sending"]
     ELSE task' = [task EXCEPT ![k] = "dropped"] /\ UNCHANGED <<pc, arg>>
  /\ UNCHANGED <<innerThread, stopped, object, refs, thread, requests, toDo>>

(* executeTask, the perform: innerThread is read again.  If it is nil by now the
   current thread is meant, and the task runs on the caller's.  A thread that has
   ended makes the call raise, or, if it was just ending, invalidates the request. *)
PerformTask(c) ==
  /\ pc[c] = "executeTask"
  /\ \/ /\ innerThread /\ thread # "exited"
        /\ requests' = Append(requests, Task(c, arg[c]))
        /\ task' = [task EXCEPT ![arg[c]] = "queued"]
        /\ pc' = [pc EXCEPT ![c] = "idle"]
     \/ /\ ~innerThread
        /\ task' = [task EXCEPT ![arg[c]] = "astray"]
        /\ pc' = [pc EXCEPT ![c] = "idle"]
        /\ UNCHANGED requests
     \/ /\ innerThread /\ thread = "exited"
        /\ task' = [task EXCEPT ![arg[c]] = "dropped"]
        /\ \E after \in {"idle", "raised"} : pc' = [pc EXCEPT ![c] = after]
        /\ UNCHANGED requests
  /\ UNCHANGED <<innerThread, stopped, object, refs, thread, toDo, arg>>

(* stop, the check *)
StopCheck(c) ==
  /\ Ready(c)
  /\ innerThread
  /\ pc' = [pc EXCEPT ![c] = "stop"]
  /\ UNCHANGED <<innerThread, stopped, object, refs, thread, requests, toDo, arg, task>>

(* The end of a stop call; when it is dealloc's, the object is gone. *)
StopDone(c) ==
  /\ pc' = [pc EXCEPT ![c] = "idle"]
  /\ object' = IF object = "dealloc" THEN "gone" ELSE object

(* Mutant: waitUntilDone:NO. *)
PerformStopNoWait(c) ==
  /\ pc[c] = "stop"
  /\ StopDone(c)
  /\ requests' = IF innerThread /\ thread # "exited" THEN Append(requests, Stop(c)) ELSE requests
  /\ UNCHANGED <<innerThread, stopped, refs, thread, toDo, arg, task>>

(* stop, the perform, waitUntilDone:YES: the caller blocks until innerStop ran.  A
   nil innerThread means the current thread, where innerStop changes nothing: stopped
   and innerThread are as it leaves them.  A thread that has ended makes the call
   raise, or, if it was just ending, invalidates the request and the call returns. *)
PerformStop(c) ==
  /\ pc[c] = "stop"
  /\ \/ /\ innerThread /\ thread # "exited"
        /\ requests' = Append(requests, Stop(c))
        /\ pc' = [pc EXCEPT ![c] = "waiting"]
        /\ UNCHANGED object
     \/ /\ ~innerThread \/ thread = "exited"
        /\ StopDone(c)
        /\ UNCHANGED requests
     \/ /\ innerThread /\ thread = "exited"
        /\ pc' = [pc EXCEPT ![c] = "raised"]
        /\ UNCHANGED <<object, requests>>
  /\ UNCHANGED <<innerThread, stopped, refs, thread, toDo, arg, task>>

(* A caller drops its reference.  If it was the last one, dealloc runs here and
   calls stop. *)
Release(c) ==
  /\ Ready(c)
  /\ refs' = refs \ {c}
  /\ IF refs = {c} /\ requests = <<>> /\ toDo = <<>>
     THEN IF innerThread
          THEN object' = "dealloc" /\ pc' = [pc EXCEPT ![c] = "stop"]
          ELSE object' = "gone" /\ UNCHANGED pc
     ELSE UNCHANGED <<object, pc>>
  /\ UNCHANGED <<innerThread, stopped, thread, requests, toDo, arg, task>>

(* The inner thread ends: the requests still queued are invalidated.  Their tasks
   are lost, callers that wait for a stop return, and the references go with them. *)
Exit ==
  /\ thread' = "exited"
  /\ requests' = <<>>
  /\ task' = [k \in Tasks |-> IF task[k] = "queued" THEN "dropped" ELSE task[k]]
  /\ pc' = [c \in Callers |-> IF pc[c] = "waiting" THEN "idle" ELSE pc[c]]
  /\ object' = IF refs = {} /\ requests # <<>> THEN "gone" ELSE object

(* The loop goes on. *)
GoTo(place) == thread' = place /\ UNCHANGED <<requests, task, pc, object>>

(* The block of WGPermanentThreadC: the source was released before it is added. *)
RunInMode ==
  /\ thread = "source"
  /\ GoTo("runMode") \/ Exit
  /\ UNCHANGED <<innerThread, stopped, refs, toDo, arg>>

(* Where a pass of the run loop leads: to the condition of the while, or to the next
   pass if the run does not return after a source. *)
AfterPass == IF class = OC THEN "weak" ELSE "runMode"

(* while (weakSelf && ...: the first read of the weak reference *)
LoopWeak ==
  /\ thread = "weak"
  /\ IF object = "alive" THEN GoTo("flag") ELSE Exit
  /\ UNCHANGED <<innerThread, stopped, refs, toDo, arg>>

(* Mutants: the flag is not tested; it is tested the wrong way round. *)
LoopFlagIgnored ==
  /\ thread = "flag" /\ GoTo("runMode")
  /\ UNCHANGED <<innerThread, stopped, refs, toDo, arg>>

LoopFlagInverted ==
  /\ thread = "flag"
  /\ IF object = "alive" /\ ~stopped THEN Exit ELSE GoTo("runMode")
  /\ UNCHANGED <<innerThread, stopped, refs, toDo, arg>>

(* ... && !weakSelf.stopped): a reference that became nil reads as NO *)
LoopFlag ==
  /\ thread = "flag"
  /\ IF object = "alive" /\ stopped THEN Exit ELSE GoTo("runMode")
  /\ UNCHANGED <<innerThread, stopped, refs, toDo, arg>>

(* Mutant: the last request is not copied from the queue that is emptied. *)
FireButLast ==
  /\ thread = "runMode" /\ toDo = <<>> /\ requests # <<>>
  /\ toDo' = SubSeq(requests, 1, Len(requests) - 1)
  /\ requests' = <<>>
  /\ task' = [k \in Tasks |-> IF \E i \in DOMAIN toDo' : toDo'[i].what = k THEN "taken" ELSE task[k]]
  /\ UNCHANGED <<innerThread, stopped, object, refs, thread, pc, arg>>

(* A pass of the run loop wakes up and takes the requests that are queued. *)
Fire ==
  /\ thread = "runMode" /\ toDo = <<>> /\ requests # <<>>
  /\ toDo' = requests
  /\ requests' = <<>>
  /\ task' = [k \in Tasks |-> IF task[k] = "queued" THEN "taken" ELSE task[k]]
  /\ UNCHANGED <<innerThread, stopped, object, refs, thread, pc, arg>>

(* A request of the pass has been performed; after the last one the pass ends. *)
Performed ==
  /\ toDo' = Tail(toDo)
  /\ thread' = IF Tail(toDo) = <<>> THEN AfterPass ELSE thread

(* innerStop; WGPermanentThreadC performs the getter innerThread instead. *)
StopLoop ==
  /\ stopped' = (class = OC \/ stopped)
  /\ innerThread' = (class # OC /\ innerThread)

(* The pass performs a task (innerExecuteTask).  If the request held the last
   reference, dealloc runs on the inner thread, where stop performs innerStop at
   once. *)
InnerExecuteTask ==
  /\ thread = "runMode" /\ toDo # <<>> /\ Head(toDo).kind = "task"
  /\ task' = [task EXCEPT ![Head(toDo).what] = "done"]
  /\ Performed
  /\ IF refs = {} /\ requests = <<>> /\ Tail(toDo) = <<>>
     THEN StopLoop /\ object' = "gone"
     ELSE UNCHANGED <<innerThread, stopped, object>>
  /\ UNCHANGED <<refs, requests, pc, arg>>

(* The pass performs innerStop, or the getter, and wakes the caller of stop. *)
InnerStop ==
  /\ thread = "runMode" /\ toDo # <<>> /\ Head(toDo).kind = "stop"
  /\ StopLoop
  /\ Performed
  /\ StopDone(Head(toDo).by)
  /\ UNCHANGED <<refs, requests, arg, task>>

CallerStep(c) == PerformTask(c) \/ PerformStop(c)
LoopStep == RunInMode \/ LoopWeak \/ LoopFlag \/ Fire \/ InnerExecuteTask \/ InnerStop

Next ==
  /\ \/ \E c \in Callers :
          \/ Run(c) \/ StopCheck(c) \/ Release(c) \/ CallerStep(c)
          \/ \E k \in Tasks : ExecuteTask(c, k)
     \/ LoopStep
  /\ UNCHANGED class

Spec == Init /\ [][Next]_vars

(* A call that was begun goes on and the inner thread's loop keeps turning;
   nobody is obliged to call run, stop or release. *)
FairSpec == Spec /\ WF_vars(LoopStep /\ UNCHANGED class)
            /\ \A c \in Callers : WF_vars(CallerStep(c) /\ UNCHANGED class)
-------------------------------------------------------------------------------
(* Type invariant: the loop, the queued requests and every caller. *)
TypeOK ==
  /\ class \in Classes /\ innerThread \in BOOLEAN /\ stopped \in BOOLEAN
  /\ object \in {"alive", "dealloc", "gone"}
  /\ refs \subseteq Callers
  /\ thread \in {"new", "source", "weak", "flag", "runMode", "exited"}
  /\ requests \in Seq(Requests) /\ toDo \in Seq(Requests)
  /\ pc \in [Callers -> {"idle", "executeTask", "stop", "waiting", "raised"}]
  /\ arg \in [Callers -> Tasks \cup {NoTask}]
  /\ task \in [Tasks -> {"unsent", "sending", "queued", "taken", "done", "astray", "dropped"}]

Started == thread # "new"

(* A task is lost, or runs on the thread of its caller, only after a stop or because
   WGPermanentThreadC's run loop had no source, never while the thread is in service. *)
DroppedOnlyAfterStop ==
  (\E k \in Tasks : task[k] \in {"dropped", "astray"}) => stopped \/ (class # OC /\ thread = "exited")

(* The object outlives the requests: innerExecuteTask and innerStop never run
   on an object that is gone, and only dealloc's own stop runs in dealloc. *)
RequestsHaveObject ==
  /\ requests # <<>> \/ toDo # <<>> => object # "gone"
  /\ object = "dealloc" => \A q \in {requests, toDo} : \A i \in DOMAIN q : q[i].kind = "stop"

(* innerStop ends the loop: the pass that performs it is the last one, and a task it
   has not taken by then is never run (the ones it has taken are). *)
NoTaskTakenAfterStop ==
  [][stopped => \A k \in Tasks : task[k] = "queued" => task'[k] \in {"queued", "dropped"}]_vars

(* A started thread serves whoever waits for stop: the call returns, never before
   innerStop has been performed or the thread has ended. *)
StopServed ==
  \A c \in Callers :
    (pc[c] = "waiting" /\ Started) ~>
      (pc[c] = "idle" /\ (class = OC => stopped \/ thread = "exited"))

(* A queued task on a started thread is eventually run or dropped, and one that a pass
   has taken is run. *)
TasksServed ==
  \A k \in Tasks :
    /\ (task[k] = "queued" /\ Started) ~> task[k] \in {"done", "dropped"}
    /\ task[k] = "taken" ~> task[k] = "done"

(* innerStop ends the loop of the thread, at least while somebody still holds
   the object. *)
HeldThreadEnds == (stopped /\ Started) ~> (thread = "exited" \/ object = "gone")

(* "end a thread" (WGPermanentThreadOC.h, stop): the thread ends after innerStop,
   whatever the callers do with the object afterwards. *)
ThreadEnds == (stopped /\ Started) ~> thread = "exited"
===============================================================================
