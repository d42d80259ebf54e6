----------------------------- MODULE DispatchGroup -----------------------------
(***************************************************************************)
(* dispatch_group_t of libdispatch (src/semaphore.c).  dg_state is one word *)
(* with a generation, the number of blocks in the group and two flags.  The *)
(* leave that empties the group increments the generation in the same       *)
(* atomic operation, then takes the flags and, by what it took, submits the *)
(* notifications and wakes the waiters, who sleep on the generation.        *)
(* The notifications are a list with many producers and one consumer: tail  *)
(* is exchanged first, the link from the predecessor stored later.          *)
(*                                                                         *)
(* Every atomic operation and every kernel call is a step.  Clients are     *)
(* sequences of calls; a leave answers an enter that has returned.          *)
(***************************************************************************)
EXTENDS Integers, Sequences, FiniteSets

CONSTANTS Threads,
          Programs,   \* sequences of calls for every thread
          MaxCalls,   \* bound: calls of a thread
          Nil         \* NULL

VARIABLES todo,              \* calls each thread has still to make
          dg_state,          \* generation, value and the two flags
          head, tail, next,  \* dg_notify_head, dg_notify_tail and do_next
          refs,              \* references to the group
          pc, old,           \* where each thread is, and its copy of dg_state
          dc, last,          \* local pointers into the notification list
          timeout,           \* argument of a wait
          begun, emptied,    \* history: waits and notifies begun, and those of them
                             \* since whose begin the group was empty
          fired, done        \* history: notifications submitted, results of waits

shared == <<dg_state, head, tail, next, refs>>
local == <<pc, old, dc, last, timeout>>
history == <<begun, emptied, fired, done>>
vars == <<todo, shared, local, history>>

Empty == [gen |-> 0, value |-> 0, waiters |-> FALSE, notifs |-> FALSE]

(* A wait or a notify is known by its thread and how many calls come after it. *)
CallIds == {<<t, n>> : t \in Threads, n \in 1..MaxCalls}
Id(t) == <<t, Len(todo[t])>>

Init ==
  /\ todo \in Programs
  /\ dg_state = Empty
  /\ head = Nil /\ tail = Nil /\ next = [c \in CallIds |-> Nil]
  /\ refs = Cardinality({t \in Threads : \E i \in DOMAIN todo[t] : todo[t][i] = "release"})
  /\ pc = [t \in Threads |-> "call"]
  /\ old = [t \in Threads |-> Empty]
  /\ dc = [t \in Threads |-> Nil] /\ last = [t \in Threads |-> Nil]
  /\ timeout = [t \in Threads |-> "forever"]
  /\ begun = {} /\ emptied = {} /\ fired = <<>> /\ done = [c \in CallIds |-> "no"]

Calling(t, what) == pc[t] = "call" /\ todo[t] # <<>> /\ Head(todo[t]) = what
Goto(t, where) == pc' = [pc EXCEPT ![t] = where]

(* The call is over; its locals are gone. *)
Return(t) ==
  /\ todo' = [todo EXCEPT ![t] = Tail(@)]
  /\ Goto(t, "call")
  /\ old' = [old EXCEPT ![t] = Empty]
  /\ dc' = [dc EXCEPT ![t] = Nil] /\ last' = [last EXCEPT ![t] = Nil]
  /\ timeout' = [timeout EXCEPT ![t] = "forever"]

(* History of a step that begins the calls new. *)
Note(new) ==
  /\ begun' = begun \cup new
  /\ emptied' = IF dg_state'.value = 0 THEN begun' ELSE emptied
--------------------------------------------------------------------------------
(* dispatch_group_enter: 32 bits wide, so the generation stays. *)
Enter(t) ==
  /\ Calling(t, "enter")
  /\ dg_state' = [dg_state EXCEPT !.value = @ + 1]
  /\ Note({})
  /\ IF dg_state.value = 0
     THEN Goto(t, "retain") /\ UNCHANGED <<todo, old, dc, last, timeout>>
     ELSE Return(t)
  /\ UNCHANGED <<head, tail, next, refs, fired, done>>

(* The group holds a reference to itself while it is not empty. *)
Retain(t) ==
  /\ pc[t] = "retain"
  /\ refs' = refs + 1
  /\ Return(t)
  /\ UNCHANGED <<dg_state, head, tail, next, history>>

(* Mutant: the borrow is taken from the generation by every leave. *)
LeaveEachGeneration(t) ==
  /\ Calling(t, "leave")
  /\ dg_state.value > Cardinality({u \in Threads : pc[u] = "retain"})
  /\ LET new == [dg_state EXCEPT !.value = @ - 1, !.gen = @ + 1]
     IN  /\ dg_state' = new
         /\ IF new.value = 0
            THEN /\ old' = [old EXCEPT ![t] = new]
                 /\ Goto(t, "leave_loop")
                 /\ UNCHANGED <<todo, dc, last, timeout>>
            ELSE Return(t)
  /\ Note({})
  /\ UNCHANGED <<head, tail, next, refs, fired, done>>

(* dispatch_group_leave, the addition: from 1 to 0 it carries into the generation.
   The last leave goes on with its copy of the new state. *)
Leave(t) ==
  /\ Calling(t, "leave")
  /\ dg_state.value > Cardinality({u \in Threads : pc[u] = "retain"})
  /\ LET new == [dg_state EXCEPT !.value = @ - 1, !.gen = IF dg_state.value = 1 THEN @ + 1 ELSE @]
     IN  /\ dg_state' = new
         /\ IF new.value = 0
            THEN /\ old' = [old EXCEPT ![t] = new]
                 /\ Goto(t, "leave_loop")
                 /\ UNCHANGED <<todo, dc, last, timeout>>
            ELSE Return(t)
  /\ Note({})
  /\ UNCHANGED <<head, tail, next, refs, fired, done>>

(* Mutant: the waiters flag is taken also when the group was entered again. *)
TakenBoth(s) == [s EXCEPT !.waiters = FALSE, !.notifs = FALSE]

(* The flags the last leave takes: if the group was entered again, the waiters
   flag may belong to the new generation and stays. *)
Taken(s) == [s EXCEPT !.waiters = IF s.value = 0 THEN FALSE ELSE @, !.notifs = FALSE]

(* Where _dispatch_group_wake begins, by the flags in a copy of the state. *)
WakeFrom(s) == IF s.notifs THEN "snapshot" ELSE IF s.waiters THEN "wake" ELSE "release"

(* dispatch_group_leave, the loop: take the flags, or look again. *)
LeaveLoop(t) ==
  /\ pc[t] = "leave_loop"
  /\ LET new == Taken(old[t]) IN
     IF new = old[t] \/ dg_state = old[t]
     THEN /\ dg_state' = IF new = old[t] THEN dg_state ELSE new
          /\ Goto(t, WakeFrom(old[t]))
          /\ UNCHANGED old
     ELSE /\ old' = [old EXCEPT ![t] = dg_state]
          /\ UNCHANGED <<dg_state, pc>>
  /\ UNCHANGED <<todo, head, tail, next, refs, dc, last, timeout, history>>
--------------------------------------------------------------------------------
(* _dispatch_group_wake: os_mpsc_capture_snapshot waits for the head and clears it *)
SnapshotHead(t) ==
  /\ pc[t] = "snapshot" /\ head # Nil
  /\ dc' = [dc EXCEPT ![t] = head]
  /\ head' = Nil
  /\ Goto(t, "snapshot_tail")
  /\ UNCHANGED <<todo, dg_state, tail, next, refs, old, last, timeout, history>>

(* and exchanges the tail. *)
SnapshotTail(t) ==
  /\ pc[t] = "snapshot_tail"
  /\ last' = [last EXCEPT ![t] = tail]
  /\ tail' = Nil
  /\ Goto(t, "submit")
  /\ UNCHANGED <<todo, dg_state, head, next, refs, old, dc, timeout, history>>

(* The next notification is looked up, waiting for its link, and this one submitted. *)
Submit(t) ==
  /\ pc[t] = "submit"
  /\ IF dc[t] = last[t]
     THEN Goto(t, IF old[t].waiters THEN "wake" ELSE "release") /\ UNCHANGED dc
     ELSE next[dc[t]] # Nil /\ dc' = [dc EXCEPT ![t] = next[dc[t]]] /\ UNCHANGED pc
  /\ fired' = Append(fired, dc[t])
  /\ UNCHANGED <<todo, shared, old, last, timeout, begun, emptied, done>>

(* _dispatch_wake_by_address: every sleeper looks at the generation again. *)
Wake(t) ==
  /\ pc[t] = "wake"
  /\ pc' = [u \in Threads |-> IF u = t THEN "release" ELSE IF pc[u] = "asleep" THEN "wait" ELSE pc[u]]
  /\ UNCHANGED <<todo, shared, old, dc, last, timeout, history>>

(* One reference for the blocks that have left, one for the notifications. *)
Release(t) ==
  /\ pc[t] = "release"
  /\ refs' = refs - (IF Head(todo[t]) = "leave" THEN 1 ELSE 0) - (IF old[t].notifs THEN 1 ELSE 0)
  /\ Return(t)
  /\ UNCHANGED <<dg_state, head, tail, next, history>>
--------------------------------------------------------------------------------
(* dispatch_group_wait: nothing to wait for, no time to wait, or set the flag and
   remember the generation. *)
Wait(t, when) ==
  /\ Calling(t, "wait")
  /\ LET now == dg_state.value = 0 \/ when = "now" IN
     /\ dg_state' = IF now THEN dg_state ELSE [dg_state EXCEPT !.waiters = TRUE]
     /\ IF now
        THEN /\ done' = [done EXCEPT ![Id(t)] = IF dg_state.value = 0 THEN "success" ELSE "timeout"]
             /\ Return(t)
        ELSE /\ old' = [old EXCEPT ![t] = dg_state']
             /\ timeout' = [timeout EXCEPT ![t] = when]
             /\ Goto(t, "wait")
             /\ UNCHANGED <<todo, dc, last, done>>
  /\ Note({Id(t)})
  /\ UNCHANGED <<head, tail, next, refs, fired>>

(* _dispatch_group_wait_slow: the kernel puts the thread to sleep only while the
   generation is still the remembered one; otherwise the wait is over. *)
WaitSlow(t) ==
  /\ pc[t] = "wait"
  /\ IF dg_state.gen = old[t].gen
     THEN Goto(t, "asleep") /\ UNCHANGED <<todo, old, dc, last, timeout, done>>
     ELSE Return(t) /\ done' = [done EXCEPT ![Id(t)] = "success"]
  /\ UNCHANGED <<shared, begun, emptied, fired>>

(* The time is over; the generation is looked at once more. *)
Expire(t) ==
  /\ pc[t] = "asleep" /\ timeout[t] = "later"
  /\ Goto(t, "expired")
  /\ UNCHANGED <<todo, shared, old, dc, last, timeout, history>>

Expired(t) ==
  /\ pc[t] = "expired"
  /\ done' = [done EXCEPT ![Id(t)] = IF dg_state.gen = old[t].gen THEN "timeout" ELSE "success"]
  /\ Return(t)
  /\ UNCHANGED <<shared, begun, emptied, fired>>
--------------------------------------------------------------------------------
(* dispatch_group_notify: exchange the tail *)
Notify(t) ==
  /\ Calling(t, "notify")
  /\ last' = [last EXCEPT ![t] = tail]
  /\ tail' = Id(t)
  /\ Goto(t, "link")
  /\ UNCHANGED dg_state
  /\ Note({Id(t)})
  /\ UNCHANGED <<todo, head, next, refs, old, dc, timeout, fired, done>>

(* Mutant: the first notification does not retain the group. *)
LinkUnretained(t) ==
  /\ pc[t] = "link"
  /\ IF last[t] = Nil
     THEN /\ head' = Id(t)
          /\ Goto(t, "set_notifs")
          /\ UNCHANGED <<todo, next, old, dc, last, timeout>>
     ELSE /\ next' = [next EXCEPT ![last[t]] = Id(t)]
          /\ Return(t)
          /\ UNCHANGED head
  /\ UNCHANGED <<dg_state, tail, refs, history>>

(* and link the notification to its predecessor.  The first one of a list retains
   the group and has to set the flag. *)
Link(t) ==
  /\ pc[t] = "link"
  /\ IF last[t] = Nil
     THEN /\ head' = Id(t) /\ refs' = refs + 1
          /\ Goto(t, "set_notifs")
          /\ UNCHANGED <<todo, next, old, dc, last, timeout>>
     ELSE /\ next' = [next EXCEPT ![last[t]] = Id(t)]
          /\ Return(t)
          /\ UNCHANGED <<head, refs>>
  /\ UNCHANGED <<dg_state, tail, history>>

(* If the low word is zero nobody else will look: submit at once. *)
SetNotifs(t) ==
  /\ pc[t] = "set_notifs"
  /\ IF dg_state.value = 0 /\ ~dg_state.waiters /\ ~dg_state.notifs
     THEN /\ old' = [old EXCEPT ![t] = [dg_state EXCEPT !.notifs = TRUE]]
          /\ Goto(t, "snapshot")
          /\ UNCHANGED <<todo, dg_state, dc, last, timeout>>
     ELSE /\ dg_state' = [dg_state EXCEPT !.notifs = TRUE]
          /\ Return(t)
  /\ UNCHANGED <<head, tail, next, refs, history>>

(* dispatch_release by a client that owns a reference *)
Drop(t) ==
  /\ Calling(t, "release")
  /\ refs' = refs - 1
  /\ Return(t)
  /\ UNCHANGED <<dg_state, head, tail, next, history>>
--------------------------------------------------------------------------------
Call(t) == Enter(t) \/ Leave(t) \/ Notify(t) \/ Drop(t) \/ \E when \in {"now", "later", "forever"} : Wait(t, when)

Step(t) ==
  \/ Retain(t) \/ LeaveLoop(t) \/ SnapshotHead(t) \/ SnapshotTail(t) \/ Submit(t) \/ Wake(t)
  \/ Release(t) \/ WaitSlow(t) \/ Expired(t) \/ Link(t) \/ SetNotifs(t)

Next == \E t \in Threads : Call(t) \/ Step(t) \/ Expire(t)

Spec == Init /\ [][Next]_vars

(* Threads run, and the clients go through their calls. *)
Fairness == \A t \in Threads : WF_vars(Step(t)) /\ WF_vars(Call(t))
FairSpec == Spec /\ Fairness
--------------------------------------------------------------------------------
Idle(t) == pc[t] = "call"
Over == \A t \in Threads : Idle(t) /\ todo[t] = <<>>

(* A wait that succeeded did so because the group was empty at some moment since the
   wait was called, whatever enters, leaves and other waits did in between. *)
WaitSawEmpty == \A c \in CallIds : done[c] = "success" => c \in emptied

(* The group is not freed while it is used: the references a leave and the
   notifications drop are ones they own, and at the end nothing is left in it
   (the crash of _dispatch_group_dispose). *)
FreedWhenUnused ==
  /\ refs >= 0
  /\ refs = 0 => Over /\ head = Nil /\ tail = Nil
                 /\ dg_state.value = 0 /\ ~dg_state.waiters /\ ~dg_state.notifs

(* Every wait returns and every notification is submitted. *)
Pending == {c \in begun : done[c] = "no" /\ \A i \in DOMAIN fired : fired[i] # c}
Served == Over /\ Pending = {}

(* "once all blocks associated with the dispatch group have completed"
   (dispatch/group.h:180): the group was empty since the notify was called. *)
NotifiedAfterEmpty == \A i \in DOMAIN fired : fired[i] \in emptied
================================================================================
