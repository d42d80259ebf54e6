------------------------------ MODULE DispatchOnce -----------------------------
(***************************************************************************)
(* dispatch_once of libdispatch (src/once.c, the once gate of               *)
(* src/shims/lock.h and lock.c), which makes the shared objects of          *)
(* WGMonitorManage and WGMonitorManageDM.  The predicate is one word:       *)
(* unlocked, the thread that runs the block (with a bit for waiters), or    *)
(* done.                                                                    *)
(*                                                                         *)
(* The inline fast path compares the word with done and has no memory       *)
(* barrier.  On ARM the word therefore first holds a generation of the      *)
(* kernel's quiescent counter, and becomes done only when the counter says  *)
(* that every processor has gone through barriers since: quiescent is that  *)
(* build.  fresh[t] says that t has gone through a barrier since the block  *)
(* ran; before that, a load of t may have been done early and return what   *)
(* was there before the block.  Every thread is on a processor of its own.  *)
(***************************************************************************)
EXTENDS Integers, FiniteSets

CONSTANTS Threads,
          Nobody,     \* DLOCK_OWNER_NULL
          Builds,     \* values of DISPATCH_ONCE_USE_QUIESCENT_COUNTER
          Plans,      \* bound: how many calls the threads make
          MaxGen      \* bound: the quiescent counter

VARIABLES quiescent,
          calls,           \* calls each thread has still to make
          dgo_once,        \* the predicate
          pc, saw,         \* where each thread is, and its copy of the predicate
          ran,             \* history: how often the block ran
          blind,           \* history: threads that returned without seeing its effects
          counter, mask,   \* the quiescent counter, and who has switched since it moved
          since,           \* what the counter was at each thread's last barrier
          fresh

machine == <<counter, mask, since>>
vars == <<quiescent, calls, dgo_once, pc, saw, ran, blind, machine, fresh>>

Locked(t, waiters) == [is |-> "locked", owner |-> t, waiters |-> waiters, gen |-> 0]
Gen(g) == [is |-> "gen", owner |-> Nobody, waiters |-> FALSE, gen |-> g]
Unlocked == [is |-> "unlocked", owner |-> Nobody, waiters |-> FALSE, gen |-> 0]
Done == [is |-> "done", owner |-> Nobody, waiters |-> FALSE, gen |-> 0]

Init ==
  /\ quiescent \in Builds
  /\ calls \in Plans
  /\ dgo_once = Unlocked
  /\ pc = [t \in Threads |-> "out"]
  /\ saw = [t \in Threads |-> Unlocked]
  /\ ran = 0 /\ blind = {}
  /\ counter = 0 /\ mask = {} /\ since = [t \in Threads |-> 0]
  /\ fresh = {}

Goto(t, where) == pc' = [pc EXCEPT ![t] = where]

(* The call returns; sees says whether the caller's next loads show the block. *)
Return(t, sees) ==
  /\ Goto(t, "out")
  /\ saw' = [saw EXCEPT ![t] = Unlocked]
  /\ blind' = IF sees THEN blind ELSE blind \cup {t}

(* A load that is not ordered by a barrier may have been done early, except on the
   processors whose loads are in order (x86). *)
Ordered(t) == ran > 0 /\ (~quiescent \/ t \in fresh)
--------------------------------------------------------------------------------
(* _dispatch_once in dispatch/once.h: the inline fast path *)
Call(t) ==
  /\ pc[t] = "out" /\ calls[t] > 0
  /\ calls' = [calls EXCEPT ![t] = @ - 1]
  /\ IF dgo_once = Done
     THEN Return(t, Ordered(t))
     ELSE Goto(t, IF quiescent THEN "load" ELSE "tryenter") /\ UNCHANGED <<saw, blind>>
  /\ UNCHANGED <<quiescent, dgo_once, ran, machine, fresh>>

(* dispatch_once_f: v = load(acquire), in the build with the counter *)
Load(t) ==
  /\ pc[t] = "load"
  /\ CASE dgo_once = Done -> Return(t, ran > 0)
       [] dgo_once.is = "gen" -> /\ saw' = [saw EXCEPT ![t] = dgo_once]
                                 /\ Goto(t, "mark") /\ UNCHANGED blind
       [] OTHER -> Goto(t, "tryenter") /\ UNCHANGED <<saw, blind>>
  /\ UNCHANGED <<quiescent, calls, dgo_once, ran, machine, fresh>>

(* DISPATCH_ONCE_GEN_SAFE_DELTA *)
SafeDelta == 4

(* Mutant: the counter has to move by two only. *)
QuiescedEarly(gen) == counter - gen >= 2

Quiesced(gen) == counter - gen >= SafeDelta

(* _dispatch_once_mark_done_if_quiesced, behind an acquire barrier *)
MarkDoneIfQuiesced(t) ==
  /\ pc[t] = "mark"
  /\ dgo_once' = IF Quiesced(saw[t].gen) THEN Done ELSE dgo_once
  /\ Return(t, ran > 0)
  /\ UNCHANGED <<quiescent, calls, ran, machine, fresh>>

(* _dispatch_once_gate_tryenter *)
TryEnter(t) ==
  /\ pc[t] = "tryenter"
  /\ dgo_once' = IF dgo_once = Unlocked THEN Locked(t, FALSE) ELSE dgo_once
  /\ Goto(t, IF dgo_once = Unlocked THEN "callout" ELSE "wait")
  /\ UNCHANGED <<quiescent, calls, saw, ran, blind, machine, fresh>>

(* _dispatch_once_callout: the block runs *)
Callout(t) ==
  /\ pc[t] = "callout"
  /\ ran' = ran + 1
  /\ fresh' = {t}
  /\ Goto(t, "broadcast")
  /\ UNCHANGED <<quiescent, calls, dgo_once, saw, blind, machine>>

(* _dispatch_once_gate_broadcast: the generation may be loaded early, but not before
   the last barrier; waiters are woken if the exchange says that there are any. *)
Broadcast(t) ==
  /\ pc[t] = "broadcast"
  /\ IF quiescent THEN \E g \in since[t]..counter : dgo_once' = Gen(g)
                  ELSE dgo_once' = Done
  /\ IF dgo_once.waiters
     THEN Goto(t, "wake") /\ UNCHANGED <<saw, blind>>
     ELSE Return(t, TRUE)
  /\ UNCHANGED <<quiescent, calls, ran, machine, fresh>>

(* Mutant: one waiter is woken instead of all. *)
BroadcastSlowOne(t) ==
  /\ pc[t] = "wake"
  /\ \/ \E s \in Threads : /\ pc[s] = "asleep"
                           /\ pc' = [pc EXCEPT ![s] = "wait", ![t] = "out"]
     \/ (\A s \in Threads : pc[s] # "asleep") /\ Goto(t, "out")
  /\ UNCHANGED <<quiescent, calls, dgo_once, saw, ran, blind, machine, fresh>>

(* _dispatch_gate_broadcast_slow: ULF_WAKE_ALL *)
BroadcastSlow(t) ==
  /\ pc[t] = "wake"
  /\ pc' = [s \in Threads |-> IF s = t THEN "out" ELSE IF pc[s] = "asleep" THEN "wait" ELSE pc[s]]
  /\ UNCHANGED <<quiescent, calls, dgo_once, saw, ran, blind, machine, fresh>>

(* _dispatch_once_wait: return if done, or if it is a generation; otherwise set the
   waiters bit.  The load that shows done is relaxed. *)
Wait(t) ==
  /\ pc[t] = "wait"
  /\ CASE dgo_once = Done -> Return(t, Ordered(t)) /\ UNCHANGED dgo_once
       [] dgo_once.is = "gen" -> /\ saw' = [saw EXCEPT ![t] = dgo_once]
                                 /\ Goto(t, "mark") /\ UNCHANGED <<dgo_once, blind>>
       [] OTHER -> /\ dgo_once' = [dgo_once EXCEPT !.waiters = TRUE]
                   /\ saw' = [saw EXCEPT ![t] = dgo_once']
                   /\ Goto(t, "park") /\ UNCHANGED blind
  /\ UNCHANGED <<quiescent, calls, ran, machine, fresh>>

(* The kernel puts the thread to sleep if the word is still what it saw. *)
Park(t) ==
  /\ pc[t] = "park"
  /\ Goto(t, IF dgo_once = saw[t] THEN "asleep" ELSE "wait")
  /\ UNCHANGED <<quiescent, calls, dgo_once, saw, ran, blind, machine, fresh>>

(* The processor of t switches contexts, which is a barrier; the counter moves when
   every processor has done so since it last moved (comment, lock.h:459). *)
Switch(t) ==
  /\ quiescent
  /\ LET all == mask \cup {t} = Threads IN
     /\ all => counter < MaxGen
     /\ mask' = IF all THEN {} ELSE mask \cup {t}
     /\ counter' = IF all THEN counter + 1 ELSE counter
  /\ since' = [since EXCEPT ![t] = counter']
  /\ fresh' = IF ran > 0 THEN fresh \cup {t} ELSE fresh
  /\ UNCHANGED <<quiescent, calls, dgo_once, pc, saw, ran, blind>>

Step(t) ==
  \/ Call(t) \/ Load(t) \/ MarkDoneIfQuiesced(t) \/ TryEnter(t) \/ Callout(t)
  \/ Broadcast(t) \/ BroadcastSlow(t) \/ Wait(t) \/ Park(t)

Next == \E t \in Threads : Step(t) \/ Switch(t)

Spec == Init /\ [][Next]_vars

(* Threads run. *)
Fairness == \A t \in Threads : WF_vars(Step(t))
FairSpec == Spec /\ Fairness
--------------------------------------------------------------------------------
(* The block runs once, nobody returns from dispatch_once before it has run, and
   whoever returns sees what it did, also through the fast path that has no
   barrier (once.h:84; lock.h:548-585 argues for it). *)
OnceSeen == ran <= 1 /\ blind = {}

(* Inductive.  Gate: what the word says of the block and of the thread that runs it.
   Barriers: how far the counter can be from a thread's last barrier.  Visible: a
   generation is old enough only when every processor has seen the block. *)
Words == [is : {"unlocked", "locked", "gen", "done"}, owner : Threads \cup {Nobody},
          waiters : BOOLEAN, gen : Nat]
Places == {"out", "load", "mark", "tryenter", "callout", "broadcast", "wake", "wait", "park", "asleep"}
TypeOK ==
  /\ quiescent \in BOOLEAN /\ dgo_once \in Words
  /\ pc \in [Threads -> Places] /\ saw \in [Threads -> Words]
  /\ counter \in Nat /\ mask \subseteq Threads /\ since \in [Threads -> Nat]
  /\ ran \in {0, 1} /\ fresh \subseteq Threads
Gate ==
  /\ dgo_once.is = "unlocked" =>
       dgo_once = Unlocked /\ ran = 0 /\ \A t \in Threads : pc[t] \in {"out", "load", "tryenter"}
  /\ dgo_once.is = "done" => dgo_once = Done
  /\ dgo_once.is \in {"gen", "done"} => ran = 1
  /\ \A t \in Threads :
       /\ pc[t] \in {"callout", "broadcast"} => dgo_once.is = "locked" /\ dgo_once.owner = t
       /\ pc[t] = "callout" => ran = 0
       /\ pc[t] = "broadcast" => ran = 1
       /\ pc[t] = "mark" => dgo_once.is \in {"gen", "done"}
Barriers ==
  \A t \in Threads : since[t] <= counter /\ counter <= since[t] + 1 /\ (t \in mask => since[t] = counter)
Covered(gen) ==
  /\ counter >= gen + 2 => mask \subseteq fresh
  /\ counter >= gen + 3 => fresh = Threads
Visible ==
  /\ \A t \in Threads :
       /\ pc[t] = "broadcast" => Covered(since[t])
       /\ pc[t] = "mark" => Covered(saw[t].gen)
  /\ dgo_once.is = "gen" => Covered(dgo_once.gen)
  /\ dgo_once.is = "done" /\ quiescent => fresh = Threads
IInv == TypeOK /\ Gate /\ Barriers /\ Visible /\ blind = {}

(* Every caller returns: none sleeps on a predicate that is done. *)
Returned == \A t \in Threads : pc[t] = "out" /\ calls[t] = 0
================================================================================
