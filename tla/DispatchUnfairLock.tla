--------------------------- MODULE DispatchUnfairLock --------------------------
(***************************************************************************)
(* The unfair lock of libdispatch (src/shims/lock.h and lock.c): one word   *)
(* with the owner, a bit that says that threads sleep in the kernel, and a  *)
(* bit that says that a trylock has failed.  Only one sleeper is woken by   *)
(* an unlock, which has already cleared the word: a sleeper that the kernel *)
(* tells of others (ENOTEMPTY) has to set the bit again for them, and a     *)
(* newcomer may take the lock in between.  An owner that is told of a       *)
(* failed trylock does the other thread's work as well.                     *)
(***************************************************************************)
EXTENDS Naturals, FiniteSets

CONSTANTS Threads, Nobody,
          Rounds      \* bound: acquisitions each thread tries

VARIABLES left, dul_lock,
          pc, next,   \* where each thread is; the waiters bit of its local next
          seen,       \* the word a thread means to sleep on
          unheard     \* history: a trylock has failed and no owner was told

vars == <<left, dul_lock, pc, next, seen, unheard>>

Word(t, waiters) == [owner |-> t, waiters |-> waiters, failed |-> FALSE]
Free == Word(Nobody, FALSE)

Init ==
  /\ left = [t \in Threads |-> Rounds]
  /\ dul_lock = Free
  /\ pc = [t \in Threads |-> "out"]
  /\ next = [t \in Threads |-> FALSE]
  /\ seen = [t \in Threads |-> Free]
  /\ unheard = FALSE

Goto(t, where) == pc' = [pc EXCEPT ![t] = where]
Begin(t) == pc[t] = "out" /\ left[t] > 0 /\ left' = [left EXCEPT ![t] = @ - 1]
--------------------------------------------------------------------------------
(* _dispatch_unfair_lock_lock: compare-and-exchange with the free word *)
Lock(t) ==
  /\ Begin(t)
  /\ dul_lock' = IF dul_lock = Free THEN Word(t, FALSE) ELSE dul_lock
  /\ Goto(t, IF dul_lock = Free THEN "held" ELSE "slow")
  /\ UNCHANGED <<next, seen, unheard>>

(* Mutant: the lock is taken without the bit the other sleepers need. *)
LockSlowForgets(t) ==
  /\ pc[t] = "slow"
  /\ IF dul_lock.owner = Nobody
     THEN /\ dul_lock' = Word(t, FALSE)
          /\ next' = [next EXCEPT ![t] = FALSE] /\ seen' = [seen EXCEPT ![t] = Free]
          /\ Goto(t, "held")
     ELSE /\ dul_lock' = [dul_lock EXCEPT !.waiters = TRUE]
          /\ seen' = [seen EXCEPT ![t] = dul_lock']
          /\ Goto(t, "park") /\ UNCHANGED next
  /\ UNCHANGED <<left, unheard>>

(* _dispatch_unfair_lock_lock_slow: take the lock with next, or set the waiters bit *)
LockSlow(t) ==
  /\ pc[t] = "slow"
  /\ IF dul_lock.owner = Nobody
     THEN /\ dul_lock' = Word(t, next[t])
          /\ next' = [next EXCEPT ![t] = FALSE] /\ seen' = [seen EXCEPT ![t] = Free]
          /\ Goto(t, "held")
     ELSE /\ dul_lock' = [dul_lock EXCEPT !.waiters = TRUE]
          /\ seen' = [seen EXCEPT ![t] = dul_lock']
          /\ Goto(t, "park") /\ UNCHANGED next
  /\ UNCHANGED <<left, unheard>>

(* _dispatch_unfair_lock_wait: the kernel puts the thread to sleep if the word is
   still what it saw. *)
Park(t) ==
  /\ pc[t] = "park"
  /\ Goto(t, IF dul_lock = seen[t] THEN "asleep" ELSE "slow")
  /\ UNCHANGED <<left, dul_lock, next, seen, unheard>>

(* A woken thread comes back; ENOTEMPTY if there are others in the kernel. *)
Resume(t) ==
  /\ pc[t] = "woken"
  /\ next' = [next EXCEPT ![t] = @ \/ \E u \in Threads \ {t} : pc[u] \in {"asleep", "woken"}]
  /\ Goto(t, "slow")
  /\ UNCHANGED <<left, dul_lock, seen, unheard>>

(* _dispatch_unfair_lock_trylock: take the lock or leave a message for its owner *)
Trylock(t) ==
  /\ Begin(t)
  /\ IF dul_lock.owner = Nobody
     THEN dul_lock' = Word(t, FALSE) /\ Goto(t, "held") /\ UNCHANGED unheard
     ELSE dul_lock' = [dul_lock EXCEPT !.failed = TRUE] /\ unheard' = TRUE /\ UNCHANGED pc
  /\ UNCHANGED <<next, seen>>

(* Mutant: the lock is released also if a trylock has failed. *)
TryunlockBlind(t) ==
  /\ pc[t] = "held"
  /\ dul_lock' = Free
  /\ Goto(t, IF dul_lock.waiters THEN "wake" ELSE "out")
  /\ UNCHANGED <<left, next, seen, unheard>>

(* _dispatch_unfair_lock_tryunlock: fails, and the owner keeps the lock, if a
   trylock has failed in between. *)
Tryunlock(t) ==
  /\ pc[t] = "held"
  /\ IF dul_lock.failed
     THEN dul_lock' = [dul_lock EXCEPT !.failed = FALSE] /\ unheard' = FALSE /\ UNCHANGED pc
     ELSE /\ dul_lock' = Free /\ UNCHANGED unheard
          /\ Goto(t, IF dul_lock.waiters THEN "wake" ELSE "out")
  /\ UNCHANGED <<left, next, seen>>

(* _dispatch_unfair_lock_unlock_had_failed_trylock: exchange with the free word *)
Unlock(t) ==
  /\ pc[t] = "held"
  /\ dul_lock' = Free
  /\ unheard' = (unheard /\ ~dul_lock.failed)
  /\ Goto(t, IF dul_lock.waiters THEN "wake" ELSE "out")
  /\ UNCHANGED <<left, next, seen>>

(* _dispatch_unfair_lock_unlock_slow: the kernel wakes one sleeper, if there is one *)
UnlockSlow(t) ==
  /\ pc[t] = "wake"
  /\ \/ \E s \in Threads : pc[s] = "asleep" /\ pc' = [pc EXCEPT ![t] = "out", ![s] = "woken"]
     \/ (\A s \in Threads : pc[s] # "asleep") /\ Goto(t, "out")
  /\ UNCHANGED <<left, dul_lock, next, seen, unheard>>

Release(t) == Tryunlock(t) \/ Unlock(t)
Step(t) ==
  Lock(t) \/ LockSlow(t) \/ Park(t) \/ Resume(t) \/ Trylock(t) \/ Release(t) \/ UnlockSlow(t)

Next == \E t \in Threads : Step(t)

Spec == Init /\ [][Next]_vars

(* Threads run, and give back the lock. *)
Fairness == \A t \in Threads : WF_vars(Step(t))
FairSpec == Spec /\ Fairness
--------------------------------------------------------------------------------
(* At most one thread holds the lock, and the lock is not released before an owner
   was told of a failed trylock, whatever the slow path did with the word. *)
HeldAndHeard ==
  /\ \A t, u \in Threads : pc[t] = "held" /\ pc[u] = "held" => t = u
  /\ unheard => dul_lock.owner # Nobody

(* Inductive: the word names the one thread that holds the lock, and remembers a
   failed trylock exactly as long as nobody was told. *)
Words == [owner : Threads \cup {Nobody}, waiters : BOOLEAN, failed : BOOLEAN]
TypeOK ==
  /\ left \in [Threads -> Nat] /\ dul_lock \in Words
  /\ pc \in [Threads -> {"out", "held", "slow", "park", "asleep", "woken", "wake"}]
  /\ next \in [Threads -> BOOLEAN] /\ seen \in [Threads -> Words] /\ unheard \in BOOLEAN
OwnerHolds == \A t \in Threads : pc[t] = "held" <=> dul_lock.owner = t
FailedUnheard == (unheard <=> dul_lock.failed) /\ (dul_lock.failed => dul_lock.owner # Nobody)
IInv == TypeOK /\ OwnerHolds /\ FailedUnheard

(* No sleeper is forgotten: every thread gets the lock and finishes, although an
   unlock clears the word and wakes only one of the sleepers. *)
AllOut == \A t \in Threads : pc[t] = "out" /\ left[t] = 0
================================================================================
