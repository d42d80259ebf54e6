--------------------------- MODULE CountingSemaphore ---------------------------
(***************************************************************************)
(* What dispatch/semaphore.h promises of a semaphore: a number of permits;  *)
(* a signal adds one, a successful wait takes one, and a wait that gives up *)
(* takes none, which only a wait with a timeout may do.                     *)
(***************************************************************************)
EXTENDS Integers

CONSTANTS Threads, Orig

VARIABLES permits,   \* signals and initial value not taken yet
          asked,     \* the timeout of each thread's pending wait, or "none"
          result     \* what the last wait of each thread returned

counting == <<permits, asked, result>>

CountingInit ==
  /\ permits = Orig
  /\ asked = [t \in Threads |-> "none"]
  /\ result = [t \in Threads |-> "none"]

Ask(t, timeout) ==
  /\ asked[t] = "none"
  /\ asked' = [asked EXCEPT ![t] = timeout]
  /\ UNCHANGED <<permits, result>>

(* A wait takes a permit, as soon as it is called or later. *)
Grant(t) ==
  /\ permits > 0 /\ permits' = permits - 1
  /\ asked' = [asked EXCEPT ![t] = "none"]
  /\ result' = [result EXCEPT ![t] = "success"]

Expire(t) ==
  /\ asked[t] \in {"now", "later"}
  /\ asked' = [asked EXCEPT ![t] = "none"]
  /\ result' = [result EXCEPT ![t] = "timeout"]
  /\ UNCHANGED permits

Post == permits' = permits + 1 /\ UNCHANGED <<asked, result>>

CountingNext ==
  \/ Post
  \/ \E t \in Threads :
       Grant(t) \/ Expire(t) \/ \E timeout \in {"now", "later", "forever"} : Ask(t, timeout)

CountingSpec == CountingInit /\ [][CountingNext]_counting
================================================================================
