----------------------------- MODULE WGBaseTestLock ---------------------------
(***************************************************************************)
(* WGBaseTestLock.m and its subclasses: blocks on a concurrent queue call   *)
(* __saveMoney, __drawMoney and __saleTickets, each a read, a computation   *)
(* and a write of a property, which a subclass wraps in a lock.  LockOf     *)
(* is the table of the subclass under test (the base class takes no lock).  *)
(***************************************************************************)
EXTENDS Ledger

CONSTANTS LockOf, NoWorker

NoLock == "none"
Locks == {"moneyLock", "ticketsLock", "self"}

ASSUME LockAssumption ==
  /\ Op \in [Workers -> Ops]
  /\ Rounds \in Nat
  /\ LockOf \in [Ops -> Locks \cup {NoLock}]
  /\ NoWorker \notin Workers

(* The lock each subclass takes around each method.  A serial queue with
   dispatch_sync is a lock too; NSLockTest takes moneyLock for the tickets. *)
LockTable(money, tickets) ==
  [o \in Ops |-> IF ValueOf(o) = "tickets" THEN tickets ELSE money]

OSSpinLockTest == LockTable("moneyLock", "ticketsLock")
OSUnfairLockTest == LockTable("moneyLock", "ticketsLock")
MutexLockTest == LockTable("moneyLock", "ticketsLock")
DispatchSerialQueueTest == LockTable("moneyLock", "ticketsLock")
NSLockTest == LockTable("moneyLock", "moneyLock")
SynchronizedTest == LockTable("self", "self")

(* One lock for all the methods that update the same property. *)
OneLockPerValue(table) ==
  \A o, p \in Ops : ValueOf(o) = ValueOf(p) => table[o] = table[p] /\ table[o] # NoLock

VARIABLES old,      \* local variable old of each call
          pc,       \* where each worker is
          holder    \* who holds each lock

vars == <<account, left, old, pc, holder>>

Init ==
  /\ LedgerInit
  /\ old = [w \in Workers |-> 0]
  /\ pc = [w \in Workers |-> "call"]
  /\ holder = [l \in Locks |-> NoWorker]

(* Mutants: no lock is taken; the loop of the block makes one call too many. *)
LockNone(w) ==
  /\ pc[w] = "call" /\ left[w] > 0
  /\ pc' = [pc EXCEPT ![w] = "read"]
  /\ UNCHANGED <<account, left, old, holder>>

LockOnceMore(w) ==
  LET l == LockOf[Op[w]] IN
  /\ pc[w] = "call" /\ left[w] >= 0
  /\ holder[l] = NoWorker /\ holder' = [holder EXCEPT ![l] = w]
  /\ pc' = [pc EXCEPT ![w] = "read"]
  /\ UNCHANGED <<account, left, old>>

(* Entering the method of the subclass: the lock, if any, is taken. *)
Lock(w) ==
  LET l == LockOf[Op[w]] IN
  /\ pc[w] = "call" /\ left[w] > 0
  /\ IF l = NoLock THEN UNCHANGED holder
     ELSE holder[l] = NoWorker /\ holder' = [holder EXCEPT ![l] = w]
  /\ pc' = [pc EXCEPT ![w] = "read"]
  /\ UNCHANGED <<account, left, old>>

(* Mutant: the lock is released after the read. *)
ReadUnlocks(w) ==
  /\ pc[w] = "read"
  /\ old' = [old EXCEPT ![w] = account[ValueOf(Op[w])]]
  /\ pc' = [pc EXCEPT ![w] = "write"]
  /\ holder' = [holder EXCEPT ![LockOf[Op[w]]] = NoWorker]
  /\ UNCHANGED <<account, left>>

(* int old = self.money *)
Read(w) ==
  /\ pc[w] = "read"
  /\ old' = [old EXCEPT ![w] = account[ValueOf(Op[w])]]
  /\ pc' = [pc EXCEPT ![w] = "write"]
  /\ UNCHANGED <<account, left, holder>>

(* old += 50; self.money = old *)
Write(w) ==
  /\ pc[w] = "write"
  /\ account' = [account EXCEPT ![ValueOf(Op[w])] = old[w] + Delta(Op[w])]
  /\ left' = [left EXCEPT ![w] = @ - 1]
  /\ pc' = [pc EXCEPT ![w] = "unlock"]
  /\ UNCHANGED <<old, holder>>

(* Mutant: the unlock is missing. *)
UnlockMissing(w) ==
  /\ pc[w] = "unlock"
  /\ pc' = [pc EXCEPT ![w] = "call"]
  /\ UNCHANGED <<account, left, old, holder>>

(* Leaving the method of the subclass, back to the loop of the block. *)
Unlock(w) ==
  LET l == LockOf[Op[w]] IN
  /\ pc[w] = "unlock"
  /\ holder' = IF l = NoLock THEN holder ELSE [holder EXCEPT ![l] = NoWorker]
  /\ pc' = [pc EXCEPT ![w] = "call"]
  /\ UNCHANGED <<account, left, old>>

WorkerStep(w) == Lock(w) \/ Read(w) \/ Write(w) \/ Unlock(w)

AllDone == \A w \in Workers : pc[w] = "call" /\ left[w] = 0

Next == \E w \in Workers : WorkerStep(w)

Spec == Init /\ [][Next]_vars

(* The queue runs every block; its loop is finite, so a lock comes free for good. *)
FairSpec == Spec /\ \A w \in Workers : WF_vars(WorkerStep(w))
-------------------------------------------------------------------------------
(* Type invariant: every block is at a step of one of its calls. *)
TypeOK ==
  /\ account \in [Values -> Int]
  /\ left \in [Workers -> Nat]
  /\ old \in [Workers -> Int]
  /\ pc \in [Workers -> {"call", "read", "write", "unlock"}]
  /\ holder \in [Locks -> Workers \cup {NoWorker}]

Inside(w) == pc[w] \in {"read", "write", "unlock"}

(* The value a worker read is still current when it writes it back: nobody
   updated the property in between. *)
OldIsCurrent == \A w \in Workers : pc[w] = "write" => old[w] = account[ValueOf(Op[w])]

(* Who is inside a method holds the method's lock, and has a call to make. *)
Holding ==
  \A w \in Workers :
    /\ Inside(w) => holder[LockOf[Op[w]]] = w
    /\ pc[w] \in {"read", "write"} => left[w] > 0

IInv == TypeOK /\ Holding /\ OldIsCurrent

(* The locked methods implement the indivisible updates. *)
ImplementsLedger == LedgerSpec
===============================================================================
