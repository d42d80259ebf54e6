-------------------------------- MODULE Dispatch -------------------------------
(***************************************************************************)
(* One object of libdispatch, used by several threads: a semaphore, a group,*)
(* a once predicate or an unfair lock.  kind says which one; the others     *)
(* stay as they were created.                                               *)
(***************************************************************************)
EXTENDS DispatchSemaphore, Sequences

CONSTANTS Nobody,               \* no thread, no notification
          Kinds,
          Programs, MaxCalls,   \* DispatchGroup
          Plans, Builds, MaxGen,   \* DispatchOnce
          Rounds                \* DispatchUnfairLock

VARIABLES kind,
          todo, dg_state, head, tail, next, refs, gPc, gOld, dc, last, gTimeout,
          begun, emptied, fired, done,
          quiescent, calls, dgo_once, oPc, saw, ran, blind, counter, mask, since, fresh,
          uLeft, dul_lock, uPc, uNext, seen, unheard

groupVars == <<todo, dg_state, head, tail, next, refs, gPc, gOld, dc, last, gTimeout,
               begun, emptied, fired, done>>
onceVars == <<quiescent, calls, dgo_once, oPc, saw, ran, blind, counter, mask, since, fresh>>
lockVars == <<uLeft, dul_lock, uPc, uNext, seen, unheard>>
allVars == <<kind, vars, groupVars, onceVars, lockVars>>

Group == INSTANCE DispatchGroup WITH
  Nil <- Nobody, pc <- gPc, old <- gOld, timeout <- gTimeout
Once == INSTANCE DispatchOnce WITH pc <- oPc
Unfair == INSTANCE DispatchUnfairLock WITH left <- uLeft, pc <- uPc, next <- uNext

(* The calls of a kind in the programs of all threads *)
CallsOf(program, what) ==
  {c \in Threads \X (1..MaxCalls) :
     c[2] <= Len(program[c[1]]) /\ program[c[1]][Len(program[c[1]]) + 1 - c[2]] = what}

(* Clients of a group use it as its documentation says: enters and leaves balance, and
   a thread releases its reference at the end, or has none and only leaves. *)
ASSUME GroupAssumption ==
  /\ MaxCalls \in Nat
  /\ \A p \in Programs :
       /\ p \in [Threads -> Seq({"enter", "leave", "wait", "notify", "release"})]
       /\ \A t \in Threads :
            /\ Len(p[t]) <= MaxCalls
            /\ \A i \in 1..Len(p[t]) : p[t][i] = "release" => i = Len(p[t])
            /\ \/ Len(p[t]) = 0 \/ p[t][Len(p[t])] = "release"
               \/ \A i \in 1..Len(p[t]) : p[t][i] = "leave"
       /\ Cardinality(CallsOf(p, "leave")) = Cardinality(CallsOf(p, "enter"))

ASSUME DispatchAssumption ==
  /\ Nobody \notin Threads \cup (Threads \X (1..MaxCalls))
  /\ Builds \subseteq BOOLEAN
  /\ Rounds \in Nat

DispatchInit ==
  /\ kind \in Kinds
  /\ Init /\ Group!Init /\ Once!Init /\ Unfair!Init

DispatchNext ==
  /\ \/ kind = "semaphore" /\ Next /\ UNCHANGED <<groupVars, onceVars, lockVars>>
     \/ kind = "group" /\ Group!Next /\ UNCHANGED <<vars, onceVars, lockVars>>
     \/ kind = "once" /\ Once!Next /\ UNCHANGED <<vars, groupVars, lockVars>>
     \/ kind = "lock" /\ Unfair!Next /\ UNCHANGED <<vars, groupVars, onceVars>>
  /\ UNCHANGED kind

DispatchSpec == DispatchInit /\ [][DispatchNext]_allVars
--------------------------------------------------------------------------------
(* A wait for a group saw it empty (DispatchGroup). *)
WaitSawEmpty == Group!WaitSawEmpty

(* A group is freed when nobody uses it (DispatchGroup), and a semaphore whose users
   gave back what they took may be disposed of (DispatchSemaphore). *)
FreedWhenUnused == Group!FreedWhenUnused /\ BalancedDispose

(* The block of dispatch_once ran once and is seen (DispatchOnce). *)
OnceSeen == Once!OnceSeen

(* The unfair lock excludes, and its owner hears of failed trylocks. *)
HeldAndHeard == Unfair!HeldAndHeard

(* Nobody sleeps for ever: semaphores whose users signal let all of them through,
   waits for a group return and its notifications are submitted, calls of
   dispatch_once return, and every thread gets the unfair lock. *)
EverybodyServed ==
  <>[](CASE kind = "semaphore" -> UsersFinished
         [] kind = "group" -> Group!Served
         [] kind = "once" -> Once!Returned
         [] kind = "lock" -> Unfair!AllOut
         [] OTHER -> TRUE)

(* A notification is submitted when the group has been empty (DispatchGroup). *)
NotifiedAfterEmpty == Group!NotifiedAfterEmpty
================================================================================
