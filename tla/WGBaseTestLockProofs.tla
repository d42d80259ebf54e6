------------------------ MODULE WGBaseTestLockProofs --------------------------
(* The locked methods implement indivisible updates: for any number of workers
   and rounds, and any choice of locks that gives each property one lock. *)
EXTENDS WGBaseTestLock, TLAPS

(* Method names, the values they update and by how much. *)
LEMMA OpFacts ==
  ASSUME NEW w \in Workers
  PROVE  Op[w] \in Ops /\ ValueOf(Op[w]) \in Values /\ Delta(Op[w]) \in Int
  <1>1. Op[w] \in Ops BY LockAssumption
  <1> QED BY <1>1 DEF Ops, Values, ValueOf, Delta

(* Workers on the same property compete for the same, existing lock. *)
LEMMA SameLock ==
  ASSUME OneLockPerValue(LockOf), NEW w \in Workers
  PROVE  /\ LockOf[Op[w]] \in Locks /\ LockOf[Op[w]] # NoLock
         /\ \A u \in Workers : ValueOf(Op[u]) = ValueOf(Op[w]) => LockOf[Op[u]] = LockOf[Op[w]]
  <1>1. \A u \in Workers : Op[u] \in Ops BY LockAssumption
  <1>2. LockOf[Op[w]] # NoLock BY <1>1 DEF OneLockPerValue
  <1> QED BY <1>1, <1>2, LockAssumption DEF OneLockPerValue

(* The six subclasses choose their locks that way. *)
LEMMA SubclassesLock ==
  \A table \in {OSSpinLockTest, OSUnfairLockTest, MutexLockTest, DispatchSerialQueueTest,
                NSLockTest, SynchronizedTest} : OneLockPerValue(table)
  BY DEF OSSpinLockTest, OSUnfairLockTest, MutexLockTest, DispatchSerialQueueTest, NSLockTest,
         SynchronizedTest, LockTable, OneLockPerValue, NoLock

(* Nobody is inside a method at the start. *)
LEMMA InitIInv == Init => IInv
  BY LockAssumption DEF Init, LedgerInit, IInv, TypeOK, Holding, OldIsCurrent, Inside, Values

(* Each step of a worker preserves the invariant; only Write touches an account,
   and then nobody else is between Read and Write on the same one. *)
LEMMA StepIInv == OneLockPerValue(LockOf) /\ IInv /\ [Next]_vars => IInv'
  <1> SUFFICES ASSUME OneLockPerValue(LockOf), IInv, [Next]_vars PROVE IInv' OBVIOUS
  <1>0. CASE UNCHANGED vars
    BY <1>0 DEF vars, IInv, TypeOK, Holding, OldIsCurrent, Inside
  <1>1. ASSUME NEW w \in Workers, WorkerStep(w) PROVE IInv'
    <2> DEFINE l == LockOf[Op[w]]
    <2> USE DEF IInv
    <2>0. l \in Locks /\ l # NoLock BY SameLock
    <2>1. CASE Lock(w)
      <3>1. TypeOK' BY <2>0, <2>1 DEF Lock, TypeOK
      <3>2. Holding'
        <4> SUFFICES ASSUME NEW u \in Workers
                     PROVE  /\ Inside(u)' => holder'[LockOf[Op[u]]] = u
                            /\ pc'[u] \in {"read", "write"} => left'[u] > 0
          BY DEF Holding
        <4>1. holder[l] = NoWorker /\ holder' = [holder EXCEPT ![l] = w] /\ left' = left
          BY <2>0, <2>1 DEF Lock
        <4>2. CASE u = w
          BY <2>0, <2>1, <4>1, <4>2 DEF Lock, TypeOK, Inside
        <4>3. CASE u # w
          <5>1. pc'[u] = pc[u] BY <2>1, <4>3 DEF Lock, TypeOK
          <5>2. Inside(u) => LockOf[Op[u]] # l
            BY <4>1, LockAssumption DEF Holding
          <5>3. LockOf[Op[u]] \in Locks BY SameLock
          <5> QED BY <4>1, <5>1, <5>2, <5>3 DEF Holding, Inside, TypeOK
        <4> QED BY <4>2, <4>3
      <3>3. OldIsCurrent' BY <2>1 DEF Lock, TypeOK, OldIsCurrent
      <3> QED BY <3>1, <3>2, <3>3
    <2>2. CASE Read(w)
      <3>1. TypeOK' BY <2>2, OpFacts DEF Read, TypeOK
      <3>2. Holding' BY <2>2 DEF Read, TypeOK, Holding, Inside
      <3>3. OldIsCurrent' BY <2>2 DEF Read, TypeOK, OldIsCurrent
      <3> QED BY <3>1, <3>2, <3>3
    <2>3. CASE Write(w)
      <3>1. TypeOK' BY <2>3, OpFacts DEF Write, TypeOK, Holding
      <3>2. Holding' BY <2>3 DEF Write, TypeOK, Holding, Inside
      <3>3. OldIsCurrent'
        <4> SUFFICES ASSUME NEW u \in Workers, pc'[u] = "write"
                     PROVE  old[u] = account'[ValueOf(Op[u])]
          BY <2>3 DEF Write, OldIsCurrent
        <4>1. u # w /\ pc[u] = "write" BY <2>3 DEF Write, TypeOK
        <4>2. ValueOf(Op[u]) # ValueOf(Op[w])
          BY <2>3, <4>1, SameLock DEF Write, Holding, Inside
        <4> QED BY <2>3, <4>1, <4>2, OpFacts DEF Write, TypeOK, OldIsCurrent
      <3> QED BY <3>1, <3>2, <3>3
    <2>4. CASE Unlock(w)
      <3>1. TypeOK' BY <2>0, <2>4 DEF Unlock, TypeOK
      <3>2. Holding' BY <2>0, <2>4 DEF Unlock, TypeOK, Holding, Inside
      <3>3. OldIsCurrent' BY <2>4 DEF Unlock, TypeOK, OldIsCurrent
      <3> QED BY <3>1, <3>2, <3>3
    <2> QED BY <1>1, <2>1, <2>2, <2>3, <2>4 DEF WorkerStep
  <1> QED BY <1>0, <1>1 DEF Next

(* A write back of the value read under the lock is an indivisible update. *)
LEMMA StepRefines == OneLockPerValue(LockOf) /\ IInv /\ [Next]_vars => [LedgerNext]_<<account, left>>
  <1> SUFFICES ASSUME OneLockPerValue(LockOf), IInv, [Next]_vars
               PROVE  [LedgerNext]_<<account, left>>
    OBVIOUS
  <1>1. ASSUME NEW w \in Workers, WorkerStep(w) PROVE [LedgerNext]_<<account, left>>
    <2>1. CASE Write(w)
      <3>1. left[w] > 0 /\ old[w] = account[ValueOf(Op[w])]
        BY <2>1 DEF Write, IInv, Holding, OldIsCurrent
      <3>2. Update(w) BY <2>1, <3>1, OpFacts DEF Write, Update, IInv, TypeOK
      <3> QED BY <3>2 DEF LedgerNext
    <2>2. CASE Lock(w) \/ Read(w) \/ Unlock(w)
      BY <2>2 DEF Lock, Read, Unlock
    <2> QED BY <1>1, <2>1, <2>2 DEF WorkerStep
  <1>2. CASE UNCHANGED vars BY <1>2 DEF vars
  <1> QED BY <1>1, <1>2 DEF Next

(* The variables keep their types. *)
THEOREM TypeCorrect == ASSUME OneLockPerValue(LockOf) PROVE Spec => []TypeOK
  <1>1. IInv => TypeOK BY DEF IInv
  <1> QED BY <1>1, InitIInv, StepIInv, PTL DEF Spec

(* What a worker read is current when it writes it back: no lost update. *)
THEOREM NoLostUpdate == ASSUME OneLockPerValue(LockOf) PROVE Spec => []OldIsCurrent
  <1>1. IInv => OldIsCurrent BY DEF IInv
  <1> QED BY <1>1, InitIInv, StepIInv, PTL DEF Spec

(* Every subclass that takes one lock per property implements the ledger. *)
THEOREM Implements == ASSUME OneLockPerValue(LockOf) PROVE Spec => ImplementsLedger
  <1>1. Init => LedgerInit BY DEF Init
  <1> QED BY <1>1, InitIInv, StepIInv, StepRefines, PTL DEF Spec, ImplementsLedger, LedgerSpec

(* The six subclasses of the repository do. *)
THEOREM SubclassesImplement ==
  ASSUME LockOf \in {OSSpinLockTest, OSUnfairLockTest, MutexLockTest, DispatchSerialQueueTest,
                     NSLockTest, SynchronizedTest}
  PROVE  Spec => ImplementsLedger
  BY SubclassesLock, Implements
===============================================================================
