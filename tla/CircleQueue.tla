------------------------------- MODULE CircleQueue ------------------------------
(***************************************************************************)
(* CircleQueue and CircleDoubleQueue of Queue.swift: a queue in an array     *)
(* used as a ring, which is copied to one and a half times its length when   *)
(* it is full.  CircleQueue has the operations at the rear (enQueue) and at  *)
(* the front (deQueue) only.  Neither class looks at size before it takes an *)
(* element out; a negative array index or range ends the program (ret =     *)
(* Trap).                                                                    *)
(***************************************************************************)
EXTENDS Integers

CONSTANTS Elements,
          Blank,             \* -1, what unused slots hold
          Trap,
          DEFAULT_CAPACITY,
          MaxSize,           \* bound on the size of the queue
          CallerChecks       \* callers ask isEmpty before they take an element

ASSUME CircleAssumption ==
  /\ DEFAULT_CAPACITY \in Nat /\ DEFAULT_CAPACITY >= 2
  /\ MaxSize \in Nat /\ CallerChecks \in BOOLEAN
  /\ Blank \notin Elements /\ Trap \notin Elements /\ Trap # Blank

VARIABLES class, front, size, array, length, call, ret

vars == <<class, front, size, array, length, call, ret>>

Double == class = "CircleDoubleQueue"

Init ==
  /\ class \in {"CircleQueue", "CircleDoubleQueue"}
  /\ front = 0 /\ size = 0 /\ length = DEFAULT_CAPACITY
  /\ array = [i \in 0..(DEFAULT_CAPACITY - 1) |-> Blank]
  /\ call = "init" /\ ret = Blank

(* Mutant: the first slot behind the array is taken for one of its own. *)
SlotOffByOne(f, n, i) ==
  IF f + i < 0 /\ Double THEN f + i + n
  ELSE f + i - (IF f + i > n THEN n ELSE 0)

(* index(_:) with the values of front and length it reads; CircleQueue does not
   expect a negative sum. *)
Slot(f, n, i) ==
  IF f + i < 0 /\ Double THEN f + i + n
  ELSE f + i - (IF f + i >= n THEN n ELSE 0)

index(i) == Slot(front, length, i)

(* ensureCapacity(needCapacity: size + 1): array, length and front after it. *)
Full == length < size + 1
NewLength == IF Full THEN length + length \div 2 ELSE length

(* Mutant: the elements are copied from their old places. *)
NewArrayUnrolled ==
  IF Full THEN [i \in 0..(NewLength - 1) |-> IF i < size THEN array[i] ELSE Blank]
  ELSE array

NewArray ==
  IF Full THEN [i \in 0..(NewLength - 1) |-> IF i < size THEN array[index(i)] ELSE Blank]
  ELSE array
NewFront == IF Full THEN 0 ELSE front

Trapped(name) ==
  call' = name /\ ret' = Trap /\ UNCHANGED <<front, size, array, length>>

Stored(name, f, slot, e) ==
  /\ call' = name /\ ret' = Blank
  /\ front' = f /\ size' = size + 1 /\ length' = NewLength
  /\ array' = [NewArray EXCEPT ![slot] = e]

(* enQueue of CircleQueue, enQueueRear of CircleDoubleQueue *)
enQueueRear(e) ==
  /\ size < MaxSize
  /\ LET slot == Slot(NewFront, NewLength, size)
     IN  IF slot < 0 THEN Trapped("enQueueRear") ELSE Stored("enQueueRear", NewFront, slot, e)

enQueueFront(e) ==
  /\ Double /\ size < MaxSize
  /\ LET slot == Slot(NewFront, NewLength, -1) IN Stored("enQueueFront", slot, slot, e)

Checked == CallerChecks => size > 0

(* deQueue of CircleQueue, deQueueFront of CircleDoubleQueue *)
deQueueFront ==
  /\ Checked
  /\ call' = "deQueueFront" /\ ret' = array[front]
  /\ array' = [array EXCEPT ![front] = Blank]
  /\ front' = index(1) /\ size' = size - 1
  /\ UNCHANGED length

deQueueRear ==
  /\ Double /\ Checked
  /\ call' = "deQueueRear" /\ ret' = array[index(size - 1)]
  /\ array' = [array EXCEPT ![index(size - 1)] = Blank]
  /\ size' = size - 1
  /\ UNCHANGED <<front, length>>

getFront ==
  call' = "getFront" /\ ret' = array[front] /\ UNCHANGED <<front, size, array, length>>

rear ==
  /\ Double
  /\ call' = "rear" /\ ret' = array[index(size - 1)]
  /\ UNCHANGED <<front, size, array, length>>

(* Mutant: only the first slots are blanked, not the slots of the elements. *)
clearUnrolled ==
  /\ call' = "clear" /\ ret' = Blank
  /\ array' = [i \in 0..(length - 1) |-> IF i < size THEN Blank ELSE array[i]]
  /\ size' = 0 /\ front' = 0 /\ UNCHANGED length

clear ==
  IF size < 0 THEN Trapped("clear")
  ELSE /\ call' = "clear" /\ ret' = Blank
       /\ array' = [j \in 0..(length - 1) |->
                      IF \E i \in 0..(size - 1) : index(i) = j THEN Blank ELSE array[j]]
       /\ size' = 0 /\ front' = 0 /\ UNCHANGED length

Next ==
  /\ ret # Trap
  /\ \/ \E e \in Elements : enQueueRear(e) \/ enQueueFront(e)
     \/ deQueueFront \/ deQueueRear \/ getFront \/ rear \/ clear
  /\ UNCHANGED class

Spec == Init /\ [][Next]_vars
-------------------------------------------------------------------------------
(* Type invariant: front is a slot of the array and size fits into it. *)
TypeOK ==
  /\ class \in {"CircleQueue", "CircleDoubleQueue"}
  /\ length \in Nat /\ length >= 2
  /\ front \in 0..(length - 1) /\ size \in 0..length
  /\ array \in [0..(length - 1) -> Elements \cup {Blank}]
  /\ ret \in Elements \cup {Blank}

(* A slot that holds no element of the queue is blank, so that getFront and rear
   of an empty queue return -1, wherever front has wandered to and whatever was
   stored, copied or cleared before. *)
Vacated ==
  \A j \in 0..(length - 1) : (\A i \in 0..(size - 1) : index(i) # j) => array[j] = Blank

IInv == TypeOK /\ Vacated

(* The ring of slots implements a double-ended queue: wrapping around, growing in
   the middle of a wrap and adding in front of slot 0 keep every element and
   their order. *)
D == INSTANCE Deque WITH q <- [k \in 1..size |-> array[index(k - 1)]]
ImplementsDeque == D!DequeSpec
================================================================================
