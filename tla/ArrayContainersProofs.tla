------------------------- MODULE ArrayContainersProofs -------------------------
(***************************************************************************)
(* For any elements, capacities and bounds: the array queues of Queue.swift *)
(* keep their type and their unused slots blank and implement a             *)
(* double-ended queue, the dynamic arrays implement lists, but for clear    *)
(* of the Swift class, and two stacks implement a queue, provided that      *)
(* callers do not take an element out of an empty ring, keep the            *)
(* assertions of the Swift arrays and ask for a capacity that can grow.     *)
(***************************************************************************)
EXTENDS Containers, SequenceTheorems, WellFoundedInduction, TLAPS

--------------------------------------------------------------------------------
(***************************************************************************)
(* The rings of Queue.swift                                                 *)
(***************************************************************************)
Queue == [k \in 1..size |-> array[index(k - 1)]]

(* index(_:) maps the positions of a queue into the array, no two to one slot. *)
LEMMA SlotInRange ==
  ASSUME NEW n \in Nat, NEW f \in 0..(n - 1), NEW i \in 0..(n - 1)
  PROVE  Slot(f, n, i) \in 0..(n - 1) /\ Slot(f, n, i) = (IF f + i >= n THEN f + i - n ELSE f + i)
  BY DEF Slot

LEMMA SlotInjective ==
  ASSUME NEW n \in Nat, NEW f \in 0..(n - 1), NEW i \in 0..(n - 1), NEW j \in 0..(n - 1),
         Slot(f, n, i) = Slot(f, n, j)
  PROVE  i = j
  BY DEF Slot

(* index(-1) of CircleDoubleQueue is the slot before front, round the ring. *)
LEMMA SlotBefore ==
  ASSUME Double, NEW n \in Nat, n >= 1, NEW f \in 0..(n - 1)
  PROVE  Slot(f, n, -1) = IF f = 0 THEN n - 1 ELSE f - 1
  BY DEF Slot

(* What ensureCapacity leaves behind: room for one more element, the elements of
   the queue in their order, and blanks everywhere else. *)
LEMMA Capacity ==
  ASSUME IInv
  PROVE  /\ NewLength \in Nat /\ NewLength >= 2 /\ size < NewLength
         /\ NewFront \in 0..(NewLength - 1)
         /\ NewArray \in [0..(NewLength - 1) -> Elements \cup {Blank}]
         /\ \A k \in 0..(size - 1) : NewArray[Slot(NewFront, NewLength, k)] = array[index(k)]
         /\ \A j \in 0..(NewLength - 1) :
              (\A i \in 0..(size - 1) : Slot(NewFront, NewLength, i) # j) => NewArray[j] = Blank
<1>1. CASE ~Full
  BY <1>1 DEF IInv, TypeOK, Vacated, Full, NewLength, NewFront, NewArray, index
<1>2. CASE Full
  <2>1. /\ size = length /\ length \in Nat /\ length >= 2
        /\ NewLength = length + length \div 2 /\ NewFront = 0
    BY <1>2 DEF IInv, TypeOK, Full, NewLength, NewFront
  <2>2. NewLength \in Nat /\ NewLength > length
    BY <2>1
  <2>3. \A k \in 0..(size - 1) : index(k) \in 0..(length - 1)
    BY <2>1, SlotInRange DEF IInv, TypeOK, index
  <2>4. NewArray = [i \in 0..(NewLength - 1) |-> IF i < size THEN array[index(i)] ELSE Blank]
    BY <1>2 DEF NewArray
  <2>5. \A i \in 0..(NewLength - 1) : i < size => array[index(i)] \in Elements \cup {Blank}
    BY <2>1, <2>2, <2>3 DEF IInv, TypeOK
  <2>6. \A k \in 0..(NewLength - 1) : Slot(0, NewLength, k) = k
    BY <2>2, SlotInRange
  <2>7. NewArray \in [0..(NewLength - 1) -> Elements \cup {Blank}]
    BY <2>4, <2>5
  <2>8. \A k \in 0..(size - 1) : NewArray[k] = array[index(k)]
    BY <2>1, <2>2, <2>4
  <2>9. \A j \in 0..(NewLength - 1) : ~(j < size) => NewArray[j] = Blank
    BY <2>4
  <2> QED BY <2>1, <2>2, <2>6, <2>7, <2>8, <2>9
<1> QED BY <1>1, <1>2
(* index(_:) after a call, in terms of the new front and length. *)
LEMMA IndexAfter ==
  ASSUME class' = class, NEW i \in Int
  PROVE  index(i)' = Slot(front', length', i)
  BY DEF index, Slot, Double

(* What each operation does to the invariant and to the sequence of elements. *)
LEMMA RearAdded ==
  ASSUME IInv, class' = class, NEW e \in Elements, enQueueRear(e)
  PROVE  /\ IInv'
         /\ size' = size + 1 /\ call' = "enQueueRear" /\ ret' = Blank
         /\ \A k \in 0..(size - 1) : array'[index(k)'] = array[index(k)]
         /\ \A k \in 0..size : k = size => array'[index(k)'] = e
<1> DEFINE slot == Slot(NewFront, NewLength, size)
<1>1. /\ size \in Nat /\ size < NewLength /\ NewLength \in Nat /\ NewLength >= 2
      /\ NewFront \in 0..(NewLength - 1)
      /\ NewArray \in [0..(NewLength - 1) -> Elements \cup {Blank}]
  BY Capacity DEF IInv, TypeOK
<1>2. \A i \in 0..size : Slot(NewFront, NewLength, i) \in 0..(NewLength - 1)
  BY <1>1, SlotInRange
<1>3. \A i \in 0..(size - 1) : Slot(NewFront, NewLength, i) # slot
  BY <1>1, SlotInjective
<1>4. Stored("enQueueRear", NewFront, slot, e)
  BY <1>1, <1>2 DEF enQueueRear
<1>5. /\ front' = NewFront /\ length' = NewLength /\ size' = size + 1
      /\ call' = "enQueueRear" /\ ret' = Blank
      /\ array' = [NewArray EXCEPT ![slot] = e]
  BY <1>4 DEF Stored
<1>6. \A i \in 0..size : index(i)' = Slot(NewFront, NewLength, i)
  BY <1>1, <1>5, IndexAfter
<1>7. \A k \in 0..(size - 1) : array'[index(k)'] = array[index(k)]
  BY <1>1, <1>2, <1>3, <1>5, <1>6, Capacity
<1>8. \A k \in 0..size : k = size => array'[index(k)'] = e
  BY <1>1, <1>2, <1>5, <1>6
<1>9. TypeOK'
  BY <1>1, <1>2, <1>5 DEF IInv, TypeOK
<1>10. Vacated'
  <2> SUFFICES ASSUME NEW j \in 0..(NewLength - 1),
                      \A i \in 0..size : Slot(NewFront, NewLength, i) # j
               PROVE  array'[j] = Blank
    BY <1>1, <1>5, <1>6 DEF Vacated
  <2>1. j # slot /\ NewArray[j] = Blank
    BY <1>1, Capacity
  <2> QED BY <1>1, <1>5, <2>1
<1> QED BY <1>5, <1>7, <1>8, <1>9, <1>10 DEF IInv

LEMMA FrontAdded ==
  ASSUME IInv, class' = class, NEW e \in Elements, enQueueFront(e)
  PROVE  /\ IInv'
         /\ size' = size + 1 /\ call' = "enQueueFront" /\ ret' = Blank
         /\ \A k \in 0..(size - 1) : array'[index(k + 1)'] = array[index(k)]
         /\ array'[index(0)'] = e
<1> DEFINE slot == Slot(NewFront, NewLength, -1)
<1>1. /\ size \in Nat /\ size < NewLength /\ NewLength \in Nat /\ NewLength >= 2
      /\ NewFront \in 0..(NewLength - 1)
      /\ NewArray \in [0..(NewLength - 1) -> Elements \cup {Blank}]
  BY Capacity DEF IInv, TypeOK
<1>2. slot = IF NewFront = 0 THEN NewLength - 1 ELSE NewFront - 1
  BY <1>1, SlotBefore DEF enQueueFront
<1>3. slot \in 0..(NewLength - 1)
  BY <1>1, <1>2
<1>4. /\ front' = slot /\ length' = NewLength /\ size' = size + 1
      /\ call' = "enQueueFront" /\ ret' = Blank
      /\ array' = [NewArray EXCEPT ![slot] = e]
  BY DEF enQueueFront, Stored
<1>5. \A i \in 0..size : index(i)' = Slot(slot, NewLength, i)
  BY <1>1, <1>4, IndexAfter
<1>6. \A k \in 0..(size - 1) :
         /\ Slot(NewFront, NewLength, k) \in 0..(NewLength - 1)
         /\ Slot(NewFront, NewLength, k) # slot
         /\ Slot(slot, NewLength, k + 1) = Slot(NewFront, NewLength, k)
  <2> SUFFICES ASSUME NEW k \in 0..(size - 1)
               PROVE  /\ Slot(NewFront, NewLength, k) \in 0..(NewLength - 1)
                      /\ Slot(NewFront, NewLength, k) # slot
                      /\ Slot(slot, NewLength, k + 1) = Slot(NewFront, NewLength, k)
    OBVIOUS
  <2>1. k \in 0..(NewLength - 1) /\ k + 1 \in 0..(NewLength - 1)
    BY <1>1
  <2> HIDE DEF slot
  <2>2. /\ Slot(NewFront, NewLength, k) \in 0..(NewLength - 1)
        /\ Slot(NewFront, NewLength, k)
             = (IF NewFront + k >= NewLength THEN NewFront + k - NewLength ELSE NewFront + k)
    BY <1>1, <2>1, SlotInRange
  <2>3. Slot(slot, NewLength, k + 1)
          = (IF slot + (k + 1) >= NewLength THEN slot + (k + 1) - NewLength ELSE slot + (k + 1))
    BY <1>1, <1>3, <2>1, SlotInRange
  <2> QED BY <1>1, <1>2, <1>3, <2>1, <2>2, <2>3
<1>7. Slot(slot, NewLength, 0) = slot
  <2> HIDE DEF slot
  <2> QED BY <1>1, <1>3, SlotInRange
<1>8. \A k \in 0..(size - 1) : array'[index(k + 1)'] = array[index(k)]
  BY <1>1, <1>4, <1>5, <1>6, Capacity
<1>9. array'[index(0)'] = e
  BY <1>1, <1>3, <1>4, <1>5, <1>7
<1>10. TypeOK'
  BY <1>1, <1>3, <1>4 DEF IInv, TypeOK
<1>11. Vacated'
  <2> SUFFICES ASSUME NEW j \in 0..(NewLength - 1),
                      \A i \in 0..size : Slot(slot, NewLength, i) # j
               PROVE  array'[j] = Blank
    BY <1>1, <1>4, <1>5 DEF Vacated
  <2>1. j # slot
    BY <1>1, <1>7
  <2>2. ASSUME NEW i \in 0..(size - 1) PROVE Slot(NewFront, NewLength, i) # j
    BY <1>1, <1>6
  <2>3. NewArray[j] = Blank
    BY <2>2, Capacity
  <2> QED BY <1>1, <1>4, <2>1, <2>3
<1> QED BY <1>4, <1>8, <1>9, <1>10, <1>11 DEF IInv
LEMMA FrontTaken ==
  ASSUME CallerChecks, IInv, class' = class, deQueueFront
  PROVE  /\ IInv'
         /\ size > 0 /\ size' = size - 1 /\ call' = "deQueueFront" /\ ret' = array[index(0)]
         /\ \A k \in 0..(size - 2) : array'[index(k)'] = array[index(k + 1)]
<1>1. /\ size \in 1..length /\ length \in Nat /\ length >= 2 /\ front \in 0..(length - 1)
      /\ array \in [0..(length - 1) -> Elements \cup {Blank}]
  BY DEF IInv, TypeOK, deQueueFront, Checked
<1>2. /\ front' = Slot(front, length, 1) /\ size' = size - 1 /\ length' = length
      /\ call' = "deQueueFront" /\ ret' = array[front]
      /\ array' = [array EXCEPT ![front] = Blank]
  BY DEF deQueueFront, index
<1>3. /\ front' \in 0..(length - 1)
      /\ front' = IF front + 1 >= length THEN front + 1 - length ELSE front + 1
  <2>1. 1 \in 0..(length - 1)
    BY <1>1
  <2> QED BY <1>1, <1>2, <2>1, SlotInRange
<1>4. index(0) = front
  BY <1>1, SlotInRange DEF index
<1>5. \A k \in 0..(size - 2) :
         /\ index(k + 1) \in 0..(length - 1) /\ index(k + 1) # front
         /\ index(k)' = index(k + 1)
  <2> SUFFICES ASSUME NEW k \in 0..(size - 2)
               PROVE  /\ index(k + 1) \in 0..(length - 1) /\ index(k + 1) # front
                      /\ index(k)' = index(k + 1)
    OBVIOUS
  <2>1. k \in 0..(length - 1) /\ k + 1 \in 0..(length - 1)
    BY <1>1
  <2>2. /\ index(k + 1) \in 0..(length - 1)
        /\ index(k + 1)
             = (IF front + (k + 1) >= length THEN front + (k + 1) - length ELSE front + (k + 1))
    BY <1>1, <2>1, SlotInRange DEF index
  <2>3. index(k)' = Slot(front', length, k)
    BY <1>2, <2>1, IndexAfter
  <2>4. Slot(front', length, k)
          = (IF front' + k >= length THEN front' + k - length ELSE front' + k)
    BY <1>1, <1>3, <2>1, SlotInRange
  <2> QED BY <1>1, <1>3, <2>1, <2>2, <2>3, <2>4
<1>6. \A k \in 0..(size - 2) : array'[index(k)'] = array[index(k + 1)]
  BY <1>1, <1>2, <1>5
<1>7. TypeOK'
  BY <1>1, <1>2, <1>3 DEF IInv, TypeOK
<1>8. Vacated'
  <2> SUFFICES ASSUME NEW j \in 0..(length - 1),
                      \A i \in 0..(size - 2) : index(i + 1) # j
               PROVE  array'[j] = Blank
    <3>1. size' - 1 = size - 2
      BY <1>1, <1>2
    <3>2. \A i \in 0..(size - 2) : index(i)' = index(i + 1)
      BY <1>5
    <3> QED BY <1>2, <3>1, <3>2 DEF Vacated
  <2>1. CASE j = front
    BY <1>1, <1>2, <2>1
  <2>2. CASE j # front
    <3>1. ASSUME NEW i \in 0..(size - 1) PROVE index(i) # j
      <4>1. CASE i = 0
        BY <1>4, <2>2, <4>1
      <4>2. CASE i # 0
        <5>1. i - 1 \in 0..(size - 2) /\ (i - 1) + 1 = i
          BY <1>1, <4>2
        <5> QED BY <5>1
      <4> QED BY <4>1, <4>2
    <3>2. array[j] = Blank
      BY <3>1 DEF IInv, Vacated
    <3> QED BY <1>1, <1>2, <2>2, <3>2
  <2> QED BY <2>1, <2>2
<1> QED BY <1>1, <1>2, <1>4, <1>6, <1>7, <1>8 DEF IInv

LEMMA RearTaken ==
  ASSUME CallerChecks, IInv, class' = class, deQueueRear
  PROVE  /\ IInv'
         /\ size > 0 /\ size' = size - 1 /\ call' = "deQueueRear"
         /\ ret' = array[index(size - 1)]
         /\ \A k \in 0..(size - 2) : array'[index(k)'] = array[index(k)]
<1>1. /\ size \in 1..length /\ length \in Nat /\ length >= 2 /\ front \in 0..(length - 1)
      /\ array \in [0..(length - 1) -> Elements \cup {Blank}]
  BY DEF IInv, TypeOK, deQueueRear, Checked
<1>2. /\ front' = front /\ size' = size - 1 /\ length' = length
      /\ call' = "deQueueRear" /\ ret' = array[index(size - 1)]
      /\ array' = [array EXCEPT ![index(size - 1)] = Blank]
  BY DEF deQueueRear
<1>3. \A k \in 0..(size - 1) : index(k) \in 0..(length - 1) /\ index(k)' = index(k)
  <2>1. \A k \in 0..(size - 1) : index(k) \in 0..(length - 1)
    BY <1>1, SlotInRange DEF index
  <2>2. \A k \in 0..(size - 1) : index(k)' = index(k)
    BY <1>2 DEF index, Slot, Double
  <2> QED BY <2>1, <2>2
<1>4. \A k \in 0..(size - 2) : index(k) # index(size - 1)
  BY <1>1, SlotInjective DEF index
<1>5. \A k \in 0..(size - 2) : array'[index(k)'] = array[index(k)]
  BY <1>1, <1>2, <1>3, <1>4
<1>6. TypeOK'
  BY <1>1, <1>2, <1>3 DEF IInv, TypeOK
<1>7. Vacated'
  <2> SUFFICES ASSUME NEW j \in 0..(length - 1), \A i \in 0..(size - 2) : index(i) # j
               PROVE  array'[j] = Blank
    BY <1>1, <1>2, <1>3 DEF Vacated
  <2>1. CASE j = index(size - 1)
    BY <1>1, <1>2, <2>1
  <2>2. CASE j # index(size - 1)
    <3>1. ASSUME NEW i \in 0..(size - 1) PROVE index(i) # j
      <4>1. CASE i = size - 1
        BY <2>2, <4>1
      <4>2. CASE i # size - 1
        BY <1>1, <4>2
      <4> QED BY <4>1, <4>2
    <3>2. array[j] = Blank
      BY <3>1 DEF IInv, Vacated
    <3> QED BY <1>1, <1>2, <2>2, <3>2
  <2> QED BY <2>1, <2>2
<1> QED BY <1>1, <1>2, <1>5, <1>6, <1>7 DEF IInv

(* clear blanks exactly the slots of the elements, so everything is blank. *)
LEMMA Cleared ==
  ASSUME IInv, class' = class, clear
  PROVE  IInv' /\ size' = 0 /\ call' = "clear" /\ ret' = Blank
<1>1. /\ size' = 0 /\ front' = 0 /\ length' = length /\ call' = "clear" /\ ret' = Blank
      /\ array' = [j \in 0..(length - 1) |->
                     IF \E i \in 0..(size - 1) : index(i) = j THEN Blank ELSE array[j]]
  BY DEF clear, IInv, TypeOK
<1>2. \A j \in 0..(length - 1) : array'[j] = Blank
  BY <1>1 DEF IInv, Vacated
<1>3. TypeOK' /\ Vacated'
  BY <1>1, <1>2 DEF IInv, TypeOK, Vacated
<1> QED BY <1>1, <1>3 DEF IInv

(* The front of an empty queue, and the slot before it, are blank. *)
LEMMA Peeked ==
  ASSUME IInv, class' = class, getFront \/ rear
  PROVE  /\ IInv' /\ size' = size
         /\ \A k \in 0..(size - 1) : array'[index(k)'] = array[index(k)]
         /\ getFront => /\ call' = "getFront"
                        /\ ret' = IF size = 0 THEN Blank ELSE array[index(0)]
         /\ rear => /\ call' = "rear"
                    /\ ret' = IF size = 0 THEN Blank ELSE array[index(size - 1)]
<1>1. /\ size \in 0..length /\ length \in Nat /\ length >= 2 /\ front \in 0..(length - 1)
      /\ array \in [0..(length - 1) -> Elements \cup {Blank}]
  BY DEF IInv, TypeOK
<1>2. front' = front /\ size' = size /\ length' = length /\ array' = array
  BY DEF getFront, rear
<1>3. \A k \in 0..(size - 1) : index(k)' = index(k)
  BY <1>1, <1>2, IndexAfter DEF index
<1>4. size = 0 => \A j \in 0..(length - 1) : array[j] = Blank
  BY <1>1 DEF IInv, Vacated
<1>5. index(0) = front
  BY <1>1, SlotInRange DEF index
<1>6. getFront => /\ call' = "getFront" /\ ret' = array[front]
                  /\ ret' = IF size = 0 THEN Blank ELSE array[index(0)]
  BY <1>1, <1>4, <1>5 DEF getFront
<1>7. rear => index(size - 1) \in 0..(length - 1)
  <2>1. CASE size = 0
    BY <1>1, <2>1, SlotBefore DEF index, rear
  <2>2. CASE size > 0
    BY <1>1, <2>2, SlotInRange DEF index
  <2> QED BY <1>1, <2>1, <2>2
<1>8. rear => /\ call' = "rear" /\ ret' = array[index(size - 1)]
              /\ ret' = IF size = 0 THEN Blank ELSE array[index(size - 1)]
  BY <1>1, <1>4, <1>7 DEF rear
<1>9. TypeOK'
  BY <1>1, <1>2, <1>6, <1>7, <1>8 DEF IInv, TypeOK
<1>10. Vacated'
  BY <1>1, <1>2, <1>3 DEF IInv, Vacated
<1> QED BY <1>2, <1>3, <1>6, <1>8, <1>9, <1>10 DEF IInv
LEMMA Initially == Init => IInv
  BY CircleAssumption DEF Init, IInv, TypeOK, Vacated

LEMMA Inductive ==
  ASSUME CallerChecks, IInv, [Next]_vars
  PROVE  IInv'
<1>1. ASSUME NEW e \in Elements, class' = class, enQueueRear(e) PROVE IInv'
  BY <1>1, RearAdded
<1>2. ASSUME NEW e \in Elements, class' = class, enQueueFront(e) PROVE IInv'
  BY <1>2, FrontAdded
<1>3. ASSUME class' = class, deQueueFront PROVE IInv'
  BY <1>3, FrontTaken
<1>4. ASSUME class' = class, deQueueRear PROVE IInv'
  BY <1>4, RearTaken
<1>5. ASSUME class' = class, getFront \/ rear PROVE IInv'
  BY <1>5, Peeked
<1>6. ASSUME class' = class, clear PROVE IInv'
  BY <1>6, Cleared
<1>7. ASSUME UNCHANGED vars PROVE IInv'
  BY <1>7 DEF vars, IInv, TypeOK, Vacated, index, Slot, Double
<1> QED BY <1>1, <1>2, <1>3, <1>4, <1>5, <1>6, <1>7 DEF Next

LEMMA Invariance ==
  ASSUME CallerChecks
  PROVE  Spec => []IInv
<1>1. Init => IInv
  BY Initially
<1>2. IInv /\ [Next]_vars => IInv'
  BY Inductive
<1> QED BY <1>1, <1>2, PTL DEF Spec

(* For every capacity of at least 2: front stays inside the array, size between 0
   and its length, and no operation of Queue.swift traps. *)
THEOREM TypeCorrect ==
  ASSUME CallerChecks
  PROVE  Spec => []TypeOK
<1>1. IInv => TypeOK
  BY DEF IInv
<1> QED BY <1>1, Invariance, PTL

(* The slots that hold no element are blank: what getFront and rear of an empty
   queue rely on. *)
THEOREM UnusedSlotsBlank ==
  ASSUME CallerChecks
  PROVE  Spec => []Vacated
<1>1. IInv => Vacated
  BY DEF IInv
<1> QED BY <1>1, Invariance, PTL

(* When two sequences are those before and after an operation of a deque. *)
LEMMA IsAppend ==
  ASSUME NEW S, NEW s \in Seq(S), NEW t \in Seq(S), NEW e \in S, Len(t) = Len(s) + 1,
         \A k \in 1..Len(s) : t[k] = s[k], t[Len(s) + 1] = e
  PROVE  t = Append(s, e)
<1>1. Append(s, e) \in Seq(S) /\ Len(Append(s, e)) = Len(s) + 1
  OBVIOUS
<1>2. \A k \in 1..Len(t) : t[k] = Append(s, e)[k]
  OBVIOUS
<1> QED BY <1>1, <1>2, SeqEqual

LEMMA IsPrepend ==
  ASSUME NEW S, NEW s \in Seq(S), NEW t \in Seq(S), NEW e \in S, Len(t) = Len(s) + 1,
         \A k \in 1..Len(s) : t[k + 1] = s[k], t[1] = e
  PROVE  t = <<e>> \o s
<1> DEFINE u == <<e>>
<1>1. u \in Seq(S) /\ Len(u) = 1 /\ u[1] = e
  OBVIOUS
<1> HIDE DEF u
<1>2. /\ u \o s \in Seq(S) /\ Len(u \o s) = Len(s) + 1
      /\ \A k \in 1..(Len(s) + 1) : (u \o s)[k] = IF k <= 1 THEN u[k] ELSE s[k - 1]
  <2>1. /\ u \o s \in Seq(S) /\ Len(u \o s) = Len(u) + Len(s)
        /\ \A k \in 1..(Len(u) + Len(s)) :
             (u \o s)[k] = IF k <= Len(u) THEN u[k] ELSE s[k - Len(u)]
    BY <1>1, ConcatProperties, Zenon
  <2>2. Len(u) + Len(s) = Len(s) + 1
    BY <1>1
  <2> QED BY <1>1, <2>1, <2>2
<1>3. ASSUME NEW k \in 1..Len(t) PROVE t[k] = (u \o s)[k]
  <2>1. CASE k = 1
    BY <1>1, <1>2, <2>1
  <2>2. CASE k # 1
    <3>1. k - 1 \in 1..Len(s) /\ (k - 1) + 1 = k
      BY <2>2
    <3> QED BY <1>2, <3>1, <2>2
  <2> QED BY <2>1, <2>2
<1>4. t = u \o s
  BY <1>2, <1>3, SeqEqual
<1> QED BY <1>4 DEF u

LEMMA IsTail ==
  ASSUME NEW S, NEW s \in Seq(S), NEW t \in Seq(S), Len(s) > 0, Len(t) = Len(s) - 1,
         \A k \in 1..Len(t) : t[k] = s[k + 1]
  PROVE  t = Tail(s)
<1>1. s # <<>>
  OBVIOUS
<1> QED BY <1>1, HeadTailProperties, SeqEqual

LEMMA IsFrontPart ==
  ASSUME NEW S, NEW s \in Seq(S), NEW t \in Seq(S), Len(s) > 0, Len(t) = Len(s) - 1,
         \A k \in 1..Len(t) : t[k] = s[k]
  PROVE  t = SubSeq(s, 1, Len(s) - 1)
<1>1. \A k \in 1..(Len(s) - 1) : s[k] \in S
  BY ElementOfSeq
<1>2. /\ SubSeq(s, 1, Len(s) - 1) \in Seq(S) /\ Len(SubSeq(s, 1, Len(s) - 1)) = Len(s) - 1
      /\ \A k \in 1..(Len(s) - 1) : SubSeq(s, 1, Len(s) - 1)[k] = s[k]
  BY <1>1, SubSeqProperties
<1> QED BY <1>2, SeqEqual

(* The elements of the queue are a sequence. *)
Represents ==
  /\ Queue \in Seq(Elements \cup {Blank}) /\ Len(Queue) = size
  /\ \A k \in 1..size : Queue[k] = array[index(k - 1)]

LEMMA QueueIsSeq == IInv => Represents
<1> SUFFICES ASSUME IInv PROVE Represents
  OBVIOUS
<1>1. size \in Nat
  BY DEF IInv, TypeOK
<1>2. \A k \in 1..size : array[index(k - 1)] \in Elements \cup {Blank}
  <2> SUFFICES ASSUME NEW k \in 1..size
               PROVE  array[index(k - 1)] \in Elements \cup {Blank}
    OBVIOUS
  <2>1. k - 1 \in 0..(length - 1)
    BY DEF IInv, TypeOK
  <2>2. index(k - 1) \in 0..(length - 1)
    BY <2>1, SlotInRange DEF IInv, TypeOK, index
  <2> QED BY <2>2 DEF IInv, TypeOK
<1>3. Queue \in [1..size -> Elements \cup {Blank}]
  BY <1>2 DEF Queue
<1> QED BY <1>1, <1>3 DEF Queue, Represents

LEMMA QueueIsSeqAfter == IInv' => Represents'
  BY QueueIsSeq, PTL
LEMMA StepRefines ==
  ASSUME CallerChecks, IInv, [Next]_vars
  PROVE  [D!DequeNext]_<<Queue, call, ret>>
<1> DEFINE Slots == Elements \cup {Blank}
<1>1. /\ Queue \in Seq(Slots) /\ Len(Queue) = size
      /\ \A k \in 1..size : Queue[k] = array[index(k - 1)]
  BY QueueIsSeq DEF Represents
<1>2. /\ Queue' \in Seq(Slots) /\ Len(Queue') = size'
      /\ \A k \in 1..size' : Queue'[k] = array'[index(k - 1)']
  BY Inductive, QueueIsSeqAfter DEF Represents
<1>3. size \in Nat /\ (size = 0 <=> Queue = <<>>)
  BY <1>1, EmptySeq DEF IInv, TypeOK
<1> HIDE DEF Slots
<1>4. ASSUME NEW e \in Elements, class' = class, enQueueRear(e) PROVE D!PushRear(e)
  <2>1. /\ size' = size + 1 /\ call' = "enQueueRear" /\ ret' = Blank
        /\ \A k \in 0..(size - 1) : array'[index(k)'] = array[index(k)]
        /\ \A k \in 0..size : k = size => array'[index(k)'] = e
    BY <1>4, RearAdded
  <2>2. ASSUME NEW k \in 1..size PROVE Queue'[k] = Queue[k]
    <3>1. k - 1 \in 0..(size - 1) /\ k \in 1..size'
      BY <1>3, <2>1
    <3> QED BY <1>1, <1>2, <2>1, <3>1
  <2>3. Queue'[size + 1] = e
    BY <1>2, <1>3, <2>1
  <2>4. Queue' = Append(Queue, e)
    BY <1>1, <1>2, <2>1, <2>2, <2>3, IsAppend DEF Slots
  <2> QED BY <2>1, <2>4 DEF D!PushRear, Queue
<1>5. ASSUME NEW e \in Elements, class' = class, enQueueFront(e) PROVE D!PushFront(e)
  <2>1. /\ size' = size + 1 /\ call' = "enQueueFront" /\ ret' = Blank
        /\ \A k \in 0..(size - 1) : array'[index(k + 1)'] = array[index(k)]
        /\ array'[index(0)'] = e
    BY <1>5, FrontAdded
  <2>2. ASSUME NEW k \in 1..size PROVE Queue'[k + 1] = Queue[k]
    <3>1. /\ k - 1 \in 0..(size - 1) /\ k + 1 \in 1..size'
          /\ (k - 1) + 1 = k /\ (k + 1) - 1 = k
      BY <1>3, <2>1
    <3> QED BY <1>1, <1>2, <2>1, <3>1
  <2>3. Queue'[1] = e
    BY <1>2, <1>3, <2>1
  <2>4. Queue' = <<e>> \o Queue
    BY <1>1, <1>2, <2>1, <2>2, <2>3, IsPrepend DEF Slots
  <2> QED BY <2>1, <2>4 DEF D!PushFront, Queue
<1>6. ASSUME class' = class, deQueueFront PROVE D!PopFront
  <2>1. /\ size > 0 /\ size' = size - 1 /\ call' = "deQueueFront" /\ ret' = array[index(0)]
        /\ \A k \in 0..(size - 2) : array'[index(k)'] = array[index(k + 1)]
    BY <1>6, FrontTaken
  <2>2. ASSUME NEW k \in 1..size' PROVE Queue'[k] = Queue[k + 1]
    <3>1. /\ k - 1 \in 0..(size - 2) /\ k + 1 \in 1..size
          /\ (k - 1) + 1 = k /\ (k + 1) - 1 = k
      BY <1>3, <2>1
    <3> QED BY <1>1, <1>2, <2>1, <3>1
  <2>3. Queue' = Tail(Queue)
    BY <1>1, <1>2, <2>1, <2>2, IsTail
  <2>4. ret' = Head(Queue) /\ Queue # <<>>
    BY <1>1, <1>3, <2>1
  <2> QED BY <2>1, <2>3, <2>4 DEF D!PopFront, Queue
<1>7. ASSUME class' = class, deQueueRear PROVE D!PopRear
  <2>1. /\ size > 0 /\ size' = size - 1 /\ call' = "deQueueRear"
        /\ ret' = array[index(size - 1)]
        /\ \A k \in 0..(size - 2) : array'[index(k)'] = array[index(k)]
    BY <1>7, RearTaken
  <2>2. ASSUME NEW k \in 1..size' PROVE Queue'[k] = Queue[k]
    <3>1. k - 1 \in 0..(size - 2) /\ k \in 1..size
      BY <1>3, <2>1
    <3> QED BY <1>1, <1>2, <2>1, <3>1
  <2>3. Queue' = SubSeq(Queue, 1, Len(Queue) - 1)
    BY <1>1, <1>2, <2>1, <2>2, IsFrontPart
  <2>4. ret' = Queue[Len(Queue)] /\ Queue # <<>>
    BY <1>1, <1>3, <2>1
  <2> QED BY <2>1, <2>3, <2>4 DEF D!PopRear, Queue
<1>8. ASSUME class' = class, getFront \/ rear PROVE D!PeekFront \/ D!PeekRear
  <2>1. /\ size' = size
        /\ \A k \in 0..(size - 1) : array'[index(k)'] = array[index(k)]
        /\ getFront => /\ call' = "getFront"
                       /\ ret' = IF size = 0 THEN Blank ELSE array[index(0)]
        /\ rear => /\ call' = "rear"
                   /\ ret' = IF size = 0 THEN Blank ELSE array[index(size - 1)]
    BY <1>8, Peeked
  <2>2. ASSUME NEW k \in 1..size PROVE Queue'[k] = Queue[k]
    <3>1. k - 1 \in 0..(size - 1)
      BY <1>3
    <3> QED BY <1>1, <1>2, <2>1, <3>1
  <2>3. Queue' = Queue
    BY <1>1, <1>2, <2>1, <2>2, SeqEqual
  <2>4. getFront => ret' = IF Queue = <<>> THEN Blank ELSE Head(Queue)
    BY <1>1, <1>3, <2>1
  <2>5. rear => ret' = IF Queue = <<>> THEN Blank ELSE Queue[Len(Queue)]
    BY <1>1, <1>3, <2>1
  <2> QED BY <1>8, <2>1, <2>3, <2>4, <2>5 DEF D!PeekFront, D!PeekRear, Queue
<1>9. ASSUME class' = class, clear PROVE D!Empty
  <2>1. size' = 0 /\ call' = "clear" /\ ret' = Blank
    BY <1>9, Cleared
  <2>2. Queue' = <<>>
    BY <1>2, <2>1, EmptySeq
  <2> QED BY <2>1, <2>2 DEF D!Empty, Queue
<1>10. ASSUME UNCHANGED vars PROVE UNCHANGED <<Queue, call, ret>>
  BY <1>10 DEF vars, Queue, index, Slot, Double
<1> QED BY <1>4, <1>5, <1>6, <1>7, <1>8, <1>9, <1>10 DEF Next, D!DequeNext

(* The array queues implement a double-ended queue for every capacity of at least
   2: growing, wrapping and adding before slot 0 lose and reorder nothing. *)
THEOREM RingsAreDeques ==
  ASSUME CallerChecks
  PROVE  Spec => ImplementsDeque
<1>1. Init => D!DequeInit
  <2> SUFFICES ASSUME Init PROVE D!DequeInit
    OBVIOUS
  <2>1. size = 0 /\ call = "init" /\ ret = Blank
    BY DEF Init
  <2>2. Queue = <<>>
    BY <2>1, Initially, QueueIsSeq, EmptySeq DEF Represents
  <2> QED BY <2>1, <2>2 DEF D!DequeInit, Queue
<1>2. IInv /\ [Next]_vars => [D!DequeNext]_<<Queue, call, ret>>
  BY StepRefines
<1> QED BY <1>1, <1>2, Invariance, PTL DEF Spec, ImplementsDeque, D!DequeSpec, Queue

--------------------------------------------------------------------------------
(***************************************************************************)
(* The queue of two stacks                                                  *)
(***************************************************************************)
(* Two sequences of the same length with the same elements are the same. *)
LEMMA SameSeq ==
  ASSUME NEW S, NEW s \in Seq(S), NEW t \in Seq(S), Len(s) = Len(t),
         \A k \in 1..Len(s) : s[k] = t[k]
  PROVE  s = t
  OBVIOUS

(* Turning a stack over gives a stack of the same elements. *)
LEMMA TurnedOverType ==
  ASSUME NEW S, NEW s \in Seq(S)
  PROVE  /\ Two!TurnedOver(s) \in Seq(S) /\ Len(Two!TurnedOver(s)) = Len(s)
         /\ \A k \in 1..Len(s) : Two!TurnedOver(s)[k] = s[Len(s) + 1 - k]
  BY DEF Two!TurnedOver

(* The loop leaves outStack empty only if the whole queue is. *)
LEMMA PouredType ==
  ASSUME Two!TypeOK
  PROVE  Two!Poured \in Seq(Elements) /\ Two!Kept \in Seq(Elements)
  BY TurnedOverType DEF Two!TypeOK, Two!Poured, Two!Kept

(* What a pop leaves of the stack it takes from. *)
LEMMA TopTaken ==
  ASSUME NEW S, NEW s \in Seq(S), s # <<>>, NEW rest, rest = SubSeq(s, 1, Len(s) - 1)
  PROVE  /\ rest \in Seq(S) /\ Len(s) \in Nat \ {0} /\ Len(rest) = Len(s) - 1
         /\ \A k \in 1..(Len(s) - 1) : rest[k] = s[k]
<1>1. Len(s) \in Nat \ {0} /\ \A i \in 1..(Len(s) - 1) : s[i] \in S
  OBVIOUS
<1>2. 1 \in Int /\ Len(s) - 1 \in Int
  BY <1>1
<1>3. /\ rest \in Seq(S)
      /\ Len(rest) = IF 1 <= Len(s) - 1 THEN Len(s) - 1 - 1 + 1 ELSE 0
      /\ \A i \in 1..(Len(s) - 1 - 1 + 1) : rest[i] = s[1 + i - 1]
  BY <1>1, <1>2, SubSeqProperties
<1>4. Len(rest) = Len(s) - 1
  <2>1. ASSUME NEW n \in Nat \ {0} PROVE (IF 1 <= n - 1 THEN n - 1 - 1 + 1 ELSE 0) = n - 1
    OBVIOUS
  <2> QED
    BY <1>1, <1>3, <2>1, Zenon
<1>5. ASSUME NEW k \in 1..(Len(s) - 1) PROVE rest[k] = s[k]
  <2>1. k \in 1..(Len(s) - 1 - 1 + 1) /\ 1 + k - 1 = k
    BY <1>1
  <2> QED
    BY <2>1, <1>3
<1> QED
  BY <1>1, <1>3, <1>4, <1>5

(* Type correctness: no operation puts anything but elements on the stacks. *)
LEMMA StacksTyped == Two!Spec => []Two!TypeOK
<1>1. Two!Init => Two!TypeOK
  BY DEF Two!Init, Two!TypeOK
<1>2. Two!TypeOK /\ [Two!Next]_(Two!vars) => Two!TypeOK'
  <2> SUFFICES ASSUME Two!TypeOK, [Two!Next]_(Two!vars) PROVE Two!TypeOK'
    OBVIOUS
  <2>1. ASSUME NEW e \in Elements, Two!push(e) PROVE Two!TypeOK'
    BY <2>1 DEF Two!push, Two!TypeOK
  <2>2. CASE Two!pop
    BY <2>2, PouredType, TopTaken DEF Two!pop, Two!TypeOK
  <2>3. CASE Two!peek
    BY <2>3, PouredType DEF Two!peek, Two!TypeOK
  <2>4. CASE Two!isEmpty
    BY <2>4 DEF Two!isEmpty, Two!TypeOK
  <2>5. CASE UNCHANGED Two!vars
    BY <2>5 DEF Two!vars, Two!TypeOK
  <2> QED
    BY <2>4, <2>1, <2>5, <2>3, <2>2 DEF Two!Next
<1> QED
  BY <1>1, <1>2, PTL DEF Two!Spec

(* The queue has its elements and its length. *)
LEMMA LineType ==
  ASSUME Two!TypeOK
  PROVE  /\ Two!Line \in Seq(Elements) /\ Len(Two!Line) = Len(outStack) + Len(inStack)
         /\ \A k \in 1..Len(Two!Line) :
              Two!Line[k] = IF k <= Len(outStack) THEN outStack[Len(outStack) + 1 - k]
                        ELSE inStack[k - Len(outStack)]
  BY DEF Two!TypeOK, Two!Line

(* Turning inStack over into an empty outStack leaves the queue as it is. *)
LEMMA PouringKeepsLine ==
  ASSUME Two!TypeOK
  PROVE  /\ Len(Two!Line) = Len(Two!Poured) + Len(Two!Kept)
         /\ \A k \in 1..Len(Two!Line) :
              Two!Line[k] = IF k <= Len(Two!Poured) THEN Two!Poured[Len(Two!Poured) + 1 - k]
                        ELSE Two!Kept[k - Len(Two!Poured)]
<1>1. CASE outStack = <<>>
  <2>1. Two!Poured = Two!TurnedOver(inStack) /\ Two!Kept = <<>> /\ Len(outStack) = 0
    BY <1>1 DEF Two!Poured, Two!Kept
  <2> QED
    BY <2>1, TurnedOverType, LineType DEF Two!TypeOK
<1>2. CASE outStack # <<>>
  BY <1>2, LineType DEF Two!Poured, Two!Kept
<1> QED
  BY <1>1, <1>2

(* The queue after a step is the queue of the new stacks. *)
LEMMA LineNext ==
  ASSUME Two!TypeOK, Two!TypeOK'
  PROVE  /\ Two!Line' \in Seq(Elements) /\ Len(Two!Line') = Len(outStack') + Len(inStack')
         /\ \A k \in 1..Len(Two!Line') :
              Two!Line'[k] = IF k <= Len(outStack') THEN outStack'[Len(outStack') + 1 - k]
                         ELSE inStack'[k - Len(outStack')]
  BY DEF Two!TypeOK, Two!Line

(* The two stacks implement a first-in-first-out queue. *)
THEOREM StacksAreQueue == Two!Spec => ImplementsFifo
<1>1. Two!Init => Two!F!FifoInit
  BY DEF Two!Init, Two!Line, Two!F!FifoInit
<1>2. Two!TypeOK /\ Two!TypeOK' /\ [Two!Next]_(Two!vars) => [Two!F!FifoNext]_<<Two!Line, qCall, qRet>>
  <2> SUFFICES ASSUME Two!TypeOK, Two!TypeOK', [Two!Next]_(Two!vars)
               PROVE  [Two!F!FifoNext]_<<Two!Line, qCall, qRet>>
    OBVIOUS
  <2>1. ASSUME NEW e \in Elements, Two!push(e) PROVE Two!F!Push(e)
    <3>1. Two!Line' = Append(Two!Line, e)
      <4> DEFINE longer == Append(inStack, e)
                 wanted == Append(Two!Line, e)
      <4>1. /\ inStack' = longer /\ outStack' = outStack
            /\ Len(longer) = Len(inStack) + 1 /\ longer[Len(inStack) + 1] = e
            /\ \A j \in 1..Len(inStack) : longer[j] = inStack[j]
        BY <2>1, AppendProperties DEF Two!push, Two!TypeOK
      <4>2. /\ wanted \in Seq(Elements)
            /\ Len(wanted) = Len(Two!Line) + 1 /\ wanted[Len(Two!Line) + 1] = e
            /\ \A j \in 1..Len(Two!Line) : wanted[j] = Two!Line[j]
        BY LineType, AppendProperties
      <4>3. Len(inStack) \in Nat /\ Len(outStack) \in Nat
        BY DEF Two!TypeOK
      <4> HIDE DEF longer, wanted
      <4>4. Len(Two!Line') = Len(wanted)
        BY <4>1, <4>2, <4>3, LineType, LineNext
      <4>5. ASSUME NEW k \in 1..Len(Two!Line') PROVE Two!Line'[k] = wanted[k]
        <5>1. CASE k = Len(Two!Line) + 1
          BY <4>1, <4>2, <4>3, <5>1, LineType, LineNext
        <5>2. CASE k \in 1..Len(outStack)
          <6>1. wanted[k] = outStack[Len(outStack) + 1 - k]
            <7>1. k \in 1..Len(Two!Line) /\ k <= Len(outStack)
              BY <4>3, <5>2, LineType
            <7>2. Two!Line[k] = outStack[Len(outStack) + 1 - k]
              BY <7>1, LineType
            <7> HIDE DEF Two!Line
            <7> QED
              BY <4>2, <7>1, <7>2
          <6>2. outStack' = outStack
            BY <2>1 DEF Two!push
          <6>3. Two!Line'[k] = outStack'[Len(outStack') + 1 - k]
            BY <4>3, <5>2, <6>2, LineNext
          <6> HIDE DEF Two!Line
          <6> QED
            BY <6>1, <6>2, <6>3
        <5>3. CASE k \in (Len(outStack) + 1)..Len(Two!Line)
          <6> DEFINE j == k - Len(outStack)
          <6>1. /\ k \in 1..Len(Two!Line) /\ k \in 1..Len(Two!Line')
                /\ ~(k <= Len(outStack)) /\ j \in 1..Len(inStack)
            BY <4>3, <5>3, LineType
          <6>2. outStack' = outStack /\ inStack' = longer
            BY <2>1 DEF Two!push, longer
          <6>3. wanted[k] = inStack[j]
            BY <4>2, <6>1, LineType
          <6>4. Two!Line'[k] = inStack'[j]
            BY <6>1, <6>2, LineNext
          <6>5. longer[j] = inStack[j]
            BY <4>1, <6>1
          <6> QED
            BY <6>2, <6>3, <6>4, <6>5
        <5> QED
          BY <4>2, <4>3, <4>4, <5>1, <5>2, <5>3, LineType
      <4>6. Two!Line' = wanted
        BY <4>2, <4>4, <4>5, SameSeq, LineNext
      <4> QED
        BY <4>6 DEF wanted
    <3> QED
      BY <2>1, <3>1 DEF Two!push, Two!F!Push
  <2>2. ASSUME Two!pop PROVE Two!F!Pop
    <3>1. CASE Two!Poured = <<>>
      <4>1. Two!Line = <<>> /\ Two!Line' = <<>>
        BY <2>2, <3>1, PouringKeepsLine, LineType, LineNext DEF Two!pop, Two!TypeOK, Two!Kept, Two!Poured
      <4> QED
        BY <2>2, <3>1, <4>1 DEF Two!pop, Two!F!Pop
    <3>2. CASE Two!Poured # <<>>
      <4>1. Len(Two!Poured) \in Nat \ {0} /\ Two!Poured \in Seq(Elements)
        BY <3>2, PouredType
      <4>2. Two!Line # <<>> /\ Head(Two!Line) = Two!Poured[Len(Two!Poured)]
        BY <4>1, PouringKeepsLine, LineType, PouredType
      <4>3. Two!Line' = Tail(Two!Line)
        <5> DEFINE rest == SubSeq(Two!Poured, 1, Len(Two!Poured) - 1)
        <5>1. outStack' = rest /\ inStack' = Two!Kept /\ Len(rest) = Len(Two!Poured) - 1
              /\ \A j \in 1..(Len(Two!Poured) - 1) : rest[j] = Two!Poured[j]
          <6>1. rest = SubSeq(Two!Poured, 1, Len(Two!Poured) - 1)
            OBVIOUS
          <6> HIDE DEF rest
          <6>2. outStack' = rest /\ inStack' = Two!Kept
            BY <2>2, <3>2, <6>1 DEF Two!pop
          <6>3. Two!Poured \in Seq(Elements)
            BY <4>1
          <6>4. Len(rest) = Len(Two!Poured) - 1 /\ \A j \in 1..(Len(Two!Poured) - 1) : rest[j] = Two!Poured[j]
            BY ONLY <3>2, <6>1, <6>3, TopTaken, ZenonT(30)
          <6> QED
            BY <6>2, <6>4
        <5>2. /\ Len(Tail(Two!Line)) = Len(Two!Line) - 1
              /\ \A j \in 1..(Len(Two!Line) - 1) : Tail(Two!Line)[j] = Two!Line[j + 1]
          BY <4>2, LineType, HeadTailProperties
        <5> HIDE DEF rest
        <5>3. Len(Two!Line') = Len(Tail(Two!Line))
          BY <4>1, <5>1, <5>2, PouringKeepsLine, LineNext, PouredType
        <5>4. ASSUME NEW k \in 1..Len(Two!Line') PROVE Two!Line'[k] = Tail(Two!Line)[k]
          <6>1. k \in 1..(Len(Two!Line) - 1) /\ Tail(Two!Line)[k] = Two!Line[k + 1]
            BY <5>2, <5>3, LineType
          <6>2. CASE k <= Len(Two!Poured) - 1
            <7>1. Two!Line[k + 1] = Two!Poured[Len(Two!Poured) - k]
              BY <4>1, <6>1, <6>2, PouringKeepsLine, LineType
            <7>2. Two!Line'[k] = rest[Len(Two!Poured) - k]
              BY <4>1, <5>1, <6>2, LineNext
            <7> QED
              BY <4>1, <5>1, <6>1, <6>2, <7>1, <7>2
          <6>3. CASE ~(k <= Len(Two!Poured) - 1)
            BY <4>1, <5>1, <6>1, <6>3, PouringKeepsLine, LineNext, PouredType
          <6> QED
            BY <6>2, <6>3
        <5> QED
          BY <4>2, <5>3, <5>4, SameSeq, LineType, LineNext, HeadTailProperties
      <4> QED
        BY <2>2, <3>2, <4>2, <4>3 DEF Two!pop, Two!F!Pop
    <3> QED
      BY <3>1, <3>2
  <2>3. ASSUME Two!peek PROVE Two!F!Peek
    <3>1. Two!Line' = Two!Line
      <4>1. Len(Two!Line') = Len(Two!Line)
        BY <2>3, PouringKeepsLine, LineType, LineNext, PouredType DEF Two!peek
      <4>2. ASSUME NEW k \in 1..Len(Two!Line') PROVE Two!Line'[k] = Two!Line[k]
        BY <2>3, <4>1, PouringKeepsLine, LineType, LineNext, PouredType DEF Two!peek
      <4> QED
        BY <4>1, <4>2, SameSeq, LineType, LineNext
    <3>2. qRet' = IF Two!Line = <<>> THEN Trap ELSE Head(Two!Line)
      <4>1. CASE Two!Poured = <<>>
        <5>1. Two!Line = <<>>
          BY <4>1, PouringKeepsLine, LineType DEF Two!TypeOK, Two!Kept, Two!Poured
        <5> QED
          BY <2>3, <4>1, <5>1 DEF Two!peek
      <4>2. CASE Two!Poured # <<>>
        <5>1. Two!Line # <<>> /\ Head(Two!Line) = Two!Poured[Len(Two!Poured)]
          BY <4>2, PouringKeepsLine, LineType, PouredType
        <5> QED
          BY <2>3, <4>2, <5>1 DEF Two!peek
      <4> QED
        BY <4>1, <4>2
    <3> QED
      BY <2>3, <3>1, <3>2 DEF Two!peek, Two!F!Peek
  <2>4. ASSUME Two!isEmpty PROVE Two!F!IsEmpty
    <3>1. Two!Line' = Two!Line
      BY <2>4 DEF Two!isEmpty, Two!Line
    <3>2. (inStack = <<>> /\ outStack = <<>>) = (Two!Line = <<>>)
      BY LineType DEF Two!TypeOK
    <3> QED
      BY <2>4, <3>1, <3>2 DEF Two!isEmpty, Two!F!IsEmpty
  <2>5. CASE UNCHANGED Two!vars
    BY <2>5 DEF Two!vars, Two!Line
  <2> QED
    BY <2>4, <2>1, <2>5, <2>3, <2>2 DEF Two!Next, Two!F!FifoNext
<1> QED
  BY <1>1, <1>2, StacksTyped, PTL DEF Two!Spec, ImplementsFifo, Two!ImplementsFifo, Two!F!FifoSpec
--------------------------------------------------------------------------------
(***************************************************************************)
(* Sequences and numbers                                                    *)
(***************************************************************************)
(* The first n elements of a sequence. *)
LEMMA Prefix ==
  ASSUME NEW S, NEW s \in Seq(S), NEW n \in 0..Len(s)
  PROVE  /\ SubSeq(s, 1, n) \in Seq(S) /\ Len(SubSeq(s, 1, n)) = n
         /\ \A k \in 1..n : SubSeq(s, 1, n)[k] = s[k]
  BY SubSeqProperties

(* What RemoveAt of the lists returns. *)
LEMMA RemoveAtProperties ==
  ASSUME NEW S, NEW s \in Seq(S), NEW i \in 0..(Len(s) - 1)
  PROVE  LET t == Arr!L!RemoveAt(s, i + 1) IN
         /\ t \in Seq(S) /\ Len(t) = Len(s) - 1
         /\ \A k \in 1..i : t[k] = s[k]
         /\ \A k \in (i + 1)..(Len(s) - 1) : t[k] = s[k + 1]
  <1> DEFINE a == SubSeq(s, 1, i)
             b == SubSeq(s, i + 2, Len(s))
             t == a \o b
  <1>1. a \in Seq(S) /\ Len(a) = i /\ \A k \in 1..i : a[k] = s[k]
    BY Prefix
  <1>2. /\ b \in Seq(S) /\ Len(b) = Len(s) - (i + 1)
        /\ \A k \in 1..(Len(s) - (i + 1)) : b[k] = s[i + 1 + k]
    BY SubSeqProperties
  <1> HIDE DEF a, b
  <1>3. /\ t \in Seq(S) /\ Len(t) = Len(s) - 1
        /\ \A k \in 1..i : t[k] = a[k]
        /\ \A k \in (i + 1)..(Len(s) - 1) : t[k] = b[k - i]
    <2>1. /\ t \in Seq(S) /\ Len(t) = Len(a) + Len(b)
          /\ \A k \in 1..(Len(a) + Len(b)) : t[k] = IF k <= Len(a) THEN a[k] ELSE b[k - Len(a)]
      BY <1>1, <1>2, ConcatProperties
    <2>2. Len(a) = i /\ Len(a) + Len(b) = Len(s) - 1 /\ i \in Nat /\ Len(s) \in Nat
      BY <1>1, <1>2
    <2> HIDE DEF t
    <2> QED
      BY <2>1, <2>2
  <1> HIDE DEF t
  <1>4. \A k \in (i + 1)..(Len(s) - 1) : t[k] = s[k + 1]
    BY <1>2, <1>3
  <1>5. Arr!L!RemoveAt(s, i + 1) = t
    <2>1. (i + 1) - 1 = i /\ (i + 1) + 1 = i + 2
      OBVIOUS
    <2> QED
      BY <2>1 DEF Arr!L!RemoveAt, t, a, b
  <1> QED
    BY <1>1, <1>3, <1>4, <1>5

(* Fill keeps what is there and adds slots up to the length n. *)
LEMMA FillProperties ==
  ASSUME NEW S, NEW s \in Seq(S), -1 \in S, NEW n \in Nat, Len(s) <= n
  PROVE  LET t == Arr!Fill(s, n) IN
         /\ t \in Seq(S) /\ Len(t) = n
         /\ \A k \in 1..Len(s) : t[k] = s[k]
  <1> DEFINE u == [k \in 1..(n - Len(s)) |-> -1]
             t == s \o u
  <1>1. u \in Seq(S) /\ Len(u) = n - Len(s)
    OBVIOUS
  <1> HIDE DEF u
  <1>2. t \in Seq(S) /\ Len(t) = n /\ \A k \in 1..Len(s) : t[k] = s[k]
    BY <1>1, ConcatProperties
  <1>3. Arr!Fill(s, n) = t
    BY DEF Arr!Fill, Arr!NOT_FOUND, t, u
  <1> QED
    BY <1>2, <1>3

(* A set of numbers that is not empty has a least one. *)
LEMMA Least ==
  ASSUME NEW I \in SUBSET Nat, I # {}
  PROVE  \E x \in I : \A y \in I : x <= y
  <1> DEFINE R == {p \in Nat \X Nat : p[1] < p[2]}
  <1>1. IsWellFoundedOn(R, Nat)
    BY NatLessThanWellFounded DEF OpToRel
  <1> HIDE DEF R
  <1>2. PICK x \in I : \A y \in I : ~(<<y, x>> \in R)
    BY <1>1, WFMin
  <1>3. ASSUME NEW y \in I PROVE x <= y
    <2>1. x \in Nat /\ y \in Nat
      OBVIOUS
    <2>2. y < x => <<y, x>> \in R
      BY <2>1 DEF R
    <2> QED
      BY <1>2, <2>1, <2>2
  <1> QED
    BY <1>3

LEMMA MinProperties ==
  ASSUME NEW I \in SUBSET Nat, I # {}
  PROVE  Arr!Min(I) \in I
  BY Least DEF Arr!Min

(* r is s with e in front of what was at i (counted from 0). *)
Inserted(S, s, i, e, r) ==
  /\ r \in Seq(S) /\ Len(r) = Len(s) + 1
  /\ \A k \in 1..i : r[k] = s[k]
  /\ r[i + 1] = e
  /\ \A k \in (i + 2)..(Len(s) + 1) : r[k] = s[k - 1]

(* What InsertAt returns. *)
LEMMA InsertAtProperties ==
  ASSUME NEW S, NEW s \in Seq(S), NEW i \in 0..Len(s), NEW e \in S
  PROVE  Inserted(S, s, i, e, Arr!L!InsertAt(s, i + 1, e))
  <1> DEFINE a == SubSeq(s, 1, i)
             b == SubSeq(s, i + 1, Len(s))
             c == a \o <<e>>
             t == c \o b
  <1>1. Len(s) \in Nat /\ i \in Nat
    OBVIOUS
  <1>2. a \in Seq(S) /\ Len(a) = i /\ \A k \in 1..i : a[k] = s[k]
    BY Prefix
  <1>3. b \in Seq(S) /\ Len(b) = Len(s) - i /\ \A k \in 1..(Len(s) - i) : b[k] = s[i + k]
    BY SubSeqProperties
  <1>4. <<e>> \in Seq(S) /\ Len(<<e>>) = 1 /\ <<e>>[1] = e
    OBVIOUS
  <1> HIDE DEF a, b
  <1>5. c \in Seq(S) /\ Len(c) = i + 1 /\ c[i + 1] = e /\ \A k \in 1..i : c[k] = a[k]
    BY <1>1, <1>2, <1>4, ConcatProperties
  <1> HIDE DEF c
  <1>6. /\ t \in Seq(S) /\ Len(t) = Len(s) + 1
        /\ \A k \in 1..(i + 1) : t[k] = c[k]
        /\ \A k \in (i + 2)..(Len(s) + 1) : t[k] = b[k - (i + 1)]
    <2>1. /\ t \in Seq(S) /\ Len(t) = Len(c) + Len(b)
          /\ \A k \in 1..(Len(c) + Len(b)) : t[k] = IF k <= Len(c) THEN c[k] ELSE b[k - Len(c)]
      BY <1>3, <1>5, ConcatProperties
    <2>2. Len(c) = i + 1 /\ Len(c) + Len(b) = Len(s) + 1
      BY <1>1, <1>3, <1>5
    <2> HIDE DEF t
    <2> QED
      BY <1>1, <2>1, <2>2
  <1> HIDE DEF t
  <1>7. ASSUME NEW k \in (i + 2)..(Len(s) + 1) PROVE t[k] = s[k - 1]
    <2>1. k - (i + 1) \in 1..(Len(s) - i) /\ i + (k - (i + 1)) = k - 1
      BY <1>1
    <2> QED
      BY <1>3, <1>6, <2>1
  <1>8. t[i + 1] = e /\ \A k \in 1..i : t[k] = s[k]
    BY <1>1, <1>2, <1>5, <1>6
  <1>9. Arr!L!InsertAt(s, i + 1, e) = t
    <2>1. (i + 1) - 1 = i
      BY <1>1
    <2> QED
      BY <2>1 DEF Arr!L!InsertAt, t, c, a, b
  <1> QED
    BY <1>6, <1>7, <1>8, <1>9 DEF Inserted

--------------------------------------------------------------------------------
(***************************************************************************)
(* The dynamic arrays                                                       *)
(***************************************************************************)
(* What a slot of a dynamic array holds: an element, or nothing yet. *)
SlotValue == ArrayElements \cup {-1}

(* What the refinement needs: the elements are in the slots, and an array of the
   Swift classes has as many slots as its capacity, which is large enough to grow. *)
ArrInv ==
  /\ slots \in Seq(SlotValue)
  /\ aSize \in 0..Len(slots) /\ aSize <= ArrayMax
  /\ Arr!Swift => aLength \in Nat /\ aLength >= 2 /\ Len(slots) = aLength

Listed == SubSeq(slots, 1, aSize)

LEMMA ListedProperties ==
  ASSUME ArrInv
  PROVE  /\ Listed \in Seq(SlotValue) /\ Len(Listed) = aSize /\ aSize \in Nat
         /\ \A k \in 1..aSize : Listed[k] = slots[k]
  BY Prefix DEF ArrInv, Listed

(* ensureCapacity keeps the elements, and the Swift classes have room for one
   more afterwards. *)
LEMMA Grown ==
  ASSUME ArrInv
  PROVE  /\ Arr!NewSlots \in Seq(SlotValue) /\ aSize <= Len(Arr!NewSlots)
         /\ \A k \in 1..aSize : Arr!NewSlots[k] = slots[k]
         /\ Arr!Swift => /\ Arr!NewLength \in Nat /\ Arr!NewLength >= 2
                         /\ Len(Arr!NewSlots) = Arr!NewLength /\ aSize + 1 <= Arr!NewLength
  <1>1. aSize \in Nat /\ Len(slots) \in Nat /\ aSize <= Len(slots) /\ -1 \in SlotValue
    BY DEF ArrInv, SlotValue
  <1>2. CASE ~Arr!Full
    <2>1. Arr!NewSlots = slots /\ Arr!NewLength = aLength
      BY <1>2 DEF Arr!NewSlots, Arr!NewLength
    <2> QED
      BY <1>1, <1>2, <2>1 DEF ArrInv, Arr!Full
  <1>3. CASE Arr!Full /\ ~Arr!Swift
    <2>1. Arr!NewSlots = Listed
      BY <1>3 DEF Arr!NewSlots, Listed
    <2> QED
      BY <1>1, <1>3, <2>1, ListedProperties
  <1>4. CASE Arr!Full /\ Arr!Swift
    <2>1. /\ Arr!NewLength = aLength + aLength \div 2
          /\ aLength \in Nat /\ aLength >= 2 /\ aLength = aSize
      BY <1>1, <1>4 DEF Arr!NewLength, Arr!Full, ArrInv
    <2>2. Arr!NewLength \in Nat /\ Arr!NewLength >= aSize + 1
      BY <2>1
    <2>3. Arr!NewSlots = Arr!Fill(Listed, Arr!NewLength)
      BY <1>4 DEF Arr!NewSlots, Listed
    <2> HIDE DEF SlotValue
    <2> QED
      BY <1>1, <2>1, <2>2, <2>3, ListedProperties, FillProperties
  <1> QED
    BY <1>2, <1>3, <1>4

(* Opening a slot inserts an element. *)
LEMMA OpenedInserts ==
  ASSUME ArrInv, NEW i \in 0..aSize, NEW e \in ArrayElements,
         Arr!Swift => aSize + 1 <= Len(Arr!NewSlots)
  PROVE  LET t == Arr!Opened(Arr!NewSlots, i, e) IN
         /\ t \in Seq(SlotValue) /\ aSize + 1 <= Len(t)
         /\ Arr!Swift => Len(t) = Len(Arr!NewSlots)
         /\ SubSeq(t, 1, aSize + 1) = Arr!L!InsertAt(Listed, i + 1, e)
  <1> DEFINE s == Arr!NewSlots
             top == IF Len(s) > aSize THEN Len(s) ELSE aSize + 1
             t == [k \in 1..top |-> CASE k = i + 1 -> e
                                      [] k > i + 1 /\ k <= aSize + 1 -> s[k - 1]
                                      [] OTHER -> s[k]]
             u == Arr!L!InsertAt(Listed, i + 1, e)
             v == SubSeq(t, 1, aSize + 1)
  <1>1. s \in Seq(SlotValue) /\ aSize <= Len(s) /\ \A k \in 1..aSize : s[k] = slots[k]
    BY Grown
  <1>2. aSize \in Nat /\ i \in Nat /\ e \in SlotValue
    BY ListedProperties DEF SlotValue
  <1> HIDE DEF s, SlotValue
  <1>3. /\ top \in Nat /\ aSize + 1 <= top /\ Len(s) <= top
        /\ aSize + 1 <= Len(s) => top = Len(s)
        /\ \A k \in 1..top : k <= Len(s) \/ k = aSize + 1
    BY <1>1, <1>2
  <1> HIDE DEF top
  <1>4. t \in Seq(SlotValue) /\ Len(t) = top
    <2>1. ASSUME NEW k \in 1..top PROVE t[k] \in SlotValue
      <3>1. CASE k = i + 1
        BY <1>2, <3>1
      <3>2. CASE k > i + 1 /\ k <= aSize + 1
        BY <1>1, <1>2, <3>2
      <3>3. CASE k < i + 1 \/ k > aSize + 1
        BY <1>1, <1>2, <1>3, <3>3
      <3> QED
        BY <1>2, <1>3, <3>1, <3>2, <3>3
    <2>2. t \in [1..top -> SlotValue]
      BY <2>1
    <2> QED
      BY <1>3, <2>2
  <1>5. /\ u \in Seq(SlotValue) /\ Len(u) = aSize + 1
        /\ \A k \in 1..i : u[k] = Listed[k]
        /\ u[i + 1] = e
        /\ \A k \in (i + 2)..(aSize + 1) : u[k] = Listed[k - 1]
    <2>1. Listed \in Seq(SlotValue) /\ Len(Listed) = aSize /\ i \in 0..Len(Listed)
      BY ListedProperties
    <2>2. Inserted(SlotValue, Listed, i, e, u)
      BY <1>2, <2>1, InsertAtProperties
    <2> HIDE DEF u
    <2> QED
      BY <2>1, <2>2 DEF Inserted
  <1>6. ASSUME NEW k \in 1..(aSize + 1) PROVE t[k] = u[k]
    <2>1. k \in 1..top
      BY <1>2, <1>3
    <2>2. CASE k = i + 1
      BY <1>5, <2>1, <2>2
    <2>3. CASE k > i + 1
      <3>1. t[k] = s[k - 1] /\ k - 1 \in 1..aSize /\ k \in (i + 2)..(aSize + 1)
        BY <1>2, <2>1, <2>3
      <3> HIDE DEF t, u
      <3> QED
        BY <1>1, <1>5, <3>1, ListedProperties
    <2>4. CASE k < i + 1
      <3>1. t[k] = s[k] /\ k \in 1..aSize /\ k \in 1..i
        BY <1>2, <2>1, <2>4
      <3> HIDE DEF t, u
      <3> QED
        BY <1>1, <1>5, <3>1, ListedProperties
    <2> QED
      BY <1>2, <2>2, <2>3, <2>4
  <1> HIDE DEF t, u
  <1>7. /\ v \in Seq(SlotValue) /\ Len(v) = aSize + 1
        /\ \A k \in 1..(aSize + 1) : v[k] = t[k]
    BY <1>2, <1>3, <1>4, Prefix
  <1> HIDE DEF v
  <1>8. v = u
    BY <1>5, <1>6, <1>7, SameSeq
  <1>9. Arr!Opened(Arr!NewSlots, i, e) = t
    BY DEF Arr!Opened, t, top, s
  <1> QED
    BY <1>3, <1>4, <1>8, <1>9 DEF u, v, s

(* Closing a slot removes its element. *)
LEMMA ClosedRemoves ==
  ASSUME ArrInv, NEW i \in 0..(aSize - 1)
  PROVE  /\ Arr!Closed(i) \in Seq(SlotValue) /\ Len(Arr!Closed(i)) = Len(slots)
         /\ SubSeq(Arr!Closed(i), 1, aSize - 1) = Arr!L!RemoveAt(Listed, i + 1)
  <1> DEFINE t == [k \in 1..Len(slots) |-> IF k > i /\ k < aSize THEN slots[k + 1] ELSE slots[k]]
             u == Arr!L!RemoveAt(Listed, i + 1)
             v == SubSeq(t, 1, aSize - 1)
  <1>1. slots \in Seq(SlotValue) /\ aSize \in Nat /\ i \in Nat /\ aSize <= Len(slots) /\ Len(slots) \in Nat
    BY ListedProperties DEF ArrInv
  <1> HIDE DEF SlotValue
  <1>2. t \in Seq(SlotValue) /\ Len(t) = Len(slots)
    <2>1. t \in [1..Len(slots) -> SlotValue]
      BY <1>1
    <2> QED
      BY <1>1, <2>1
  <1>3. /\ u \in Seq(SlotValue) /\ Len(u) = aSize - 1
        /\ \A k \in 1..i : u[k] = Listed[k]
        /\ \A k \in (i + 1)..(aSize - 1) : u[k] = Listed[k + 1]
    <2>1. Listed \in Seq(SlotValue) /\ Len(Listed) = aSize /\ i \in 0..(Len(Listed) - 1)
      BY ListedProperties
    <2> QED
      BY <2>1, RemoveAtProperties
  <1>4. ASSUME NEW k \in 1..(aSize - 1) PROVE t[k] = u[k]
    <2>1. CASE k > i
      <3>1. t[k] = slots[k + 1] /\ k + 1 \in 1..aSize /\ k \in (i + 1)..(aSize - 1)
        BY <1>1, <2>1
      <3> HIDE DEF t, u
      <3> QED
        BY <1>3, <3>1, ListedProperties
    <2>2. CASE k <= i
      <3>1. t[k] = slots[k] /\ k \in 1..aSize /\ k \in 1..i
        BY <1>1, <2>2
      <3> HIDE DEF t, u
      <3> QED
        BY <1>3, <3>1, ListedProperties
    <2> QED
      BY <1>1, <2>1, <2>2
  <1> HIDE DEF t, u
  <1>5. aSize - 1 \in 0..Len(t)
    BY <1>1, <1>2
  <1>6. /\ v \in Seq(SlotValue) /\ Len(v) = aSize - 1
        /\ \A k \in 1..(aSize - 1) : v[k] = t[k]
    BY <1>2, <1>5, Prefix
  <1> HIDE DEF v
  <1>7. v = u
    BY <1>3, <1>4, <1>6, SameSeq
  <1>8. Arr!Closed(i) = t
    BY DEF Arr!Closed, t
  <1> QED
    BY <1>2, <1>7, <1>8 DEF u, v

(* indexOf is the position of the element in the list, and a valid one exactly
   for the elements of the list. *)
LEMMA IndexOfProperties ==
  ASSUME ArrInv, NEW e
  PROVE  /\ Arr!L!PositionOf(e) = Arr!indexOf(e)
         /\ Arr!indexOf(e) \in Int
         /\ Arr!InRange(Arr!indexOf(e)) <=> e \in Arr!L!Range(Listed)
         /\ Arr!InRange(Arr!indexOf(e)) => Arr!indexOf(e) \in 0..(aSize - 1)
  <1> DEFINE I == {i \in 1..Len(Listed) : Listed[i] = e}
  <1>1. Arr!L!PositionOf(e) = Arr!indexOf(e)
    BY DEF Arr!L!PositionOf, Arr!indexOf, Arr!SelectInSeq, Arr!L!SelectInSeq, Arr!Min, Arr!L!Min
  <1>2. Arr!indexOf(e) = (IF I # {} THEN Arr!Min(I) ELSE 0) - 1
    BY DEF Arr!indexOf, Arr!SelectInSeq, Listed
  <1>3. e \in Arr!L!Range(Listed) <=> I # {}
    BY ListedProperties DEF Arr!L!Range
  <1>4. I \subseteq 1..aSize /\ aSize \in Nat
    BY ListedProperties
  <1> HIDE DEF I
  <1>5. CASE I = {}
    BY <1>1, <1>2, <1>3, <1>4, <1>5 DEF Arr!InRange
  <1>6. CASE I # {}
    <2>1. I \in SUBSET Nat
      BY <1>4
    <2>2. Arr!Min(I) \in I
      BY <1>6, <2>1, MinProperties
    <2>3. Arr!Min(I) \in 1..aSize
      BY <1>4, <2>2
    <2>4. Arr!indexOf(e) = Arr!Min(I) - 1
      BY <1>2, <1>6
    <2>5. Arr!indexOf(e) \in Int /\ Arr!indexOf(e) \in 0..(aSize - 1)
      BY <1>4, <2>3, <2>4
    <2>6. Arr!InRange(Arr!indexOf(e))
      BY <1>4, <2>5 DEF Arr!InRange
    <2> QED
      BY <1>1, <1>3, <1>6, <2>5, <2>6
  <1> QED
    BY <1>5, <1>6

LEMMA ArrInitInv == Arr!Init => ArrInv
  <1> SUFFICES ASSUME Arr!Init PROVE ArrInv
    OBVIOUS
  <1>1. aSize = 0 /\ 0 <= ArrayMax
    BY ArrayAssumption DEF Arr!Init
  <1>2. CASE ~Arr!Swift
    <2>1. slots = <<>>
      BY <1>2 DEF Arr!Init
    <2> QED
      BY <1>1, <1>2, <2>1 DEF ArrInv
  <1>3. CASE Arr!Swift
    <2>1. PICK capa \in Capacities : capa >= 2 /\ aLength = capa
      BY <1>3 DEF Arr!Init
    <2>2. aLength \in Nat /\ aLength >= 2
      BY <2>1, ArrayAssumption
    <2>3. slots = Arr!Fill(<<>>, aLength)
      BY <1>3 DEF Arr!Init
    <2>4. <<>> \in Seq(SlotValue) /\ Len(<<>>) <= aLength /\ -1 \in SlotValue
      BY <2>2 DEF SlotValue
    <2> HIDE DEF SlotValue
    <2>5. slots \in Seq(SlotValue) /\ Len(slots) = aLength
      BY <2>2, <2>3, <2>4, FillProperties
    <2> QED
      BY <1>1, <2>2, <2>5 DEF ArrInv
  <1> QED
    BY <1>2, <1>3

(* A call that is refused or only reads leaves the list alone. *)
LEMMA SameKeeps ==
  ASSUME ArrInv, Arr!Same, UNCHANGED aClass
  PROVE  ArrInv' /\ Listed' = Listed
  BY DEF ArrInv, Arr!Same, Listed, Arr!Swift

LEMMA AddImplements ==
  ASSUME ArrInv, UNCHANGED aClass, NEW i \in Int, NEW e \in ArrayElements, Arr!Add(i, e)
  PROVE  ArrInv' /\ Arr!L!AddAt(i, e)
  <1>1. aSize \in Nat /\ Len(Listed) = aSize
    BY ListedProperties
  <1>2. aCall' = <<"add", i, e>>
    BY DEF Arr!Add
  <1>3. CASE i \in 0..aSize
    <2>1. Arr!Swift => aSize + 1 <= Len(Arr!NewSlots)
      BY Grown
    <2>2. /\ slots' = Arr!Opened(Arr!NewSlots, i, e) /\ aSize' = aSize + 1
          /\ aLength' = Arr!NewLength /\ aRet' = 0 /\ aSize < ArrayMax
      <3>1. ~(Arr!Swift /\ Len(Arr!NewSlots) < aSize + 1)
        BY <1>1, <2>1, Grown
      <3> QED
        BY <1>1, <1>3, <3>1 DEF Arr!Add, Arr!Void
    <2>3. /\ slots' \in Seq(SlotValue) /\ aSize' <= Len(slots')
          /\ Arr!Swift => Len(slots') = Len(Arr!NewSlots)
          /\ SubSeq(slots', 1, aSize') = Arr!L!InsertAt(Listed, i + 1, e)
      BY <1>3, <2>1, <2>2, OpenedInserts
    <2>4. ArrInv'
      <3>1. aSize' \in 0..Len(slots') /\ aSize' <= ArrayMax
        BY <1>1, <2>2, <2>3, ArrayAssumption
      <3>2. SlotValue' = SlotValue /\ (Arr!Swift' <=> Arr!Swift)
        BY DEF SlotValue, Arr!Swift
      <3> QED
        BY <2>2, <2>3, <3>1, <3>2, Grown DEF ArrInv
    <2> QED
      BY <1>1, <1>2, <1>3, <2>2, <2>3, <2>4 DEF Arr!L!AddAt, Arr!L!Void, Arr!L!OnElement, Arr!L!Positions, Listed
  <1>4. CASE i \notin 0..aSize
    <2>1. Arr!Refused(0)
      BY <1>1, <1>4 DEF Arr!Add, Arr!Void
    <2>2. Arr!Same /\ aRet' = 0
      BY <2>1 DEF Arr!Refused
    <2> QED
      BY <1>1, <1>2, <1>4, <2>2, SameKeeps DEF Arr!L!AddAt, Arr!L!Void, Listed
  <1> QED
    BY <1>3, <1>4

LEMMA TakeImplements ==
  ASSUME ArrInv, UNCHANGED aClass, NEW i \in 0..(aSize - 1), Arr!Take(i)
  PROVE  ArrInv' /\ Arr!L!Taken(i)
  <1>1. slots' = Arr!Closed(i) /\ aSize' = aSize - 1 /\ aLength' = aLength
    BY DEF Arr!Take
  <1>2. /\ slots' \in Seq(SlotValue) /\ Len(slots') = Len(slots)
        /\ SubSeq(slots', 1, aSize') = Arr!L!RemoveAt(Listed, i + 1)
    BY <1>1, ClosedRemoves
  <1>3. aSize \in Nat /\ aSize <= ArrayMax /\ aSize <= Len(slots) /\ Len(slots) \in Nat
    BY DEF ArrInv
  <1>4. ArrInv'
    <2>1. aSize' \in 0..Len(slots') /\ aSize' <= ArrayMax
      BY <1>1, <1>2, <1>3, ArrayAssumption
    <2>2. SlotValue' = SlotValue /\ (Arr!Swift' <=> Arr!Swift)
      BY DEF SlotValue, Arr!Swift
    <2> QED
      BY <1>1, <1>2, <2>1, <2>2 DEF ArrInv
  <1>5. Len(Listed) = aSize
    BY ListedProperties
  <1> QED
    BY <1>2, <1>3, <1>4, <1>5 DEF Arr!L!Taken, Arr!L!OnElement, Arr!L!Positions, Listed

LEMMA RemoveIndexImplements ==
  ASSUME ArrInv, UNCHANGED aClass, NEW i \in Int, Arr!RemoveIndex(i)
  PROVE  ArrInv' /\ Arr!L!RemoveIndex(i)
  <1>1. aSize \in Nat /\ Len(Listed) = aSize /\ \A k \in 1..aSize : Listed[k] = slots[k]
    BY ListedProperties
  <1>2. CASE Arr!InRange(i)
    <2>1. i \in 0..(aSize - 1) /\ i + 1 \in 1..aSize
      BY <1>1, <1>2 DEF Arr!InRange
    <2>2. aRet' = slots[i + 1] /\ Arr!Take(i) /\ aCall' = <<"remove", i>>
      BY <1>2 DEF Arr!RemoveIndex
    <2>3. ArrInv' /\ Arr!L!Taken(i)
      BY <2>1, <2>2, TakeImplements
    <2>4. aRet' = Listed[i + 1]
      BY <1>1, <2>1, <2>2
    <2> QED
      BY <1>1, <2>1, <2>2, <2>3, <2>4 DEF Arr!L!RemoveIndex, Arr!L!Positions, Listed
  <1>3. CASE ~Arr!InRange(i)
    <2>1. i \notin 0..(aSize - 1)
      BY <1>1, <1>3 DEF Arr!InRange
    <2>2. Arr!Same /\ aRet' = -1 /\ aCall' = <<"remove", i>>
      BY <1>3 DEF Arr!RemoveIndex, Arr!Refused, Arr!NOT_FOUND
    <2> QED
      BY <1>1, <2>1, <2>2, SameKeeps DEF Arr!L!RemoveIndex, Arr!L!Positions, Arr!L!NOT_FOUND, Listed
  <1> QED
    BY <1>2, <1>3

LEMMA GetImplements ==
  ASSUME ArrInv, UNCHANGED aClass, NEW i \in Int, Arr!Get(i)
  PROVE  ArrInv' /\ Arr!L!GetIndex(i)
  <1>1. aSize \in Nat /\ Len(Listed) = aSize /\ \A k \in 1..aSize : Listed[k] = slots[k]
    BY ListedProperties
  <1>2. Arr!Same /\ aCall' = <<"get", i>>
    BY DEF Arr!Get, Arr!Refused
  <1>3. i \in 0..(aSize - 1) => aRet' = Listed[i + 1]
    BY <1>1 DEF Arr!Get, Arr!InRange
  <1>4. i \notin 0..(aSize - 1) => aRet' = -1
    BY <1>1 DEF Arr!Get, Arr!InRange, Arr!Refused, Arr!NOT_FOUND
  <1> QED
    BY <1>1, <1>2, <1>3, <1>4, SameKeeps DEF Arr!L!GetIndex, Arr!L!Positions, Arr!L!NOT_FOUND, Listed

LEMMA SetImplements ==
  ASSUME ArrInv, UNCHANGED aClass, NEW i \in Int, NEW e \in ArrayElements, Arr!Set(i, e)
  PROVE  ArrInv' /\ Arr!L!SetIndex(i, e)
  <1>1. /\ aSize \in Nat /\ Len(Listed) = aSize /\ Listed \in Seq(SlotValue)
        /\ \A k \in 1..aSize : Listed[k] = slots[k]
    BY ListedProperties
  <1>2. aCall' = <<"set", i, e>>
    BY DEF Arr!Set
  <1>3. CASE Arr!InRange(i)
    <2>1. i + 1 \in 1..aSize
      BY <1>1, <1>3 DEF Arr!InRange
    <2>2. /\ aRet' = slots[i + 1] /\ slots' = [slots EXCEPT ![i + 1] = e]
          /\ aSize' = aSize /\ aLength' = aLength
      BY <1>3 DEF Arr!Set, Arr!ReplaceAt
    <2>3. slots \in Seq(SlotValue) /\ e \in SlotValue /\ aSize <= Len(slots) /\ Len(slots) \in Nat
      BY <1>1 DEF ArrInv, SlotValue
    <2> HIDE DEF SlotValue
    <2>4. slots' \in Seq(SlotValue) /\ Len(slots') = Len(slots)
      BY <1>1, <2>1, <2>2, <2>3
    <2>5. ArrInv'
      <3>1. SlotValue' = SlotValue /\ (Arr!Swift' <=> Arr!Swift)
        BY DEF SlotValue, Arr!Swift
      <3> QED
        BY <2>2, <2>4, <3>1 DEF ArrInv
    <2>6. SubSeq(slots', 1, aSize) = [Listed EXCEPT ![i + 1] = e]
      <3> DEFINE v == SubSeq(slots', 1, aSize)
                 u == [Listed EXCEPT ![i + 1] = e]
      <3>1. v \in Seq(SlotValue) /\ Len(v) = aSize /\ \A k \in 1..aSize : v[k] = slots'[k]
        BY <1>1, <2>3, <2>4, Prefix
      <3>2. /\ u \in Seq(SlotValue) /\ Len(u) = aSize
            /\ \A k \in 1..aSize : u[k] = IF k = i + 1 THEN e ELSE Listed[k]
        BY <1>1, <2>1, <2>3
      <3>3. \A k \in 1..aSize : slots'[k] = IF k = i + 1 THEN e ELSE slots[k]
        BY <1>1, <2>2, <2>3
      <3> HIDE DEF u, v
      <3>4. \A k \in 1..aSize : v[k] = u[k]
        BY <1>1, <3>1, <3>2, <3>3
      <3>5. v = u
        BY <3>1, <3>2, <3>4, SameSeq
      <3> QED
        BY <3>5 DEF u, v
    <2>7. aRet' = Listed[i + 1] /\ i \in 0..(aSize - 1)
      BY <1>1, <2>1, <2>2
    <2> QED
      BY <1>1, <1>2, <2>2, <2>5, <2>6, <2>7 DEF Arr!L!SetIndex, Arr!L!Positions, Arr!L!ReplaceAt, Listed
  <1>4. CASE ~Arr!InRange(i)
    <2>1. i \notin 0..(aSize - 1)
      BY <1>1, <1>4 DEF Arr!InRange
    <2>2. Arr!Same /\ aRet' = -1
      BY <1>4 DEF Arr!Set, Arr!Refused, Arr!NOT_FOUND
    <2> QED
      BY <1>1, <1>2, <2>1, <2>2, SameKeeps DEF Arr!L!SetIndex, Arr!L!Positions, Arr!L!NOT_FOUND, Listed
  <1> QED
    BY <1>3, <1>4

LEMMA SearchImplements ==
  ASSUME ArrInv, UNCHANGED aClass, NEW e \in ArrayElements
  PROVE  /\ Arr!IndexOf(e) => ArrInv' /\ Arr!L!IndexOf(e)
         /\ Arr!RemoveElement(e) => ArrInv' /\ Arr!L!RemoveElement(e)
  <1>1. ASSUME Arr!IndexOf(e) PROVE ArrInv' /\ Arr!L!IndexOf(e)
    <2>1. aCall' = <<"indexOf", e>> /\ aRet' = Arr!L!PositionOf(e) /\ Arr!Same
      BY <1>1, IndexOfProperties DEF Arr!IndexOf
    <2> QED
      BY <2>1, SameKeeps DEF Arr!L!IndexOf, Listed
  <1>2. ASSUME Arr!RemoveElement(e) PROVE ArrInv' /\ Arr!L!RemoveElement(e)
    <2> DEFINE i == Arr!indexOf(e)
    <2>1. aCall' = <<"removeElement", e>>
      BY <1>2 DEF Arr!RemoveElement
    <2>2. CASE Arr!InRange(i)
      <3>1. aRet' = 0 /\ Arr!Take(i)
        BY <1>2, <2>2 DEF Arr!RemoveElement, Arr!Void
      <3>2. ArrInv' /\ Arr!L!Taken(i)
        BY <2>2, <3>1, IndexOfProperties, TakeImplements
      <3> QED
        BY <2>1, <2>2, <3>1, <3>2, IndexOfProperties DEF Arr!L!RemoveElement, Arr!L!Void, Listed
    <2>3. CASE ~Arr!InRange(i)
      <3>1. aRet' = 0 /\ Arr!Same
        BY <1>2, <2>3 DEF Arr!RemoveElement, Arr!Void, Arr!Refused
      <3> QED
        BY <2>1, <2>3, <3>1, IndexOfProperties, SameKeeps DEF Arr!L!RemoveElement, Arr!L!Void, Listed
    <2> QED
      BY <2>2, <2>3
  <1> QED
    BY <1>1, <1>2

(* clear empties the list, or ends the program of a Swift array. *)
LEMMA ClearImplements ==
  ASSUME ArrInv, UNCHANGED aClass, Arr!Clear, aClass # "Stack"
  PROVE  ArrInv' /\ (Arr!L!Clear \/ Arr!ClearFails)
  <1> USE DEF Arr!Swift
  <1>1. CASE Arr!Swift /\ aSize > 0
    <2>1. aClass = "DynamicArray" /\ aCall' = <<"clear">> /\ aRet' = Arr!Crash /\ Arr!Same
      BY <1>1 DEF Arr!Clear
    <2> QED
      BY <1>1, <2>1, SameKeeps DEF Arr!ClearFails
  <1>2. CASE ~(Arr!Swift /\ aSize > 0)
    <2>1. aCall' = <<"clear">> /\ aRet' = 0 /\ aSize' = 0 /\ slots' = slots /\ aLength' = aLength
      BY <1>2 DEF Arr!Clear, Arr!Void
    <2>2. SubSeq(slots', 1, aSize') = <<>>
      BY <2>1
    <2>3. ArrInv'
      BY <2>1, ArrayAssumption DEF ArrInv
    <2> QED
      BY <2>1, <2>2, <2>3 DEF Arr!L!Clear, Arr!L!Void, Arr!L!OnElement, Arr!L!Positions
  <1> QED
    BY <1>1, <1>2

(* Every call of the array classes is the same call of the list, or the clear that
   fails. *)
LEMMA ArrNextImplements ==
  ASSUME ArrInv, Arr!Next
  PROVE  ArrInv' /\ (Arr!L!ListNext \/ Arr!ClearFails)
  <1>1. /\ UNCHANGED aClass
        /\ Arr!StackCall \/ (aClass # "Stack" /\ Arr!ArrayCall)
    BY DEF Arr!Next
  <1>2. aSize \in Nat /\ aSize <= ArrayMax /\ ArrayMax \in Nat
    BY ArrayAssumption DEF ArrInv
  <1>3. \A i \in Arr!Indices : i \in Int
    BY <1>2 DEF Arr!Indices
  <1>4. aSize \in Arr!Indices /\ aSize - 1 \in Arr!Indices
    BY <1>2 DEF Arr!Indices
  <1>5. ASSUME NEW i \in Arr!Indices, NEW e \in ArrayElements, Arr!Add(i, e) PROVE ArrInv' /\ Arr!L!ListNext
    BY <1>1, <1>3, <1>5, AddImplements DEF Arr!L!ListNext
  <1>6. ASSUME NEW i \in Arr!Indices, NEW e \in ArrayElements, Arr!Set(i, e) PROVE ArrInv' /\ Arr!L!ListNext
    BY <1>1, <1>3, <1>6, SetImplements DEF Arr!L!ListNext
  <1>7. ASSUME NEW i \in Arr!Indices, Arr!RemoveIndex(i) PROVE ArrInv' /\ Arr!L!ListNext
    BY <1>1, <1>3, <1>7, RemoveIndexImplements DEF Arr!L!ListNext
  <1>8. ASSUME NEW i \in Arr!Indices, Arr!Get(i) PROVE ArrInv' /\ Arr!L!ListNext
    BY <1>1, <1>3, <1>8, GetImplements DEF Arr!L!ListNext
  <1>9. ASSUME NEW e \in ArrayElements, Arr!RemoveElement(e) \/ Arr!IndexOf(e)
        PROVE  ArrInv' /\ Arr!L!ListNext
    BY <1>1, <1>9, SearchImplements DEF Arr!L!ListNext
  <1>10. ASSUME Arr!Clear, aClass # "Stack" PROVE ArrInv' /\ (Arr!L!ListNext \/ Arr!ClearFails)
    BY <1>1, <1>10, ClearImplements DEF Arr!L!ListNext
  <1>11. CASE Arr!StackCall
    BY <1>4, <1>5, <1>7, <1>8, <1>11 DEF Arr!StackCall
  <1>12. CASE aClass # "Stack" /\ Arr!ArrayCall
    BY <1>5, <1>6, <1>7, <1>8, <1>9, <1>10, <1>12 DEF Arr!ArrayCall
  <1> QED
    BY <1>1, <1>11, <1>12

(* WGDynamicArray.m, DynamicArray.swift and Stack.swift implement lists: whatever
   is left behind size and however often the array grew, every call but clear of a
   DynamicArray that is not empty, which fails, returns and changes what the list of
   the elements says, for any elements, any capacities and any number of elements, as
   long as callers keep the assertions of the Swift classes and create them with a
   capacity of at least 2. *)
THEOREM ArraysAreLists == Arr!Spec => ImplementsArrayList
  <1>1. Arr!Init => Arr!L!ListInit
    BY DEF Arr!Init, Arr!Void, Arr!L!ListInit, Arr!L!NoCursor, Arr!L!Void
  <1> DEFINE seen == <<SubSeq(slots, 1, aSize), aCall, aRet>>
  <1>2. ArrInv /\ [Arr!Next]_Arr!vars => ArrInv' /\ [Arr!L!ListNext \/ Arr!ClearFails]_seen
    <2>1. CASE UNCHANGED Arr!vars
      BY <2>1 DEF ArrInv, Arr!vars, Arr!Swift
    <2> QED
      BY <2>1, ArrNextImplements
  <1> QED
    BY <1>1, <1>2, ArrInitInv, PTL DEF Arr!Spec, ImplementsArrayList, Arr!ImplementsArrayList

================================================================================
