--------------------------------- MODULE Deque ---------------------------------
(***************************************************************************)
(* What the array queues of Queue.swift promise: elements leave at either   *)
(* end in the order in which they stand, however the array is used.         *)
(***************************************************************************)
EXTENDS Integers, Sequences

CONSTANTS Elements, Blank

VARIABLES q, call, ret

DequeInit == q = <<>> /\ call = "init" /\ ret = Blank

PushRear(e) == call' = "enQueueRear" /\ ret' = Blank /\ q' = Append(q, e)

PushFront(e) == call' = "enQueueFront" /\ ret' = Blank /\ q' = <<e>> \o q

PopFront == call' = "deQueueFront" /\ q # <<>> /\ ret' = Head(q) /\ q' = Tail(q)

PopRear ==
  call' = "deQueueRear" /\ q # <<>> /\ ret' = q[Len(q)] /\ q' = SubSeq(q, 1, Len(q) - 1)

PeekFront == call' = "getFront" /\ ret' = (IF q = <<>> THEN Blank ELSE Head(q)) /\ UNCHANGED q

PeekRear == call' = "rear" /\ ret' = (IF q = <<>> THEN Blank ELSE q[Len(q)]) /\ UNCHANGED q

Empty == call' = "clear" /\ ret' = Blank /\ q' = <<>>

DequeNext ==
  \/ \E e \in Elements : PushRear(e) \/ PushFront(e)
  \/ PopFront \/ PopRear \/ PeekFront \/ PeekRear \/ Empty

DequeSpec == DequeInit /\ [][DequeNext]_<<q, call, ret>>
================================================================================
