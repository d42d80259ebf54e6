---------------------------------- MODULE Fifo ---------------------------------
(***************************************************************************)
(* What WGLeetCodeQueue.h promises: a queue with push, pop, peek and        *)
(* isEmpty.                                                                 *)
(***************************************************************************)
EXTENDS Integers, Sequences

CONSTANTS Elements, NotFound, Trap

VARIABLES q, call, ret

FifoInit == q = <<>> /\ call = "init" /\ ret = NotFound

Push(e) == call' = "push" /\ ret' = NotFound /\ q' = Append(q, e)

(* An empty queue answers a pop with -1 and a peek with a trap. *)
Pop ==
  /\ call' = "pop"
  /\ IF q = <<>> THEN ret' = NotFound /\ UNCHANGED q ELSE ret' = Head(q) /\ q' = Tail(q)

Peek == call' = "peek" /\ ret' = (IF q = <<>> THEN Trap ELSE Head(q)) /\ UNCHANGED q

IsEmpty == call' = "isEmpty" /\ ret' = (q = <<>>) /\ UNCHANGED q

FifoNext == (\E e \in Elements : Push(e)) \/ Pop \/ Peek \/ IsEmpty

FifoSpec == FifoInit /\ [][FifoNext]_<<q, call, ret>>
================================================================================
