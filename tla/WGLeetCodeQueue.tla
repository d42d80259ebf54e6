---------------------------- MODULE WGLeetCodeQueue ----------------------------
(***************************************************************************)
(* WGLeetCodeQueue.m: a queue made of two stacks.  push fills inStack; pop   *)
(* and peek serve from outStack and, when that is empty, first turn the      *)
(* whole of inStack over into it.  A stack is the sequence of its elements, *)
(* the top last: what WGStack, modelled in LinkedLists, implements.         *)
(***************************************************************************)
EXTENDS Integers, Sequences

CONSTANTS Elements, NotFound, Trap,
          MaxSize      \* bound on the size of inStack

VARIABLES inStack, outStack, call, ret

vars == <<inStack, outStack, call, ret>>

Init == inStack = <<>> /\ outStack = <<>> /\ call = "init" /\ ret = NotFound

push(e) ==
  /\ Len(inStack) < MaxSize
  /\ call' = "push" /\ ret' = NotFound
  /\ inStack' = Append(inStack, e) /\ UNCHANGED outStack

(* The two stacks after the loop of pop and peek. *)
TurnedOver(s) == [k \in 1..Len(s) |-> s[Len(s) + 1 - k]]

(* Mutant: inStack is turned over on top of what outStack still has. *)
PouredAlways == IF inStack # <<>> THEN outStack \o TurnedOver(inStack) ELSE outStack

Poured == IF outStack = <<>> THEN TurnedOver(inStack) ELSE outStack
Kept == IF outStack = <<>> THEN <<>> ELSE inStack

(* pop of an empty WGStack removes at index -1, which returns -1. *)
pop ==
  /\ call' = "pop"
  /\ inStack' = Kept
  /\ IF Poured = <<>> THEN ret' = NotFound /\ outStack' = Poured
     ELSE ret' = Poured[Len(Poured)] /\ outStack' = SubSeq(Poured, 1, Len(Poured) - 1)

(* top of an empty WGStack reads through a nil node. *)
peek ==
  /\ call' = "peek"
  /\ inStack' = Kept /\ outStack' = Poured
  /\ ret' = IF Poured = <<>> THEN Trap ELSE Poured[Len(Poured)]

isEmpty ==
  /\ call' = "isEmpty" /\ ret' = (inStack = <<>> /\ outStack = <<>>)
  /\ UNCHANGED <<inStack, outStack>>

Next == ret # Trap /\ ((\E e \in Elements : push(e)) \/ pop \/ peek \/ isEmpty)

Spec == Init /\ [][Next]_vars
-------------------------------------------------------------------------------
(* Type invariant: the stacks hold elements. *)
TypeOK == inStack \in Seq(Elements) /\ outStack \in Seq(Elements)

(* The queue the two stacks stand for: outStack from its top down, then inStack
   from its bottom up. *)
Line ==
  [k \in 1..(Len(outStack) + Len(inStack)) |->
     IF k <= Len(outStack) THEN outStack[Len(outStack) + 1 - k] ELSE inStack[k - Len(outStack)]]

(* Two stacks implement a queue: elements leave in the order in which they came,
   although each half of the object reverses them and they change over only when
   outStack has run dry. *)
F == INSTANCE Fifo WITH q <- Line
ImplementsFifo == F!FifoSpec
================================================================================
