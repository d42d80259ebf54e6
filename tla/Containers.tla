------------------------------ MODULE Containers -------------------------------
(***************************************************************************)
(* The containers that keep their elements in arrays, stacks or linked      *)
(* nodes: the ring of Queue.swift, the dynamic arrays with the stack on     *)
(* them, the queue of two stacks, and the list classes with the stacks and  *)
(* queues on them.                                                          *)
(***************************************************************************)
EXTENDS CircleQueue, FiniteSets

CONSTANTS ArrayElements, Capacities, ArrayMax,   \* DynamicArray
          NotFound, StackMax,                    \* WGLeetCodeQueue
          Addresses, ListElements, ListMax       \* LinkedLists

ASSUME ArrayAssumption == Capacities \subseteq Nat /\ ArrayMax \in Nat

(* A node has an address other than nil, and memory holds finitely many. *)
ASSUME ListAssumption ==
  /\ Addresses \subseteq Nat \ {0} /\ IsFiniteSet(Addresses)
  /\ ListMax \in Nat

VARIABLES aClass, slots, aSize, aLength, aCall, aRet,
          inStack, outStack, qCall, qRet,
          lClass, list, current, lCall, lRet

Arr == INSTANCE DynamicArray WITH
  Elements <- ArrayElements, MaxSize <- ArrayMax,
  Careful <- TRUE,           \* callers keep the assertions of the Swift classes
  class <- aClass, size <- aSize, length <- aLength, call <- aCall, ret <- aRet
Two == INSTANCE WGLeetCodeQueue WITH MaxSize <- StackMax, call <- qCall, ret <- qRet
Lists == INSTANCE LinkedLists WITH
  Nodes <- Addresses, Elements <- ListElements, MaxSize <- ListMax,
  Careful <- TRUE,           \* callers avoid what the classes break on
  Classes <- {"WGSingleList", "WGSingleCycleList", "WGDoubleList", "WGDoubleCycleList",
              "WGStack", "WGQueue", "WGDoubleQueue",
              "SingleList", "SingleCycleList", "DoubleList", "DoubleCycleList",
              "Queue", "DoubleQueue"},
  class <- lClass, call <- lCall, ret <- lRet
--------------------------------------------------------------------------------
(* The array classes implement lists, but for clear of the Swift class (DynamicArray). *)
ImplementsArrayList == Arr!ImplementsArrayList

(* Two stacks implement a queue (WGLeetCodeQueue). *)
ImplementsFifo == Two!ImplementsFifo

(* The links of every list class agree with its size and with each other (LinkedLists). *)
WellLinked == Lists!WellLinked

(* The list classes, and the stacks and queues on them, implement lists with positions
   and a cursor (LinkedLists). *)
ImplementsList == Lists!ImplementsList
================================================================================
