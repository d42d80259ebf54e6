------------------------------ MODULE PriorityQueue -----------------------------
(***************************************************************************)
(* What WGBinaryHeap.h promises: a collection whose largest element can be   *)
(* looked at, removed and replaced.                                          *)
(***************************************************************************)
EXTENDS Integers, FiniteSets, Bags

VARIABLES elements, call, ret

Largest == CHOOSE e \in BagToSet(elements) : \A f \in BagToSet(elements) : f <= e
Count == BagCardinality(elements)
Void == -2

AddElement(e) ==
  call' = <<"add", e>> /\ ret' = Void /\ elements' = elements (+) SetToBag({e})

GetTop == call' = <<"get">> /\ Count > 0 /\ ret' = Largest /\ UNCHANGED elements

RemoveTop ==
  /\ call' = <<"remove">>
  /\ IF Count = 0 THEN ret' = -1 /\ UNCHANGED elements
     ELSE ret' = Largest /\ elements' = elements (-) SetToBag({Largest})

ReplaceTop(e) ==
  /\ call' = <<"replace", e>>
  /\ IF Count = 0 THEN ret' = -1 /\ elements' = SetToBag({e})
     ELSE ret' = Largest /\ elements' = (elements (-) SetToBag({Largest})) (+) SetToBag({e})

ClearAll == call' = <<"clear">> /\ ret' = Void /\ elements' = EmptyBag

PQNext(Elems) ==
  \/ \E e \in Elems : AddElement(e) \/ ReplaceTop(e)
  \/ GetTop \/ RemoveTop \/ ClearAll
================================================================================
