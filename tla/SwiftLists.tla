------------------------------- MODULE SwiftLists -------------------------------
(* SingleList.swift and DoubleList.swift.  The methods relink the same nodes as
   their twins in Objective-C, with one exception: SingleCycleList looks its last
   node up before first changes, and does not link the first node of an empty list
   to itself. *)
EXTENDS WGSingleList, WGDoubleList

(* class SingleList *)
SingleListAdd(l, n, i, e) == SingleAdd(l, n, i, e)
SingleListRemove(l, i) == SingleRemove(l, i)
SingleListNode(l, i) == SingleNode(l, i)

(* Mutant: the ring is closed at the last node of the changed list. *)
SingleCycleListAddLate(l, n, i, e) ==
  LET m == SingleAdd(l, n, i, e)
  IN  IF i = 0 /\ l.size > 0 THEN [m EXCEPT !.next[SingleNode(m, l.size - 1)] = n] ELSE m

(* class SingleCycleList *)
SingleCycleListAdd(l, n, i, e) ==
  LET m == SingleAdd(l, n, i, e)
  IN  IF i = 0 /\ l.size > 0 THEN [m EXCEPT !.next[SingleNode(l, l.size - 1)] = n] ELSE m

SingleCycleListRemove(l, i) == CycleRemove(l, i)

(* class DoubleList *)
DoubleListAdd(l, n, i, e) == DoubleAdd(l, n, i, e)
DoubleListRemove(l, i) == DoubleRemove(l, i)
DoubleListNode(l, i) == DoubleNode(l, i)
DoubleListClear(l) == DoubleClear(l)

(* class DoubleCycleList *)
DoubleCycleListAdd(l, n, i, e) == RingAdd(l, n, i, e)
DoubleCycleListRemove(l, i) == RingRemove(l, i)
================================================================================
