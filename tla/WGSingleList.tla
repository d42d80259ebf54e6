------------------------------ MODULE WGSingleList -----------------------------
(* WGSingleList.m and WGSingleCycleList.m: lists linked one way, the second one
   closed to a ring.  Each operator takes the list before the call (and the
   address n of the node the call allocates) and gives the list after it. *)
EXTENDS ListNodes

(* getNodeWithIndex: of both classes *)
SingleNode(l, i) == Walk(l.next, l.first, i)

(* add:withElement: for index > 0, the same in both classes *)
InsertAfter(l, n, p, e) ==
  [l EXCEPT !.next = [@ EXCEPT ![n] = l.next[p], ![p] = n],
            !.elem[n] = e, !.size = @ + 1]

SingleAdd(l, n, i, e) ==
  IF i = 0 THEN [l EXCEPT !.next[n] = l.first, !.elem[n] = e, !.first = n, !.size = @ + 1]
  ELSE InsertAfter(l, n, SingleNode(l, i - 1), e)

SingleRemove(l, i) ==
  IF i = 0 THEN [l EXCEPT !.first = l.next[@], !.size = @ - 1]
  ELSE LET p == SingleNode(l, i - 1)
       IN  [l EXCEPT !.next[p] = l.next[l.next[p]], !.size = @ - 1]

(* set:withElement: after the range check *)
SetElement(l, node, e) == [l EXCEPT !.elem[node] = e]

SingleClear(l) == [l EXCEPT !.first = nil, !.size = 0]

(* WGSingleCycleList add:withElement: - for index 0 the new node becomes first
   before the last node is looked up by its old index. *)
CycleAdd(l, n, i, e) ==
  IF i = 0
  THEN LET m    == [l EXCEPT !.next[n] = l.first, !.elem[n] = e, !.first = n]
           tail == IF l.size = 0 THEN n ELSE SingleNode(m, l.size - 1)
       IN  [m EXCEPT !.next[tail] = n, !.size = @ + 1]
  ELSE InsertAfter(l, n, SingleNode(l, i - 1), e)

CycleRemove(l, i) ==
  IF i = 0
  THEN IF l.size = 1 THEN [l EXCEPT !.first = nil, !.size = 0]
       ELSE [l EXCEPT !.first = l.next[@], !.next[SingleNode(l, l.size - 1)] = l.next[l.first],
                      !.size = @ - 1]
  ELSE LET p == SingleNode(l, i - 1)
       IN  [l EXCEPT !.next[p] = l.next[l.next[p]], !.size = @ - 1]
================================================================================
