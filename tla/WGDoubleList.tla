------------------------------ MODULE WGDoubleList -----------------------------
(* WGDoubleList.m and WGDoubleCycleList.m: lists linked both ways, the second one
   closed to a ring. *)
EXTENDS ListNodes

(* getNodeWithIndex: of both classes, from the nearer end *)
DoubleNode(l, i) ==
  IF ~InRange(l, i) THEN nil
  ELSE IF i < l.size \div 2 THEN Walk(l.next, l.first, i)
  ELSE Walk(l.prev, l.last, l.size - 1 - i)

(* alloc, initWithPrev:withElement:withNext: *)
NewNode(l, n, p, e, q) == [l EXCEPT !.prev[n] = p, !.elem[n] = e, !.next[n] = q]

DoubleAdd(l, n, i, e) ==
  IF i = l.size
  THEN LET m == [NewNode(l, n, l.last, e, nil) EXCEPT !.last = n, !.size = @ + 1]
       IN  IF l.last = nil THEN [m EXCEPT !.first = n] ELSE [m EXCEPT !.next[l.last] = n]
  ELSE LET q == DoubleNode(l, i)
           p == l.prev[q]
           m == [NewNode(l, n, p, e, q) EXCEPT !.prev[q] = n, !.size = @ + 1]
       IN  IF p = nil THEN [m EXCEPT !.first = n] ELSE [m EXCEPT !.next[p] = n]

DoubleRemove(l, i) ==
  LET d == DoubleNode(l, i)
      p == l.prev[d]
      q == l.next[d]
      m == IF p = nil THEN [l EXCEPT !.first = q] ELSE [l EXCEPT !.next[p] = q]
  IN  IF q = nil THEN [m EXCEPT !.last = p, !.size = @ - 1]
      ELSE [m EXCEPT !.prev[q] = p, !.size = @ - 1]

DoubleClear(l) == [l EXCEPT !.first = nil, !.last = nil, !.size = 0]

(* WGDoubleCycleList add:withElement: *)
RingAdd(l, n, i, e) ==
  IF i = l.size
  THEN LET m == [NewNode(l, n, l.last, e, l.first) EXCEPT !.last = n, !.size = @ + 1]
       IN  IF l.last = nil THEN [m EXCEPT !.first = n, !.next[n] = n, !.prev[n] = n]
           ELSE [m EXCEPT !.next[l.last] = n, !.prev[l.first] = n]
  ELSE LET q == DoubleNode(l, i)
           p == l.prev[q]
           m == [NewNode(l, n, p, e, q) EXCEPT !.prev[q] = n, !.size = @ + 1]
       IN  IF i = 0 THEN [m EXCEPT !.next[p] = n, !.first = n] ELSE [m EXCEPT !.next[p] = n]

(* The body of remove: and of removeNode: - the node d leaves the ring. *)
Unlink(l, d, isFirst, isLast) ==
  IF l.size = 1 THEN [l EXCEPT !.first = nil, !.last = nil, !.size = 0]
  ELSE LET p == l.prev[d]
           q == l.next[d]
       IN  [l EXCEPT !.next[p] = q, !.prev[q] = p, !.size = @ - 1,
                     !.first = IF isFirst THEN q ELSE @,
                     !.last  = IF isLast THEN p ELSE @]

RingRemove(l, i) == Unlink(l, DoubleNode(l, i), i = 0, i = l.size - 1)
removeNode(l, d) == Unlink(l, d, d = l.first, d = l.last)
================================================================================
