------------------------------- MODULE ListNodes -------------------------------
(***************************************************************************)
(* What the four list classes share: a list object with its fields first,   *)
(* last and size, and the nodes it links.  A list is a record, an operation *)
(* of a class an operator from lists to lists, so that the classes built on *)
(* lists can call the operations as the code does.                          *)
(***************************************************************************)
EXTENDS Integers, FiniteSets

CONSTANTS Nodes,      \* addresses of nodes, a finite set of positive numbers
          Elements    \* int values stored

nil == 0
NOT_FOUND == -1       \* also what the methods return for a bad index

(* A list object after alloc/init: every field is zero. *)
EmptyList ==
  [first |-> nil, last |-> nil, size |-> 0,
   next |-> [n \in Nodes |-> nil], prev |-> [n \in Nodes |-> nil],
   elem |-> [n \in Nodes |-> NOT_FOUND]]

(* The node reached from n by following link k times. *)
Walk(link, n, k) ==
  LET w[j \in Nat] == IF j = 0 THEN n
                      ELSE IF w[j - 1] = nil THEN nil ELSE link[w[j - 1]]
  IN  w[k]

InRange(l, i) == 0 <= i /\ i < l.size

(* Element at position i from the front, as printContent and the loops of
   contains and indexOf visit them. *)
At(l, i) ==
  LET n == Walk(l.next, l.first, i) IN IF n = nil THEN NOT_FOUND ELSE l.elem[n]

Content(l) == [k \in 1..l.size |-> At(l, k - 1)]

indexOf(l, e) ==
  LET hits == {i \in 0..(l.size - 1) : At(l, i) = e}
  IN  IF hits = {} THEN NOT_FOUND ELSE CHOOSE i \in hits : \A j \in hits : i <= j

(* Nodes a list (or a cursor at node c) still refers to.  The others can be
   used again: ARC frees them or, in a cycle, leaks them, which no operation
   can tell apart. *)
Reachable(l, c) ==
  LET r[j \in Nat] ==
        IF j = 0 THEN {l.first, l.last, c} \ {nil}
        ELSE (r[j - 1] \cup {l.next[n] : n \in r[j - 1]} \cup {l.prev[n] : n \in r[j - 1]}) \ {nil}
  IN  r[Cardinality(Nodes)]

(* The list without what is left in nodes nobody refers to. *)
Settled(l, c) ==
  LET live == Reachable(l, c)
      Keep(f, none) == [n \in Nodes |-> IF n \in live THEN f[n] ELSE none]
  IN  [l EXCEPT !.next = Keep(@, nil), !.prev = Keep(@, nil), !.elem = Keep(@, NOT_FOUND)]
================================================================================
