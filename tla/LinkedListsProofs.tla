--------------------------- MODULE LinkedListsProofs ---------------------------
(***************************************************************************)
(* For any elements, any bound on the size and any finite memory: the links *)
(* of every list class, and of the stacks and queues on them, agree with    *)
(* the size and with each other, and the classes implement lists with       *)
(* positions and a cursor, provided that callers keep the assertions of the *)
(* Swift classes, do not add at the front of a WGSingleCycleList that holds *)
(* elements and do not use a cursor whose element left the list.            *)
(*                                                                          *)
(* The argument: a list object represents a path, a function p from the     *)
(* positions 0..size - 1 to different nodes.  Every method turns the object *)
(* into one that represents the path with a node inserted, or deleted, and  *)
(* walking along the links, from either end, visits the path.               *)
(***************************************************************************)
EXTENDS ArrayContainersProofs, FiniteSetTheorems

--------------------------------------------------------------------------------
(***************************************************************************)
(* Recursion on the numbers and walks                                       *)
(***************************************************************************)
(* Induction: a set of numbers that contains 0 and with each number the next one
   is everything. *)
LEMMA Induct ==
  ASSUME NEW G \in SUBSET Nat, 0 \in G, \A k \in G : k + 1 \in G
  PROVE  G = Nat
  <1> DEFINE B == Nat \ G
  <1>1. SUFFICES ASSUME B # {} PROVE FALSE
    OBVIOUS
  <1>2. PICK x \in B : \A y \in B : x <= y
    BY <1>1, Least
  <1>3. x \in Nat /\ x # 0 /\ x - 1 \in Nat
    BY <1>2
  <1>4. x - 1 \in G
    BY <1>2, <1>3
  <1>5. (x - 1) + 1 = x
    BY <1>3
  <1> QED
    BY <1>2, <1>4, <1>5

(* f starts with a and goes on by the step s.  There is such an f. *)
Iterates(f, T, a, s) == f \in [Nat -> T] /\ f[0] = a /\ \A k \in Nat : f[k + 1] = s[f[k]]

(* A function on the numbers can be defined by its first value and a step. *)
LEMMA Recursion ==
  ASSUME NEW T, NEW a \in T, NEW s \in [T -> T]
  PROVE  \E f : Iterates(f, T, a, s)
  <1> DEFINE Upto(m, f) == f \in [0..m -> T] /\ f[0] = a /\ \A j \in 1..m : f[j] = s[f[j - 1]]
             G == {m \in Nat : \E f : Upto(m, f)}
  <1>1. G = Nat
    <2>1. 0 \in G
      <3> DEFINE f == [j \in 0..0 |-> a]
      <3>1. Upto(0, f)
        OBVIOUS
      <3> HIDE DEF f, Upto
      <3> QED
        BY <3>1
    <2>2. ASSUME NEW m \in G PROVE m + 1 \in G
      <3>1. PICK f : Upto(m, f)
        OBVIOUS
      <3> DEFINE g == [j \in 0..(m + 1) |-> IF j = m + 1 THEN s[f[m]] ELSE f[j]]
      <3>2. m \in Nat /\ g \in [0..(m + 1) -> T] /\ g[0] = a
        BY <3>1
      <3>3. ASSUME NEW j \in 1..(m + 1) PROVE g[j] = s[g[j - 1]]
        <4>1. j - 1 \in 0..m /\ g[j - 1] = f[j - 1]
          BY <3>2
        <4>2. g[j] = IF j = m + 1 THEN s[f[m]] ELSE f[j]
          BY <3>2
        <4>3. CASE j = m + 1
          BY <3>2, <4>1, <4>2, <4>3
        <4>4. CASE j # m + 1
          <5>1. j \in 1..m
            BY <3>2, <4>4
          <5> QED
            BY <3>1, <4>1, <4>2, <4>4, <5>1
        <4> QED
          BY <4>3, <4>4
      <3>4. Upto(m + 1, g)
        BY <3>2, <3>3
      <3> HIDE DEF g, Upto
      <3>5. m + 1 \in Nat /\ \E h : Upto(m + 1, h)
        BY <3>2, <3>4
      <3> QED
        BY <3>5
    <2>3. G \in SUBSET Nat
      OBVIOUS
    <2> HIDE DEF G
    <2> QED
      BY <2>1, <2>2, <2>3, Induct
  <1>2. ASSUME NEW m \in Nat, NEW f, NEW g, Upto(m, f), Upto(m + 1, g)
        PROVE  f[m] = g[m]
    <2> DEFINE H == {j \in Nat : j <= m => f[j] = g[j]}
    <2>1. 0 \in H
      BY <1>2
    <2>2. ASSUME NEW j \in H PROVE j + 1 \in H
      <3>1. SUFFICES ASSUME j + 1 <= m PROVE f[j + 1] = g[j + 1]
        OBVIOUS
      <3>2. f[j] = g[j] /\ j + 1 \in 1..m /\ j + 1 \in 1..(m + 1) /\ (j + 1) - 1 = j
        BY <3>1
      <3>3. f[j + 1] = s[f[j]] /\ g[j + 1] = s[g[j]]
        BY <1>2, <3>2
      <3> QED
        BY <3>2, <3>3
    <2>3. H \in SUBSET Nat
      OBVIOUS
    <2> HIDE DEF H
    <2>4. H = Nat
      BY <2>1, <2>2, <2>3, Induct
    <2> QED
      BY <2>4 DEF H
  <1> DEFINE c(m) == CHOOSE f : Upto(m, f)
             F == [m \in Nat |-> c(m)[m]]
  <1>3. ASSUME NEW m \in Nat PROVE Upto(m, c(m))
    BY <1>1
  <1>4. F \in [Nat -> T]
    <2>1. ASSUME NEW m \in Nat PROVE c(m)[m] \in T
      <3>1. Upto(m, c(m))
        BY <1>3
      <3> HIDE DEF c
      <3> QED
        BY <3>1
    <2> HIDE DEF c
    <2> QED
      BY <2>1
  <1>5. F[0] = a
    <2>1. Upto(0, c(0))
      BY <1>3
    <2> HIDE DEF c
    <2> QED
      BY <2>1
  <1>6. ASSUME NEW m \in Nat PROVE F[m + 1] = s[F[m]]
    <2>1. m + 1 \in Nat
      OBVIOUS
    <2>2. Upto(m, c(m)) /\ Upto(m + 1, c(m + 1))
      BY <1>3, <2>1
    <2>3. c(m)[m] = c(m + 1)[m]
      <3> HIDE DEF Upto, c
      <3> QED
        BY <1>2, <2>2
    <2>4. F[m] = c(m)[m] /\ F[m + 1] = c(m + 1)[m + 1]
      BY <2>1
    <2> HIDE DEF c, F
    <2>5. c(m + 1)[m + 1] = s[c(m + 1)[m]]
      <3>1. m + 1 \in 1..(m + 1) /\ (m + 1) - 1 = m
        OBVIOUS
      <3> QED
        BY <2>2, <3>1
    <2> QED
      BY <2>3, <2>4, <2>5
  <1> HIDE DEF F
  <1>7. Iterates(F, T, a, s)
    BY <1>4, <1>5, <1>6 DEF Iterates
  <1> QED
    BY <1>7

Pointer == Addresses \cup {Lists!nil}

(* Walk follows the links. *)
LEMMA WalkSteps ==
  ASSUME NEW link \in [Addresses -> Pointer], NEW n \in Pointer
  PROVE  /\ Lists!Walk(link, n, 0) = n
         /\ \A k \in Nat : Lists!Walk(link, n, k + 1) =
              IF Lists!Walk(link, n, k) = Lists!nil THEN Lists!nil ELSE link[Lists!Walk(link, n, k)]
  <1> DEFINE Step(f, j) == IF j = 0 THEN n ELSE IF f[j - 1] = Lists!nil THEN Lists!nil ELSE link[f[j - 1]]
             w[j \in Nat] == IF j = 0 THEN n ELSE IF w[j - 1] = Lists!nil THEN Lists!nil ELSE link[w[j - 1]]
             s == [v \in Pointer |-> IF v = Lists!nil THEN Lists!nil ELSE link[v]]
  <1>1. s \in [Pointer -> Pointer]
    BY DEF Pointer
  <1>2. PICK f : Iterates(f, Pointer, n, s)
    <2> HIDE DEF s
    <2> QED
      BY <1>1, Recursion
  <1>3. ASSUME NEW j \in Nat PROVE f[j] = Step(f, j)
    <2>1. CASE j = 0
      BY <1>2, <2>1 DEF Iterates
    <2>2. CASE j # 0
      <3>1. j - 1 \in Nat /\ (j - 1) + 1 = j
        BY <2>2
      <3>2. f[j] = s[f[j - 1]] /\ f[j - 1] \in Pointer
        BY <1>2, <3>1 DEF Iterates
      <3> QED
        BY <2>2, <3>2
    <2> QED
      BY <2>1, <2>2
  <1>4. f = [j \in Nat |-> Step(f, j)]
    <2>1. f = [j \in Nat |-> f[j]]
      BY <1>2 DEF Iterates
    <2> HIDE DEF Step
    <2> QED
      BY <1>3, <2>1
  <1>5. w = [j \in Nat |-> Step(w, j)]
    BY <1>4, Zenon DEF w
  <1>6. \A k : Lists!Walk(link, n, k) = w[k]
    BY DEF Lists!Walk
  <1> HIDE DEF w
  <1>7. \A j \in Nat : w[j] = Step(w, j)
    BY <1>5, Zenon
  <1> QED
    BY <1>6, <1>7

--------------------------------------------------------------------------------
(***************************************************************************)
(* Lists and their paths                                                    *)
(***************************************************************************)
(* What a list object is made of. *)
ListType ==
  [first : Pointer, last : Pointer, size : Nat,
   next : [Addresses -> Pointer], prev : [Addresses -> Pointer],
   elem : [Addresses -> ListElements \cup {Lists!NOT_FOUND}]]

(* The fields of a list object. *)
LEMMA Fields ==
  ASSUME NEW l \in ListType
  PROVE  /\ l.first \in Pointer /\ l.last \in Pointer /\ l.size \in Nat
         /\ l.next \in [Addresses -> Pointer] /\ l.prev \in [Addresses -> Pointer]
         /\ l.elem \in [Addresses -> ListElements \cup {Lists!NOT_FOUND}]
  BY DEF ListType

(* The path p of a list: its nodes in order, each one once. *)
Nodup(p, s) == p \in [0..(s - 1) -> Addresses] /\ \A j, k \in 0..(s - 1) : p[j] = p[k] => j = k
Forth(p, s, link) == \A k \in 0..(s - 2) : link[p[k]] = p[k + 1]
Back(p, s, link) == \A k \in 1..(s - 1) : link[p[k]] = p[k - 1]

Path(l, p) ==
  /\ Nodup(p, l.size)
  /\ l.first = IF l.size = 0 THEN Lists!nil ELSE p[0]
  /\ Forth(p, l.size, l.next)

OneWays == {"WGSingleList", "WGSingleCycleList", "SingleList", "SingleCycleList"}
Rings == {"WGSingleCycleList", "WGDoubleCycleList", "DoubleCycleList"}

Ends(c, l) ==
  CASE c \in Rings -> {l.first}
    [] c = "SingleCycleList" -> {l.first, Lists!nil}
    [] OTHER -> {Lists!nil}

(* A list whose links run both ways along p. *)
BothWays(c, l, p) ==
  /\ l.last = IF l.size = 0 THEN Lists!nil ELSE p[l.size - 1]
  /\ l.size > 0 => l.prev[p[0]] = IF c \in Rings THEN p[l.size - 1] ELSE Lists!nil
  /\ Back(p, l.size, l.prev)

Shape(c, l, p) ==
  /\ Path(l, p)
  /\ l.size > 0 => l.next[p[l.size - 1]] \in Ends(c, l)
  /\ IF c \in OneWays THEN l.last = Lists!nil ELSE BothWays(c, l, p)

(* No node has the address nil. *)
LEMMA NodeNotNil ==
  ASSUME NEW n \in Addresses
  PROVE  n # Lists!nil /\ n \in Pointer
  BY ListAssumption DEF Lists!nil, Pointer

(* Walking forth along the path visits it. *)
LEMMA PathWalk ==
  ASSUME NEW l \in ListType, NEW p, Path(l, p)
  PROVE  \A k \in 0..(l.size - 1) : Lists!Walk(l.next, l.first, k) = p[k]
  <1> DEFINE w(k) == Lists!Walk(l.next, l.first, k)
             G == {k \in Nat : k < l.size => w(k) = p[k]}
  <1>1. w(0) = l.first /\ \A k \in Nat : w(k + 1) = IF w(k) = Lists!nil THEN Lists!nil ELSE l.next[w(k)]
    BY WalkSteps, Fields
  <1> HIDE DEF w
  <1>2. 0 \in G
    BY <1>1, Fields DEF Path
  <1>3. ASSUME NEW k \in G PROVE k + 1 \in G
    <2>1. SUFFICES ASSUME k + 1 < l.size PROVE w(k + 1) = p[k + 1]
      OBVIOUS
    <2>2. k \in 0..(l.size - 2) /\ k \in 0..(l.size - 1) /\ w(k) = p[k]
      BY <2>1, Fields
    <2>3. p[k] \in Addresses
      BY <2>2 DEF Path, Nodup
    <2>4. p[k] # Lists!nil
      BY <2>3, NodeNotNil
    <2>5. l.next[p[k]] = p[k + 1]
      BY <2>2 DEF Path, Forth
    <2> QED
      BY <1>1, <2>2, <2>4, <2>5
  <1>4. G \in SUBSET Nat
    OBVIOUS
  <1> HIDE DEF G
  <1>5. G = Nat
    BY <1>2, <1>3, <1>4, Induct
  <1>6. ASSUME NEW k \in 0..(l.size - 1) PROVE w(k) = p[k]
    BY <1>5, Fields DEF G
  <1> QED
    BY <1>6 DEF w

(* One step further it is at the link of the last node. *)
LEMMA WalkEnd ==
  ASSUME NEW l \in ListType, NEW p, Path(l, p), l.size > 0
  PROVE  Lists!Walk(l.next, l.first, l.size) = l.next[p[l.size - 1]]
  <1> DEFINE w(k) == Lists!Walk(l.next, l.first, k)
  <1>1. l.size - 1 \in Nat /\ (l.size - 1) + 1 = l.size /\ l.size - 1 \in 0..(l.size - 1)
    BY Fields
  <1>2. w((l.size - 1) + 1) = IF w(l.size - 1) = Lists!nil THEN Lists!nil ELSE l.next[w(l.size - 1)]
    BY <1>1, WalkSteps, Fields
  <1>3. w(l.size - 1) = p[l.size - 1]
    BY <1>1, PathWalk
  <1>4. p[l.size - 1] # Lists!nil
    BY <1>1, NodeNotNil DEF Path, Nodup
  <1> HIDE DEF w
  <1>5. w(l.size) = l.next[p[l.size - 1]]
    BY <1>1, <1>2, <1>3, <1>4
  <1> QED
    BY <1>5 DEF w

(* Walking back from last visits it from the other end. *)
LEMMA BackWalk ==
  ASSUME NEW c, NEW l \in ListType, NEW p, Path(l, p), BothWays(c, l, p)
  PROVE  \A k \in 0..(l.size - 1) : Lists!Walk(l.prev, l.last, k) = p[l.size - 1 - k]
  <1> DEFINE w(k) == Lists!Walk(l.prev, l.last, k)
             G == {k \in Nat : k < l.size => w(k) = p[l.size - 1 - k]}
  <1>1. w(0) = l.last /\ \A k \in Nat : w(k + 1) = IF w(k) = Lists!nil THEN Lists!nil ELSE l.prev[w(k)]
    BY WalkSteps, Fields
  <1> HIDE DEF w
  <1>2. 0 \in G
    <2>1. l.size > 0 => l.last = p[l.size - 1] /\ l.size - 1 - 0 = l.size - 1
      BY Fields DEF BothWays
    <2> QED
      BY <1>1, <2>1
  <1>3. ASSUME NEW k \in G PROVE k + 1 \in G
    <2>1. SUFFICES ASSUME k + 1 < l.size PROVE w(k + 1) = p[l.size - 1 - (k + 1)]
      OBVIOUS
    <2> DEFINE j == l.size - 1 - k
    <2>2. j \in 1..(l.size - 1) /\ j \in 0..(l.size - 1) /\ w(k) = p[j]
          /\ j - 1 = l.size - 1 - (k + 1)
      BY <2>1, Fields
    <2> HIDE DEF j
    <2>3. p[j] \in Addresses
      BY <2>2 DEF Path, Nodup
    <2>4. p[j] # Lists!nil
      BY <2>3, NodeNotNil
    <2>5. l.prev[p[j]] = p[j - 1]
      BY <2>2 DEF BothWays, Back
    <2> QED
      BY <1>1, <2>2, <2>4, <2>5
  <1>4. G \in SUBSET Nat
    OBVIOUS
  <1> HIDE DEF G
  <1>5. G = Nat
    BY <1>2, <1>3, <1>4, Induct
  <1>6. ASSUME NEW k \in 0..(l.size - 1) PROVE w(k) = p[l.size - 1 - k]
    BY <1>5, Fields DEF G
  <1> QED
    BY <1>6 DEF w

(* getNodeWithIndex: finds the node at i from either end. *)
LEMMA NodeAt ==
  ASSUME NEW c, NEW l \in ListType, NEW p, Shape(c, l, p), NEW i \in 0..(l.size - 1)
  PROVE  /\ Lists!SingleNode(l, i) = p[i]
         /\ c \notin OneWays => Lists!DoubleNode(l, i) = p[i]
  <1>1. Lists!SingleNode(l, i) = p[i]
    BY PathWalk DEF Lists!SingleNode, Shape
  <1>2. ASSUME c \notin OneWays PROVE Lists!DoubleNode(l, i) = p[i]
    <2>1. l.size - 1 - i \in 0..(l.size - 1) /\ l.size - 1 - (l.size - 1 - i) = i
          /\ Lists!InRange(l, i)
      BY Fields DEF Lists!InRange
    <2>2. Lists!Walk(l.prev, l.last, l.size - 1 - i) = p[i]
      BY <1>2, <2>1, BackWalk DEF Shape
    <2> QED
      BY <1>1, <2>1, <2>2 DEF Lists!DoubleNode, Lists!SingleNode
  <1> QED
    BY <1>1, <1>2

--------------------------------------------------------------------------------
(***************************************************************************)
(* What the memory keeps                                                    *)
(***************************************************************************)
(* One round of what Reachable collects. *)
Spread(l, X) == (X \cup {l.next[n] : n \in X} \cup {l.prev[n] : n \in X}) \ {Lists!nil}

Reach(l, c, j) ==
  LET r[k \in Nat] ==
        IF k = 0 THEN {l.first, l.last, c} \ {Lists!nil}
        ELSE (r[k - 1] \cup {l.next[n] : n \in r[k - 1]} \cup {l.prev[n] : n \in r[k - 1]}) \ {Lists!nil}
  IN  r[j]

(* Reachable spreads along the links, round by round. *)
LEMMA ReachSteps ==
  ASSUME NEW l \in ListType, NEW c \in Pointer
  PROVE  /\ Reach(l, c, 0) = {l.first, l.last, c} \ {Lists!nil}
         /\ \A k \in Nat : Reach(l, c, k + 1) = Spread(l, Reach(l, c, k))
         /\ \A k \in Nat : Reach(l, c, k) \in SUBSET Addresses
  <1> DEFINE a == {l.first, l.last, c} \ {Lists!nil}
             Step(f, j) == IF j = 0 THEN a
                        ELSE (f[j - 1] \cup {l.next[n] : n \in f[j - 1]}
                                       \cup {l.prev[n] : n \in f[j - 1]}) \ {Lists!nil}
             r[j \in Nat] == IF j = 0 THEN a
                             ELSE (r[j - 1] \cup {l.next[n] : n \in r[j - 1]}
                                            \cup {l.prev[n] : n \in r[j - 1]}) \ {Lists!nil}
             s == [X \in SUBSET Addresses |-> Spread(l, X)]
  <1>1. a \in SUBSET Addresses
    BY Fields DEF Pointer
  <1>2. s \in [SUBSET Addresses -> SUBSET Addresses]
    <2>1. ASSUME NEW X \in SUBSET Addresses PROVE Spread(l, X) \in SUBSET Addresses
      <3>1. \A n \in X : l.next[n] \in Pointer /\ l.prev[n] \in Pointer
        BY Fields
      <3> QED
        BY <3>1 DEF Spread, Pointer
    <2> QED
      BY <2>1
  <1>3. PICK f : Iterates(f, SUBSET Addresses, a, s)
    <2> HIDE DEF s, a
    <2> QED
      BY <1>1, <1>2, Recursion
  <1> HIDE DEF a
  <1>4. ASSUME NEW j \in Nat PROVE f[j] = Step(f, j)
    <2>1. CASE j = 0
      BY <1>3, <2>1 DEF Iterates
    <2>2. CASE j # 0
      <3>1. j - 1 \in Nat /\ (j - 1) + 1 = j
        BY <2>2
      <3>2. f[j] = s[f[j - 1]] /\ f[j - 1] \in SUBSET Addresses
        BY <1>3, <3>1 DEF Iterates
      <3>3. f[j] = Spread(l, f[j - 1])
        BY <3>2
      <3> QED
        BY <2>2, <3>3 DEF Spread
    <2> QED
      BY <2>1, <2>2
  <1>5. f = [j \in Nat |-> Step(f, j)]
    <2>1. f = [j \in Nat |-> f[j]]
      BY <1>3 DEF Iterates
    <2> HIDE DEF Step
    <2> QED
      BY <1>4, <2>1
  <1>6. r = [j \in Nat |-> Step(r, j)]
    BY <1>5, Zenon DEF r
  <1>7. \A k : Reach(l, c, k) = r[k]
    BY DEF Reach, a
  <1> HIDE DEF r
  <1>8. \A j \in Nat : r[j] = Step(r, j)
    BY <1>6, Zenon
  <1>9. r[0] = a
    BY <1>8
  <1>10. ASSUME NEW k \in Nat PROVE r[k + 1] = Spread(l, r[k])
    <2>1. k + 1 \in Nat /\ k + 1 # 0 /\ (k + 1) - 1 = k
      OBVIOUS
    <2> QED
      BY <1>8, <2>1 DEF Spread
  <1>11. \A k \in Nat : r[k] \in SUBSET Addresses
    <2> DEFINE G == {k \in Nat : r[k] \in SUBSET Addresses}
    <2>1. 0 \in G
      BY <1>1, <1>9
    <2>2. ASSUME NEW k \in G PROVE k + 1 \in G
      <3>1. k \in Nat /\ r[k] \in SUBSET Addresses
        OBVIOUS
      <3>2. Spread(l, r[k]) \in SUBSET Addresses
        BY <1>2, <3>1
      <3> QED
        BY <1>10, <3>1, <3>2
    <2>3. G \in SUBSET Nat
      OBVIOUS
    <2> HIDE DEF G
    <2>4. G = Nat
      BY <2>1, <2>2, <2>3, Induct
    <2> QED
      BY <2>4 DEF G
  <1> QED
    BY <1>7, <1>9, <1>10, <1>11 DEF a

(* What Reachable collects is what as many rounds as there are nodes do. *)
LEMMA ReachableIs ==
  ASSUME NEW l, NEW c
  PROVE  Lists!Reachable(l, c) = Reach(l, c, Cardinality(Addresses))
  <1>1. Lists!Cardinality(Addresses) = Cardinality(Addresses)
    BY Zenon DEF Lists!Cardinality, Cardinality
  <1>2. Lists!Reachable(l, c) = Reach(l, c, Lists!Cardinality(Addresses))
    BY Zenon DEF Lists!Reachable, Reach
  <1> QED
    BY <1>1, <1>2

(* A list has no more nodes than there are. *)
LEMMA Fits ==
  ASSUME NEW p, NEW s \in Nat, Nodup(p, s)
  PROVE  s <= Cardinality(Addresses) /\ Cardinality(Addresses) \in Nat
  <1>1. IsFiniteSet(0..(s - 1)) /\ Cardinality(0..(s - 1)) = s
    BY FS_Interval
  <1>2. p \in Injection(0..(s - 1), Addresses)
    BY DEF Nodup, Injection, IsInjective
  <1>3. IsFiniteSet(Addresses) /\ Cardinality(Addresses) \in Nat
    BY ListAssumption, FS_CardinalityType
  <1>4. Cardinality(0..(s - 1)) <= Cardinality(Addresses)
    BY <1>1, <1>2, <1>3, FS_Injection
  <1> QED
    BY <1>1, <1>3, <1>4

(* Settled forgets nothing that is on the path or under the cursor. *)
LEMMA ReachPath ==
  ASSUME NEW l \in ListType, NEW p, Path(l, p), NEW c \in Pointer
  PROVE  /\ Lists!Reachable(l, c) \in SUBSET Addresses
         /\ \A k \in 0..(l.size - 1) : p[k] \in Lists!Reachable(l, c)
         /\ c # Lists!nil => c \in Lists!Reachable(l, c)
  <1> DEFINE R(k) == Reach(l, c, k)
             N == Cardinality(Addresses)
  <1>1. N \in Nat /\ l.size <= N /\ l.size \in Nat
    BY Fits, Fields DEF Path
  <1>2. /\ R(0) = {l.first, l.last, c} \ {Lists!nil}
        /\ \A k \in Nat : R(k + 1) = Spread(l, R(k))
        /\ \A k \in Nat : R(k) \in SUBSET Addresses
    BY ReachSteps
  <1>3. Lists!Reachable(l, c) = R(N)
    BY ReachableIs
  <1> HIDE DEF R, N
  <1>4. ASSUME NEW k \in Nat, NEW x \in R(k)
        PROVE  x \in R(k + 1) /\ (l.next[x] # Lists!nil => l.next[x] \in R(k + 1))
    <2>1. x \in Addresses
      BY <1>2
    <2>2. x # Lists!nil
      BY <2>1, NodeNotNil
    <2> QED
      BY <1>2, <2>2 DEF Spread
  <1>5. ASSUME NEW x, NEW j \in Nat, x \in R(j) PROVE \A k \in Nat : j <= k => x \in R(k)
    <2> DEFINE G == {k \in Nat : x \in R(j + k)}
    <2>1. 0 \in G
      BY <1>5
    <2>2. ASSUME NEW k \in G PROVE k + 1 \in G
      <3>1. j + k \in Nat /\ x \in R(j + k) /\ j + (k + 1) = (j + k) + 1 /\ k + 1 \in Nat
        OBVIOUS
      <3> QED
        BY <1>4, <3>1
    <2>3. G \in SUBSET Nat
      OBVIOUS
    <2> HIDE DEF G
    <2>4. G = Nat
      BY <2>1, <2>2, <2>3, Induct
    <2>5. ASSUME NEW k \in Nat, j <= k PROVE x \in R(k)
      <3>1. k - j \in Nat /\ j + (k - j) = k
        BY <2>5
      <3> QED
        BY <2>4, <3>1 DEF G
    <2> QED
      BY <2>5
  <1>6. \A k \in Nat : k < l.size => p[k] \in R(k)
    <2> DEFINE G == {k \in Nat : k < l.size => p[k] \in R(k)}
    <2>1. 0 \in G
      <3>1. ASSUME 0 < l.size PROVE p[0] \in R(0)
        <4>1. p[0] \in Addresses /\ l.first = p[0]
          BY <1>1, <3>1 DEF Path, Nodup
        <4>2. p[0] # Lists!nil
          BY <4>1, NodeNotNil
        <4> QED
          BY <1>2, <4>1, <4>2
      <3> QED
        BY <3>1
    <2>2. ASSUME NEW k \in G PROVE k + 1 \in G
      <3>1. SUFFICES ASSUME k + 1 < l.size PROVE p[k + 1] \in R(k + 1)
        OBVIOUS
      <3>2. p[k] \in R(k) /\ k \in 0..(l.size - 2) /\ k + 1 \in 0..(l.size - 1)
        BY <1>1, <3>1
      <3>3. l.next[p[k]] = p[k + 1] /\ p[k + 1] \in Addresses
        BY <3>2 DEF Path, Nodup, Forth
      <3>4. p[k + 1] # Lists!nil
        BY <3>3, NodeNotNil
      <3> QED
        BY <1>4, <3>2, <3>3, <3>4
    <2>3. G \in SUBSET Nat
      OBVIOUS
    <2> HIDE DEF G
    <2>4. G = Nat
      BY <2>1, <2>2, <2>3, Induct
    <2> QED
      BY <2>4 DEF G
  <1>7. ASSUME NEW k \in 0..(l.size - 1) PROVE p[k] \in R(N)
    <2>1. k \in Nat /\ k < l.size /\ k <= N
      BY <1>1
    <2> QED
      BY <1>1, <1>5, <1>6, <2>1
  <1>8. ASSUME c # Lists!nil PROVE c \in R(N)
    <2>1. c \in R(0) /\ 0 <= N
      BY <1>1, <1>2, <1>8
    <2> QED
      BY <1>1, <1>5, <2>1
  <1> QED
    BY <1>1, <1>2, <1>3, <1>7, <1>8

(* What Settled leaves of a list. *)
LEMMA SettledFields ==
  ASSUME NEW l \in ListType, NEW c \in Pointer
  PROVE  /\ Lists!Settled(l, c) \in ListType
         /\ Lists!Settled(l, c).first = l.first
         /\ Lists!Settled(l, c).last = l.last
         /\ Lists!Settled(l, c).size = l.size
         /\ \A n \in Addresses : n \in Lists!Reachable(l, c) =>
              /\ Lists!Settled(l, c).next[n] = l.next[n]
              /\ Lists!Settled(l, c).prev[n] = l.prev[n]
              /\ Lists!Settled(l, c).elem[n] = l.elem[n]
  <1> DEFINE live == Lists!Reachable(l, c)
             Keep(f, none) == [n \in Addresses |-> IF n \in live THEN f[n] ELSE none]
  <1>1. Keep(l.next, Lists!nil) \in [Addresses -> Pointer]
        /\ Keep(l.prev, Lists!nil) \in [Addresses -> Pointer]
        /\ Keep(l.elem, Lists!NOT_FOUND) \in [Addresses -> ListElements \cup {Lists!NOT_FOUND}]
    <2> HIDE DEF live
    <2> QED
      BY Fields DEF Pointer
  <1>2. \A n \in Addresses : n \in live =>
          Keep(l.next, Lists!nil)[n] = l.next[n] /\ Keep(l.prev, Lists!nil)[n] = l.prev[n]
          /\ Keep(l.elem, Lists!NOT_FOUND)[n] = l.elem[n]
    <2> HIDE DEF live
    <2> QED
      OBVIOUS
  <1> DEFINE f == Keep(l.next, Lists!nil)
             g == Keep(l.prev, Lists!nil)
             h == Keep(l.elem, Lists!NOT_FOUND)
             m == [l EXCEPT !.next = f, !.prev = g, !.elem = h]
  <1>3. Lists!Settled(l, c) = m
    BY DEF Lists!Settled
  <1>4. f \in [Addresses -> Pointer] /\ g \in [Addresses -> Pointer]
        /\ h \in [Addresses -> ListElements \cup {Lists!NOT_FOUND}]
    BY <1>1
  <1>5. \A n \in Addresses : n \in live => f[n] = l.next[n] /\ g[n] = l.prev[n] /\ h[n] = l.elem[n]
    BY <1>2
  <1> HIDE DEF live, f, g, h
  <1>6. /\ m \in ListType /\ m.first = l.first /\ m.last = l.last
        /\ m.size = l.size /\ m.next = f /\ m.prev = g /\ m.elem = h
    BY <1>4 DEF ListType
  <1> HIDE DEF m
  <1> QED
    BY <1>3, <1>5, <1>6 DEF live

(* z has the path p of l, with the same elements. *)
Kept(c, l, z, p) ==
  /\ z \in ListType /\ z.size = l.size
  /\ Shape(c, z, p)
  /\ \A k \in 0..(l.size - 1) : z.elem[p[k]] = l.elem[p[k]]

(* Forgetting what nobody refers to changes neither the path nor its elements. *)
LEMMA SettledShape ==
  ASSUME NEW c, NEW l \in ListType, NEW p, Shape(c, l, p), NEW x \in Pointer
  PROVE  Kept(c, l, Lists!Settled(l, x), p)
  <1> DEFINE m == Lists!Settled(l, x)
  <1>1. m \in ListType /\ m.first = l.first /\ m.last = l.last /\ m.size = l.size
    BY SettledFields
  <1>2. l.size \in Nat
    BY Fields
  <1>3. ASSUME NEW k \in 0..(l.size - 1)
        PROVE  m.next[p[k]] = l.next[p[k]] /\ m.prev[p[k]] = l.prev[p[k]]
               /\ m.elem[p[k]] = l.elem[p[k]]
    <2>1. p[k] \in Addresses /\ p[k] \in Lists!Reachable(l, x)
      BY ReachPath DEF Shape, Path, Nodup
    <2> QED
      BY <2>1, SettledFields
  <1> HIDE DEF m
  <1>4. Path(m, p)
    <2>1. Forth(p, l.size, m.next)
      BY <1>2, <1>3 DEF Forth, Shape, Path
    <2> QED
      BY <1>1, <2>1 DEF Shape, Path
  <1>5. l.size > 0 => m.next[p[l.size - 1]] \in Ends(c, m)
    <2>1. Ends(c, m) = Ends(c, l)
      BY <1>1 DEF Ends
    <2> QED
      BY <1>2, <1>3, <2>1 DEF Shape
  <1>6. BothWays(c, l, p) => BothWays(c, m, p)
    <2>1. ASSUME Back(p, l.size, l.prev) PROVE Back(p, l.size, m.prev)
      BY <1>2, <1>3, <2>1 DEF Back
    <2> QED
      BY <1>1, <1>2, <1>3, <2>1 DEF BothWays
  <1>7. Shape(c, m, p)
    BY <1>1, <1>4, <1>5, <1>6 DEF Shape
  <1> QED
    BY <1>1, <1>3, <1>7 DEF m, Kept

--------------------------------------------------------------------------------
(***************************************************************************)
(* Inserting into a path and deleting from it                               *)
(***************************************************************************)
(* The path after a node came in at i, and after the one at i left. *)
Insert(p, s, i, n) == [k \in 0..s |-> IF k < i THEN p[k] ELSE IF k = i THEN n ELSE p[k - 1]]
Delete(p, s, i) == [k \in 0..(s - 2) |-> IF k < i THEN p[k] ELSE p[k + 1]]

Fresh(p, s, n) == n \in Addresses /\ \A k \in 0..(s - 1) : p[k] # n

(* Inserting a new node, or deleting one, leaves every node once on the path. *)
LEMMA InsertNodup ==
  ASSUME NEW p, NEW s \in Nat, Nodup(p, s), NEW n, Fresh(p, s, n), NEW i \in 0..s
  PROVE  Nodup(Insert(p, s, i, n), s + 1)
  <1> DEFINE q == Insert(p, s, i, n)
  <1>1. ASSUME NEW k \in 0..s
        PROVE  /\ q[k] = IF k < i THEN p[k] ELSE IF k = i THEN n ELSE p[k - 1]
               /\ k < i => k \in 0..(s - 1)
               /\ k > i => k - 1 \in 0..(s - 1)
    BY DEF Insert
  <1>2. q \in [0..s -> Addresses]
    BY DEF Insert, Nodup, Fresh
  <1> HIDE DEF q
  <1>3. ASSUME NEW j \in 0..s, NEW k \in 0..s, q[j] = q[k] PROVE j = k
    <2>1. CASE j = i
      BY <1>1, <1>3, <2>1 DEF Nodup, Fresh
    <2>2. CASE k = i
      BY <1>1, <1>3, <2>2 DEF Nodup, Fresh
    <2>3. CASE j # i /\ k # i
      <3> DEFINE a == IF j < i THEN j ELSE j - 1
                 b == IF k < i THEN k ELSE k - 1
      <3>1. a \in 0..(s - 1) /\ b \in 0..(s - 1) /\ q[j] = p[a] /\ q[k] = p[b]
        BY <1>1, <2>3
      <3>2. a = b
        BY <1>3, <3>1 DEF Nodup
      <3> QED
        BY <2>3, <3>2
    <2> QED
      BY <2>1, <2>2, <2>3
  <1>4. (s + 1) - 1 = s
    OBVIOUS
  <1> QED
    BY <1>2, <1>3, <1>4 DEF Nodup, q

(* See InsertNodup. *)
LEMMA DeleteNodup ==
  ASSUME NEW p, NEW s \in Nat, Nodup(p, s), NEW i \in 0..(s - 1)
  PROVE  Nodup(Delete(p, s, i), s - 1)
  <1> DEFINE q == Delete(p, s, i)
  <1>1. ASSUME NEW k \in 0..(s - 2)
        PROVE  q[k] = p[IF k < i THEN k ELSE k + 1] /\ k \in 0..(s - 1) /\ k + 1 \in 0..(s - 1)
    BY DEF Delete
  <1>2. q \in [0..(s - 2) -> Addresses]
    BY DEF Delete, Nodup
  <1> HIDE DEF q
  <1>3. ASSUME NEW j \in 0..(s - 2), NEW k \in 0..(s - 2), q[j] = q[k] PROVE j = k
    <2> DEFINE a == IF j < i THEN j ELSE j + 1
               b == IF k < i THEN k ELSE k + 1
    <2>1. a \in 0..(s - 1) /\ b \in 0..(s - 1) /\ p[a] = p[b]
      BY <1>1, <1>3
    <2>2. a = b
      BY <2>1 DEF Nodup
    <2> QED
      BY <2>2
  <1>4. (s - 1) - 1 = s - 2
    OBVIOUS
  <1> QED
    BY <1>2, <1>3, <1>4 DEF Nodup, q

(* What a new node at i does to the links f, and what the removal of the one at i does. *)
JoinForth(p, s, i, n, f, g) ==
  /\ \A k \in 0..(s - 2) : k # i - 1 => g[p[k]] = f[p[k]]
  /\ i > 0 => g[p[i - 1]] = n
  /\ i < s => g[n] = p[i]

JoinBack(p, s, i, n, f, g) ==
  /\ \A k \in 1..(s - 1) : k # i => g[p[k]] = f[p[k]]
  /\ i > 0 => g[n] = p[i - 1]
  /\ i < s => g[p[i]] = n

SkipForth(p, s, i, f, g) ==
  /\ \A k \in 0..(s - 2) : k # i - 1 /\ k # i => g[p[k]] = f[p[k]]
  /\ 0 < i /\ i < s - 1 => g[p[i - 1]] = p[i + 1]

SkipBack(p, s, i, f, g) ==
  /\ \A k \in 1..(s - 1) : k # i /\ k # i + 1 => g[p[k]] = f[p[k]]
  /\ 0 < i /\ i < s - 1 => g[p[i + 1]] = p[i - 1]

(* Links changed in this way run along the path with the new node. *)
LEMMA InsertLinks ==
  ASSUME NEW p, NEW s \in Nat, NEW i \in 0..s, NEW n, NEW f, NEW g
  PROVE  /\ Forth(p, s, f) /\ JoinForth(p, s, i, n, f, g) => Forth(Insert(p, s, i, n), s + 1, g)
         /\ Back(p, s, f) /\ JoinBack(p, s, i, n, f, g) => Back(Insert(p, s, i, n), s + 1, g)
  <1> DEFINE q == Insert(p, s, i, n)
  <1>1. ASSUME NEW k \in 0..s
        PROVE  q[k] = IF k < i THEN p[k] ELSE IF k = i THEN n ELSE p[k - 1]
    BY DEF Insert
  <1> HIDE DEF q
  <1>2. ASSUME Forth(p, s, f), JoinForth(p, s, i, n, f, g), NEW k \in 0..(s - 1)
        PROVE  g[q[k]] = q[k + 1]
    <2>1. k \in 0..s /\ k + 1 \in 0..s /\ (k + 1) - 1 = k
      OBVIOUS
    <2>2. CASE k < i - 1
      <3>1. k \in 0..(s - 2) /\ k # i - 1 /\ k < i /\ k + 1 < i
        BY <2>2
      <3>2. g[p[k]] = p[k + 1]
        BY <1>2, <3>1 DEF Forth, JoinForth
      <3> QED
        BY <1>1, <2>1, <3>1, <3>2
    <2>3. CASE k = i - 1
      <3>1. i > 0 /\ k < i /\ k + 1 = i
        BY <2>3
      <3>2. g[p[k]] = n
        BY <1>2, <2>3, <3>1 DEF JoinForth
      <3> QED
        BY <1>1, <2>1, <3>1, <3>2
    <2>4. CASE k = i
      <3>1. i < s /\ ~(k < i) /\ ~(k + 1 < i) /\ k + 1 # i
        BY <2>4
      <3>2. g[n] = p[k]
        BY <1>2, <2>4, <3>1 DEF JoinForth
      <3> QED
        BY <1>1, <2>1, <2>4, <3>1, <3>2
    <2>5. CASE k > i
      <3>1. k - 1 \in 0..(s - 2) /\ k - 1 # i - 1 /\ ~(k < i) /\ k # i /\ ~(k + 1 < i)
            /\ k + 1 # i /\ (k - 1) + 1 = k
        BY <2>5
      <3>2. g[p[k - 1]] = p[k]
        BY <1>2, <3>1 DEF Forth, JoinForth
      <3> QED
        BY <1>1, <2>1, <3>1, <3>2
    <2> QED
      BY <2>2, <2>3, <2>4, <2>5
  <1>3. ASSUME Back(p, s, f), JoinBack(p, s, i, n, f, g), NEW k \in 1..s
        PROVE  g[q[k]] = q[k - 1]
    <2>1. k \in 0..s /\ k - 1 \in 0..s
      OBVIOUS
    <2>2. CASE k < i
      <3>1. k \in 1..(s - 1) /\ k # i /\ k - 1 < i
        BY <2>2
      <3>2. g[p[k]] = p[k - 1]
        BY <1>3, <3>1 DEF Back, JoinBack
      <3> QED
        BY <1>1, <2>1, <2>2, <3>1, <3>2
    <2>3. CASE k = i
      <3>1. i > 0 /\ ~(k < i) /\ k - 1 < i
        BY <2>3
      <3>2. g[n] = p[k - 1]
        BY <1>3, <2>3, <3>1 DEF JoinBack
      <3> QED
        BY <1>1, <2>1, <2>3, <3>1, <3>2
    <2>4. CASE k = i + 1
      <3>1. i < s /\ ~(k < i) /\ k # i /\ k - 1 = i
        BY <2>4
      <3>2. g[p[k - 1]] = n
        BY <1>3, <3>1 DEF JoinBack
      <3> QED
        BY <1>1, <2>1, <3>1, <3>2
    <2>5. CASE k > i + 1
      <3>1. k - 1 \in 1..(s - 1) /\ k - 1 # i /\ ~(k < i) /\ k # i /\ ~(k - 1 < i)
        BY <2>5
      <3>2. g[p[k - 1]] = p[(k - 1) - 1]
        BY <1>3, <3>1 DEF Back, JoinBack
      <3> QED
        BY <1>1, <2>1, <3>1, <3>2
    <2> QED
      BY <2>2, <2>3, <2>4, <2>5
  <1>4. (s + 1) - 2 = s - 1 /\ (s + 1) - 1 = s
    OBVIOUS
  <1> QED
    BY <1>2, <1>3, <1>4 DEF Forth, Back, q

(* Links changed in this way run along the path without the node at i. *)
LEMMA DeleteLinks ==
  ASSUME NEW p, NEW s \in Nat, NEW i \in 0..(s - 1), NEW f, NEW g
  PROVE  /\ Forth(p, s, f) /\ SkipForth(p, s, i, f, g) => Forth(Delete(p, s, i), s - 1, g)
         /\ Back(p, s, f) /\ SkipBack(p, s, i, f, g) => Back(Delete(p, s, i), s - 1, g)
  <1> DEFINE q == Delete(p, s, i)
  <1>1. ASSUME NEW k \in 0..(s - 2)
        PROVE  q[k] = IF k < i THEN p[k] ELSE p[k + 1]
    BY DEF Delete
  <1> HIDE DEF q
  <1>2. ASSUME Forth(p, s, f), SkipForth(p, s, i, f, g), NEW k \in 0..(s - 3)
        PROVE  g[q[k]] = q[k + 1]
    <2>1. k \in 0..(s - 2) /\ k + 1 \in 0..(s - 2)
      OBVIOUS
    <2>2. CASE k < i - 1
      <3>1. k # i - 1 /\ k # i /\ k < i /\ k + 1 < i
        BY <2>2
      <3>2. g[p[k]] = p[k + 1]
        BY <1>2, <2>1, <3>1 DEF Forth, SkipForth
      <3> QED
        BY <1>1, <2>1, <3>1, <3>2
    <2>3. CASE k = i - 1
      <3>1. 0 < i /\ i < s - 1 /\ k < i /\ ~(k + 1 < i) /\ k + 1 = i
        BY <2>3
      <3>2. g[p[k]] = p[(k + 1) + 1]
        BY <1>2, <2>3, <3>1 DEF SkipForth
      <3> QED
        BY <1>1, <2>1, <3>1, <3>2
    <2>4. CASE k >= i
      <3>1. k + 1 # i - 1 /\ k + 1 # i /\ ~(k < i) /\ ~(k + 1 < i)
        BY <2>4
      <3>2. g[p[k + 1]] = p[(k + 1) + 1]
        BY <1>2, <2>1, <3>1 DEF Forth, SkipForth
      <3> QED
        BY <1>1, <2>1, <3>1, <3>2
    <2> QED
      BY <2>2, <2>3, <2>4
  <1>3. ASSUME Back(p, s, f), SkipBack(p, s, i, f, g), NEW k \in 1..(s - 2)
        PROVE  g[q[k]] = q[k - 1]
    <2>1. k \in 0..(s - 2) /\ k - 1 \in 0..(s - 2) /\ (k - 1) + 1 = k
      OBVIOUS
    <2>2. CASE k < i
      <3>1. k \in 1..(s - 1) /\ k # i /\ k # i + 1 /\ k - 1 < i
        BY <2>2
      <3>2. g[p[k]] = p[k - 1]
        BY <1>3, <3>1 DEF Back, SkipBack
      <3> QED
        BY <1>1, <2>1, <2>2, <3>1, <3>2
    <2>3. CASE k = i
      <3>1. 0 < i /\ i < s - 1 /\ ~(k < i) /\ k - 1 < i
        BY <2>3
      <3>2. g[p[k + 1]] = p[k - 1]
        BY <1>3, <2>3, <3>1 DEF SkipBack
      <3> QED
        BY <1>1, <2>1, <3>1, <3>2
    <2>4. CASE k > i
      <3>1. k + 1 \in 1..(s - 1) /\ k + 1 # i /\ k + 1 # i + 1 /\ ~(k < i) /\ ~(k - 1 < i)
            /\ (k + 1) - 1 = k
        BY <2>4
      <3>2. g[p[k + 1]] = p[k]
        BY <1>3, <3>1 DEF Back, SkipBack
      <3> QED
        BY <1>1, <2>1, <3>1, <3>2
    <2> QED
      BY <2>2, <2>3, <2>4
  <1>4. (s - 1) - 2 = s - 3 /\ (s - 1) - 1 = s - 2
    OBVIOUS
  <1> QED
    BY <1>2, <1>3, <1>4 DEF Forth, Back, q

(* What add: at i with the new node n, and remove: at i, must do to a list l of
   class c with the path p. *)
Joins(c, l, m, p, i, n) ==
  /\ m.size = l.size + 1
  /\ m.first = IF i = 0 THEN n ELSE l.first
  /\ JoinForth(p, l.size, i, n, l.next, m.next)
  /\ m.next[IF i = l.size THEN n ELSE p[l.size - 1]] \in Ends(c, m)
  /\ IF c \in OneWays THEN m.last = Lists!nil
     ELSE /\ m.last = IF i = l.size THEN n ELSE l.last
          /\ m.prev[IF i = 0 THEN n ELSE p[0]] = IF c \in Rings THEN m.last ELSE Lists!nil
          /\ JoinBack(p, l.size, i, n, l.prev, m.prev)

Leaves(c, l, m, p, i) ==
  /\ m.size = l.size - 1
  /\ m.first = IF l.size = 1 THEN Lists!nil ELSE IF i = 0 THEN p[1] ELSE l.first
  /\ SkipForth(p, l.size, i, l.next, m.next)
  /\ l.size > 1 => m.next[IF i = l.size - 1 THEN p[l.size - 2] ELSE p[l.size - 1]] \in Ends(c, m)
  /\ IF c \in OneWays THEN m.last = Lists!nil
     ELSE /\ m.last = IF l.size = 1 THEN Lists!nil ELSE IF i = l.size - 1 THEN p[l.size - 2] ELSE l.last
          /\ l.size > 1 => m.prev[IF i = 0 THEN p[1] ELSE p[0]] = IF c \in Rings THEN m.last ELSE Lists!nil
          /\ SkipBack(p, l.size, i, l.prev, m.prev)

(* What meets Joins represents the path with the new node. *)
LEMMA InsertShape ==
  ASSUME NEW c, NEW l \in ListType, NEW m, NEW p, Shape(c, l, p), NEW i \in 0..l.size,
         NEW n, Fresh(p, l.size, n), Joins(c, l, m, p, i, n)
  PROVE  Shape(c, m, Insert(p, l.size, i, n))
  <1> DEFINE q == Insert(p, l.size, i, n)
             s == l.size
  <1>1. s \in Nat /\ m.size = s + 1 /\ (s + 1) - 1 = s
    BY Fields DEF Joins
  <1>2. q[0] = (IF i = 0 THEN n ELSE p[0]) /\ q[s] = (IF i = s THEN n ELSE p[s - 1])
    <2>1. 0 \in 0..s /\ s \in 0..s
      BY <1>1
    <2> QED
      BY <2>1 DEF Insert
  <1>3. Nodup(q, s + 1)
    BY <1>1, InsertNodup DEF Shape, Path
  <1>4. Forth(q, s + 1, m.next)
    BY <1>1, InsertLinks DEF Joins, Shape, Path
  <1>5. c \notin OneWays => Back(q, s + 1, m.prev)
    BY <1>1, InsertLinks DEF Joins, Shape, BothWays
  <1>6. s # 0 => l.first = p[0]
    BY DEF Shape, Path
  <1>7. c \notin OneWays /\ s # 0 => l.last = p[s - 1]
    BY DEF Shape, BothWays
  <1> HIDE DEF q
  <1>8. m.first = q[0]
    BY <1>1, <1>2, <1>6 DEF Joins
  <1>9. m.next[q[s]] \in Ends(c, m)
    BY <1>2 DEF Joins
  <1>10. c \notin OneWays => m.last = q[s] /\ m.prev[q[0]] = IF c \in Rings THEN q[s] ELSE Lists!nil
    BY <1>1, <1>2, <1>7 DEF Joins
  <1> HIDE DEF s
  <1>11. Path(m, q)
    BY <1>1, <1>3, <1>4, <1>8 DEF Path
  <1>12. c \notin OneWays => BothWays(c, m, q)
    BY <1>1, <1>5, <1>10 DEF BothWays
  <1>13. c \in OneWays => m.last = Lists!nil
    BY DEF Joins
  <1>14. Shape(c, m, q)
    BY <1>1, <1>9, <1>11, <1>12, <1>13 DEF Shape
  <1> QED
    BY <1>14 DEF q

(* What meets Leaves represents the path without the node at i. *)
LEMMA DeleteShape ==
  ASSUME NEW c, NEW l \in ListType, NEW m, NEW p, Shape(c, l, p), NEW i \in 0..(l.size - 1),
         Leaves(c, l, m, p, i)
  PROVE  Shape(c, m, Delete(p, l.size, i))
  <1> DEFINE q == Delete(p, l.size, i)
             s == l.size
  <1>1. s \in Nat /\ s > 0 /\ m.size = s - 1 /\ (s - 1) - 1 = s - 2
    BY Fields DEF Leaves
  <1>2. s > 1 => q[0] = (IF i = 0 THEN p[1] ELSE p[0])
                 /\ q[s - 2] = (IF i = s - 1 THEN p[s - 2] ELSE p[s - 1])
    <2>1. s > 1 => 0 \in 0..(s - 2) /\ s - 2 \in 0..(s - 2) /\ (s - 2) + 1 = s - 1 /\ 0 + 1 = 1
                   /\ (i = s - 1 <=> s - 2 < i)
      BY <1>1
    <2> QED
      BY <2>1 DEF Delete
  <1>3. Nodup(q, s - 1)
    BY <1>1, DeleteNodup DEF Shape, Path
  <1>4. Forth(q, s - 1, m.next)
    BY <1>1, DeleteLinks DEF Leaves, Shape, Path
  <1>5. c \notin OneWays => Back(q, s - 1, m.prev)
    BY <1>1, DeleteLinks DEF Leaves, Shape, BothWays
  <1>6. l.first = p[0]
    BY <1>1 DEF Shape, Path
  <1>7. c \notin OneWays => l.last = p[s - 1]
    BY <1>1 DEF Shape, BothWays
  <1> HIDE DEF q
  <1>8. m.first = IF s = 1 THEN Lists!nil ELSE q[0]
    BY <1>1, <1>2, <1>6 DEF Leaves
  <1>9. s > 1 => m.next[q[s - 2]] \in Ends(c, m)
    BY <1>2 DEF Leaves
  <1>10. c \notin OneWays => /\ m.last = IF s = 1 THEN Lists!nil ELSE q[s - 2]
                             /\ s > 1 => m.prev[q[0]] = IF c \in Rings THEN q[s - 2] ELSE Lists!nil
    BY <1>1, <1>2, <1>7 DEF Leaves
  <1> HIDE DEF s
  <1>11. Path(m, q)
    BY <1>1, <1>3, <1>4, <1>8 DEF Path
  <1>12. c \notin OneWays => BothWays(c, m, q)
    BY <1>1, <1>5, <1>10 DEF BothWays
  <1>13. c \in OneWays => m.last = Lists!nil
    BY DEF Leaves
  <1>14. Shape(c, m, q)
    BY <1>1, <1>9, <1>11, <1>12, <1>13 DEF Shape
  <1> QED
    BY <1>14 DEF q

(* Different positions hold different nodes, all of them nodes. *)
LEMMA Distinct ==
  ASSUME NEW c, NEW l, NEW p, Shape(c, l, p)
  PROVE  /\ \A j, k \in 0..(l.size - 1) : j # k => p[j] # p[k]
         /\ \A j \in 0..(l.size - 1) : p[j] \in Addresses /\ p[j] # Lists!nil /\ p[j] \in Pointer
  <1>1. \A j, k \in 0..(l.size - 1) : j # k => p[j] # p[k]
    BY DEF Shape, Path, Nodup
  <1>2. ASSUME NEW j \in 0..(l.size - 1) PROVE p[j] \in Addresses /\ p[j] # Lists!nil
               /\ p[j] \in Pointer
    BY NodeNotNil DEF Shape, Path, Nodup
  <1> QED
    BY <1>1, <1>2

--------------------------------------------------------------------------------
(***************************************************************************)
(* add:withElement:                                                         *)
(***************************************************************************)
(* m is l with a new node n for e at i. *)
Added(c, l, m, p, i, n, e) ==
  m \in ListType /\ Joins(c, l, m, p, i, n) /\ m.elem = [l.elem EXCEPT ![n] = e]

(* add:withElement: behind the node at i - 1 of a list linked one way. *)
LEMMA InsertAfterJoins ==
  ASSUME NEW c \in OneWays, NEW l \in ListType, NEW p, Shape(c, l, p),
         NEW i \in 1..l.size, NEW n, Fresh(p, l.size, n), NEW e \in ListElements
  PROVE  Added(c, l, Lists!InsertAfter(l, n, p[i - 1], e), p, i, n, e)
  <1> DEFINE s == l.size
             a == p[i - 1]
             m == Lists!InsertAfter(l, n, a, e)
  <1>1. s \in Nat /\ i - 1 \in 0..(s - 1) /\ s - 1 \in 0..(s - 1) /\ i # 0
    BY Fields
  <1>2. a \in Addresses /\ n \in Addresses /\ a # n /\ a \in Pointer /\ n \in Pointer
    BY <1>1, Distinct, NodeNotNil DEF Fresh
  <1>3. \A j \in 0..(s - 1) : p[j] \in Addresses /\ p[j] # n /\ (j # i - 1 => p[j] # a)
    BY <1>1, Distinct DEF Fresh
  <1>4. /\ Forth(p, s, l.next) /\ l.next[p[s - 1]] \in Ends(c, l) /\ l.last = Lists!nil
        /\ l.next[a] \in Pointer
    BY <1>1, <1>2, Fields DEF Shape, Path
  <1> HIDE DEF a
  <1>5. /\ m \in ListType /\ m.size = s + 1 /\ m.first = l.first /\ m.last = l.last
        /\ m.next = [l.next EXCEPT ![n] = l.next[a], ![a] = n]
        /\ m.elem = [l.elem EXCEPT ![n] = e]
    <2> DEFINE f == [l.next EXCEPT ![n] = l.next[a], ![a] = n]
               h == [l.elem EXCEPT ![n] = e]
    <2>1. m = [l EXCEPT !.next = f, !.elem = h, !.size = s + 1]
      BY DEF Lists!InsertAfter
    <2>2. f \in [Addresses -> Pointer]
          /\ h \in [Addresses -> ListElements \cup {Lists!NOT_FOUND}] /\ s + 1 \in Nat
      BY <1>1, <1>2, <1>4, Fields
    <2> HIDE DEF f, h
    <2>3. m \in ListType /\ m.size = s + 1 /\ m.first = l.first /\ m.last = l.last
          /\ m.next = f /\ m.elem = h
      BY <2>1, <2>2 DEF ListType
    <2> QED
      BY <2>3 DEF f, h
  <1> HIDE DEF m
  <1>6. /\ m.next[n] = l.next[a] /\ m.next[a] = n
        /\ \A j \in 0..(s - 1) : j # i - 1 => m.next[p[j]] = l.next[p[j]]
    BY <1>2, <1>3, <1>5, Fields
  <1>7. i < s => l.next[a] = p[i]
    <2>1. i < s => i - 1 \in 0..(s - 2) /\ (i - 1) + 1 = i
      BY <1>1
    <2> QED
      BY <1>4, <2>1 DEF Forth, a
  <1>8. JoinForth(p, s, i, n, l.next, m.next)
    <2>1. \A k \in 0..(s - 2) : k \in 0..(s - 1)
      BY <1>1
    <2> QED
      BY <1>6, <1>7, <2>1 DEF JoinForth, a
  <1>9. m.next[IF i = s THEN n ELSE p[s - 1]] \in Ends(c, m)
    <2>1. Ends(c, m) = Ends(c, l)
      BY <1>5 DEF Ends
    <2>2. i = s => a = p[s - 1]
      BY DEF a
    <2>3. i # s => s - 1 # i - 1
      BY <1>1
    <2> QED
      BY <1>1, <1>4, <1>6, <2>1, <2>2, <2>3
  <1>10. Joins(c, l, m, p, i, n)
    BY <1>1, <1>4, <1>5, <1>8, <1>9 DEF Joins
  <1> QED
    BY <1>5, <1>10 DEF m, a, Added

(* add:withElement: of WGSingleList and SingleList. *)
LEMMA SingleAddJoins ==
  ASSUME NEW c \in {"WGSingleList", "SingleList"}, NEW l \in ListType, NEW p, Shape(c, l, p),
         NEW i \in 0..l.size, NEW n, Fresh(p, l.size, n), NEW e \in ListElements
  PROVE  Added(c, l, Lists!SingleAdd(l, n, i, e), p, i, n, e)
  <1> DEFINE s == l.size
             m == Lists!SingleAdd(l, n, i, e)
  <1>1. s \in Nat /\ c \in OneWays /\ c \notin Rings /\ c # "SingleCycleList"
    BY Fields DEF OneWays, Rings
  <1>2. CASE i = 0
    <2>1. /\ n \in Addresses /\ n \in Pointer /\ l.first \in Pointer /\ l.last = Lists!nil
          /\ l.first = IF s = 0 THEN Lists!nil ELSE p[0]
      BY <1>1, NodeNotNil, Fields DEF Fresh, Shape, Path
    <2>2. /\ m \in ListType /\ m.size = s + 1 /\ m.first = n /\ m.last = l.last
          /\ m.next = [l.next EXCEPT ![n] = l.first]
          /\ m.elem = [l.elem EXCEPT ![n] = e]
      <3> DEFINE f == [l.next EXCEPT ![n] = l.first]
                 h == [l.elem EXCEPT ![n] = e]
      <3>1. m = [l EXCEPT !.next = f, !.elem = h, !.first = n, !.size = s + 1]
        BY <1>2 DEF Lists!SingleAdd
      <3>2. f \in [Addresses -> Pointer]
            /\ h \in [Addresses -> ListElements \cup {Lists!NOT_FOUND}] /\ s + 1 \in Nat
        BY <1>1, <2>1, Fields
      <3> HIDE DEF f, h
      <3>3. m \in ListType /\ m.size = s + 1 /\ m.first = n /\ m.last = l.last
            /\ m.next = f /\ m.elem = h
        BY <1>1, <2>1, <3>1, <3>2 DEF ListType
      <3> QED
        BY <3>3 DEF f, h
    <2> HIDE DEF m
    <2>3. m.next[n] = l.first /\ \A j \in 0..(s - 1) : m.next[p[j]] = l.next[p[j]]
      BY <2>1, <2>2, Distinct, Fields DEF Fresh
    <2>4. JoinForth(p, s, 0, n, l.next, m.next)
      BY <1>1, <2>1, <2>3 DEF JoinForth
    <2>5. m.next[IF 0 = s THEN n ELSE p[s - 1]] \in Ends(c, m)
      <3>1. s # 0 => l.next[p[s - 1]] \in Ends(c, l) /\ s - 1 \in 0..(s - 1)
        BY <1>1 DEF Shape
      <3>2. Ends(c, m) = {Lists!nil} /\ Ends(c, l) = {Lists!nil}
        BY <1>1 DEF Ends
      <3> QED
        BY <2>1, <2>3, <3>1, <3>2
    <2>6. Joins(c, l, m, p, i, n)
      BY <1>1, <1>2, <2>1, <2>2, <2>4, <2>5 DEF Joins
    <2> QED
      BY <2>2, <2>6 DEF m, Added
  <1>3. CASE i # 0
    <2>1. i \in 1..s /\ i - 1 \in 0..(s - 1)
      BY <1>1, <1>3
    <2>2. m = Lists!InsertAfter(l, n, p[i - 1], e)
      BY <1>3, <2>1, NodeAt DEF Lists!SingleAdd
    <2> QED
      BY <1>1, <2>1, <2>2, InsertAfterJoins
  <1> QED
    BY <1>2, <1>3

(* add:withElement: of WGSingleCycleList: at the front only of an empty list, where
   the caller knows that the last node is not looked up in the changed list. *)
LEMMA CycleAddJoins ==
  ASSUME NEW c, c = "WGSingleCycleList", NEW l \in ListType, NEW p, Shape(c, l, p),
         NEW i \in 0..l.size, l.size > 0 => i # 0,
         NEW n, Fresh(p, l.size, n), NEW e \in ListElements
  PROVE  Added(c, l, Lists!CycleAdd(l, n, i, e), p, i, n, e)
  <1> DEFINE s == l.size
             m == Lists!CycleAdd(l, n, i, e)
  <1>1. s \in Nat /\ c \in OneWays /\ c \in Rings
    BY Fields DEF OneWays, Rings
  <1>2. CASE i = 0
    <2>1. s = 0 /\ n \in Addresses /\ n \in Pointer /\ l.first \in Pointer /\ l.last = Lists!nil
      BY <1>1, <1>2, NodeNotNil, Fields DEF Fresh, Shape, Path
    <2>2. /\ m \in ListType /\ m.size = s + 1 /\ m.first = n /\ m.last = l.last
          /\ m.next = [l.next EXCEPT ![n] = n]
          /\ m.elem = [l.elem EXCEPT ![n] = e]
      <3> DEFINE f == [l.next EXCEPT ![n] = n]
                 h == [l.elem EXCEPT ![n] = e]
      <3>1. m = [l EXCEPT !.next = f, !.elem = h, !.first = n, !.size = s + 1]
        BY <1>2, <2>1 DEF Lists!CycleAdd
      <3>2. f \in [Addresses -> Pointer]
            /\ h \in [Addresses -> ListElements \cup {Lists!NOT_FOUND}] /\ s + 1 \in Nat
        BY <1>1, <2>1, Fields
      <3> HIDE DEF f, h
      <3>3. m \in ListType /\ m.size = s + 1 /\ m.first = n /\ m.last = l.last
            /\ m.next = f /\ m.elem = h
        BY <1>1, <2>1, <3>1, <3>2 DEF ListType
      <3> QED
        BY <3>3 DEF f, h
    <2> HIDE DEF m
    <2>3. m.next[n] = n
      BY <2>1, <2>2, Fields
    <2>4. JoinForth(p, s, 0, n, l.next, m.next)
      BY <2>1 DEF JoinForth
    <2>5. Ends(c, m) = {n}
      BY <1>1, <2>2 DEF Ends
    <2>6. Joins(c, l, m, p, i, n)
      BY <1>1, <1>2, <2>1, <2>2, <2>4, <2>3, <2>5 DEF Joins
    <2> QED
      BY <2>2, <2>6 DEF m, Added
  <1>3. CASE i # 0
    <2>1. i \in 1..s /\ i - 1 \in 0..(s - 1)
      BY <1>1, <1>3
    <2>2. m = Lists!InsertAfter(l, n, p[i - 1], e)
      BY <1>3, <2>1, NodeAt DEF Lists!CycleAdd
    <2> QED
      BY <1>1, <2>1, <2>2, InsertAfterJoins
  <1> QED
    BY <1>2, <1>3

(* add(val:index:) of SingleCycleList. *)
LEMMA SingleCycleListAddJoins ==
  ASSUME NEW c, c = "SingleCycleList", NEW l \in ListType, NEW p, Shape(c, l, p),
         NEW i \in 0..l.size, NEW n, Fresh(p, l.size, n), NEW e \in ListElements
  PROVE  Added(c, l, Lists!SingleCycleListAdd(l, n, i, e), p, i, n, e)
  <1> DEFINE s == l.size
             m == Lists!SingleCycleListAdd(l, n, i, e)
             b == p[s - 1]
  <1>1. s \in Nat /\ c \in OneWays /\ c \notin Rings
    BY Fields DEF OneWays, Rings
  <1>2. CASE i = 0
    <2>1. /\ n \in Addresses /\ n \in Pointer /\ l.first \in Pointer /\ l.last = Lists!nil
          /\ l.first = IF s = 0 THEN Lists!nil ELSE p[0]
      BY <1>1, NodeNotNil, Fields DEF Fresh, Shape, Path
    <2>2. Ends(c, m) = {m.first, Lists!nil}
      BY <1>1 DEF Ends
    <2>3. CASE s = 0
      <3>1. /\ m \in ListType /\ m.size = s + 1 /\ m.first = n /\ m.last = l.last
            /\ m.next = [l.next EXCEPT ![n] = l.first]
            /\ m.elem = [l.elem EXCEPT ![n] = e]
        <4> DEFINE f == [l.next EXCEPT ![n] = l.first]
                   h == [l.elem EXCEPT ![n] = e]
        <4>1. m = [l EXCEPT !.next = f, !.elem = h, !.first = n, !.size = s + 1]
          BY <1>2, <2>3 DEF Lists!SingleCycleListAdd, Lists!SingleAdd
        <4>2. f \in [Addresses -> Pointer]
              /\ h \in [Addresses -> ListElements \cup {Lists!NOT_FOUND}] /\ s + 1 \in Nat
          BY <1>1, <2>1, Fields
        <4> HIDE DEF f, h
        <4>3. m \in ListType /\ m.size = s + 1 /\ m.first = n /\ m.last = l.last
              /\ m.next = f /\ m.elem = h
          BY <1>1, <2>1, <4>1, <4>2 DEF ListType
        <4> QED
          BY <4>3 DEF f, h
      <3> HIDE DEF m
      <3>2. m.next[n] = Lists!nil
        BY <2>1, <2>3, <3>1, Fields
      <3>3. JoinForth(p, s, 0, n, l.next, m.next)
        BY <2>3 DEF JoinForth
      <3>4. Joins(c, l, m, p, i, n)
        BY <1>1, <1>2, <2>1, <2>2, <2>3, <3>1, <3>2, <3>3 DEF Joins
      <3> QED
        BY <3>1, <3>4 DEF m, Added
    <2>4. CASE s > 0
      <3>1. s - 1 \in 0..(s - 1) /\ b \in Addresses /\ b # n
        BY <1>1, <2>4, Distinct DEF Fresh
      <3>2. Lists!SingleNode(l, s - 1) = b
        BY <3>1, NodeAt
      <3> HIDE DEF b
      <3>3. /\ m \in ListType /\ m.size = s + 1 /\ m.first = n /\ m.last = l.last
            /\ m.next = [l.next EXCEPT ![n] = l.first, ![b] = n]
            /\ m.elem = [l.elem EXCEPT ![n] = e]
        <4> DEFINE f == [l.next EXCEPT ![n] = l.first, ![b] = n]
                   h == [l.elem EXCEPT ![n] = e]
        <4>1. m = [l EXCEPT !.next = f, !.elem = h, !.first = n, !.size = s + 1]
          BY <1>2, <2>4, <3>2 DEF Lists!SingleCycleListAdd, Lists!SingleAdd
        <4>2. f \in [Addresses -> Pointer]
              /\ h \in [Addresses -> ListElements \cup {Lists!NOT_FOUND}] /\ s + 1 \in Nat
          BY <1>1, <2>1, <3>1, Fields
        <4> HIDE DEF f, h
        <4>3. m \in ListType /\ m.size = s + 1 /\ m.first = n /\ m.last = l.last
              /\ m.next = f /\ m.elem = h
          BY <1>1, <2>1, <3>1, <4>1, <4>2 DEF ListType
        <4> QED
          BY <4>3 DEF f, h
      <3> HIDE DEF m
      <3>4. \A j \in 0..(s - 2) : j \in 0..(s - 1) /\ p[j] \in Addresses /\ p[j] # n /\ p[j] # b
        BY <1>1, <3>1, Distinct DEF Fresh, b
      <3>5. /\ m.next[n] = l.first /\ m.next[b] = n
            /\ \A j \in 0..(s - 2) : m.next[p[j]] = l.next[p[j]]
        BY <2>1, <3>1, <3>3, <3>4, Fields
      <3>6. JoinForth(p, s, 0, n, l.next, m.next)
        BY <1>1, <2>1, <2>4, <3>5 DEF JoinForth
      <3>7. m.next[IF 0 = s THEN n ELSE p[s - 1]] \in Ends(c, m)
        BY <2>2, <2>4, <3>3, <3>5 DEF b
      <3>8. Joins(c, l, m, p, i, n)
        BY <1>1, <1>2, <2>1, <3>3, <3>6, <3>7 DEF Joins
      <3> QED
        BY <3>3, <3>8 DEF m, Added
    <2> QED
      BY <1>1, <2>3, <2>4
  <1>3. CASE i # 0
    <2>1. i \in 1..s /\ i - 1 \in 0..(s - 1)
      BY <1>1, <1>3
    <2>2. m = Lists!InsertAfter(l, n, p[i - 1], e)
      BY <1>3, <2>1, NodeAt DEF Lists!SingleCycleListAdd, Lists!SingleAdd
    <2> QED
      BY <1>1, <2>1, <2>2, InsertAfterJoins
  <1> QED
    BY <1>2, <1>3

(* The neighbours a new node gets at i in a list linked both ways. *)
Before(c, p, s, i, n) ==
  IF i > 0 THEN p[i - 1] ELSE IF c \notin Rings THEN Lists!nil ELSE IF s = 0 THEN n ELSE p[s - 1]
After(c, p, s, i, n) ==
  IF i < s THEN p[i] ELSE IF c \notin Rings THEN Lists!nil ELSE IF s = 0 THEN n ELSE p[0]

Between(l, m, a, n, b) ==
  /\ m.next[n] = b /\ m.prev[n] = a
  /\ \A x \in Addresses : x # n => /\ m.next[x] = IF x = a THEN n ELSE l.next[x]
                               /\ m.prev[x] = IF x = b THEN n ELSE l.prev[x]

(* A node between its neighbours joins a list linked both ways: of the assignments of
   add:withElement: only their outcome counts, not the branch that made them. *)
LEMMA TwoWayJoins ==
  ASSUME NEW c, c \notin OneWays, NEW l \in ListType, NEW p, Shape(c, l, p),
         NEW i \in 0..l.size, NEW n, Fresh(p, l.size, n), NEW m,
         m.size = l.size + 1,
         m.first = (IF i = 0 THEN n ELSE l.first),
         m.last = (IF i = l.size THEN n ELSE l.last),
         Between(l, m, Before(c, p, l.size, i, n), n, After(c, p, l.size, i, n))
  PROVE  Joins(c, l, m, p, i, n)
  <1> DEFINE s == l.size
             a == Before(c, p, s, i, n)
             b == After(c, p, s, i, n)
             ring == c \in Rings
  <1>1. s \in Nat /\ c # "SingleCycleList"
    BY Fields DEF OneWays
  <1>2. \A j \in 0..(s - 1) : p[j] \in Addresses /\ p[j] # n /\ p[j] # Lists!nil
    BY Distinct DEF Fresh
  <1>3. \A j, k \in 0..(s - 1) : j # k => p[j] # p[k]
    BY Distinct
  <1>4. /\ m.next[n] = b /\ m.prev[n] = a
        /\ \A j \in 0..(s - 1) : /\ m.next[p[j]] = IF p[j] = a THEN n ELSE l.next[p[j]]
                                 /\ m.prev[p[j]] = IF p[j] = b THEN n ELSE l.prev[p[j]]
    BY <1>2 DEF Between
  <1>5. /\ s > 0 => l.first = p[0] /\ l.last = p[s - 1]
                    /\ l.next[p[s - 1]] = (IF ring THEN p[0] ELSE Lists!nil)
                    /\ l.prev[p[0]] = (IF ring THEN p[s - 1] ELSE Lists!nil)
    <2>1. Ends(c, l) = IF ring THEN {l.first} ELSE {Lists!nil}
      BY <1>1 DEF Ends
    <2> QED
      BY <1>1, <2>1 DEF Shape, Path, BothWays
  <1>6. ASSUME NEW k \in 0..(s - 1), k # i - 1, ~(ring /\ i = 0 /\ k = s - 1) PROVE p[k] # a
    <2>1. CASE i > 0
      BY <1>1, <1>3, <1>6, <2>1 DEF Before
    <2>2. CASE ~(i > 0)
      <3>1. i = 0 /\ s # 0 /\ s - 1 \in 0..(s - 1)
        BY <1>1, <2>2
      <3> QED
        BY <1>2, <1>3, <1>6, <2>2, <3>1 DEF Before
    <2> QED
      BY <2>1, <2>2
  <1>7. ASSUME NEW k \in 0..(s - 1), k # i, ~(ring /\ i = s /\ k = 0) PROVE p[k] # b
    <2>1. CASE i < s
      BY <1>1, <1>3, <1>7, <2>1 DEF After
    <2>2. CASE ~(i < s)
      <3>1. i = s /\ s # 0 /\ 0 \in 0..(s - 1)
        BY <1>1, <2>2
      <3> QED
        BY <1>2, <1>3, <1>7, <2>2, <3>1 DEF After
    <2> QED
      BY <2>1, <2>2
  <1>8. i > 0 => a = p[i - 1] /\ i - 1 \in 0..(s - 1)
    BY <1>1 DEF Before
  <1>9. i < s => b = p[i] /\ i \in 0..(s - 1)
    BY <1>1 DEF After
  <1>10. i = 0 => a = IF ~ring THEN Lists!nil ELSE IF s = 0 THEN n ELSE p[s - 1]
    BY DEF Before
  <1>11. i = s => b = IF ~ring THEN Lists!nil ELSE IF s = 0 THEN n ELSE p[0]
    BY DEF After
  <1>12. Ends(c, m) = IF ring THEN {m.first} ELSE {Lists!nil}
    BY <1>1 DEF Ends
  <1> HIDE DEF a, b, ring, s
  <1>13. JoinForth(p, s, i, n, l.next, m.next)
    <2>1. ASSUME NEW k \in 0..(s - 2), k # i - 1 PROVE m.next[p[k]] = l.next[p[k]]
      <3>1. k \in 0..(s - 1) /\ k # s - 1
        BY <1>1
      <3> QED
        BY <1>4, <1>6, <2>1, <3>1
    <2> QED
      BY <1>4, <1>8, <1>9, <2>1 DEF JoinForth
  <1>14. JoinBack(p, s, i, n, l.prev, m.prev)
    <2>1. ASSUME NEW k \in 1..(s - 1), k # i PROVE m.prev[p[k]] = l.prev[p[k]]
      <3>1. k \in 0..(s - 1) /\ k # 0
        BY <1>1
      <3> QED
        BY <1>4, <1>7, <2>1, <3>1
    <2> QED
      BY <1>4, <1>8, <1>9, <2>1 DEF JoinBack
  <1>15. m.next[IF i = s THEN n ELSE p[s - 1]] \in Ends(c, m)
    <2>1. CASE i = s
      BY <1>1, <1>4, <1>5, <1>11, <1>12, <2>1 DEF s
    <2>2. CASE i # s
      <3>1. s - 1 \in 0..(s - 1) /\ s > 0 /\ s - 1 # i - 1
        BY <1>1, <2>2 DEF s
      <3>2. CASE ring /\ i = 0
        BY <1>4, <1>10, <1>12, <2>2, <3>1, <3>2
      <3>3. CASE ~(ring /\ i = 0)
        <4>1. m.next[p[s - 1]] = l.next[p[s - 1]]
          BY <1>4, <1>6, <3>1, <3>3
        <4> QED
          BY <1>5, <1>12, <2>2, <3>1, <3>3, <4>1
      <3> QED
        BY <3>2, <3>3
    <2> QED
      BY <2>1, <2>2
  <1>16. m.prev[IF i = 0 THEN n ELSE p[0]] = IF ring THEN m.last ELSE Lists!nil
    <2>1. CASE i = 0
      BY <1>1, <1>4, <1>5, <1>10, <2>1 DEF s
    <2>2. CASE i # 0
      <3>1. 0 \in 0..(s - 1) /\ s > 0
        BY <1>1, <2>2 DEF s
      <3>2. CASE ring /\ i = s
        BY <1>4, <1>11, <2>2, <3>1, <3>2 DEF s
      <3>3. CASE ~(ring /\ i = s)
        <4>1. m.prev[p[0]] = l.prev[p[0]]
          BY <1>4, <1>7, <2>2, <3>1, <3>3
        <4> QED
          BY <1>5, <2>2, <3>1, <3>3, <4>1 DEF s
      <3> QED
        BY <3>2, <3>3
    <2> QED
      BY <2>1, <2>2
  <1> QED
    BY <1>13, <1>14, <1>15, <1>16 DEF Joins, s, ring

(* What the single assignments of the methods do. *)
LEMMA NewFields ==
  ASSUME NEW l \in ListType, NEW n \in Addresses, NEW a \in Pointer, NEW b \in Pointer,
         NEW e \in ListElements
  PROVE  LET m == Lists!NewNode(l, n, a, e, b)
         IN  /\ m \in ListType /\ m.first = l.first /\ m.last = l.last /\ m.size = l.size
             /\ m.next = [l.next EXCEPT ![n] = b] /\ m.prev = [l.prev EXCEPT ![n] = a]
             /\ m.elem = [l.elem EXCEPT ![n] = e]
  <1> DEFINE f == [l.next EXCEPT ![n] = b]
             g == [l.prev EXCEPT ![n] = a]
             h == [l.elem EXCEPT ![n] = e]
             m == Lists!NewNode(l, n, a, e, b)
  <1>1. m = [l EXCEPT !.prev = g, !.elem = h, !.next = f]
    BY DEF Lists!NewNode
  <1>2. f \in [Addresses -> Pointer] /\ g \in [Addresses -> Pointer]
        /\ h \in [Addresses -> ListElements \cup {Lists!NOT_FOUND}]
    BY Fields
  <1> HIDE DEF f, g, h, m
  <1>3. /\ m \in ListType /\ m.first = l.first /\ m.last = l.last /\ m.size = l.size
        /\ m.next = f /\ m.prev = g /\ m.elem = h
    BY <1>1, <1>2 DEF ListType
  <1> QED
    BY <1>3 DEF f, g, h, m

(* list.first = x *)
LEMMA PutFirst ==
  ASSUME NEW l \in ListType, NEW x \in Pointer
  PROVE  LET m == [l EXCEPT !.first = x]
         IN  /\ m \in ListType /\ m.first = x /\ m.last = l.last /\ m.size = l.size
             /\ m.next = l.next /\ m.prev = l.prev /\ m.elem = l.elem
  BY DEF ListType

(* n.next = x *)
LEMMA PutNext ==
  ASSUME NEW l \in ListType, NEW n \in Addresses, NEW x \in Pointer
  PROVE  LET m == [l EXCEPT !.next[n] = x]
         IN  /\ m \in ListType /\ m.first = l.first /\ m.last = l.last /\ m.size = l.size
             /\ m.next = [l.next EXCEPT ![n] = x] /\ m.prev = l.prev /\ m.elem = l.elem
  <1> DEFINE f == [l.next EXCEPT ![n] = x]
             m == [l EXCEPT !.next = f]
  <1>1. f \in [Addresses -> Pointer]
    BY Fields
  <1> HIDE DEF f
  <1>2. /\ m \in ListType /\ m.first = l.first /\ m.last = l.last /\ m.size = l.size
        /\ m.next = f /\ m.prev = l.prev /\ m.elem = l.elem
    BY <1>1 DEF ListType
  <1> QED
    BY <1>2 DEF f

(* n.prev = x *)
LEMMA PutPrev ==
  ASSUME NEW l \in ListType, NEW n \in Addresses, NEW x \in Pointer
  PROVE  LET m == [l EXCEPT !.prev[n] = x]
         IN  /\ m \in ListType /\ m.first = l.first /\ m.last = l.last /\ m.size = l.size
             /\ m.next = l.next /\ m.prev = [l.prev EXCEPT ![n] = x] /\ m.elem = l.elem
  <1> DEFINE f == [l.prev EXCEPT ![n] = x]
             m == [l EXCEPT !.prev = f]
  <1>1. f \in [Addresses -> Pointer]
    BY Fields
  <1> HIDE DEF f
  <1>2. /\ m \in ListType /\ m.first = l.first /\ m.last = l.last /\ m.size = l.size
        /\ m.next = l.next /\ m.prev = f /\ m.elem = l.elem
    BY <1>1 DEF ListType
  <1> QED
    BY <1>2 DEF f

(* list.last = x, where the method sets it, and list.size = y *)
LEMMA PutSize ==
  ASSUME NEW l \in ListType, NEW s \in Nat
  PROVE  LET m == [l EXCEPT !.size = s]
         IN  /\ m \in ListType /\ m.first = l.first /\ m.last = l.last /\ m.size = s
             /\ m.next = l.next /\ m.prev = l.prev /\ m.elem = l.elem
  BY DEF ListType

(* add:withElement: of WGDoubleList and what is built on it. *)
LEMMA DoubleAddJoins ==
  ASSUME NEW c, c \notin OneWays, c \notin Rings, NEW l \in ListType, NEW p, Shape(c, l, p),
         NEW i \in 0..l.size, NEW n, Fresh(p, l.size, n), NEW e \in ListElements
  PROVE  Added(c, l, Lists!DoubleAdd(l, n, i, e), p, i, n, e)
  <1> DEFINE s == l.size
             m == Lists!DoubleAdd(l, n, i, e)
  <1>1. s \in Nat /\ s + 1 \in Nat /\ n \in Addresses /\ n \in Pointer /\ n # Lists!nil
        /\ Lists!nil \in Pointer
    BY Fields, NodeNotNil DEF Fresh, Pointer
  <1>2. \A j \in 0..(s - 1) : p[j] \in Addresses /\ p[j] # n /\ p[j] # Lists!nil /\ p[j] \in Pointer
    BY Distinct DEF Fresh
  <1>3. l.last = (IF s = 0 THEN Lists!nil ELSE p[s - 1]) /\ l.first = (IF s = 0 THEN Lists!nil ELSE p[0])
    BY DEF Shape, BothWays, Path
  <1>3a. l.last \in Pointer
    BY Fields
  <1>4. CASE i = s
    <2> DEFINE m0 == Lists!NewNode(l, n, l.last, e, Lists!nil)
               m1 == [m0 EXCEPT !.last = n, !.size = @ + 1]
    <2>1. /\ m0 \in ListType /\ m0.first = l.first /\ m0.size = s
          /\ m0.next = [l.next EXCEPT ![n] = Lists!nil] /\ m0.prev = [l.prev EXCEPT ![n] = l.last]
          /\ m0.elem = [l.elem EXCEPT ![n] = e]
      BY <1>1, <1>3a, NewFields
    <2>2. m = IF l.last = Lists!nil THEN [m1 EXCEPT !.first = n] ELSE [m1 EXCEPT !.next[l.last] = n]
      BY <1>4 DEF Lists!DoubleAdd
    <2> HIDE DEF m0
    <2>3. /\ m1 \in ListType /\ m1.first = l.first /\ m1.last = n /\ m1.size = s + 1
          /\ m1.next = m0.next /\ m1.prev = m0.prev /\ m1.elem = m0.elem
      <3>1. m1 = [m0 EXCEPT !.last = n, !.size = s + 1]
        BY <2>1
      <3> HIDE DEF m1
      <3> QED
        BY <1>1, <2>1, <3>1 DEF ListType
    <2> HIDE DEF m1, m
    <2>4. CASE s = 0
      <3>1. m = [m1 EXCEPT !.first = n]
        BY <1>3, <2>2, <2>4
      <3>2. /\ m \in ListType /\ m.first = n /\ m.last = n /\ m.size = s + 1
            /\ m.next = m0.next /\ m.prev = m0.prev /\ m.elem = m0.elem
        BY <1>1, <2>3, <3>1, PutFirst
      <3>3. Between(l, m, Lists!nil, n, Lists!nil)
        BY <1>1, <1>3, <2>1, <2>4, <3>2, Fields, ListAssumption DEF Between, Lists!nil
      <3>4. Before(c, p, s, i, n) = Lists!nil /\ After(c, p, s, i, n) = Lists!nil
        BY <1>4, <2>4 DEF Before, After
      <3>5. Joins(c, l, m, p, i, n)
        BY <1>4, <2>4, <3>2, <3>3, <3>4, TwoWayJoins
      <3> QED
        BY <2>1, <3>2, <3>5 DEF Added, m
    <2>5. CASE s # 0
      <3> DEFINE b == p[s - 1]
      <3>1. s - 1 \in 0..(s - 1) /\ b \in Addresses /\ b # n /\ b # Lists!nil /\ b \in Pointer
            /\ l.last = b
        BY <1>1, <1>2, <1>3, <2>5
      <3>2. m = [m1 EXCEPT !.next[b] = n]
        BY <2>2, <3>1
      <3>3. Before(c, p, s, i, n) = b /\ After(c, p, s, i, n) = Lists!nil
        BY <1>1, <1>4, <2>5 DEF Before, After
      <3> HIDE DEF b
      <3>4. /\ m \in ListType /\ m.first = l.first /\ m.last = n /\ m.size = s + 1
            /\ m.next = [m0.next EXCEPT ![b] = n] /\ m.prev = m0.prev /\ m.elem = m0.elem
        BY <1>1, <2>3, <3>1, <3>2, PutNext
      <3>5. Between(l, m, b, n, Lists!nil)
        BY <1>1, <2>1, <3>1, <3>4, Fields, ListAssumption DEF Between, Lists!nil
      <3>6. Joins(c, l, m, p, i, n)
        BY <1>4, <2>5, <3>4, <3>5, <3>3, TwoWayJoins
      <3> QED
        BY <2>1, <3>4, <3>6 DEF Added, m
    <2> QED
      BY <2>4, <2>5
  <1>5. CASE i # s
    <2> DEFINE q == p[i]
               a == l.prev[q]
               m0 == Lists!NewNode(l, n, a, e, q)
               m1 == [m0 EXCEPT !.prev[q] = n]
               m2 == [m1 EXCEPT !.size = m1.size + 1]
    <2>1. i \in 0..(s - 1) /\ q \in Addresses /\ q # n /\ q \in Pointer /\ a \in Pointer
          /\ Lists!DoubleNode(l, i) = q
      BY <1>1, <1>2, <1>5, NodeAt, Fields
    <2>2. a = IF i = 0 THEN Lists!nil ELSE p[i - 1]
      <3>1. i # 0 => i \in 1..(s - 1)
        BY <1>1, <2>1
      <3> QED
        BY <1>1, <1>5, <2>1, <3>1 DEF Shape, BothWays, Back
    <2>3. m = IF a = Lists!nil THEN [m2 EXCEPT !.first = n] ELSE [m2 EXCEPT !.next[a] = n]
      BY <1>5, <2>1 DEF Lists!DoubleAdd, Lists!NewNode
    <2>4. Before(c, p, s, i, n) = a /\ After(c, p, s, i, n) = q
      BY <1>1, <2>1, <2>2 DEF Before, After
    <2> HIDE DEF a, q
    <2>5. /\ m0 \in ListType /\ m0.first = l.first /\ m0.last = l.last /\ m0.size = s
          /\ m0.next = [l.next EXCEPT ![n] = q] /\ m0.prev = [l.prev EXCEPT ![n] = a]
          /\ m0.elem = [l.elem EXCEPT ![n] = e]
      BY <1>1, <2>1, NewFields
    <2> HIDE DEF m0
    <2>6. /\ m1 \in ListType /\ m1.first = l.first /\ m1.last = l.last /\ m1.size = s
          /\ m1.next = m0.next /\ m1.prev = [m0.prev EXCEPT ![q] = n] /\ m1.elem = m0.elem
      BY <1>1, <2>1, <2>5, PutPrev
    <2> HIDE DEF m1
    <2>7. /\ m2 \in ListType /\ m2.first = l.first /\ m2.last = l.last /\ m2.size = s + 1
          /\ m2.next = m1.next /\ m2.prev = m1.prev /\ m2.elem = m1.elem
      BY <1>1, <2>6, PutSize
    <2> HIDE DEF m2, m
    <2>8. CASE i = 0
      <3>1. a = Lists!nil /\ m = [m2 EXCEPT !.first = n]
        BY <2>2, <2>3, <2>8
      <3>2. /\ m \in ListType /\ m.first = n /\ m.last = l.last /\ m.size = s + 1
            /\ m.next = m0.next /\ m.prev = m1.prev /\ m.elem = m0.elem
        BY <1>1, <2>6, <2>7, <3>1, PutFirst
      <3>3. Between(l, m, a, n, q)
        BY <1>1, <2>1, <2>5, <2>6, <3>1, <3>2, Fields, ListAssumption DEF Between, Lists!nil
      <3>4. Joins(c, l, m, p, i, n)
        BY <1>5, <2>4, <2>8, <3>2, <3>3, TwoWayJoins
      <3> QED
        BY <2>5, <3>2, <3>4 DEF Added, m
    <2>9. CASE i # 0
      <3>1. i - 1 \in 0..(s - 1)
        BY <1>1, <2>1, <2>9
      <3>2. a \in Addresses /\ a # n /\ m = [m2 EXCEPT !.next[a] = n]
        BY <1>2, <2>2, <2>3, <2>9, <3>1
      <3>3. /\ m \in ListType /\ m.first = l.first /\ m.last = l.last /\ m.size = s + 1
            /\ m.next = [m0.next EXCEPT ![a] = n] /\ m.prev = m1.prev /\ m.elem = m0.elem
        BY <1>1, <2>6, <2>7, <3>2, PutNext
      <3>4. Between(l, m, a, n, q)
        BY <1>1, <2>1, <2>5, <2>6, <3>2, <3>3, Fields DEF Between
      <3>5. Joins(c, l, m, p, i, n)
        BY <1>5, <2>4, <2>9, <3>3, <3>4, TwoWayJoins
      <3> QED
        BY <2>5, <3>3, <3>5 DEF Added, m
    <2> QED
      BY <2>8, <2>9
  <1> QED
    BY <1>4, <1>5

(* add:withElement: of WGDoubleCycleList and DoubleCycleList. *)
LEMMA RingAddJoins ==
  ASSUME NEW c, c \notin OneWays, c \in Rings, NEW l \in ListType, NEW p, Shape(c, l, p),
         NEW i \in 0..l.size, NEW n, Fresh(p, l.size, n), NEW e \in ListElements
  PROVE  Added(c, l, Lists!RingAdd(l, n, i, e), p, i, n, e)
  <1> DEFINE s == l.size
             m == Lists!RingAdd(l, n, i, e)
  <1>1. s \in Nat /\ s + 1 \in Nat /\ n \in Addresses /\ n \in Pointer /\ n # Lists!nil
    BY Fields, NodeNotNil DEF Fresh, Pointer
  <1>2. \A j \in 0..(s - 1) : p[j] \in Addresses /\ p[j] # n /\ p[j] # Lists!nil /\ p[j] \in Pointer
    BY Distinct DEF Fresh
  <1>3. l.last = (IF s = 0 THEN Lists!nil ELSE p[s - 1]) /\ l.first = (IF s = 0 THEN Lists!nil ELSE p[0])
    BY DEF Shape, BothWays, Path
  <1>4. l.last \in Pointer /\ l.first \in Pointer
    BY Fields
  <1>5. CASE i = s
    <2> DEFINE m0 == Lists!NewNode(l, n, l.last, e, l.first)
               m1 == [m0 EXCEPT !.last = n, !.size = @ + 1]
    <2>1. /\ m0 \in ListType /\ m0.first = l.first /\ m0.size = s
          /\ m0.next = [l.next EXCEPT ![n] = l.first] /\ m0.prev = [l.prev EXCEPT ![n] = l.last]
          /\ m0.elem = [l.elem EXCEPT ![n] = e]
      BY <1>1, <1>4, NewFields
    <2>2. m = IF l.last = Lists!nil THEN [m1 EXCEPT !.first = n, !.next[n] = n, !.prev[n] = n]
              ELSE [m1 EXCEPT !.next[l.last] = n, !.prev[l.first] = n]
      BY <1>5 DEF Lists!RingAdd
    <2> HIDE DEF m0
    <2>3. /\ m1 \in ListType /\ m1.first = l.first /\ m1.last = n /\ m1.size = s + 1
          /\ m1.next = m0.next /\ m1.prev = m0.prev /\ m1.elem = m0.elem
      <3>1. m1 = [m0 EXCEPT !.last = n, !.size = s + 1]
        BY <2>1
      <3> HIDE DEF m1
      <3> QED
        BY <1>1, <2>1, <3>1 DEF ListType
    <2> HIDE DEF m1, m
    <2>4. CASE s = 0
      <3> DEFINE m2 == [m1 EXCEPT !.first = n]
                 m3 == [m2 EXCEPT !.next[n] = n]
      <3>1. m = [m3 EXCEPT !.prev[n] = n]
        BY <1>3, <2>2, <2>4
      <3>2. /\ m2 \in ListType /\ m2.first = n /\ m2.last = n /\ m2.size = s + 1
            /\ m2.next = m0.next /\ m2.prev = m0.prev /\ m2.elem = m0.elem
        BY <1>1, <2>3, PutFirst
      <3> HIDE DEF m2
      <3>3. /\ m3 \in ListType /\ m3.first = n /\ m3.last = n /\ m3.size = s + 1
            /\ m3.next = [m0.next EXCEPT ![n] = n] /\ m3.prev = m0.prev /\ m3.elem = m0.elem
        BY <1>1, <3>2, PutNext
      <3> HIDE DEF m3
      <3>4. /\ m \in ListType /\ m.first = n /\ m.last = n /\ m.size = s + 1
            /\ m.next = [m0.next EXCEPT ![n] = n] /\ m.prev = [m0.prev EXCEPT ![n] = n]
            /\ m.elem = m0.elem
        BY <1>1, <3>1, <3>3, PutPrev
      <3>5. Between(l, m, n, n, n)
        BY <1>1, <2>1, <3>4, Fields DEF Between
      <3>6. Before(c, p, s, i, n) = n /\ After(c, p, s, i, n) = n
        BY <1>5, <2>4 DEF Before, After
      <3>7. Joins(c, l, m, p, i, n)
        BY <1>5, <2>4, <3>4, <3>5, <3>6, TwoWayJoins
      <3> QED
        BY <2>1, <3>4, <3>7 DEF Added, m
    <2>5. CASE s # 0
      <3> DEFINE a == p[s - 1]
                 b == p[0]
                 m2 == [m1 EXCEPT !.next[a] = n]
      <3>1. /\ s - 1 \in 0..(s - 1) /\ 0 \in 0..(s - 1) /\ a \in Addresses /\ a # n /\ a # Lists!nil
            /\ b \in Addresses /\ b # n /\ l.last = a /\ l.first = b
        BY <1>1, <1>2, <1>3, <2>5
      <3>2. m = [m2 EXCEPT !.prev[b] = n]
        BY <2>2, <3>1
      <3>3. Before(c, p, s, i, n) = a /\ After(c, p, s, i, n) = b
        BY <1>1, <1>5, <2>5 DEF Before, After
      <3> HIDE DEF a, b
      <3>4. /\ m2 \in ListType /\ m2.first = l.first /\ m2.last = n /\ m2.size = s + 1
            /\ m2.next = [m0.next EXCEPT ![a] = n] /\ m2.prev = m0.prev /\ m2.elem = m0.elem
        BY <1>1, <2>3, <3>1, PutNext
      <3> HIDE DEF m2
      <3>5. /\ m \in ListType /\ m.first = l.first /\ m.last = n /\ m.size = s + 1
            /\ m.next = [m0.next EXCEPT ![a] = n] /\ m.prev = [m0.prev EXCEPT ![b] = n]
            /\ m.elem = m0.elem
        BY <1>1, <3>1, <3>2, <3>4, PutPrev
      <3>6. Between(l, m, a, n, b)
        BY <1>1, <2>1, <3>1, <3>5, Fields DEF Between
      <3>7. Joins(c, l, m, p, i, n)
        BY <1>5, <2>5, <3>3, <3>5, <3>6, TwoWayJoins
      <3> QED
        BY <2>1, <3>5, <3>7 DEF Added, m
    <2> QED
      BY <2>4, <2>5
  <1>6. CASE i # s
    <2> DEFINE q == p[i]
               a == l.prev[q]
               m0 == Lists!NewNode(l, n, a, e, q)
               m1 == [m0 EXCEPT !.prev[q] = n]
               m2 == [m1 EXCEPT !.size = @ + 1]
               m3 == [m2 EXCEPT !.next[a] = n]
    <2>1. i \in 0..(s - 1) /\ q \in Addresses /\ q # n /\ q \in Pointer /\ a \in Pointer
          /\ Lists!DoubleNode(l, i) = q
      BY <1>1, <1>2, <1>6, NodeAt, Fields
    <2>2. a = (IF i = 0 THEN p[s - 1] ELSE p[i - 1]) /\ a \in Addresses /\ a # n
      <3>1. (i # 0 => i \in 1..(s - 1) /\ i - 1 \in 0..(s - 1)) /\ s - 1 \in 0..(s - 1) /\ s > 0
        BY <1>1, <2>1
      <3>2. a = IF i = 0 THEN p[s - 1] ELSE p[i - 1]
        BY <3>1 DEF Shape, BothWays, Back
      <3> QED
        BY <1>2, <3>1, <3>2
    <2>3. m = IF i = 0 THEN [m3 EXCEPT !.first = n] ELSE m3
      BY <1>6, <2>1 DEF Lists!RingAdd, Lists!NewNode
    <2>4. Before(c, p, s, i, n) = a /\ After(c, p, s, i, n) = q
      BY <1>1, <2>1, <2>2 DEF Before, After
    <2> HIDE DEF a, q
    <2>5. /\ m0 \in ListType /\ m0.first = l.first /\ m0.last = l.last /\ m0.size = s
          /\ m0.next = [l.next EXCEPT ![n] = q] /\ m0.prev = [l.prev EXCEPT ![n] = a]
          /\ m0.elem = [l.elem EXCEPT ![n] = e]
      BY <1>1, <2>1, NewFields
    <2> HIDE DEF m0
    <2>6. /\ m1 \in ListType /\ m1.first = l.first /\ m1.last = l.last /\ m1.size = s
          /\ m1.next = m0.next /\ m1.prev = [m0.prev EXCEPT ![q] = n] /\ m1.elem = m0.elem
      BY <1>1, <2>1, <2>5, PutPrev
    <2> HIDE DEF m1
    <2>7. /\ m2 \in ListType /\ m2.first = l.first /\ m2.last = l.last /\ m2.size = s + 1
          /\ m2.next = m1.next /\ m2.prev = m1.prev /\ m2.elem = m1.elem
      BY <1>1, <2>6, PutSize
    <2> HIDE DEF m2
    <2>8. /\ m3 \in ListType /\ m3.first = l.first /\ m3.last = l.last /\ m3.size = s + 1
          /\ m3.next = [m0.next EXCEPT ![a] = n] /\ m3.prev = m1.prev /\ m3.elem = m0.elem
      BY <1>1, <2>2, <2>6, <2>7, PutNext
    <2> HIDE DEF m3, m
    <2>9. /\ m \in ListType /\ m.first = (IF i = 0 THEN n ELSE l.first) /\ m.last = l.last
          /\ m.size = s + 1 /\ m.next = m3.next /\ m.prev = m3.prev /\ m.elem = m0.elem
      BY <1>1, <2>3, <2>8, PutFirst
    <2>10. Between(l, m, a, n, q)
      BY <1>1, <2>1, <2>2, <2>5, <2>6, <2>8, <2>9, Fields DEF Between
    <2>11. Joins(c, l, m, p, i, n)
      BY <1>6, <2>4, <2>9, <2>10, TwoWayJoins
    <2> QED
      BY <2>5, <2>9, <2>11 DEF Added, m
  <1> QED
    BY <1>5, <1>6

--------------------------------------------------------------------------------
(***************************************************************************)
(* remove: and removeNode:                                                  *)
(***************************************************************************)
(* m is l without the node at i. *)
Removed(c, l, m, p, i) == m \in ListType /\ Leaves(c, l, m, p, i) /\ m.elem = l.elem

(* What remove: does behind the node a of a list linked one way. *)
Bypass(l, a) == [l EXCEPT !.next[a] = l.next[l.next[a]], !.size = @ - 1]

(* remove: behind the node at i - 1 of a list linked one way. *)
LEMMA SkipLeaves ==
  ASSUME NEW c \in OneWays, NEW l \in ListType, NEW p, Shape(c, l, p),
         NEW i \in 1..(l.size - 1)
  PROVE  Removed(c, l, Bypass(l, p[i - 1]), p, i)
  <1> DEFINE s == l.size
             a == p[i - 1]
             v == l.next[l.next[a]]
             f == [l.next EXCEPT ![a] = v]
             m == Bypass(l, a)
  <1>1. s \in Nat /\ s > 1 /\ s - 1 \in Nat /\ i - 1 \in 0..(s - 1) /\ i - 1 \in 0..(s - 2)
        /\ i \in 0..(s - 1) /\ (i - 1) + 1 = i
    BY Fields
  <1>2. a \in Addresses /\ \A j \in 0..(s - 1) : p[j] \in Addresses /\ (j # i - 1 => p[j] # a)
    BY <1>1, Distinct
  <1>3. /\ Forth(p, s, l.next) /\ l.next[p[s - 1]] \in Ends(c, l) /\ l.last = Lists!nil
        /\ l.first = p[0]
    BY <1>1 DEF Shape, Path
  <1>4. v = l.next[p[i]] /\ v \in Pointer
    <2>1. l.next[a] = p[i]
      BY <1>1, <1>3 DEF Forth
    <2> QED
      BY <1>1, <1>2, <2>1, Fields
  <1>5. f \in [Addresses -> Pointer] /\ f[a] = v
        /\ \A j \in 0..(s - 1) : j # i - 1 => f[p[j]] = l.next[p[j]]
    <2> HIDE DEF a, v
    <2> QED
      BY <1>2, <1>4, Fields
  <1>6. m = [l EXCEPT !.next = f, !.size = s - 1]
    BY DEF Bypass
  <1>7. i < s - 1 => v = p[i + 1]
    <2>1. i < s - 1 => i \in 0..(s - 2)
      BY <1>1
    <2> QED
      BY <1>3, <1>4, <2>1 DEF Forth
  <1> HIDE DEF f, v, m
  <1>8. /\ m \in ListType /\ m.size = s - 1 /\ m.first = l.first /\ m.last = l.last
        /\ m.next = f /\ m.elem = l.elem
    BY <1>1, <1>5, <1>6 DEF ListType
  <1>9. SkipForth(p, s, i, l.next, m.next)
    <2>1. \A k \in 0..(s - 2) : k \in 0..(s - 1)
      BY <1>1
    <2> QED
      BY <1>5, <1>7, <1>8, <2>1 DEF SkipForth
  <1>10. m.next[IF i = s - 1 THEN p[s - 2] ELSE p[s - 1]] \in Ends(c, m)
    <2>1. Ends(c, m) = Ends(c, l)
      BY <1>8 DEF Ends
    <2>2. CASE i = s - 1
      <3>1. i - 1 = s - 2
        BY <1>1, <2>2
      <3> QED
        BY <1>3, <1>4, <1>5, <1>8, <2>1, <2>2, <3>1
    <2>3. CASE i # s - 1
      <3>1. s - 1 # i - 1 /\ s - 1 \in 0..(s - 1)
        BY <1>1
      <3> QED
        BY <1>3, <1>5, <1>8, <2>1, <2>3, <3>1
    <2> QED
      BY <2>2, <2>3
  <1>11. i # 0 /\ s # 1
    BY <1>1
  <1>12. Leaves(c, l, m, p, i)
    BY <1>3, <1>8, <1>9, <1>10, <1>11 DEF Leaves
  <1> QED
    BY <1>8, <1>12 DEF Removed, m

(* remove: of WGSingleList and SingleList. *)
LEMMA SingleRemoveLeaves ==
  ASSUME NEW c \in {"WGSingleList", "SingleList"}, NEW l \in ListType, NEW p, Shape(c, l, p),
         NEW i \in 0..(l.size - 1)
  PROVE  Removed(c, l, Lists!SingleRemove(l, i), p, i)
  <1> DEFINE s == l.size
             m == Lists!SingleRemove(l, i)
  <1>1. s \in Nat /\ s > 0 /\ s - 1 \in Nat /\ c \in OneWays /\ c \notin Rings
        /\ c # "SingleCycleList"
    BY Fields DEF OneWays, Rings
  <1>2. CASE i = 0
    <2> DEFINE b == l.next[l.first]
    <2>1. l.first = p[0] /\ p[0] \in Addresses /\ b \in Pointer /\ l.last = Lists!nil
      BY <1>1, Distinct, Fields DEF Shape, Path
    <2>2. b = IF s = 1 THEN Lists!nil ELSE p[1]
      <3>1. Ends(c, l) = {Lists!nil}
        BY <1>1 DEF Ends
      <3>2. s = 1 => b = Lists!nil
        BY <1>1, <2>1, <3>1 DEF Shape
      <3>3. s # 1 => 0 \in 0..(s - 2) /\ 0 + 1 = 1
        BY <1>1
      <3>4. s # 1 => b = p[1]
        BY <2>1, <3>3 DEF Shape, Path, Forth
      <3> QED
        BY <3>2, <3>4
    <2>3. m = [l EXCEPT !.first = b, !.size = s - 1]
      BY <1>2 DEF Lists!SingleRemove
    <2> HIDE DEF b, m
    <2>4. /\ m \in ListType /\ m.size = s - 1 /\ m.first = b /\ m.last = l.last
          /\ m.next = l.next /\ m.elem = l.elem
      BY <1>1, <2>1, <2>3 DEF ListType
    <2>5. SkipForth(p, s, 0, l.next, m.next)
      BY <2>4 DEF SkipForth
    <2>6. s > 1 => m.next[p[s - 1]] \in Ends(c, m)
      <3>1. Ends(c, l) = {Lists!nil} /\ Ends(c, m) = {Lists!nil}
        BY <1>1 DEF Ends
      <3> QED
        BY <1>1, <2>4, <3>1 DEF Shape
    <2>7. s > 1 => 0 # s - 1
      BY <1>1
    <2>8. Leaves(c, l, m, p, i)
      BY <1>1, <1>2, <2>1, <2>2, <2>4, <2>5, <2>6, <2>7 DEF Leaves
    <2> QED
      BY <2>4, <2>8 DEF Removed, m
  <1>3. CASE i # 0
    <2>1. i \in 1..(s - 1) /\ i - 1 \in 0..(s - 1)
      BY <1>1, <1>3
    <2>2. Lists!SingleNode(l, i - 1) = p[i - 1]
      BY <2>1, NodeAt
    <2>3. m = Bypass(l, Lists!SingleNode(l, i - 1))
      BY <1>3 DEF Lists!SingleRemove, Bypass
    <2> HIDE DEF m
    <2>4. m = Bypass(l, p[i - 1])
      BY <2>2, <2>3
    <2>5. Removed(c, l, m, p, i)
      BY <1>1, <2>1, <2>4, SkipLeaves
    <2> QED
      BY <2>5 DEF m
  <1> QED
    BY <1>2, <1>3

(* remove: of WGSingleCycleList and SingleCycleList. *)
LEMMA CycleRemoveLeaves ==
  ASSUME NEW c \in {"WGSingleCycleList", "SingleCycleList"}, NEW l \in ListType, NEW p,
         Shape(c, l, p), NEW i \in 0..(l.size - 1)
  PROVE  Removed(c, l, Lists!CycleRemove(l, i), p, i)
  <1> DEFINE s == l.size
             m == Lists!CycleRemove(l, i)
  <1>1. s \in Nat /\ s > 0 /\ s - 1 \in Nat /\ c \in OneWays
    BY Fields DEF OneWays
  <1>2. l.first = p[0] /\ p[0] \in Addresses /\ l.last = Lists!nil /\ Lists!nil \in Pointer
    BY <1>1, Distinct, Fields DEF Shape, Path, Pointer
  <1>3. CASE i = 0 /\ s = 1
    <2>1. m = [l EXCEPT !.first = Lists!nil, !.size = 0]
      BY <1>3 DEF Lists!CycleRemove
    <2> HIDE DEF m
    <2>1a. s - 1 = 0 /\ 0 \in Nat
      BY <1>3
    <2>2. /\ m \in ListType /\ m.size = s - 1 /\ m.first = Lists!nil /\ m.last = l.last
          /\ m.next = l.next /\ m.elem = l.elem
      BY <1>2, <2>1, <2>1a DEF ListType
    <2>3. SkipForth(p, s, 0, l.next, m.next)
      BY <2>2 DEF SkipForth
    <2>4. Leaves(c, l, m, p, i)
      BY <1>1, <1>2, <1>3, <2>2, <2>3 DEF Leaves
    <2> QED
      BY <2>2, <2>4 DEF Removed, m
  <1>4. CASE i = 0 /\ s # 1
    <2> DEFINE b == l.next[l.first]
               a == p[s - 1]
               f == [l.next EXCEPT ![a] = b]
    <2>1. s > 1 /\ s - 1 \in 0..(s - 1) /\ 0 \in 0..(s - 2) /\ 0 + 1 = 1 /\ 1 \in 0..(s - 1)
      BY <1>1, <1>4
    <2>2. b = p[1] /\ b \in Pointer /\ a \in Addresses
          /\ \A j \in 0..(s - 2) : p[j] \in Addresses /\ p[j] # a
      <3>1. b = p[1]
        BY <1>2, <2>1 DEF Shape, Path, Forth
      <3>2. \A j \in 0..(s - 2) : j \in 0..(s - 1) /\ j # s - 1
        BY <1>1
      <3> QED
        BY <2>1, <3>1, <3>2, Distinct
    <2>3. Lists!SingleNode(l, s - 1) = a
      BY <2>1, NodeAt
    <2>4. m = [l EXCEPT !.first = b, !.next = f, !.size = s - 1]
      BY <1>4, <2>3 DEF Lists!CycleRemove
    <2> HIDE DEF a, b
    <2>5. f \in [Addresses -> Pointer] /\ f[a] = b /\ \A j \in 0..(s - 2) : f[p[j]] = l.next[p[j]]
      BY <2>2, Fields
    <2> HIDE DEF f, m
    <2>6. /\ m \in ListType /\ m.size = s - 1 /\ m.first = b /\ m.last = l.last
          /\ m.next = f /\ m.elem = l.elem
      BY <1>1, <2>2, <2>4, <2>5 DEF ListType
    <2>7. SkipForth(p, s, 0, l.next, m.next)
      BY <2>5, <2>6 DEF SkipForth
    <2>8. m.next[p[s - 1]] \in Ends(c, m)
      <3>1. m.first \in Ends(c, m)
        BY DEF Ends, Rings
      <3> QED
        BY <2>5, <2>6, <3>1 DEF a
    <2>9. 0 # s - 1
      BY <2>1
    <2>10. Leaves(c, l, m, p, i)
      BY <1>1, <1>2, <1>4, <2>2, <2>6, <2>7, <2>8, <2>9 DEF Leaves
    <2> QED
      BY <2>6, <2>10 DEF Removed, m
  <1>5. CASE i # 0
    <2>1. i \in 1..(s - 1) /\ i - 1 \in 0..(s - 1)
      BY <1>1, <1>5
    <2>2. Lists!SingleNode(l, i - 1) = p[i - 1]
      BY <2>1, NodeAt
    <2>3. m = Bypass(l, Lists!SingleNode(l, i - 1))
      BY <1>5 DEF Lists!CycleRemove, Bypass
    <2> HIDE DEF m
    <2>4. m = Bypass(l, p[i - 1])
      BY <2>2, <2>3
    <2>5. Removed(c, l, m, p, i)
      BY <1>1, <2>1, <2>4, SkipLeaves
    <2> QED
      BY <2>5 DEF m
  <1> QED
    BY <1>3, <1>4, <1>5

(* The neighbours of the node at i in a list linked both ways. *)
Prior(c, p, s, i) == IF i > 0 THEN p[i - 1] ELSE IF c \in Rings THEN p[s - 1] ELSE Lists!nil
Later(c, p, s, i) == IF i < s - 1 THEN p[i + 1] ELSE IF c \in Rings THEN p[0] ELSE Lists!nil

(* The links of a node lead to its neighbours. *)
LEMMA Neighbours ==
  ASSUME NEW c, c \notin OneWays, NEW l \in ListType, NEW p, Shape(c, l, p),
         NEW i \in 0..(l.size - 1)
  PROVE  l.prev[p[i]] = Prior(c, p, l.size, i) /\ l.next[p[i]] = Later(c, p, l.size, i)
  <1> DEFINE s == l.size
  <1>1. s \in Nat /\ s > 0 /\ c # "SingleCycleList"
    BY Fields DEF OneWays
  <1>2. Ends(c, l) = (IF c \in Rings THEN {l.first} ELSE {Lists!nil}) /\ l.first = p[0]
    BY <1>1 DEF Ends, Shape, Path
  <1>3. l.prev[p[i]] = Prior(c, p, s, i)
    <2>1. i > 0 => i \in 1..(s - 1)
      BY <1>1
    <2>2. i > 0 => l.prev[p[i]] = p[i - 1]
      BY <2>1 DEF Shape, BothWays, Back
    <2>3. ~(i > 0) => i = 0
      BY <1>1
    <2> QED
      BY <1>1, <2>2, <2>3 DEF Prior, Shape, BothWays
  <1>4. l.next[p[i]] = Later(c, p, s, i)
    <2>1. i < s - 1 => i \in 0..(s - 2)
      BY <1>1
    <2>2. i < s - 1 => l.next[p[i]] = p[i + 1]
      BY <2>1 DEF Shape, Path, Forth
    <2>3. ~(i < s - 1) => i = s - 1
      BY <1>1
    <2>4. l.next[p[s - 1]] \in Ends(c, l)
      BY <1>1 DEF Shape
    <2> QED
      BY <1>2, <2>2, <2>3, <2>4 DEF Later
  <1> QED
    BY <1>3, <1>4

Apart(l, m, a, b) ==
  \A x \in Addresses : /\ m.next[x] = IF x = a THEN b ELSE l.next[x]
                   /\ m.prev[x] = IF x = b THEN a ELSE l.prev[x]

(* Linking its neighbours to each other takes a node off a list linked both ways. *)
LEMMA TwoWayLeaves ==
  ASSUME NEW c, c \notin OneWays, NEW l \in ListType, NEW p, Shape(c, l, p),
         NEW i \in 0..(l.size - 1), NEW m, m.size = l.size - 1,
         m.first = (IF l.size = 1 THEN Lists!nil ELSE IF i = 0 THEN p[1] ELSE l.first),
         m.last = (IF l.size = 1 THEN Lists!nil ELSE IF i = l.size - 1 THEN p[l.size - 2] ELSE l.last),
         l.size > 1 => Apart(l, m, Prior(c, p, l.size, i), Later(c, p, l.size, i))
  PROVE  Leaves(c, l, m, p, i)
  <1> DEFINE s == l.size
             a == Prior(c, p, s, i)
             b == Later(c, p, s, i)
             ring == c \in Rings
  <1>1. s \in Nat /\ s > 0 /\ c # "SingleCycleList"
    BY Fields DEF OneWays
  <1>2. CASE s = 1
    <2>1. SkipForth(p, s, i, l.next, m.next) /\ SkipBack(p, s, i, l.prev, m.prev)
      BY <1>2 DEF SkipForth, SkipBack
    <2> QED
      BY <1>2, <2>1 DEF Leaves
  <1>3. CASE s # 1
    <2>1. s > 1
      BY <1>1, <1>3
    <2>2. \A j \in 0..(s - 1) : p[j] \in Addresses /\ p[j] # Lists!nil
      BY Distinct
    <2>3. \A j, k \in 0..(s - 1) : j # k => p[j] # p[k]
      BY Distinct
    <2>4. \A j \in 0..(s - 1) : /\ m.next[p[j]] = IF p[j] = a THEN b ELSE l.next[p[j]]
                                /\ m.prev[p[j]] = IF p[j] = b THEN a ELSE l.prev[p[j]]
      BY <2>1, <2>2 DEF Apart
    <2>5. /\ l.first = p[0] /\ l.last = p[s - 1]
          /\ l.next[p[s - 1]] = (IF ring THEN p[0] ELSE Lists!nil)
          /\ l.prev[p[0]] = (IF ring THEN p[s - 1] ELSE Lists!nil)
      <3>1. Ends(c, l) = IF ring THEN {l.first} ELSE {Lists!nil}
        BY <1>1 DEF Ends
      <3> QED
        BY <1>1, <3>1 DEF Shape, Path, BothWays
    <2>6. ASSUME NEW k \in 0..(s - 1), k # i - 1, ~(ring /\ i = 0 /\ k = s - 1) PROVE p[k] # a
      <3>1. CASE i > 0
        BY <1>1, <2>3, <2>6, <3>1 DEF Prior
      <3>2. CASE ~(i > 0)
        <4>1. i = 0 /\ s - 1 \in 0..(s - 1)
          BY <1>1, <3>2
        <4> QED
          BY <2>2, <2>3, <2>6, <3>2, <4>1 DEF Prior
      <3> QED
        BY <3>1, <3>2
    <2>7. ASSUME NEW k \in 0..(s - 1), k # i + 1, ~(ring /\ i = s - 1 /\ k = 0) PROVE p[k] # b
      <3>1. CASE i < s - 1
        BY <1>1, <2>3, <2>7, <3>1 DEF Later
      <3>2. CASE ~(i < s - 1)
        <4>1. i = s - 1 /\ 0 \in 0..(s - 1)
          BY <1>1, <3>2
        <4> QED
          BY <2>2, <2>3, <2>7, <3>2, <4>1 DEF Later
      <3> QED
        BY <3>1, <3>2
    <2>8. i > 0 => a = p[i - 1] /\ i - 1 \in 0..(s - 1)
      BY <1>1 DEF Prior
    <2>9. i < s - 1 => b = p[i + 1] /\ i + 1 \in 0..(s - 1)
      BY <1>1 DEF Later
    <2>10. i = 0 => a = IF ring THEN p[s - 1] ELSE Lists!nil
      BY DEF Prior
    <2>11. i = s - 1 => b = IF ring THEN p[0] ELSE Lists!nil
      BY DEF Later
    <2>12. Ends(c, m) = IF ring THEN {m.first} ELSE {Lists!nil}
      BY <1>1 DEF Ends
    <2> HIDE DEF a, b, ring, s
    <2>13. SkipForth(p, s, i, l.next, m.next)
      <3>1. ASSUME NEW k \in 0..(s - 2), k # i - 1 PROVE m.next[p[k]] = l.next[p[k]]
        <4>1. k \in 0..(s - 1) /\ k # s - 1
          BY <1>1
        <4> QED
          BY <2>4, <2>6, <3>1, <4>1
      <3> QED
        BY <2>4, <2>8, <2>9, <3>1 DEF SkipForth
    <2>14. SkipBack(p, s, i, l.prev, m.prev)
      <3>1. ASSUME NEW k \in 1..(s - 1), k # i + 1 PROVE m.prev[p[k]] = l.prev[p[k]]
        <4>1. k \in 0..(s - 1) /\ k # 0
          BY <1>1
        <4> QED
          BY <2>4, <2>7, <3>1, <4>1
      <3> QED
        BY <2>4, <2>8, <2>9, <3>1 DEF SkipBack
    <2>15. m.next[IF i = s - 1 THEN p[s - 2] ELSE p[s - 1]] \in Ends(c, m)
      <3>1. CASE i = s - 1
        <4>1. i > 0 /\ i - 1 = s - 2 /\ i # 0
          BY <1>1, <2>1, <3>1
        <4> QED
          BY <1>3, <2>4, <2>5, <2>8, <2>11, <2>12, <3>1, <4>1 DEF s
      <3>2. CASE i # s - 1
        <4>1. s - 1 \in 0..(s - 1) /\ s - 1 # i - 1 /\ (i = 0 => i < s - 1 /\ i + 1 = 1)
          BY <1>1, <2>1 DEF s
        <4>2. CASE ring /\ i = 0
          BY <1>3, <2>4, <2>9, <2>10, <2>12, <3>2, <4>1, <4>2 DEF s
        <4>3. CASE ~(ring /\ i = 0)
          <5>1. m.next[p[s - 1]] = l.next[p[s - 1]]
            BY <2>4, <2>6, <4>1, <4>3
          <5> QED
            BY <1>3, <2>5, <2>12, <3>2, <4>3, <5>1 DEF s
        <4> QED
          BY <4>2, <4>3
      <3> QED
        BY <3>1, <3>2
    <2>16. m.prev[IF i = 0 THEN p[1] ELSE p[0]] = IF ring THEN m.last ELSE Lists!nil
      <3>1. CASE i = 0
        <4>1. i < s - 1 /\ i + 1 = 1 /\ i # s - 1
          BY <1>1, <2>1, <3>1
        <4> QED
          BY <1>3, <2>4, <2>5, <2>9, <2>10, <3>1, <4>1 DEF s
      <3>2. CASE i # 0
        <4>1. 0 \in 0..(s - 1) /\ 0 # i + 1 /\ i > 0 /\ (i = s - 1 => i - 1 = s - 2)
          BY <1>1, <2>1, <3>2 DEF s
        <4>2. CASE ring /\ i = s - 1
          BY <1>3, <2>4, <2>8, <2>11, <3>2, <4>1, <4>2 DEF s
        <4>3. CASE ~(ring /\ i = s - 1)
          <5>1. m.prev[p[0]] = l.prev[p[0]]
            BY <2>4, <2>7, <4>1, <4>3
          <5> QED
            BY <1>3, <2>5, <3>2, <4>3, <5>1 DEF s
        <4> QED
          BY <4>2, <4>3
      <3> QED
        BY <3>1, <3>2
    <2> QED
      BY <2>13, <2>14, <2>15, <2>16 DEF Leaves, s, ring
  <1> QED
    BY <1>2, <1>3

(* The body of remove: and removeNode: of the rings. *)
LEMMA UnlinkLeaves ==
  ASSUME NEW c, c \notin OneWays, c \in Rings, NEW l \in ListType, NEW p, Shape(c, l, p),
         NEW i \in 0..(l.size - 1)
  PROVE  Removed(c, l, Lists!Unlink(l, p[i], i = 0, i = l.size - 1), p, i)
  <1> DEFINE s == l.size
             d == p[i]
             m == Lists!Unlink(l, d, i = 0, i = s - 1)
  <1>1. s \in Nat /\ s > 0 /\ s - 1 \in Nat /\ Lists!nil \in Pointer
    BY Fields DEF Pointer
  <1>2. CASE s = 1
    <2>1. m = [l EXCEPT !.first = Lists!nil, !.last = Lists!nil, !.size = 0]
      BY <1>2 DEF Lists!Unlink
    <2>2. s - 1 = 0 /\ 0 \in Nat
      BY <1>2
    <2> HIDE DEF m
    <2>3. /\ m \in ListType /\ m.first = Lists!nil /\ m.last = Lists!nil /\ m.size = s - 1
          /\ m.elem = l.elem
      BY <1>1, <2>1, <2>2 DEF ListType
    <2>4. ~(l.size > 1) /\ l.size = 1
      BY <1>2
    <2>5. Leaves(c, l, m, p, i)
      BY <2>3, <2>4, TwoWayLeaves
    <2> QED
      BY <2>3, <2>5 DEF Removed, m
  <1>3. CASE s # 1
    <2> DEFINE a == l.prev[d]
               b == l.next[d]
               f == [l.next EXCEPT ![a] = b]
               g == [l.prev EXCEPT ![b] = a]
               x == IF i = 0 THEN b ELSE l.first
               y == IF i = s - 1 THEN a ELSE l.last
    <2>1. s > 1 /\ s - 1 \in 0..(s - 1) /\ 0 \in 0..(s - 1)
          /\ (i > 0 => i - 1 \in 0..(s - 1)) /\ (i < s - 1 => i + 1 \in 0..(s - 1))
      BY <1>1, <1>3
    <2>2. \A j \in 0..(s - 1) : p[j] \in Addresses /\ p[j] \in Pointer
      BY Distinct
    <2>3. a = Prior(c, p, s, i) /\ b = Later(c, p, s, i)
      BY Neighbours
    <2>4. a \in Addresses /\ b \in Addresses /\ a \in Pointer /\ b \in Pointer
      BY <2>1, <2>2, <2>3 DEF Prior, Later
    <2>5. (i = 0 => b = p[1]) /\ (i = s - 1 => a = p[s - 2])
      <3>1. (i = 0 => i < s - 1 /\ i + 1 = 1) /\ (i = s - 1 => i > 0 /\ i - 1 = s - 2)
        BY <1>1, <2>1
      <3> QED
        BY <2>3, <3>1 DEF Prior, Later
    <2>6. m = [l EXCEPT !.next = f, !.prev = g, !.size = s - 1, !.first = x, !.last = y]
      BY <1>3 DEF Lists!Unlink
    <2> HIDE DEF a, b, d
    <2>7. /\ f \in [Addresses -> Pointer] /\ g \in [Addresses -> Pointer] /\ x \in Pointer
             /\ y \in Pointer
          /\ \A z \in Addresses : /\ f[z] = IF z = a THEN b ELSE l.next[z]
                              /\ g[z] = IF z = b THEN a ELSE l.prev[z]
      BY <2>4, Fields
    <2> HIDE DEF f, g, x, y, m
    <2>8. /\ m \in ListType /\ m.first = x /\ m.last = y /\ m.size = s - 1
          /\ m.next = f /\ m.prev = g /\ m.elem = l.elem
      BY <1>1, <2>6, <2>7 DEF ListType
    <2>9. Apart(l, m, a, b)
      BY <2>7, <2>8 DEF Apart
    <2>10. m.first = (IF s = 1 THEN Lists!nil ELSE IF i = 0 THEN p[1] ELSE l.first)
           /\ m.last = (IF s = 1 THEN Lists!nil ELSE IF i = s - 1 THEN p[s - 2] ELSE l.last)
      BY <1>3, <2>5, <2>8 DEF x, y
    <2>11. Leaves(c, l, m, p, i)
      BY <2>3, <2>8, <2>9, <2>10, TwoWayLeaves
    <2> QED
      BY <2>8, <2>11 DEF Removed, m, d
  <1> QED
    BY <1>2, <1>3

(* remove: of WGDoubleList and what is built on it. *)
LEMMA DoubleRemoveLeaves ==
  ASSUME NEW c, c \notin OneWays, c \notin Rings, NEW l \in ListType, NEW p, Shape(c, l, p),
         NEW i \in 0..(l.size - 1)
  PROVE  Removed(c, l, Lists!DoubleRemove(l, i), p, i)
  <1> DEFINE s == l.size
             d == p[i]
             a == l.prev[d]
             b == l.next[d]
             m1 == IF a = Lists!nil THEN [l EXCEPT !.first = b] ELSE [l EXCEPT !.next[a] = b]
             m == Lists!DoubleRemove(l, i)
  <1>1. s \in Nat /\ s > 0 /\ s - 1 \in Nat /\ Lists!nil \in Pointer
    BY Fields DEF Pointer
  <1>2. s - 1 \in 0..(s - 1) /\ 0 \in 0..(s - 1)
        /\ (i > 0 => i - 1 \in 0..(s - 1)) /\ (i < s - 1 => i + 1 \in 0..(s - 1))
    BY <1>1
  <1>3. \A j \in 0..(s - 1) : p[j] \in Addresses /\ p[j] \in Pointer /\ p[j] # Lists!nil
    BY Distinct
  <1>4. Lists!DoubleNode(l, i) = d /\ a = Prior(c, p, s, i) /\ b = Later(c, p, s, i)
    BY NodeAt, Neighbours
  <1>5. m = IF b = Lists!nil THEN [m1 EXCEPT !.last = a, !.size = @ - 1]
            ELSE [m1 EXCEPT !.prev[b] = a, !.size = @ - 1]
    BY <1>4 DEF Lists!DoubleRemove
  <1>6. /\ a \in Pointer /\ b \in Pointer /\ (a # Lists!nil => a \in Addresses) /\ (b # Lists!nil => b \in Addresses)
        /\ (a = Lists!nil <=> i = 0) /\ (b = Lists!nil <=> i = s - 1)
        /\ (s # 1 /\ i = 0 => b = p[1]) /\ (s # 1 /\ i = s - 1 => a = p[s - 2])
    <2>1. (i > 0 <=> i # 0) /\ (i < s - 1 <=> i # s - 1)
      BY <1>1
    <2>2. (s # 1 /\ i = 0 => i < s - 1 /\ i + 1 = 1) /\ (s # 1 /\ i = s - 1 => i > 0 /\ i - 1 = s - 2)
      BY <1>1
    <2> HIDE DEF a, b
    <2> QED
      BY <1>1, <1>2, <1>3, <1>4, <2>1, <2>2 DEF Prior, Later
  <1> HIDE DEF a, b, d
  <1>7. /\ m1 \in ListType /\ m1.first = (IF i = 0 THEN b ELSE l.first) /\ m1.last = l.last
        /\ m1.size = s /\ m1.prev = l.prev /\ m1.elem = l.elem
        /\ m1.next = (IF i = 0 THEN l.next ELSE [l.next EXCEPT ![a] = b])
    <2>1. CASE i = 0
      <3>1. m1 = [l EXCEPT !.first = b]
        BY <1>6, <2>1
      <3> HIDE DEF m1
      <3> QED
        BY <1>6, <2>1, <3>1, PutFirst
    <2>2. CASE i # 0
      <3>1. m1 = [l EXCEPT !.next[a] = b]
        BY <1>6, <2>2
      <3> HIDE DEF m1
      <3> QED
        BY <1>6, <2>2, <3>1, PutNext
    <2> QED
      BY <2>1, <2>2
  <1> HIDE DEF m1, m
  <1>8. /\ m \in ListType /\ m.first = m1.first /\ m.last = (IF i = s - 1 THEN a ELSE l.last)
        /\ m.size = s - 1 /\ m.next = m1.next /\ m.elem = l.elem
        /\ m.prev = (IF i = s - 1 THEN l.prev ELSE [l.prev EXCEPT ![b] = a])
    <2>1. CASE i = s - 1
      <3>1. m = [m1 EXCEPT !.last = a, !.size = s - 1]
        BY <1>5, <1>6, <1>7, <2>1
      <3>2. /\ m \in ListType /\ m.first = m1.first /\ m.last = a
            /\ m.size = s - 1 /\ m.next = m1.next /\ m.prev = m1.prev /\ m.elem = m1.elem
        BY <1>1, <1>6, <1>7, <3>1 DEF ListType
      <3> QED
        BY <1>7, <2>1, <3>2
    <2>2. CASE i # s - 1
      <3> DEFINE g == [l.prev EXCEPT ![b] = a]
      <3>1. m = [m1 EXCEPT !.prev = g, !.size = s - 1]
        BY <1>5, <1>6, <1>7, <2>2
      <3>2. g \in [Addresses -> Pointer]
        BY <1>6, <2>2, Fields
      <3> HIDE DEF g
      <3>3. /\ m \in ListType /\ m.first = m1.first /\ m.last = m1.last
            /\ m.size = s - 1 /\ m.next = m1.next /\ m.prev = g /\ m.elem = m1.elem
        BY <1>1, <1>7, <3>1, <3>2 DEF ListType
      <3> QED
        BY <1>7, <2>2, <3>3 DEF g
    <2> QED
      BY <2>1, <2>2
  <1>9. Apart(l, m, a, b)
    BY <1>6, <1>7, <1>8, Fields, ListAssumption DEF Apart, Lists!nil
  <1>10. m.first = (IF s = 1 THEN Lists!nil ELSE IF i = 0 THEN p[1] ELSE l.first)
         /\ m.last = (IF s = 1 THEN Lists!nil ELSE IF i = s - 1 THEN p[s - 2] ELSE l.last)
    <2>1. s = 1 => i = 0 /\ i = s - 1
      BY <1>1
    <2> QED
      BY <1>6, <1>7, <1>8, <2>1
  <1>11. Leaves(c, l, m, p, i)
    BY <1>4, <1>8, <1>9, <1>10, TwoWayLeaves
  <1> QED
    BY <1>8, <1>11 DEF Removed, m

--------------------------------------------------------------------------------
(***************************************************************************)
(* The calls                                                                *)
(***************************************************************************)
(* m is l grown by e in the node n at i, shrunk by what was at i, and l with e
   instead of what was at i. *)
Gained(c, l, m, p, i, n, e) ==
  /\ m \in ListType /\ m.size = l.size + 1
  /\ Shape(c, m, Insert(p, l.size, i, n))
  /\ \A k \in 0..l.size : m.elem[Insert(p, l.size, i, n)[k]] =
       IF k < i THEN l.elem[p[k]] ELSE IF k = i THEN e ELSE l.elem[p[k - 1]]

Shrunk(c, l, m, p, i) ==
  /\ m \in ListType /\ m.size = l.size - 1
  /\ Shape(c, m, Delete(p, l.size, i))
  /\ \A k \in 0..(l.size - 2) : m.elem[Delete(p, l.size, i)[k]] =
       IF k < i THEN l.elem[p[k]] ELSE l.elem[p[k + 1]]

Changed(c, l, m, p, i, e) ==
  /\ m \in ListType /\ m.size = l.size
  /\ Shape(c, m, p)
  /\ \A k \in 0..(l.size - 1) : m.elem[p[k]] = IF k = i THEN e ELSE l.elem[p[k]]

(* What add: leaves once the memory is settled. *)
LEMMA AddedGained ==
  ASSUME NEW c, NEW l \in ListType, NEW p, Shape(c, l, p), NEW i \in 0..l.size,
         NEW n, Fresh(p, l.size, n), NEW e, NEW m, Added(c, l, m, p, i, n, e), NEW x \in Pointer
  PROVE  Gained(c, l, Lists!Settled(m, x), p, i, n, e)
  <1> DEFINE q == Insert(p, l.size, i, n)
             z == Lists!Settled(m, x)
             s == l.size
  <1>1. m \in ListType /\ Joins(c, l, m, p, i, n) /\ m.elem = [l.elem EXCEPT ![n] = e]
    BY DEF Added
  <1>2. Shape(c, m, q)
    BY <1>1, InsertShape
  <1>3. m.size = s + 1 /\ s \in Nat /\ (s + 1) - 1 = s
    BY <1>1, Fields DEF Joins
  <1>4. z \in ListType /\ Shape(c, z, q) /\ z.size = m.size
        /\ \A k \in 0..(m.size - 1) : z.elem[q[k]] = m.elem[q[k]]
    <2> HIDE DEF q
    <2>1. Kept(c, m, z, q)
      BY <1>1, <1>2, SettledShape
    <2> QED
      BY <2>1 DEF Kept
  <1>5. ASSUME NEW k \in 0..s
        PROVE  m.elem[q[k]] = IF k < i THEN l.elem[p[k]] ELSE IF k = i THEN e ELSE l.elem[p[k - 1]]
    <2>1. q[k] = IF k < i THEN p[k] ELSE IF k = i THEN n ELSE p[k - 1]
      BY DEF Insert
    <2>2. (k < i => k \in 0..(s - 1)) /\ (~(k < i) /\ k # i => k - 1 \in 0..(s - 1))
      BY <1>3
    <2>3. n \in Addresses /\ \A j \in 0..(s - 1) : p[j] \in Addresses /\ p[j] # n
      BY Distinct DEF Fresh
    <2>4. m.elem[n] = e /\ \A j \in 0..(s - 1) : m.elem[p[j]] = l.elem[p[j]]
      BY <1>1, <2>3, Fields
    <2> HIDE DEF q
    <2> QED
      BY <2>1, <2>2, <2>4
  <1> HIDE DEF q, z, s
  <1>6. \A k \in 0..s : z.elem[q[k]] =
          IF k < i THEN l.elem[p[k]] ELSE IF k = i THEN e ELSE l.elem[p[k - 1]]
    BY <1>3, <1>4, <1>5
  <1> QED
    BY <1>3, <1>4, <1>6 DEF Gained, q, z, s

(* What remove: leaves once the memory is settled. *)
LEMMA RemovedShrunk ==
  ASSUME NEW c, NEW l \in ListType, NEW p, Shape(c, l, p), NEW i \in 0..(l.size - 1),
         NEW m, Removed(c, l, m, p, i), NEW x \in Pointer
  PROVE  Shrunk(c, l, Lists!Settled(m, x), p, i)
  <1> DEFINE q == Delete(p, l.size, i)
             z == Lists!Settled(m, x)
             s == l.size
  <1>1. m \in ListType /\ Leaves(c, l, m, p, i) /\ m.elem = l.elem
    BY DEF Removed
  <1>2. Shape(c, m, q)
    BY <1>1, DeleteShape
  <1>3. m.size = s - 1 /\ s \in Nat /\ (s - 1) - 1 = s - 2
    BY <1>1, Fields DEF Leaves
  <1>4. z \in ListType /\ Shape(c, z, q) /\ z.size = m.size
        /\ \A k \in 0..(m.size - 1) : z.elem[q[k]] = m.elem[q[k]]
    <2> HIDE DEF q
    <2>1. Kept(c, m, z, q)
      BY <1>1, <1>2, SettledShape
    <2> QED
      BY <2>1 DEF Kept
  <1>5. ASSUME NEW k \in 0..(s - 2)
        PROVE  m.elem[q[k]] = IF k < i THEN l.elem[p[k]] ELSE l.elem[p[k + 1]]
    <2>1. q[k] = IF k < i THEN p[k] ELSE p[k + 1]
      BY DEF Delete
    <2> HIDE DEF q
    <2> QED
      BY <1>1, <2>1
  <1> HIDE DEF q, z, s
  <1>6. \A k \in 0..(s - 2) : z.elem[q[k]] = IF k < i THEN l.elem[p[k]] ELSE l.elem[p[k + 1]]
    BY <1>3, <1>4, <1>5
  <1> QED
    BY <1>3, <1>4, <1>6 DEF Shrunk, q, z, s

(* What set:withElement: leaves once the memory is settled. *)
LEMMA SetChanged ==
  ASSUME NEW c, NEW l \in ListType, NEW p, Shape(c, l, p), NEW i \in 0..(l.size - 1),
         NEW e \in ListElements, NEW x \in Pointer
  PROVE  Changed(c, l, Lists!Settled(Lists!SetElement(l, p[i], e), x), p, i, e)
  <1> DEFINE d == p[i]
             h == [l.elem EXCEPT ![d] = e]
             m == Lists!SetElement(l, d, e)
             z == Lists!Settled(m, x)
  <1>1. d \in Addresses /\ \A j \in 0..(l.size - 1) : p[j] \in Addresses /\ (j # i => p[j] # d)
    BY Distinct
  <1>2. m = [l EXCEPT !.elem = h]
    BY DEF Lists!SetElement
  <1>3. h \in [Addresses -> ListElements \cup {Lists!NOT_FOUND}] /\ h[d] = e
        /\ \A j \in 0..(l.size - 1) : h[p[j]] = IF j = i THEN e ELSE l.elem[p[j]]
    BY <1>1, Fields
  <1> HIDE DEF h, d, m
  <1>4. /\ m \in ListType /\ m.first = l.first /\ m.last = l.last /\ m.size = l.size
        /\ m.next = l.next /\ m.prev = l.prev /\ m.elem = h
    BY <1>2, <1>3 DEF ListType
  <1>5. Shape(c, m, p)
    <2>1. Ends(c, m) = Ends(c, l)
      BY <1>4 DEF Ends
    <2>2. Path(m, p)
      BY <1>4 DEF Shape, Path
    <2>3. BothWays(c, l, p) => BothWays(c, m, p)
      BY <1>4 DEF BothWays
    <2> QED
      BY <1>4, <2>1, <2>2, <2>3 DEF Shape
  <1>6. z \in ListType /\ Shape(c, z, p) /\ z.size = m.size
        /\ \A k \in 0..(m.size - 1) : z.elem[p[k]] = m.elem[p[k]]
    <2>1. Kept(c, m, z, p)
      BY <1>4, <1>5, SettledShape
    <2> QED
      BY <2>1 DEF Kept
  <1> HIDE DEF z
  <1>7. Changed(c, l, z, p, i, e)
    BY <1>3, <1>4, <1>6 DEF Changed
  <1> QED
    BY <1>7 DEF z, m, d

(* An empty list. *)
None == [k \in 0..(0 - 1) |-> Lists!nil]

(* An object without nodes represents the empty path. *)
LEMMA EmptyShape ==
  ASSUME NEW c, NEW l, l.size = 0, l.first = Lists!nil, l.last = Lists!nil
  PROVE  Shape(c, l, None)
  <1>1. Nodup(None, 0)
    BY DEF Nodup, None
  <1>2. Forth(None, 0, l.next) /\ Back(None, 0, l.prev)
    BY DEF Forth, Back
  <1>3. ~(0 > 0)
    OBVIOUS
  <1>4. Path(l, None)
    BY <1>1, <1>2 DEF Path
  <1>5. BothWays(c, l, None)
    BY <1>2, <1>3 DEF BothWays
  <1> QED
    BY <1>3, <1>4, <1>5 DEF Shape

(* The methods of the classes. *)
LEMMA OpAdd ==
  ASSUME list \in ListType, NEW p, Shape(lClass, list, p), NEW i \in 0..list.size,
         lClass = "WGSingleCycleList" /\ list.size > 0 => i # 0,
         NEW n, Fresh(p, list.size, n), NEW e \in ListElements
  PROVE  Added(lClass, list, Lists!Op_add(n, i, e), p, i, n, e)
  <1>1. CASE lClass = "WGSingleList"
    BY <1>1, SingleAddJoins DEF Lists!Op_add
  <1>2. CASE lClass = "SingleList"
    BY <1>2, SingleAddJoins DEF Lists!Op_add, Lists!SingleListAdd
  <1>3. CASE lClass = "WGSingleCycleList"
    BY <1>3, CycleAddJoins DEF Lists!Op_add
  <1>4. CASE lClass = "SingleCycleList"
    BY <1>4, SingleCycleListAddJoins DEF Lists!Op_add
  <1>5. CASE lClass = "WGDoubleCycleList"
    <2>1. lClass \notin OneWays /\ lClass \in Rings
      BY <1>5 DEF OneWays, Rings
    <2> QED
      BY <1>5, <2>1, RingAddJoins DEF Lists!Op_add
  <1>6. CASE lClass = "DoubleCycleList"
    <2>1. lClass \notin OneWays /\ lClass \in Rings
      BY <1>6 DEF OneWays, Rings
    <2> QED
      BY <1>6, <2>1, RingAddJoins DEF Lists!Op_add, Lists!DoubleCycleListAdd
  <1>7. CASE lClass \notin OneWays \cup Rings
    <2>1. Lists!Op_add(n, i, e) = Lists!DoubleAdd(list, n, i, e)
      BY <1>7 DEF Lists!Op_add, Lists!DoubleListAdd, OneWays, Rings
    <2> QED
      BY <1>7, <2>1, DoubleAddJoins
  <1> QED
    BY <1>1, <1>2, <1>3, <1>4, <1>5, <1>6, <1>7 DEF OneWays, Rings

(* remove: of every class takes the node at i off the path. *)
LEMMA OpRemove ==
  ASSUME list \in ListType, NEW p, Shape(lClass, list, p), NEW i \in 0..(list.size - 1)
  PROVE  Removed(lClass, list, Lists!Op_remove(i), p, i)
  <1>1. CASE lClass = "WGSingleList"
    BY <1>1, SingleRemoveLeaves DEF Lists!Op_remove
  <1>2. CASE lClass = "SingleList"
    BY <1>2, SingleRemoveLeaves DEF Lists!Op_remove, Lists!SingleListRemove
  <1>3. CASE lClass = "WGSingleCycleList"
    BY <1>3, CycleRemoveLeaves DEF Lists!Op_remove
  <1>4. CASE lClass = "SingleCycleList"
    BY <1>4, CycleRemoveLeaves DEF Lists!Op_remove, Lists!SingleCycleListRemove
  <1>5. ASSUME lClass \notin OneWays, lClass \in Rings
        PROVE  Removed(lClass, list, Lists!RingRemove(list, i), p, i)
    <2>1. Lists!DoubleNode(list, i) = p[i]
      BY <1>5, NodeAt
    <2> QED
      BY <1>5, <2>1, UnlinkLeaves DEF Lists!RingRemove
  <1>6. CASE lClass = "WGDoubleCycleList"
    BY <1>5, <1>6 DEF Lists!Op_remove, OneWays, Rings
  <1>7. CASE lClass = "DoubleCycleList"
    BY <1>5, <1>7 DEF Lists!Op_remove, Lists!DoubleCycleListRemove, OneWays, Rings
  <1>8. CASE lClass \notin OneWays \cup Rings
    <2>1. Lists!Op_remove(i) = Lists!DoubleRemove(list, i)
      BY <1>8 DEF Lists!Op_remove, Lists!DoubleListRemove, OneWays, Rings
    <2> QED
      BY <1>8, <2>1, DoubleRemoveLeaves
  <1> QED
    BY <1>1, <1>2, <1>3, <1>4, <1>6, <1>7, <1>8 DEF OneWays, Rings

(* clear of every class leaves an empty path. *)
LEMMA OpClear ==
  ASSUME list \in ListType, NEW p, Shape(lClass, list, p)
  PROVE  Lists!Op_clear \in ListType /\ Lists!Op_clear.size = 0
         /\ Shape(lClass, Lists!Op_clear, None)
  <1>1. Lists!OneWay <=> lClass \in OneWays
    BY DEF Lists!OneWay, OneWays
  <1>2. Lists!nil \in Pointer /\ 0 \in Nat
    BY DEF Pointer
  <1>3. CASE Lists!OneWay
    <2> DEFINE m == [list EXCEPT !.first = Lists!nil, !.size = 0]
    <2>1. Lists!Op_clear = m
      BY <1>3 DEF Lists!Op_clear, Lists!SingleClear
    <2>2. m \in ListType /\ m.size = 0 /\ m.first = Lists!nil /\ m.last = list.last
      BY <1>2 DEF ListType
    <2>3. list.last = Lists!nil
      BY <1>1, <1>3 DEF Shape
    <2> HIDE DEF m
    <2> QED
      BY <2>1, <2>2, <2>3, EmptyShape
  <1>4. CASE ~Lists!OneWay
    <2> DEFINE m == [list EXCEPT !.first = Lists!nil, !.last = Lists!nil, !.size = 0]
    <2>1. Lists!Op_clear = m
      BY <1>4 DEF Lists!Op_clear, Lists!DoubleListClear, Lists!DoubleClear
    <2>2. m \in ListType /\ m.size = 0 /\ m.first = Lists!nil /\ m.last = Lists!nil
      BY <1>2 DEF ListType
    <2> HIDE DEF m
    <2> QED
      BY <2>1, <2>2, EmptyShape
  <1> QED
    BY <1>3, <1>4

(* getNodeWithIndex: of every class finds the node at i. *)
LEMMA OpNode ==
  ASSUME list \in ListType, NEW p, Shape(lClass, list, p), NEW i \in 0..(list.size - 1)
  PROVE  Lists!getNodeWithIndex(i) = p[i]
  <1>1. Lists!SingleNode(list, i) = p[i] /\ (lClass \notin OneWays => Lists!DoubleNode(list, i) = p[i])
    BY NodeAt
  <1>2. Lists!OneWay <=> lClass \in OneWays
    BY DEF Lists!OneWay, OneWays
  <1> QED
    BY <1>1, <1>2 DEF Lists!getNodeWithIndex, Lists!SingleListNode, Lists!DoubleListNode

(* removeCurrent takes the node under the cursor off the ring. *)
LEMMA OpRemoveNode ==
  ASSUME list \in ListType, NEW p, Shape(lClass, list, p), lClass \notin OneWays, lClass \in Rings,
         NEW i \in 0..(list.size - 1)
  PROVE  Removed(lClass, list, Lists!removeNode(list, p[i]), p, i)
  <1>1. list.size \in Nat /\ list.size > 0 /\ 0 \in 0..(list.size - 1)
        /\ list.size - 1 \in 0..(list.size - 1)
    BY Fields
  <1>2. list.first = p[0] /\ list.last = p[list.size - 1]
    BY <1>1 DEF Shape, Path, BothWays
  <1>3. (p[i] = list.first) = (i = 0) /\ (p[i] = list.last) = (i = list.size - 1)
    BY <1>1, <1>2, Distinct
  <1>4. Lists!removeNode(list, p[i]) = Lists!Unlink(list, p[i], i = 0, i = list.size - 1)
    BY <1>3, Zenon DEF Lists!removeNode
  <1> QED
    BY <1>4, UnlinkLeaves

(* InList finds the nodes of the path. *)
LEMMA InPath ==
  ASSUME list \in ListType, NEW p, Shape(lClass, list, p), NEW x
  PROVE  Lists!InList(x) <=> \E k \in 0..(list.size - 1) : p[k] = x
  <1>1. \A k \in 0..(list.size - 1) : Lists!Walk(list.next, list.first, k) = p[k]
    BY PathWalk DEF Shape
  <1> QED
    BY <1>1 DEF Lists!InList

(* The inductive invariant: the object represents some path. *)
ListInv ==
  /\ list \in ListType /\ list.size <= ListMax
  /\ current \in Pointer
  /\ \E p : Shape(lClass, list, p)

(* The element at i is that of the node at i. *)
LEMMA ElementAt ==
  ASSUME NEW c, NEW l \in ListType, NEW p, Shape(c, l, p), NEW i \in 0..(l.size - 1)
  PROVE  Lists!At(l, i) = l.elem[p[i]]
  <1>1. Lists!Walk(l.next, l.first, i) = p[i]
    BY NodeAt DEF Lists!SingleNode
  <1>2. p[i] # Lists!nil
    BY Distinct
  <1> QED
    BY <1>1, <1>2 DEF Lists!At

(* indexOf: finds the first of the elements it looks for. *)
LEMMA FirstIndex ==
  ASSUME NEW c, NEW l \in ListType, NEW p, Shape(c, l, p), NEW e
  PROVE  \/ /\ Lists!indexOf(l, e) = Lists!NOT_FOUND
            /\ \A k \in 0..(l.size - 1) : l.elem[p[k]] # e
         \/ /\ Lists!indexOf(l, e) \in 0..(l.size - 1) /\ Lists!indexOf(l, e) # Lists!NOT_FOUND
            /\ l.elem[p[Lists!indexOf(l, e)]] = e
            /\ \A k \in 0..(l.size - 1) : l.elem[p[k]] = e => Lists!indexOf(l, e) <= k
  <1> DEFINE hits == {i \in 0..(l.size - 1) : Lists!At(l, i) = e}
             x == CHOOSE i \in hits : \A j \in hits : i <= j
  <1>1. \A k \in 0..(l.size - 1) : k \in hits <=> l.elem[p[k]] = e
    BY ElementAt
  <1>2. Lists!indexOf(l, e) = IF hits = {} THEN Lists!NOT_FOUND ELSE x
    BY DEF Lists!indexOf
  <1>3. hits \in SUBSET Nat /\ hits \subseteq 0..(l.size - 1)
    BY Fields
  <1> HIDE DEF hits
  <1>4. ASSUME hits # {} PROVE x \in hits /\ \A j \in hits : x <= j
    <2>1. \E i \in hits : \A j \in hits : i <= j
      BY <1>3, <1>4, Least
    <2> QED
      BY <2>1
  <1> HIDE DEF x
  <1>5. \A k \in 0..(l.size - 1) : k # Lists!NOT_FOUND
    BY Fields DEF Lists!NOT_FOUND
  <1> QED
    BY <1>1, <1>2, <1>3, <1>4, <1>5

(* What the calls do to the list, its path and the cursor. *)
LEMMA AddEffect ==
  ASSUME ListInv, NEW p, Shape(lClass, list, p), NEW i \in 0..list.size, NEW e \in ListElements,
         Lists!Add(i, e)
  PROVE  \E n : /\ Fresh(p, list.size, n) /\ n # current
                /\ Gained(lClass, list, list', p, i, n, e)
                /\ current' = current /\ lRet' = Lists!Void /\ list.size < ListMax
  <1> DEFINE fresh == Addresses \ Lists!Reachable(list, current)
             n == CHOOSE x \in fresh : \A m \in fresh : x <= m
  <1>1. 0 <= i /\ i <= list.size
    BY Fields DEF ListInv
  <1>2. /\ list.size < ListMax /\ fresh # {} /\ lRet' = Lists!Void
        /\ Lists!Becomes(Lists!Op_add(n, i, e), current)
        /\ lClass = "WGSingleCycleList" /\ list.size > 0 => i # 0
    BY <1>1 DEF Lists!Add
  <1>3. fresh \in SUBSET Nat
    BY ListAssumption
  <1>4. n \in fresh
    <2> HIDE DEF fresh
    <2>1. \E x \in fresh : \A m \in fresh : x <= m
      BY <1>2, <1>3, Least
    <2> QED
      BY <2>1
  <1> HIDE DEF n
  <1>5. Fresh(p, list.size, n) /\ n # current
    <2>1. n \in Addresses /\ n \notin Lists!Reachable(list, current)
      BY <1>4
    <2>2. n # Lists!nil
      BY <2>1, NodeNotNil
    <2>3. /\ \A k \in 0..(list.size - 1) : p[k] \in Lists!Reachable(list, current)
          /\ current # Lists!nil => current \in Lists!Reachable(list, current)
      BY ReachPath DEF ListInv, Shape
    <2> QED
      BY <2>1, <2>2, <2>3 DEF Fresh
  <1> HIDE DEF fresh
  <1>6. Added(lClass, list, Lists!Op_add(n, i, e), p, i, n, e)
    BY <1>2, <1>5, OpAdd DEF ListInv
  <1>7. Gained(lClass, list, Lists!Settled(Lists!Op_add(n, i, e), current), p, i, n, e)
    BY <1>5, <1>6, AddedGained DEF ListInv
  <1> QED
    BY <1>2, <1>5, <1>7 DEF Lists!Becomes

(* remove: and removeElement: *)
LEMMA TakeEffect ==
  ASSUME ListInv, NEW p, Shape(lClass, list, p), NEW i \in 0..(list.size - 1),
         Lists!Becomes(Lists!Op_remove(i), current)
  PROVE  Shrunk(lClass, list, list', p, i) /\ current' = current
  <1>1. Removed(lClass, list, Lists!Op_remove(i), p, i)
    BY OpRemove DEF ListInv
  <1>2. Shrunk(lClass, list, Lists!Settled(Lists!Op_remove(i), current), p, i)
    BY <1>1, RemovedShrunk DEF ListInv
  <1> QED
    BY <1>2 DEF Lists!Becomes

(* set:withElement: *)
LEMMA SetEffect ==
  ASSUME ListInv, NEW p, Shape(lClass, list, p), NEW i \in 0..(list.size - 1), NEW e \in ListElements,
         Lists!Becomes(Lists!SetElement(list, Lists!getNodeWithIndex(i), e), current)
  PROVE  Changed(lClass, list, list', p, i, e) /\ current' = current
  <1>1. Lists!getNodeWithIndex(i) = p[i]
    BY OpNode DEF ListInv
  <1>2. Changed(lClass, list, Lists!Settled(Lists!SetElement(list, p[i], e), current), p, i, e)
    BY SetChanged DEF ListInv
  <1> QED
    BY <1>1, <1>2 DEF Lists!Becomes

(* clear *)
LEMMA ClearEffect ==
  ASSUME ListInv, NEW p, Shape(lClass, list, p), Lists!Clear
  PROVE  list' \in ListType /\ list'.size = 0 /\ Shape(lClass, list', None) /\ current' = current
  <1>1. Lists!Op_clear \in ListType /\ Lists!Op_clear.size = 0
        /\ Shape(lClass, Lists!Op_clear, None)
    BY OpClear DEF ListInv
  <1>2. Kept(lClass, Lists!Op_clear, Lists!Settled(Lists!Op_clear, current), None)
    BY <1>1, SettledShape DEF ListInv
  <1> QED
    BY <1>1, <1>2 DEF Kept, Lists!Clear, Lists!Becomes

(* A call that moves the cursor only. *)
LEMMA CursorEffect ==
  ASSUME ListInv, NEW p, Shape(lClass, list, p), NEW x \in Pointer, Lists!Becomes(list, x)
  PROVE  Kept(lClass, list, list', p) /\ current' = x
  BY SettledShape DEF ListInv, Lists!Becomes

(* The cursor is on a node of the list wherever nextCurrent and removeCurrent use it. *)
LEMMA CursorOn ==
  ASSUME ListInv, NEW p, Shape(lClass, list, p), Lists!CursorUsable, current # Lists!nil
  PROVE  lClass \notin OneWays /\ lClass \in Rings
         /\ \E i \in 0..(list.size - 1) : current = p[i] /\ list.next[current] = Later(lClass, p, list.size, i)
  <1>1. lClass \notin OneWays /\ lClass \in Rings
    BY DEF Lists!CursorUsable, Lists!HasCursor, OneWays, Rings
  <1>2. Lists!InList(current)
    BY DEF Lists!CursorUsable
  <1>3. PICK i \in 0..(list.size - 1) : p[i] = current
    BY <1>2, InPath DEF ListInv
  <1>4. list.next[p[i]] = Later(lClass, p, list.size, i)
    BY <1>1, Neighbours DEF ListInv
  <1> QED
    BY <1>1, <1>3, <1>4

(* removeCurrent *)
LEMMA RemoveCurrentEffect ==
  ASSUME ListInv, NEW p, Shape(lClass, list, p), lClass \notin OneWays, lClass \in Rings,
         NEW i \in 0..(list.size - 1), current = p[i], Lists!removeCurrent
  PROVE  /\ Shrunk(lClass, list, list', p, i)
         /\ current' = IF list.size = 1 THEN Lists!nil ELSE list.next[current]
         /\ current' \in Pointer
         /\ lRet' = list.elem[p[i]]
  <1> DEFINE m == Lists!removeNode(list, current)
             x == IF m.size = 0 THEN Lists!nil ELSE list.next[current]
  <1>1. current # Lists!nil /\ current \in Addresses
    BY Distinct
  <1>2. lRet' = list.elem[current] /\ Lists!Becomes(m, x)
    BY <1>1 DEF Lists!removeCurrent
  <1>3. Removed(lClass, list, m, p, i)
    BY OpRemoveNode DEF ListInv
  <1>4. m.size = list.size - 1 /\ list.size \in Nat
    BY <1>3, Fields DEF Removed, Leaves, ListInv
  <1>5. x \in Pointer
    BY <1>1, Fields DEF ListInv, Pointer
  <1>6. x = IF list.size = 1 THEN Lists!nil ELSE list.next[current]
    BY <1>4
  <1> HIDE DEF m, x
  <1>7. Shrunk(lClass, list, Lists!Settled(m, x), p, i)
    BY <1>3, <1>5, RemovedShrunk DEF ListInv
  <1> QED
    BY <1>2, <1>5, <1>6, <1>7 DEF Lists!Becomes

(* A new object represents the empty path. *)
LEMMA ListStart ==
  ASSUME Lists!Init
  PROVE  ListInv
  <1>1. list = Lists!EmptyList /\ current = Lists!nil
    BY DEF Lists!Init
  <1>2. /\ Lists!EmptyList \in ListType /\ Lists!EmptyList.size = 0
        /\ Lists!EmptyList.first = Lists!nil /\ Lists!EmptyList.last = Lists!nil
    BY DEF Lists!EmptyList, ListType, Pointer
  <1>3. Shape(lClass, Lists!EmptyList, None)
    BY <1>2, EmptyShape
  <1>4. 0 <= ListMax /\ Lists!nil \in Pointer
    BY ListAssumption DEF Pointer
  <1> QED
    BY <1>1, <1>2, <1>3, <1>4 DEF ListInv

(* Every call keeps it. *)
LEMMA ListCallStep ==
  ASSUME ListInv, UNCHANGED lClass,
         \/ \E i \in Int, e \in ListElements : Lists!Add(i, e) \/ Lists!Set(i, e)
         \/ \E i \in Int : Lists!Remove(i) \/ Lists!Get(i)
         \/ \E e \in ListElements : Lists!RemoveElement(e) \/ Lists!IndexOf(e)
         \/ Lists!Clear \/ Lists!resetCurrent \/ Lists!nextCurrent \/ Lists!removeCurrent
  PROVE  ListInv'
  <1>1. PICK p : Shape(lClass, list, p)
    BY DEF ListInv
  <1>2. list.size \in Nat /\ ListMax \in Nat /\ list.size <= ListMax
    BY Fields, ListAssumption DEF ListInv
  <1>3. Lists!Same => ListInv'
    BY DEF Lists!Same, ListInv
  <1>4. \A value : Lists!BadIndex(value) => Lists!Same
    BY DEF Lists!BadIndex
  <1>5. ASSUME NEW i, Shrunk(lClass, list, list', p, i), current' \in Pointer
        PROVE  ListInv'
    BY <1>2, <1>5 DEF Shrunk, ListInv
  <1>6. ASSUME NEW i \in 0..(list.size - 1), Lists!Becomes(Lists!Op_remove(i), current)
        PROVE  ListInv'
    <2>1. Shrunk(lClass, list, list', p, i) /\ current' = current
      BY <1>1, <1>6, TakeEffect
    <2> QED
      BY <1>5, <2>1 DEF ListInv
  <1>7. \A i \in Int : Lists!InRange(list, i) => i \in 0..(list.size - 1)
    BY <1>2 DEF Lists!InRange
  <1>8. ASSUME NEW i \in Int, NEW e \in ListElements, Lists!Add(i, e)
        PROVE  ListInv'
    <2>1. CASE 0 <= i /\ i <= list.size
      <3>1. i \in 0..list.size
        BY <1>2, <2>1
      <3>2. PICK n : /\ Gained(lClass, list, list', p, i, n, e)
                     /\ current' = current /\ list.size < ListMax
        BY <1>1, <1>8, <3>1, AddEffect
      <3> QED
        BY <1>2, <3>2 DEF Gained, ListInv
    <2>2. CASE ~(0 <= i /\ i <= list.size)
      BY <1>3, <1>4, <1>8, <2>2 DEF Lists!Add
    <2> QED
      BY <2>1, <2>2
  <1>9. ASSUME NEW i \in Int, NEW e \in ListElements, Lists!Set(i, e)
        PROVE  ListInv'
    <2>1. CASE Lists!InRange(list, i)
      <3>1. i \in 0..(list.size - 1)
            /\ Lists!Becomes(Lists!SetElement(list, Lists!getNodeWithIndex(i), e), current)
        BY <1>7, <1>9, <2>1 DEF Lists!Set
      <3>2. Changed(lClass, list, list', p, i, e) /\ current' = current
        BY <1>1, <3>1, SetEffect
      <3> QED
        BY <1>2, <3>2 DEF Changed, ListInv
    <2>2. CASE ~Lists!InRange(list, i)
      BY <1>3, <1>4, <1>9, <2>2 DEF Lists!Set
    <2> QED
      BY <2>1, <2>2
  <1>10. ASSUME NEW i \in Int, Lists!Remove(i) PROVE ListInv'
    <2>1. CASE Lists!InRange(list, i)
      BY <1>6, <1>7, <1>10, <2>1 DEF Lists!Remove
    <2>2. CASE ~Lists!InRange(list, i)
      BY <1>3, <1>4, <1>10, <2>2 DEF Lists!Remove
    <2> QED
      BY <2>1, <2>2
  <1>11. ASSUME NEW i \in Int, Lists!Get(i) PROVE ListInv'
    BY <1>3, <1>4, <1>11 DEF Lists!Get
  <1>12. ASSUME NEW e \in ListElements, Lists!RemoveElement(e) PROVE ListInv'
    <2>1. CASE Lists!indexOf(list, e) # Lists!NOT_FOUND
      <3>1. Lists!indexOf(list, e) \in 0..(list.size - 1)
        BY <1>1, <2>1, FirstIndex DEF ListInv
      <3> QED
        BY <1>6, <1>12, <2>1, <3>1 DEF Lists!RemoveElement
    <2>2. CASE Lists!indexOf(list, e) = Lists!NOT_FOUND
      BY <1>3, <1>12, <2>2 DEF Lists!RemoveElement
    <2> QED
      BY <2>1, <2>2
  <1>13. ASSUME NEW e \in ListElements, Lists!IndexOf(e) PROVE ListInv'
    BY <1>3, <1>13 DEF Lists!IndexOf
  <1>14. CASE Lists!Clear
    <2>1. list' \in ListType /\ list'.size = 0 /\ Shape(lClass, list', None) /\ current' = current
      BY <1>1, <1>14, ClearEffect
    <2> QED
      BY <1>2, <2>1 DEF ListInv
  <1>15. ASSUME NEW x \in Pointer, Lists!Becomes(list, x) PROVE ListInv'
    <2>1. Kept(lClass, list, list', p) /\ current' = x
      BY <1>1, <1>15, CursorEffect
    <2> QED
      BY <1>2, <2>1 DEF Kept, ListInv
  <1>16. CASE Lists!resetCurrent
    <2>1. list.first \in Pointer
      BY Fields DEF ListInv
    <2> QED
      BY <1>15, <1>16, <2>1 DEF Lists!resetCurrent
  <1>17. CASE Lists!nextCurrent
    <2>1. CASE current = Lists!nil
      BY <1>3, <1>17, <2>1 DEF Lists!nextCurrent
    <2>2. CASE current # Lists!nil
      <3>1. list.next[current] \in Pointer
        BY <2>2, Fields DEF ListInv, Pointer
      <3> QED
        BY <1>15, <1>17, <2>2, <3>1 DEF Lists!nextCurrent
    <2> QED
      BY <2>1, <2>2
  <1>18. CASE Lists!removeCurrent
    <2>1. CASE current = Lists!nil
      BY <1>3, <1>18, <2>1 DEF Lists!removeCurrent
    <2>2. CASE current # Lists!nil
      <3>1. Lists!CursorUsable
        BY <1>18 DEF Lists!removeCurrent
      <3>2. PICK i \in 0..(list.size - 1) : current = p[i]
        BY <1>1, <2>2, <3>1, CursorOn
      <3>3. Shrunk(lClass, list, list', p, i) /\ current' \in Pointer
        BY <1>1, <1>18, <2>2, <3>1, <3>2, CursorOn, RemoveCurrentEffect
      <3> QED
        BY <1>5, <3>3
    <2> QED
      BY <2>1, <2>2
  <1> QED
    BY <1>8, <1>9, <1>10, <1>11, <1>12, <1>13, <1>14, <1>16, <1>17, <1>18

(* The calls of the classes built on lists are calls of the list. *)
LEMMA CallsOfList ==
  ASSUME ListInv, Lists!Next
  PROVE  /\ \/ \E i \in Lists!Indices, e \in ListElements : Lists!Add(i, e) \/ Lists!Set(i, e)
            \/ \E i \in Lists!Indices : Lists!Remove(i) \/ Lists!Get(i)
            \/ \E e \in ListElements : Lists!RemoveElement(e) \/ Lists!IndexOf(e)
            \/ Lists!Clear \/ Lists!resetCurrent \/ Lists!nextCurrent \/ Lists!removeCurrent
         /\ UNCHANGED lClass
  <1>1. list.size \in Lists!Indices /\ list.size - 1 \in Lists!Indices /\ 0 \in Lists!Indices
    BY Fields, ListAssumption DEF ListInv, Lists!Indices
  <1>2. UNCHANGED lClass
        /\ (Lists!StackCall \/ Lists!QueueCall \/ Lists!SwiftQueueCall \/ Lists!DoubleQueueCall \/ Lists!ListCall)
    BY DEF Lists!Next
  <1>3. CASE Lists!StackCall
    BY <1>1, <1>2, <1>3 DEF Lists!StackCall
  <1>4. CASE Lists!QueueCall
    BY <1>1, <1>2, <1>4 DEF Lists!QueueCall
  <1>5. CASE Lists!SwiftQueueCall
    BY <1>1, <1>2, <1>5 DEF Lists!SwiftQueueCall
  <1>6. CASE Lists!DoubleQueueCall
    BY <1>1, <1>2, <1>6 DEF Lists!DoubleQueueCall
  <1>7. CASE Lists!ListCall
    BY <1>2, <1>7 DEF Lists!ListCall
  <1> QED
    BY <1>2, <1>3, <1>4, <1>5, <1>6, <1>7

(* So it holds in every step. *)
LEMMA ListStep ==
  ASSUME ListInv, [Lists!Next]_(Lists!vars)
  PROVE  ListInv'
  <1>1. CASE Lists!Next
    <2>1. Lists!Indices \subseteq Int
      BY ListAssumption DEF Lists!Indices
    <2>2. /\ \/ \E i \in Int, e \in ListElements : Lists!Add(i, e) \/ Lists!Set(i, e)
             \/ \E i \in Int : Lists!Remove(i) \/ Lists!Get(i)
             \/ \E e \in ListElements : Lists!RemoveElement(e) \/ Lists!IndexOf(e)
             \/ Lists!Clear \/ Lists!resetCurrent \/ Lists!nextCurrent \/ Lists!removeCurrent
          /\ UNCHANGED lClass
      BY <1>1, <2>1, CallsOfList
    <2> QED
      BY <2>2, ListCallStep
  <1>2. CASE UNCHANGED Lists!vars
    BY <1>2 DEF Lists!vars, ListInv
  <1> QED
    BY <1>1, <1>2

(* An object that represents a path is linked as WellLinked says. *)
LEMMA ListWellLinked ==
  ASSUME ListInv
  PROVE  Lists!WellLinked
  <1> DEFINE s == list.size
             node(k) == Lists!Walk(list.next, list.first, k)
             ring == lClass \in {"WGSingleCycleList", "WGDoubleCycleList", "DoubleCycleList"}
             ends == CASE ring -> {list.first}
                       [] lClass = "SingleCycleList" -> {list.first, Lists!nil}
                       [] OTHER -> {Lists!nil}
  <1>1. PICK p : Shape(lClass, list, p)
    BY DEF ListInv
  <1>2. s \in Nat /\ list \in ListType /\ (Lists!OneWay <=> lClass \in OneWays) /\ (ring <=> lClass \in Rings)
    BY Fields DEF ListInv, Lists!OneWay, OneWays, Rings
  <1>3. \A k \in 0..(s - 1) : node(k) = p[k]
    BY <1>1, <1>2, PathWalk DEF Shape
  <1>4. s > 0 => node(s) = list.next[p[s - 1]]
    BY <1>1, <1>2, WalkEnd DEF Shape
  <1>5. ends = Ends(lClass, list)
    BY DEF Ends, Rings
  <1> HIDE DEF node
  <1>6. s = 0 => list.first = Lists!nil /\ list.last = Lists!nil
    BY <1>1 DEF Shape, Path, BothWays
  <1>7. s > 0 => node(s) \in ends
    BY <1>1, <1>4, <1>5 DEF Shape
  <1>8. \A j, k \in 0..(s - 1) : node(j) # Lists!nil /\ (j # k => node(j) # node(k))
    BY <1>1, <1>3, Distinct
  <1>9. ASSUME ~Lists!OneWay, s > 0
        PROVE  /\ list.last = node(s - 1)
               /\ list.prev[list.first] = IF ring THEN list.last ELSE Lists!nil
               /\ \A k \in 1..(s - 1) : list.prev[node(k)] = node(k - 1)
    <2>1. Path(list, p) /\ BothWays(lClass, list, p) /\ s - 1 \in 0..(s - 1)
      BY <1>1, <1>2, <1>9 DEF Shape
    <2>2. list.last = p[s - 1] /\ list.first = p[0]
      BY <1>9, <2>1 DEF Path, BothWays
    <2>3. ASSUME NEW k \in 1..(s - 1) PROVE list.prev[node(k)] = node(k - 1)
      <3>1. k \in 0..(s - 1) /\ k - 1 \in 0..(s - 1)
        BY <1>2
      <3> QED
        BY <1>3, <2>1, <3>1 DEF BothWays, Back
    <2> QED
      BY <1>2, <1>3, <1>9, <2>1, <2>2, <2>3 DEF BothWays
  <1> QED
    BY <1>6, <1>7, <1>8, <1>9 DEF Lists!WellLinked, node

(* Every list class keeps its links in order: size counts different nodes from first to
   last, rings lead back to first, and prev undoes next, whatever was added, removed,
   replaced, cleared or removed under the cursor before. *)
THEOREM ListsStayLinked == Lists!Spec => []WellLinked
  <1>1. Lists!Init => ListInv
    BY ListStart
  <1>2. ListInv /\ [Lists!Next]_(Lists!vars) => ListInv'
    BY ListStep
  <1>3. ListInv => Lists!WellLinked
    BY ListWellLinked
  <1> QED
    BY <1>1, <1>2, <1>3, PTL DEF Lists!Spec, WellLinked

(* What RemoveAt and InsertAt of the lists return. *)
LEMMA ListRemoveAt ==
  ASSUME NEW S, NEW s \in Seq(S), NEW i \in 0..(Len(s) - 1)
  PROVE  LET t == Lists!L!RemoveAt(s, i + 1) IN
         /\ t \in Seq(S) /\ Len(t) = Len(s) - 1
         /\ \A k \in 1..i : t[k] = s[k]
         /\ \A k \in (i + 1)..(Len(s) - 1) : t[k] = s[k + 1]
  <1>1. Lists!L!RemoveAt(s, i + 1) = Arr!L!RemoveAt(s, i + 1)
    BY DEF Lists!L!RemoveAt, Arr!L!RemoveAt
  <1> QED
    BY <1>1, RemoveAtProperties

LEMMA ListInsertAt ==
  ASSUME NEW S, NEW s \in Seq(S), NEW i \in 0..Len(s), NEW e \in S
  PROVE  Inserted(S, s, i, e, Lists!L!InsertAt(s, i + 1, e))
  <1>1. Lists!L!InsertAt(s, i + 1, e) = Arr!L!InsertAt(s, i + 1, e)
    BY DEF Lists!L!InsertAt, Arr!L!InsertAt
  <1> QED
    BY <1>1, InsertAtProperties

(***************************************************************************)
(* What the lists promise                                                   *)
(***************************************************************************)
NodeValue == ListElements \cup {Lists!NOT_FOUND}

(* t holds the elements along p. *)
Reads(l, p, t) ==
  /\ t \in Seq(NodeValue) /\ Len(t) = l.size
  /\ \A k \in 1..l.size : t[k] = l.elem[p[k - 1]]

(* The elements read from front to back are those along the path. *)
LEMMA ContentIs ==
  ASSUME NEW c, NEW l \in ListType, NEW p, Shape(c, l, p)
  PROVE  Reads(l, p, Lists!Content(l))
  <1> DEFINE t == [k \in 1..l.size |-> Lists!At(l, k - 1)]
  <1>1. l.size \in Nat
    BY Fields
  <1>2. ASSUME NEW k \in 1..l.size
        PROVE  Lists!At(l, k - 1) = l.elem[p[k - 1]] /\ l.elem[p[k - 1]] \in NodeValue
    <2>1. k - 1 \in 0..(l.size - 1)
      BY <1>1
    <2>2. p[k - 1] \in Addresses
      BY <2>1, Distinct
    <2>3. Lists!At(l, k - 1) = l.elem[p[k - 1]]
      BY <2>1, ElementAt
    <2> QED
      BY <2>2, <2>3, Fields DEF NodeValue
  <1>3. t \in [1..l.size -> NodeValue] /\ \A k \in 1..l.size : t[k] = l.elem[p[k - 1]]
    BY <1>2
  <1> HIDE DEF t
  <1>4. t \in Seq(NodeValue) /\ Len(t) = l.size
    BY <1>1, <1>3
  <1> QED
    BY <1>3, <1>4 DEF Lists!Content, Reads, t

(* add: inserts its element. *)
LEMMA ContentGained ==
  ASSUME NEW c, NEW l \in ListType, NEW p, Shape(c, l, p), NEW i \in 0..l.size,
         NEW n, NEW e \in ListElements, NEW m, Gained(c, l, m, p, i, n, e)
  PROVE  Lists!Content(m) = Lists!L!InsertAt(Lists!Content(l), i + 1, e)
  <1> DEFINE s == l.size
             q == Insert(p, s, i, n)
             C == Lists!Content(l)
             New == Lists!Content(m)
             r == Lists!L!InsertAt(C, i + 1, e)
  <1>1. /\ m \in ListType /\ m.size = s + 1 /\ Shape(c, m, q) /\ s \in Nat
        /\ \A k \in 0..s : m.elem[q[k]] =
             IF k < i THEN l.elem[p[k]] ELSE IF k = i THEN e ELSE l.elem[p[k - 1]]
    BY Fields DEF Gained
  <1> HIDE DEF q
  <1>2. C \in Seq(NodeValue) /\ Len(C) = s /\ \A k \in 1..s : C[k] = l.elem[p[k - 1]]
    BY ContentIs DEF Reads
  <1>3. New \in Seq(NodeValue) /\ Len(New) = s + 1 /\ \A k \in 1..(s + 1) : New[k] = m.elem[q[k - 1]]
    <2>1. Reads(m, q, New)
      BY <1>1, ContentIs
    <2> HIDE DEF New
    <2> QED
      BY <1>1, <2>1 DEF Reads
  <1> HIDE DEF C, New
  <1>4. /\ r \in Seq(NodeValue) /\ Len(r) = s + 1
        /\ \A k \in 1..i : r[k] = C[k]
        /\ r[i + 1] = e
        /\ \A k \in (i + 2)..(s + 1) : r[k] = C[k - 1]
    <2>1. e \in NodeValue /\ i \in 0..Len(C) /\ C \in Seq(NodeValue)
      BY <1>2 DEF NodeValue
    <2>2. Inserted(NodeValue, C, i, e, r)
      BY <2>1, ListInsertAt
    <2> HIDE DEF r
    <2> QED
      BY <1>2, <2>2 DEF Inserted
  <1> HIDE DEF r, s
  <1>5. ASSUME NEW k \in 1..(s + 1) PROVE New[k] = r[k]
    <2>1. k - 1 \in 0..s /\ New[k] = m.elem[q[k - 1]]
      BY <1>1, <1>3
    <2>2. CASE k - 1 < i
      <3>1. k \in 1..i /\ k \in 1..s
        BY <1>1, <2>2 DEF s
      <3> QED
        BY <1>1, <1>2, <1>4, <2>1, <2>2, <3>1
    <2>3. CASE k - 1 = i
      <3>1. k = i + 1 /\ ~(k - 1 < i)
        BY <1>1, <2>3 DEF s
      <3> QED
        BY <1>1, <1>4, <2>1, <2>3, <3>1
    <2>4. CASE k - 1 > i
      <3>1. k \in (i + 2)..(s + 1) /\ k - 1 \in 1..s /\ ~(k - 1 < i) /\ k - 1 # i
        BY <1>1, <2>4 DEF s
      <3> QED
        BY <1>1, <1>2, <1>4, <2>1, <3>1
    <2>5. i \in Int
      OBVIOUS
    <2> QED
      BY <2>1, <2>5, <2>2, <2>3, <2>4
  <1>6. New = r
    BY <1>3, <1>4, <1>5, SameSeq
  <1> QED
    BY <1>6 DEF C, New, r

(* remove: removes the element at i. *)
LEMMA ContentShrunk ==
  ASSUME NEW c, NEW l \in ListType, NEW p, Shape(c, l, p), NEW i \in 0..(l.size - 1),
         NEW m, Shrunk(c, l, m, p, i)
  PROVE  Lists!Content(m) = Lists!L!RemoveAt(Lists!Content(l), i + 1)
  <1> DEFINE s == l.size
             q == Delete(p, s, i)
             C == Lists!Content(l)
             New == Lists!Content(m)
             r == Lists!L!RemoveAt(C, i + 1)
  <1>1. /\ m \in ListType /\ m.size = s - 1 /\ Shape(c, m, q) /\ s \in Nat /\ s > 0
        /\ \A k \in 0..(s - 2) : m.elem[q[k]] = IF k < i THEN l.elem[p[k]] ELSE l.elem[p[k + 1]]
    BY Fields DEF Shrunk
  <1> HIDE DEF q
  <1>2. C \in Seq(NodeValue) /\ Len(C) = s /\ \A k \in 1..s : C[k] = l.elem[p[k - 1]]
    BY ContentIs DEF Reads
  <1>3. New \in Seq(NodeValue) /\ Len(New) = s - 1 /\ \A k \in 1..(s - 1) : New[k] = m.elem[q[k - 1]]
    <2>1. Reads(m, q, New)
      BY <1>1, ContentIs
    <2> HIDE DEF New
    <2> QED
      BY <1>1, <2>1 DEF Reads
  <1> HIDE DEF C, New
  <1>4. /\ r \in Seq(NodeValue) /\ Len(r) = s - 1
        /\ \A k \in 1..i : r[k] = C[k]
        /\ \A k \in (i + 1)..(s - 1) : r[k] = C[k + 1]
    <2>1. i \in 0..(Len(C) - 1)
      BY <1>2
    <2> QED
      BY <1>2, <2>1, ListRemoveAt
  <1> HIDE DEF r, s
  <1>5. ASSUME NEW k \in 1..(s - 1) PROVE New[k] = r[k]
    <2>1. k - 1 \in 0..(s - 2) /\ New[k] = m.elem[q[k - 1]] /\ (k - 1) + 1 = k
      BY <1>1, <1>3
    <2>2. CASE k - 1 < i
      <3>1. k \in 1..i /\ k \in 1..s
        BY <1>1, <2>2 DEF s
      <3> QED
        BY <1>1, <1>2, <1>4, <2>1, <2>2, <3>1
    <2>3. CASE ~(k - 1 < i)
      <3>1. k \in (i + 1)..(s - 1) /\ k + 1 \in 1..s /\ (k + 1) - 1 = k
        BY <1>1, <2>3 DEF s
      <3>2. New[k] = l.elem[p[k]]
        BY <1>1, <2>1, <2>3
      <3>3. r[k] = C[k + 1] /\ C[k + 1] = l.elem[p[(k + 1) - 1]]
        BY <1>2, <1>4, <3>1
      <3> QED
        BY <3>1, <3>2, <3>3
    <2> QED
      BY <2>2, <2>3
  <1>6. New = r
    BY <1>3, <1>4, <1>5, SameSeq
  <1> QED
    BY <1>6 DEF C, New, r

(* set:withElement: replaces the element at i. *)
LEMMA ContentChanged ==
  ASSUME NEW c, NEW l \in ListType, NEW p, Shape(c, l, p), NEW i \in 0..(l.size - 1),
         NEW e \in ListElements, NEW m, Changed(c, l, m, p, i, e)
  PROVE  Lists!Content(m) = Lists!L!ReplaceAt(Lists!Content(l), i + 1, e)
  <1> DEFINE s == l.size
             C == Lists!Content(l)
             New == Lists!Content(m)
             r == [C EXCEPT ![i + 1] = e]
  <1>1. /\ m \in ListType /\ m.size = s /\ Shape(c, m, p) /\ s \in Nat
        /\ \A k \in 0..(s - 1) : m.elem[p[k]] = IF k = i THEN e ELSE l.elem[p[k]]
    BY Fields DEF Changed
  <1>2. C \in Seq(NodeValue) /\ Len(C) = s /\ \A k \in 1..s : C[k] = l.elem[p[k - 1]]
    BY ContentIs DEF Reads
  <1>3. New \in Seq(NodeValue) /\ Len(New) = s /\ \A k \in 1..s : New[k] = m.elem[p[k - 1]]
    <2>1. Reads(m, p, New)
      BY <1>1, ContentIs
    <2> HIDE DEF New
    <2> QED
      BY <1>1, <2>1 DEF Reads
  <1> HIDE DEF C, New
  <1>4. r \in Seq(NodeValue) /\ Len(r) = s /\ \A k \in 1..s : r[k] = IF k = i + 1 THEN e ELSE C[k]
    <2>1. e \in NodeValue
      BY DEF NodeValue
    <2> QED
      BY <1>1, <1>2, <2>1
  <1> HIDE DEF r
  <1>5. ASSUME NEW k \in 1..s PROVE New[k] = r[k]
    <2>1. k - 1 \in 0..(s - 1) /\ (k - 1 = i <=> k = i + 1)
      BY <1>1
    <2> QED
      BY <1>1, <1>2, <1>3, <1>4, <2>1
  <1>6. New = r
    BY <1>3, <1>4, <1>5, SameSeq
  <1> QED
    BY <1>6 DEF C, New, r, Lists!L!ReplaceAt

(* Moving the cursor changes no element. *)
LEMMA ContentKept ==
  ASSUME NEW c, NEW l \in ListType, NEW p, Shape(c, l, p), NEW m, Kept(c, l, m, p)
  PROVE  Lists!Content(m) = Lists!Content(l)
  <1>1. /\ m \in ListType /\ m.size = l.size /\ Shape(c, m, p) /\ l.size \in Nat
        /\ \A k \in 0..(l.size - 1) : m.elem[p[k]] = l.elem[p[k]]
    BY Fields DEF Kept
  <1> DEFINE C == Lists!Content(l)
             New == Lists!Content(m)
  <1>2. C \in Seq(NodeValue) /\ Len(C) = l.size /\ \A k \in 1..l.size : C[k] = l.elem[p[k - 1]]
    BY ContentIs DEF Reads
  <1>3. New \in Seq(NodeValue) /\ Len(New) = l.size /\ \A k \in 1..l.size : New[k] = m.elem[p[k - 1]]
    <2>1. Reads(m, p, New)
      BY <1>1, ContentIs
    <2> HIDE DEF New
    <2> QED
      BY <1>1, <2>1 DEF Reads
  <1> HIDE DEF C, New
  <1>4. ASSUME NEW k \in 1..l.size PROVE New[k] = C[k]
    <2>1. k - 1 \in 0..(l.size - 1)
      BY <1>1
    <2> QED
      BY <1>1, <1>2, <1>3, <2>1
  <1>5. New = C
    BY <1>2, <1>3, <1>4, SameSeq
  <1> QED
    BY <1>5 DEF C, New

(* The position of a cursor at x. *)
CursorAt(l, x) ==
  IF x = Lists!nil THEN -1
  ELSE IF \E k \in 0..(l.size - 1) : Lists!Walk(l.next, l.first, k) = x
       THEN CHOOSE k \in 0..(l.size - 1) : Lists!Walk(l.next, l.first, k) = x
       ELSE -2

(* A cursor at x is at position a of a path of s nodes, lost or nowhere. *)
Points(p, s, x, a) ==
  /\ x = Lists!nil => a = -1
  /\ \A k \in 0..(s - 1) : x = p[k] => a = k
  /\ x # Lists!nil /\ (\A k \in 0..(s - 1) : x # p[k]) => a = -2
  /\ \/ a = -1 /\ x = Lists!nil
     \/ a = -2 /\ x # Lists!nil /\ \A k \in 0..(s - 1) : x # p[k]
     \/ \E k \in 0..(s - 1) : a = k /\ x = p[k]

(* AbstractCursor finds the position of the cursor on the path. *)
LEMMA CursorIs ==
  ASSUME NEW c, NEW l \in ListType, NEW p, Shape(c, l, p), NEW x
  PROVE  Points(p, l.size, x, CursorAt(l, x))
  <1> DEFINE w(k) == Lists!Walk(l.next, l.first, k)
  <1>1. \A k \in 0..(l.size - 1) : w(k) = p[k]
    BY PathWalk DEF Shape
  <1>2. CursorAt(l, x) = IF x = Lists!nil THEN -1
                         ELSE IF \E k \in 0..(l.size - 1) : w(k) = x
                              THEN CHOOSE k \in 0..(l.size - 1) : w(k) = x ELSE -2
    BY DEF CursorAt
  <1> HIDE DEF w
  <1>3. \A j, k \in 0..(l.size - 1) : j # k => p[j] # p[k]
    BY Distinct
  <1>4. \A k \in 0..(l.size - 1) : p[k] # Lists!nil
    BY Distinct
  <1>5. ASSUME NEW k \in 0..(l.size - 1), x = p[k] PROVE CursorAt(l, x) = k
    <2> DEFINE j == CHOOSE y \in 0..(l.size - 1) : w(y) = x
    <2>1. j \in 0..(l.size - 1) /\ w(j) = x
      BY <1>1, <1>5
    <2>2. x # Lists!nil /\ CursorAt(l, x) = j
      BY <1>1, <1>2, <1>4, <1>5
    <2> HIDE DEF j
    <2> QED
      BY <1>1, <1>3, <1>5, <2>1, <2>2
  <1>6. x = Lists!nil => CursorAt(l, x) = -1
    BY <1>2
  <1>7. x # Lists!nil /\ (\A k \in 0..(l.size - 1) : x # p[k]) => CursorAt(l, x) = -2
    BY <1>1, <1>2
  <1> QED
    BY <1>5, <1>6, <1>7 DEF Points

(* A cursor at a stays on its element, at b, when a node comes in at i, and when the
   one at i leaves, unless it was on that one. *)
MovedOn(s, i, a, b) == b = IF a \in 0..(s - 1) /\ a >= i THEN a + 1 ELSE a

MovedUp(s, i, a, b) ==
  b = IF a = i THEN -2 ELSE IF a \in 0..(s - 1) /\ a > i THEN a - 1 ELSE a

(* add: moves a cursor with its element. *)
LEMMA CursorGained ==
  ASSUME NEW c, NEW l \in ListType, NEW p, Shape(c, l, p), NEW i \in 0..l.size,
         NEW n, NEW e, NEW m, Gained(c, l, m, p, i, n, e), NEW x, x # n
  PROVE  MovedOn(l.size, i, CursorAt(l, x), CursorAt(m, x))
  <1> DEFINE s == l.size
             q == Insert(p, s, i, n)
             a == CursorAt(l, x)
             b == CursorAt(m, x)
  <1>1. m \in ListType /\ m.size = s + 1 /\ Shape(c, m, q) /\ s \in Nat /\ (s + 1) - 1 = s
    BY Fields DEF Gained
  <1>2. \A k \in 0..s : q[k] = IF k < i THEN p[k] ELSE IF k = i THEN n ELSE p[k - 1]
    BY DEF Insert
  <1> HIDE DEF q
  <1>3. /\ x = Lists!nil => b = -1
        /\ \A k \in 0..s : x = q[k] => b = k
        /\ x # Lists!nil /\ (\A k \in 0..s : x # q[k]) => b = -2
    <2>1. Points(q, m.size, x, b)
      BY <1>1, CursorIs
    <2> HIDE DEF b, s
    <2> QED
      BY <1>1, <2>1 DEF Points
  <1>4. \/ a = -1 /\ x = Lists!nil
        \/ a = -2 /\ x # Lists!nil /\ \A k \in 0..(s - 1) : x # p[k]
        \/ \E k \in 0..(s - 1) : a = k /\ x = p[k]
    BY CursorIs DEF Points
  <1> HIDE DEF a, b, s
  <1>5. CASE a = -1 /\ x = Lists!nil
    BY <1>1, <1>3, <1>5 DEF a, b, s, MovedOn
  <1>6. CASE a = -2 /\ x # Lists!nil /\ \A k \in 0..(s - 1) : x # p[k]
    <2>1. ASSUME NEW k \in 0..s PROVE x # q[k]
      <3>1. (k < i => k \in 0..(s - 1)) /\ (~(k < i) /\ k # i => k - 1 \in 0..(s - 1))
        BY <1>1 DEF s
      <3> QED
        BY <1>2, <1>6, <3>1
    <2> QED
      BY <1>1, <1>3, <1>6, <2>1 DEF a, b, s, MovedOn
  <1>7. ASSUME NEW k \in 0..(s - 1), a = k, x = p[k]
        PROVE  b = IF a >= i THEN a + 1 ELSE a
    <2>1. CASE k < i
      <3>1. k \in 0..s /\ q[k] = p[k] /\ ~(k >= i)
        BY <1>1, <1>2, <2>1 DEF s
      <3> QED
        BY <1>3, <1>7, <3>1
    <2>2. CASE k >= i
      <3>1. k + 1 \in 0..s /\ ~(k + 1 < i) /\ k + 1 # i /\ (k + 1) - 1 = k
        BY <1>1, <2>2 DEF s
      <3>2. q[k + 1] = p[k]
        BY <1>2, <3>1
      <3> QED
        BY <1>3, <1>7, <2>2, <3>1, <3>2
    <2> QED
      BY <1>1, <2>1, <2>2 DEF s
  <1> QED
    BY <1>4, <1>5, <1>6, <1>7 DEF a, b, s, MovedOn

(* See CursorGained; a cursor on the node that leaves is lost. *)
LEMMA CursorShrunk ==
  ASSUME NEW c, NEW l \in ListType, NEW p, Shape(c, l, p), NEW i \in 0..(l.size - 1),
         NEW m, Shrunk(c, l, m, p, i), NEW x
  PROVE  MovedUp(l.size, i, CursorAt(l, x), CursorAt(m, x))
  <1> DEFINE s == l.size
             q == Delete(p, s, i)
             a == CursorAt(l, x)
             b == CursorAt(m, x)
  <1>1. m \in ListType /\ m.size = s - 1 /\ Shape(c, m, q) /\ s \in Nat /\ (s - 1) - 1 = s - 2
    BY Fields DEF Shrunk
  <1>2. \A k \in 0..(s - 2) : q[k] = IF k < i THEN p[k] ELSE p[k + 1]
    BY DEF Delete
  <1> HIDE DEF q
  <1>3. /\ x = Lists!nil => b = -1
        /\ \A k \in 0..(s - 2) : x = q[k] => b = k
        /\ x # Lists!nil /\ (\A k \in 0..(s - 2) : x # q[k]) => b = -2
    <2>1. Points(q, m.size, x, b)
      BY <1>1, CursorIs
    <2> HIDE DEF b, s
    <2> QED
      BY <1>1, <2>1 DEF Points
  <1>4. \/ a = -1 /\ x = Lists!nil
        \/ a = -2 /\ x # Lists!nil /\ \A k \in 0..(s - 1) : x # p[k]
        \/ \E k \in 0..(s - 1) : a = k /\ x = p[k]
    BY CursorIs DEF Points
  <1>4a. /\ \A j, k \in 0..(s - 1) : j # k => p[j] # p[k]
         /\ \A k \in 0..(s - 1) : p[k] # Lists!nil
    BY Distinct
  <1> HIDE DEF a, b, s
  <1>5. CASE a = -1 /\ x = Lists!nil
    BY <1>1, <1>3, <1>5 DEF a, b, s, MovedUp
  <1>6. CASE a = -2 /\ x # Lists!nil /\ \A k \in 0..(s - 1) : x # p[k]
    <2>1. ASSUME NEW k \in 0..(s - 2) PROVE x # q[k]
      <3>1. k \in 0..(s - 1) /\ k + 1 \in 0..(s - 1)
        BY <1>1
      <3> QED
        BY <1>2, <1>6, <3>1
    <2> QED
      BY <1>1, <1>3, <1>6, <2>1 DEF a, b, s, MovedUp
  <1>7. ASSUME NEW k \in 0..(s - 1), a = k, x = p[k]
        PROVE  b = IF a = i THEN -2 ELSE IF a > i THEN a - 1 ELSE a
    <2>1. CASE k < i
      <3>1. k \in 0..(s - 2) /\ q[k] = p[k] /\ ~(k > i) /\ k # i
        BY <1>1, <1>2, <2>1 DEF s
      <3> QED
        BY <1>3, <1>7, <3>1
    <2>2. CASE k = i
      <3>1. ASSUME NEW j \in 0..(s - 2) PROVE x # q[j]
        <4>1. j \in 0..(s - 1) /\ j + 1 \in 0..(s - 1)
          BY <1>1
        <4>2. (j < i => j # k) /\ (~(j < i) => j + 1 # k)
          BY <1>1, <2>2 DEF s
        <4> QED
          BY <1>2, <1>4a, <1>7, <4>1, <4>2
      <3> QED
        BY <1>3, <1>4a, <1>7, <2>2, <3>1
    <2>3. CASE k > i
      <3>1. k - 1 \in 0..(s - 2) /\ ~(k - 1 < i) /\ (k - 1) + 1 = k /\ k # i
        BY <1>1, <2>3 DEF s
      <3>2. q[k - 1] = p[k]
        BY <1>2, <3>1
      <3> QED
        BY <1>3, <1>7, <2>3, <3>1, <3>2
    <2> QED
      BY <1>1, <2>1, <2>2, <2>3 DEF s
  <1> QED
    BY <1>4, <1>5, <1>6, <1>7 DEF a, b, s, MovedUp

(* The cursor before and after a step. *)
LEMMA CursorHere ==
  Lists!AbstractCursor = CursorAt(list, current)
  /\ Lists!AbstractCursor' = CursorAt(list', current')
  BY DEF Lists!AbstractCursor, Lists!InList, Lists!Position, CursorAt

(* A call that changes nothing leaves the elements and the cursor alone. *)
LEMMA SameElements ==
  ASSUME Lists!Same
  PROVE  Lists!Content(list)' = Lists!Content(list) /\ Lists!AbstractCursor' = Lists!AbstractCursor
  <1>1. list' = list /\ current' = current
    BY DEF Lists!Same
  <1> QED
    BY <1>1, CursorHere

(* What the current list reads as, one element per node of its path. *)
LEMMA ContentHere ==
  ASSUME ListInv, NEW p, Shape(lClass, list, p)
  PROVE  /\ Lists!Content(list) \in Seq(NodeValue) /\ Len(Lists!Content(list)) = list.size
            /\ list.size \in Nat
         /\ \A k \in 0..(list.size - 1) : Lists!Content(list)[k + 1] = list.elem[p[k]]
  <1> DEFINE C == Lists!Content(list)
  <1>1. Reads(list, p, C)
    BY ContentIs DEF ListInv
  <1>2. list.size \in Nat
    BY Fields DEF ListInv
  <1> HIDE DEF C
  <1>3. ASSUME NEW k \in 0..(list.size - 1) PROVE C[k + 1] = list.elem[p[k]]
    <2>1. k + 1 \in 1..list.size /\ (k + 1) - 1 = k
      BY <1>2
    <2> QED
      BY <1>1, <2>1 DEF Reads
  <1> QED
    BY <1>1, <1>2, <1>3 DEF C, Reads

(* add:withElement:, also with a bad index *)
LEMMA AddImplementsAdd ==
  ASSUME ListInv, NEW i \in Int, NEW e \in ListElements, Lists!Add(i, e)
  PROVE  Lists!L!AddAt(i, e)
  <1>1. PICK p : Shape(lClass, list, p)
    BY DEF ListInv
  <1>2. Len(Lists!Content(list)) = list.size /\ list.size \in Nat
    BY <1>1, ContentHere
  <1>3. lCall' = <<"add", i, e>>
    BY DEF Lists!Add
  <1>4. CASE i \in 0..list.size
    <2>1. PICK n : /\ Fresh(p, list.size, n) /\ n # current
                   /\ Gained(lClass, list, list', p, i, n, e)
                   /\ current' = current /\ lRet' = Lists!Void
      BY <1>1, <1>4, AddEffect
    <2>2. Lists!Content(list') = Lists!L!InsertAt(Lists!Content(list), i + 1, e)
      BY <1>1, <1>4, <2>1, ContentGained DEF ListInv
    <2>3. MovedOn(list.size, i, CursorAt(list, current), CursorAt(list', current))
      BY <1>1, <1>4, <2>1, CursorGained DEF ListInv
    <2>4. Lists!AbstractCursor' =
            IF Lists!AbstractCursor \in 0..(list.size - 1) /\ Lists!AbstractCursor >= i
            THEN Lists!AbstractCursor + 1 ELSE Lists!AbstractCursor
      BY <2>1, <2>3, CursorHere DEF MovedOn
    <2> QED
      BY <1>2, <1>3, <1>4, <2>1, <2>2, <2>4
      DEF Lists!L!AddAt, Lists!L!OnElement, Lists!L!Positions, Lists!L!Void, Lists!Void
  <1>5. CASE i \notin 0..list.size
    <2>1. ~(0 <= i /\ i <= list.size)
      BY <1>2, <1>5
    <2>2. Lists!BadIndex(Lists!Void)
      BY <2>1 DEF Lists!Add
    <2>3. lRet' = Lists!Void /\ Lists!Same
      BY <2>2 DEF Lists!BadIndex
    <2> QED
      BY <1>2, <1>3, <1>5, <2>3, SameElements DEF Lists!L!AddAt, Lists!L!Void, Lists!Void
  <1> QED
    BY <1>4, <1>5

(* The element at i leaves. *)
LEMMA ShrunkImplementsTaken ==
  ASSUME ListInv, NEW p, Shape(lClass, list, p), NEW i \in 0..(list.size - 1),
         Lists!Becomes(Lists!Op_remove(i), current)
  PROVE  Lists!L!Taken(i)
  <1>1. Shrunk(lClass, list, list', p, i) /\ current' = current
    BY TakeEffect
  <1>2. Lists!Content(list') = Lists!L!RemoveAt(Lists!Content(list), i + 1)
    BY <1>1, ContentShrunk DEF ListInv
  <1>3. MovedUp(list.size, i, CursorAt(list, current), CursorAt(list', current))
    BY <1>1, CursorShrunk DEF ListInv
  <1>4. Lists!AbstractCursor' =
          IF Lists!AbstractCursor = i THEN -2
          ELSE IF Lists!AbstractCursor \in 0..(list.size - 1) /\ Lists!AbstractCursor > i
          THEN Lists!AbstractCursor - 1 ELSE Lists!AbstractCursor
    BY <1>1, <1>3, CursorHere DEF MovedUp
  <1>5. Len(Lists!Content(list)) = list.size /\ list.size \in Nat
    BY ContentHere
  <1> QED
    BY <1>2, <1>4, <1>5 DEF Lists!L!Taken, Lists!L!OnElement, Lists!L!Positions, Lists!L!Lost

(* remove:, also with a bad index *)
LEMMA RemoveImplementsRemove ==
  ASSUME ListInv, NEW i \in Int, Lists!Remove(i)
  PROVE  Lists!L!RemoveIndex(i)
  <1>1. PICK p : Shape(lClass, list, p)
    BY DEF ListInv
  <1>2. /\ Len(Lists!Content(list)) = list.size /\ list.size \in Nat
        /\ \A k \in 0..(list.size - 1) : Lists!Content(list)[k + 1] = list.elem[p[k]]
    BY <1>1, ContentHere
  <1>3. lCall' = <<"remove", i>>
    BY DEF Lists!Remove
  <1>4. CASE i \in 0..(list.size - 1)
    <2>1. Lists!InRange(list, i)
      BY <1>2, <1>4 DEF Lists!InRange
    <2>2. Lists!Becomes(Lists!Op_remove(i), current) /\ lRet' = list.elem[Lists!getNodeWithIndex(i)]
      BY <2>1 DEF Lists!Remove
    <2>3. lRet' = Lists!Content(list)[i + 1]
      BY <1>1, <1>2, <1>4, <2>2, OpNode DEF ListInv
    <2>4. Lists!L!Taken(i)
      BY <1>1, <1>4, <2>2, ShrunkImplementsTaken
    <2> QED
      BY <1>2, <1>3, <1>4, <2>3, <2>4 DEF Lists!L!RemoveIndex, Lists!L!Positions
  <1>5. CASE i \notin 0..(list.size - 1)
    <2>1. ~Lists!InRange(list, i)
      BY <1>2, <1>5 DEF Lists!InRange
    <2>2. Lists!BadIndex(Lists!NOT_FOUND)
      BY <2>1 DEF Lists!Remove
    <2>3. lRet' = Lists!NOT_FOUND /\ Lists!Same
      BY <2>2 DEF Lists!BadIndex
    <2> QED
      BY <1>2, <1>3, <1>5, <2>3, SameElements
      DEF Lists!L!RemoveIndex, Lists!L!Positions, Lists!L!NOT_FOUND, Lists!NOT_FOUND
  <1> QED
    BY <1>4, <1>5

(* indexOf: is the position of the first such element, -1 if there is none. *)
LEMMA IndexIsPosition ==
  ASSUME ListInv, NEW p, Shape(lClass, list, p), NEW e
  PROVE  /\ Lists!L!PositionOf(e) = Lists!indexOf(list, e)
         /\ e \in Lists!L!Range(Lists!Content(list)) <=> Lists!indexOf(list, e) # Lists!NOT_FOUND
         /\ Lists!indexOf(list, e) # Lists!NOT_FOUND => Lists!indexOf(list, e) \in 0..(list.size - 1)
  <1> DEFINE C == Lists!Content(list)
             I == {k \in 1..Len(C) : C[k] = e}
             x == Lists!indexOf(list, e)
  <1>1. /\ C \in Seq(NodeValue) /\ Len(C) = list.size /\ list.size \in Nat
        /\ \A k \in 0..(list.size - 1) : C[k + 1] = list.elem[p[k]]
    BY ContentHere
  <1>2. \/ x = Lists!NOT_FOUND /\ \A k \in 0..(list.size - 1) : list.elem[p[k]] # e
        \/ /\ x \in 0..(list.size - 1) /\ x # Lists!NOT_FOUND
           /\ list.elem[p[x]] = e
           /\ \A k \in 0..(list.size - 1) : list.elem[p[k]] = e => x <= k
    BY FirstIndex DEF ListInv
  <1>3. Lists!L!PositionOf(e) = (IF I # {} THEN Lists!L!Min(I) ELSE 0) - 1
    BY DEF Lists!L!PositionOf, Lists!L!SelectInSeq
  <1>4. e \in Lists!L!Range(C) <=> I # {}
    <2> HIDE DEF C
    <2> QED
      BY <1>1 DEF Lists!L!Range
  <1> HIDE DEF C, x
  <1>5. \A k \in I : k - 1 \in 0..(list.size - 1) /\ list.elem[p[k - 1]] = e /\ k \in Int
    <2>1. ASSUME NEW k \in 1..list.size PROVE k - 1 \in 0..(list.size - 1) /\ (k - 1) + 1 = k
      BY <1>1
    <2> QED
      BY <1>1, <2>1
  <1>6. CASE x = Lists!NOT_FOUND /\ \A k \in 0..(list.size - 1) : list.elem[p[k]] # e
    <2>1. I = {}
      BY <1>5, <1>6
    <2> HIDE DEF I
    <2>2. Lists!L!PositionOf(e) = x
      BY <1>3, <1>6, <2>1 DEF Lists!NOT_FOUND
    <2> QED
      BY <1>4, <1>6, <2>1, <2>2 DEF x, C
  <1>7. CASE /\ x \in 0..(list.size - 1) /\ x # Lists!NOT_FOUND
             /\ list.elem[p[x]] = e
             /\ \A k \in 0..(list.size - 1) : list.elem[p[k]] = e => x <= k
    <2>1. x + 1 \in 1..Len(C) /\ C[x + 1] = e /\ x \in Int
      BY <1>1, <1>7
    <2>2. x + 1 \in I
      BY <2>1
    <2>3. \A k \in I : x + 1 <= k
      <3> SUFFICES ASSUME NEW k \in I PROVE x + 1 <= k
        OBVIOUS
      <3>1. k - 1 \in 0..(list.size - 1) /\ list.elem[p[k - 1]] = e /\ k \in Int
        BY <1>5
      <3>2. x <= k - 1
        BY <1>7, <3>1
      <3> HIDE DEF I
      <3> QED
        BY <2>1, <3>1, <3>2
    <2> HIDE DEF I
    <2> DEFINE y == CHOOSE z \in I : \A k \in I : z <= k
    <2>4. y \in I /\ \A k \in I : y <= k
      BY <2>2, <2>3
    <2>5. Lists!L!Min(I) = y
      BY DEF Lists!L!Min
    <2> HIDE DEF y
    <2>6. y = x + 1
      <3>1. y <= x + 1 /\ x + 1 <= y /\ y \in Int
        BY <1>5, <2>2, <2>3, <2>4
      <3> QED
        BY <2>1, <3>1
    <2>7. Lists!L!PositionOf(e) = x /\ I # {}
      BY <1>3, <2>1, <2>2, <2>5, <2>6
    <2> QED
      BY <1>4, <1>7, <2>7 DEF x, C
  <1> QED
    BY <1>2, <1>6, <1>7

(* indexOf: and removeElement: *)
LEMMA SearchImplementsSearch ==
  ASSUME ListInv, NEW e \in ListElements
  PROVE  /\ Lists!IndexOf(e) => Lists!L!IndexOf(e)
         /\ Lists!RemoveElement(e) => Lists!L!RemoveElement(e)
  <1>1. PICK p : Shape(lClass, list, p)
    BY DEF ListInv
  <1>2. /\ Lists!L!PositionOf(e) = Lists!indexOf(list, e)
        /\ e \in Lists!L!Range(Lists!Content(list)) <=> Lists!indexOf(list, e) # Lists!NOT_FOUND
        /\ Lists!indexOf(list, e) # Lists!NOT_FOUND => Lists!indexOf(list, e) \in 0..(list.size - 1)
    BY <1>1, IndexIsPosition
  <1>3. ASSUME Lists!IndexOf(e) PROVE Lists!L!IndexOf(e)
    <2>1. lCall' = <<"indexOf", e>> /\ lRet' = Lists!indexOf(list, e) /\ Lists!Same
      BY <1>3 DEF Lists!IndexOf
    <2> QED
      BY <1>2, <2>1, SameElements DEF Lists!L!IndexOf
  <1>4. ASSUME Lists!RemoveElement(e) PROVE Lists!L!RemoveElement(e)
    <2>1. lCall' = <<"removeElement", e>> /\ lRet' = Lists!Void
      BY <1>4 DEF Lists!RemoveElement
    <2>2. CASE Lists!indexOf(list, e) # Lists!NOT_FOUND
      <3>1. Lists!Becomes(Lists!Op_remove(Lists!indexOf(list, e)), current)
        BY <1>4, <2>2 DEF Lists!RemoveElement
      <3>2. Lists!L!Taken(Lists!indexOf(list, e))
        BY <1>1, <1>2, <2>2, <3>1, ShrunkImplementsTaken
      <3>3. Lists!L!Taken(Lists!L!PositionOf(e))
        BY <1>2, <3>2
      <3> QED
        BY <1>2, <2>1, <2>2, <3>3 DEF Lists!L!RemoveElement, Lists!L!Void, Lists!Void
    <2>3. CASE Lists!indexOf(list, e) = Lists!NOT_FOUND
      <3>1. Lists!Same
        BY <1>4, <2>3 DEF Lists!RemoveElement
      <3> QED
        BY <1>2, <2>1, <2>3, <3>1, SameElements DEF Lists!L!RemoveElement, Lists!L!Void, Lists!Void
    <2> QED
      BY <2>2, <2>3
  <1> QED
    BY <1>3, <1>4

(* get:, also with a bad index *)
LEMMA GetImplementsGet ==
  ASSUME ListInv, NEW i \in Int, Lists!Get(i)
  PROVE  Lists!L!GetIndex(i)
  <1>1. PICK p : Shape(lClass, list, p)
    BY DEF ListInv
  <1>2. /\ Len(Lists!Content(list)) = list.size /\ list.size \in Nat
        /\ \A k \in 0..(list.size - 1) : Lists!Content(list)[k + 1] = list.elem[p[k]]
    BY <1>1, ContentHere
  <1>3. lCall' = <<"get", i>>
    BY DEF Lists!Get
  <1>4. CASE i \in 0..(list.size - 1)
    <2>1. Lists!InRange(list, i)
      BY <1>2, <1>4 DEF Lists!InRange
    <2>2. Lists!Same /\ lRet' = list.elem[Lists!getNodeWithIndex(i)]
      BY <2>1 DEF Lists!Get
    <2>3. lRet' = Lists!Content(list)[i + 1]
      BY <1>1, <1>2, <1>4, <2>2, OpNode DEF ListInv
    <2> QED
      BY <1>2, <1>3, <1>4, <2>2, <2>3, SameElements DEF Lists!L!GetIndex, Lists!L!Positions
  <1>5. CASE i \notin 0..(list.size - 1)
    <2>1. ~Lists!InRange(list, i)
      BY <1>2, <1>5 DEF Lists!InRange
    <2>2. Lists!BadIndex(Lists!Missing)
      BY <2>1 DEF Lists!Get
    <2>3. lRet' \in {-1, -2} /\ Lists!Same
      BY <2>2 DEF Lists!BadIndex, Lists!Missing, Lists!NOT_FOUND, Lists!Crash
    <2> QED
      BY <1>2, <1>3, <1>5, <2>3, SameElements
      DEF Lists!L!GetIndex, Lists!L!Positions, Lists!L!NOT_FOUND, Lists!L!Crash
  <1> QED
    BY <1>4, <1>5

(* The cursor depends on the path only. *)
LEMMA CursorKept ==
  ASSUME NEW c, NEW l \in ListType, NEW p, Shape(c, l, p),
         NEW m \in ListType, m.size = l.size, Shape(c, m, p), NEW x
  PROVE  CursorAt(m, x) = CursorAt(l, x)
  <1> DEFINE a == CursorAt(l, x)
             b == CursorAt(m, x)
  <1>1. Points(p, l.size, x, a)
    BY CursorIs
  <1>2. Points(p, m.size, x, b)
    BY CursorIs
  <1>3. Points(p, l.size, x, b)
    BY <1>2
  <1> HIDE DEF a, b
  <1>4. a = b
    BY <1>1, <1>3 DEF Points
  <1> QED
    BY <1>4 DEF a, b

(* set:withElement:, also with a bad index *)
LEMMA SetImplementsSet ==
  ASSUME ListInv, NEW i \in Int, NEW e \in ListElements, Lists!Set(i, e)
  PROVE  Lists!L!SetIndex(i, e)
  <1>1. PICK p : Shape(lClass, list, p)
    BY DEF ListInv
  <1>2. /\ Len(Lists!Content(list)) = list.size /\ list.size \in Nat
        /\ \A k \in 0..(list.size - 1) : Lists!Content(list)[k + 1] = list.elem[p[k]]
    BY <1>1, ContentHere
  <1>3. lCall' = <<"set", i, e>>
    BY DEF Lists!Set
  <1>4. CASE i \in 0..(list.size - 1)
    <2>1. Lists!InRange(list, i)
      BY <1>2, <1>4 DEF Lists!InRange
    <2>2. /\ Lists!Becomes(Lists!SetElement(list, Lists!getNodeWithIndex(i), e), current)
          /\ lRet' = list.elem[Lists!getNodeWithIndex(i)]
      BY <2>1 DEF Lists!Set
    <2>3. lRet' = Lists!Content(list)[i + 1]
      BY <1>1, <1>2, <1>4, <2>2, OpNode DEF ListInv
    <2>4. Changed(lClass, list, list', p, i, e) /\ current' = current
      BY <1>1, <1>4, <2>2, SetEffect
    <2>5. Lists!Content(list') = Lists!L!ReplaceAt(Lists!Content(list), i + 1, e)
      BY <1>1, <1>4, <2>4, ContentChanged DEF ListInv
    <2>6. CursorAt(list', current) = CursorAt(list, current)
      BY <1>1, <2>4, CursorKept DEF ListInv, Changed
    <2>7. Lists!AbstractCursor' = Lists!AbstractCursor
      BY <2>4, <2>6, CursorHere
    <2> QED
      BY <1>2, <1>3, <1>4, <2>3, <2>5, <2>7 DEF Lists!L!SetIndex, Lists!L!Positions
  <1>5. CASE i \notin 0..(list.size - 1)
    <2>1. ~Lists!InRange(list, i)
      BY <1>2, <1>5 DEF Lists!InRange
    <2>2. Lists!BadIndex(Lists!Missing)
      BY <2>1 DEF Lists!Set
    <2>3. lRet' \in {-1, -2} /\ Lists!Same
      BY <2>2 DEF Lists!BadIndex, Lists!Missing, Lists!NOT_FOUND, Lists!Crash
    <2> QED
      BY <1>2, <1>3, <1>5, <2>3, SameElements
      DEF Lists!L!SetIndex, Lists!L!Positions, Lists!L!NOT_FOUND, Lists!L!Crash
  <1> QED
    BY <1>4, <1>5

(* clear: a cursor on an element is lost. *)
LEMMA ClearImplementsClear ==
  ASSUME ListInv, Lists!Clear
  PROVE  Lists!L!Clear
  <1>1. PICK p : Shape(lClass, list, p)
    BY DEF ListInv
  <1>2. Len(Lists!Content(list)) = list.size /\ list.size \in Nat
    BY <1>1, ContentHere
  <1>3. lCall' = <<"clear">> /\ lRet' = Lists!Void
    BY DEF Lists!Clear
  <1>4. list' \in ListType /\ list'.size = 0 /\ Shape(lClass, list', None) /\ current' = current
    BY <1>1, ClearEffect
  <1>5. Lists!Content(list') = <<>>
    <2> DEFINE New == Lists!Content(list')
    <2>1. Reads(list', None, New)
      BY <1>4, ContentIs
    <2> HIDE DEF New
    <2>2. New \in Seq(NodeValue) /\ Len(New) = 0
      BY <1>4, <2>1 DEF Reads
    <2>3. New = <<>>
      BY <2>2
    <2> QED
      BY <2>3 DEF New
  <1> DEFINE a == Lists!AbstractCursor
             b == CursorAt(list', current)
  <1>6. Points(p, list.size, current, a)
    BY <1>1, CursorIs, CursorHere DEF ListInv
  <1>7. Points(None, list'.size, current, b)
    BY <1>4, CursorIs
  <1>8. Lists!AbstractCursor' = b
    BY <1>4, CursorHere
  <1> HIDE DEF a, b
  <1>9. b = IF a \in 0..(list.size - 1) THEN -2 ELSE a
    BY <1>2, <1>4, <1>6, <1>7 DEF Points
  <1> QED
    BY <1>2, <1>3, <1>5, <1>8, <1>9
    DEF Lists!L!Clear, Lists!L!OnElement, Lists!L!Positions, Lists!L!Lost, Lists!L!Void, Lists!Void, a

(* resetCurrent puts the cursor on the first element. *)
LEMMA ResetImplementsReset ==
  ASSUME ListInv, Lists!resetCurrent
  PROVE  Lists!L!ResetCursor
  <1>1. PICK p : Shape(lClass, list, p)
    BY DEF ListInv
  <1>2. Lists!Content(list) \in Seq(NodeValue) /\ Len(Lists!Content(list)) = list.size
        /\ list.size \in Nat
    BY <1>1, ContentHere
  <1>3. lCall' = <<"resetCurrent">> /\ lRet' = Lists!Void /\ Lists!Becomes(list, list.first)
    BY DEF Lists!resetCurrent
  <1>4. list.first \in Pointer /\ list.first = IF list.size = 0 THEN Lists!nil ELSE p[0]
    BY <1>1, Fields DEF ListInv, Shape, Path
  <1>5. Kept(lClass, list, list', p) /\ current' = list.first
    BY <1>1, <1>3, <1>4, CursorEffect
  <1>6. Lists!Content(list') = Lists!Content(list)
    BY <1>1, <1>5, ContentKept DEF ListInv
  <1> DEFINE b == CursorAt(list', list.first)
  <1>7. Points(p, list.size, list.first, b)
    <2>1. list' \in ListType /\ Shape(lClass, list', p) /\ list'.size = list.size
      BY <1>5 DEF Kept
    <2>2. Points(p, list'.size, list.first, b)
      BY <2>1, CursorIs
    <2> QED
      BY <2>1, <2>2
  <1>8. Lists!AbstractCursor' = b
    BY <1>5, CursorHere
  <1> HIDE DEF b
  <1>9. b = IF list.size = 0 THEN -1 ELSE 0
    BY <1>2, <1>4, <1>7 DEF Points
  <1>10. Lists!Content(list) = <<>> <=> list.size = 0
    BY <1>2
  <1> QED
    BY <1>3, <1>6, <1>8, <1>9, <1>10
    DEF Lists!L!ResetCursor, Lists!L!NoCursor, Lists!L!Void, Lists!Void

(* Remainders of what is at most the divisor. *)
LEMMA Modulus ==
  ASSUME NEW s \in Nat, s > 0, NEW j \in 0..s
  PROVE  j % s = IF j = s THEN 0 ELSE j
  <1>1. CASE j = s
    BY <1>1
  <1>2. CASE j \in 0..(s - 1)
    BY <1>2
  <1> QED
    BY <1>1, <1>2

(* The position after i in a ring of s. *)
Following(s, i) == IF i < s - 1 THEN i + 1 ELSE 0

(* Following the links of a ring counts its positions round. *)
LEMMA Follows ==
  ASSUME NEW c \in Rings, NEW p, NEW s \in Nat, NEW i \in 0..(s - 1)
  PROVE  /\ Following(s, i) \in 0..(s - 1)
         /\ Later(c, p, s, i) = p[Following(s, i)]
         /\ (i + 1) % s = Following(s, i)
  <1>1. i + 1 \in 0..s /\ s > 0 /\ i + 1 \in Int
    OBVIOUS
  <1>2. (i + 1) % s = IF i + 1 = s THEN 0 ELSE i + 1
    BY <1>1, Modulus
  <1> QED
    BY <1>1, <1>2 DEF Following, Later

(* nextCurrent moves on to the next position of the ring and returns its element. *)
LEMMA NextImplementsNext ==
  ASSUME ListInv, Lists!nextCurrent
  PROVE  Lists!L!NextCursor
  <1>1. PICK p : Shape(lClass, list, p)
    BY DEF ListInv
  <1>2. /\ Len(Lists!Content(list)) = list.size /\ list.size \in Nat
        /\ \A k \in 0..(list.size - 1) : Lists!Content(list)[k + 1] = list.elem[p[k]]
    BY <1>1, ContentHere
  <1>3. lCall' = <<"nextCurrent">> /\ Lists!CursorUsable
    BY DEF Lists!nextCurrent
  <1> DEFINE a == Lists!AbstractCursor
  <1>4. Points(p, list.size, current, a)
    BY <1>1, CursorIs, CursorHere DEF ListInv
  <1>5. CASE current = Lists!nil
    <2>1. lRet' = Lists!NOT_FOUND /\ Lists!Same
      BY <1>5 DEF Lists!nextCurrent
    <2>2. a = -1
      BY <1>4, <1>5 DEF Points
    <2> QED
      BY <1>3, <2>1, <2>2, SameElements
      DEF Lists!L!NextCursor, Lists!L!NoCursor, Lists!L!NOT_FOUND, Lists!NOT_FOUND
  <1>6. CASE current # Lists!nil
    <2>1. lClass \in Rings
      BY <1>1, <1>3, <1>6, CursorOn
    <2>2. PICK i \in 0..(list.size - 1) :
            current = p[i] /\ list.next[current] = Later(lClass, p, list.size, i)
      BY <1>1, <1>3, <1>6, CursorOn
    <2>3. a = i
      <3> HIDE DEF a
      <3> QED
        BY <1>4, <2>2 DEF Points
    <2> DEFINE j == Following(list.size, i)
               b == CursorAt(list', p[j])
    <2>4. j \in 0..(list.size - 1) /\ list.next[current] = p[j] /\ (i + 1) % list.size = j
      BY <1>2, <2>1, <2>2, Follows
    <2> HIDE DEF j
    <2>5. Lists!Becomes(list, p[j]) /\ lRet' = list.elem[p[j]]
      BY <1>6, <2>4 DEF Lists!nextCurrent
    <2>6. p[j] \in Pointer
      BY <1>1, <2>4, Distinct DEF ListInv, Pointer
    <2>7. Kept(lClass, list, list', p) /\ current' = p[j]
      BY <1>1, <2>5, <2>6, CursorEffect
    <2>8. Lists!Content(list') = Lists!Content(list)
      BY <1>1, <2>7, ContentKept DEF ListInv
    <2>9. Points(p, list.size, p[j], b)
      <3>1. list' \in ListType /\ Shape(lClass, list', p) /\ list'.size = list.size
        BY <2>7 DEF Kept
      <3>2. Points(p, list'.size, p[j], b)
        BY <3>1, CursorIs
      <3> QED
        BY <3>1, <3>2
    <2>10. Lists!AbstractCursor' = b
      BY <2>7, CursorHere
    <2> HIDE DEF b
    <2>11. b = j
      BY <2>4, <2>9 DEF Points
    <2>12. Lists!AbstractCursor' = j /\ lRet' = Lists!Content(list)[j + 1] /\ a # -1
      BY <1>2, <2>2, <2>4, <2>3, <2>5, <2>10, <2>11
    <2> QED
      BY <1>2, <1>3, <2>2, <2>3, <2>4, <2>8, <2>12
      DEF Lists!L!NextCursor, Lists!L!NoCursor, Lists!L!OnElement, Lists!L!Positions
  <1> QED
    BY <1>5, <1>6

(* removeCurrent removes the element under the cursor and moves on to the one behind it. *)
LEMMA RemoveCurrentImplements ==
  ASSUME ListInv, Lists!removeCurrent
  PROVE  Lists!L!RemoveUnderCursor
  <1>1. PICK p : Shape(lClass, list, p)
    BY DEF ListInv
  <1>2. /\ Len(Lists!Content(list)) = list.size /\ list.size \in Nat
        /\ \A k \in 0..(list.size - 1) : Lists!Content(list)[k + 1] = list.elem[p[k]]
    BY <1>1, ContentHere
  <1>3. lCall' = <<"removeCurrent">> /\ Lists!CursorUsable
    BY DEF Lists!removeCurrent
  <1> DEFINE s == list.size
             a == Lists!AbstractCursor
  <1>4. Points(p, s, current, a)
    BY <1>1, CursorIs, CursorHere DEF ListInv
  <1>5. CASE current = Lists!nil
    <2>1. lRet' = Lists!NOT_FOUND /\ Lists!Same
      BY <1>5 DEF Lists!removeCurrent
    <2>2. a = -1
      BY <1>4, <1>5 DEF Points
    <2> QED
      BY <1>3, <2>1, <2>2, SameElements
      DEF Lists!L!RemoveUnderCursor, Lists!L!NoCursor, Lists!L!NOT_FOUND, Lists!NOT_FOUND
  <1>6. CASE current # Lists!nil
    <2>1. lClass \in Rings /\ lClass \notin OneWays
      BY <1>1, <1>3, <1>6, CursorOn
    <2>2. PICK i \in 0..(s - 1) :
            current = p[i] /\ list.next[current] = Later(lClass, p, s, i)
      BY <1>1, <1>3, <1>6, CursorOn
    <2>3. a = i
      <3> HIDE DEF a
      <3> QED
        BY <1>4, <2>2 DEF Points
    <2> DEFINE j == Following(s, i)
               x == IF s = 1 THEN Lists!nil ELSE p[j]
               b == CursorAt(list', x)
    <2>4. j \in 0..(s - 1) /\ list.next[current] = p[j]
      BY <1>2, <2>1, <2>2, Follows
    <2>5. /\ Shrunk(lClass, list, list', p, i) /\ current' = x
          /\ lRet' = list.elem[p[i]]
      BY <1>1, <2>1, <2>2, <2>4, RemoveCurrentEffect
    <2>6. Lists!Content(list') = Lists!L!RemoveAt(Lists!Content(list), i + 1)
      BY <1>1, <2>5, ContentShrunk DEF ListInv
    <2>7. lRet' = Lists!Content(list)[i + 1]
      BY <1>2, <2>2, <2>5
    <2>8. Lists!AbstractCursor' = b
      BY <2>5, CursorHere
    <2> HIDE DEF x
    <2>9. MovedUp(s, i, CursorAt(list, x), b)
      BY <1>1, <2>5, CursorShrunk DEF ListInv
    <2> DEFINE d == CursorAt(list, x)
    <2>10. Points(p, s, x, d)
      BY <1>1, CursorIs DEF ListInv
    <2> HIDE DEF b, d
    <2>11. b = IF s = 1 THEN -1 ELSE i % (s - 1)
      <3>1. CASE s = 1
        <4>1. x = Lists!nil /\ d = -1
          BY <2>10, <3>1 DEF Points, x
        <4> QED
          BY <2>2, <2>9, <3>1, <4>1 DEF d, MovedUp
      <3>2. CASE s # 1
        <4>1. x = p[j]
          BY <3>2 DEF x
        <4>2. d = j
          BY <2>4, <2>10, <4>1 DEF Points
        <4>3. s - 1 \in Nat /\ s - 1 > 0 /\ i \in 0..(s - 1)
          BY <1>2, <3>2
        <4>4. i % (s - 1) = IF i = s - 1 THEN 0 ELSE i
          BY <4>3, Modulus
        <4>5. j = IF i < s - 1 THEN i + 1 ELSE 0
          BY DEF Following
        <4> HIDE DEF j
        <4>6. CASE i = s - 1
          <5>1. j = 0 /\ i # 0 /\ ~(0 > i)
            BY <1>2, <4>3, <4>5, <4>6
          <5> QED
            BY <2>9, <3>2, <4>2, <4>4, <4>6, <5>1 DEF d, MovedUp
        <4>7. CASE i < s - 1
          <5>1. j = i + 1 /\ i + 1 # i /\ i + 1 > i /\ (i + 1) - 1 = i /\ i # s - 1
            BY <1>2, <4>3, <4>5, <4>7
          <5> QED
            BY <2>4, <2>9, <3>2, <4>2, <4>4, <5>1 DEF d, MovedUp
        <4> QED
          BY <1>2, <4>3, <4>6, <4>7
      <3> QED
        BY <3>1, <3>2
    <2>12. a # -1 /\ a \in 0..(s - 1)
      BY <1>2, <2>2, <2>3
    <2> QED
      BY <1>2, <1>3, <2>3, <2>6, <2>7, <2>8, <2>11, <2>12
      DEF Lists!L!RemoveUnderCursor, Lists!L!NoCursor, Lists!L!OnElement, Lists!L!Positions
  <1> QED
    BY <1>5, <1>6

(* A new object is an empty list without a cursor. *)
LEMMA ListStartImplements ==
  ASSUME Lists!Init
  PROVE  Lists!L!ListInit
  <1>1. list = Lists!EmptyList /\ current = Lists!nil /\ lCall = <<"init">> /\ lRet = Lists!Void
    BY DEF Lists!Init
  <1>2. list.size = 0
    BY <1>1 DEF Lists!EmptyList
  <1>3. Lists!Content(list) = <<>>
    BY <1>2 DEF Lists!Content
  <1>4. Lists!AbstractCursor = -1
    BY <1>1 DEF Lists!AbstractCursor
  <1> QED
    BY <1>1, <1>3, <1>4 DEF Lists!L!ListInit, Lists!L!NoCursor, Lists!L!Void, Lists!Void

(* Every call is a call of the list or changes nothing of it. *)
LEMMA ListStepImplements ==
  ASSUME ListInv, [Lists!Next]_(Lists!vars)
  PROVE  [Lists!L!ListNext]_<<Lists!Content(list), Lists!AbstractCursor, lCall, lRet>>
  <1>1. CASE Lists!Next
    <2>1. /\ \/ \E i \in Lists!Indices, e \in ListElements : Lists!Add(i, e) \/ Lists!Set(i, e)
             \/ \E i \in Lists!Indices : Lists!Remove(i) \/ Lists!Get(i)
             \/ \E e \in ListElements : Lists!RemoveElement(e) \/ Lists!IndexOf(e)
             \/ Lists!Clear \/ Lists!resetCurrent \/ Lists!nextCurrent \/ Lists!removeCurrent
      BY <1>1, CallsOfList
    <2>2. Lists!Indices \subseteq Int
      BY ListAssumption DEF Lists!Indices
    <2>3. ASSUME NEW i \in Lists!Indices, NEW e \in ListElements, Lists!Add(i, e) PROVE Lists!L!ListNext
      BY <2>2, <2>3, AddImplementsAdd DEF Lists!L!ListNext
    <2>4. ASSUME NEW i \in Lists!Indices, NEW e \in ListElements, Lists!Set(i, e) PROVE Lists!L!ListNext
      BY <2>2, <2>4, SetImplementsSet DEF Lists!L!ListNext
    <2>5. ASSUME NEW i \in Lists!Indices, Lists!Remove(i) PROVE Lists!L!ListNext
      BY <2>2, <2>5, RemoveImplementsRemove DEF Lists!L!ListNext
    <2>6. ASSUME NEW i \in Lists!Indices, Lists!Get(i) PROVE Lists!L!ListNext
      BY <2>2, <2>6, GetImplementsGet DEF Lists!L!ListNext
    <2>7. ASSUME NEW e \in ListElements, Lists!RemoveElement(e) \/ Lists!IndexOf(e) PROVE Lists!L!ListNext
      BY <2>7, SearchImplementsSearch DEF Lists!L!ListNext
    <2>8. CASE Lists!Clear
      BY <2>8, ClearImplementsClear DEF Lists!L!ListNext
    <2>9. CASE Lists!resetCurrent
      BY <2>9, ResetImplementsReset DEF Lists!L!ListNext
    <2>10. CASE Lists!nextCurrent
      BY <2>10, NextImplementsNext DEF Lists!L!ListNext
    <2>11. CASE Lists!removeCurrent
      BY <2>11, RemoveCurrentImplements DEF Lists!L!ListNext
    <2> QED
      BY <2>1, <2>3, <2>4, <2>5, <2>6, <2>7, <2>8, <2>9, <2>10, <2>11
  <1>2. CASE UNCHANGED Lists!vars
    <2>1. Lists!Same /\ lCall' = lCall /\ lRet' = lRet
      BY <1>2 DEF Lists!vars, Lists!Same
    <2> QED
      BY <2>1, SameElements
  <1> QED
    BY <1>1, <1>2

(* Every list class, stack and queue does what its header promises: each call changes the
   elements, moves the cursor and returns what the list of elements says, however
   its nodes are linked and from whichever end getNodeWithIndex: walks to them. *)
THEOREM ListsImplementLists == Lists!Spec => ImplementsList
  <1>1. Lists!Init => ListInv /\ Lists!L!ListInit
    BY ListStart, ListStartImplements
  <1>2. ListInv /\ [Lists!Next]_(Lists!vars) => ListInv'
    BY ListStep
  <1>3. ListInv /\ [Lists!Next]_(Lists!vars) => [Lists!L!ListNext]_<<Lists!Content(list), Lists!AbstractCursor, lCall, lRet>>
    BY ListStepImplements
  <1> QED
    BY <1>1, <1>2, <1>3, PTL DEF Lists!Spec, ImplementsList, Lists!ImplementsList, Lists!L!List
================================================================================
