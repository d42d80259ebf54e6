---------------------------- MODULE BinarySearchTree ---------------------------
(***************************************************************************)
(* WGBinarySearchTree.m: one tree object and the calls its users make.      *)
(***************************************************************************)
EXTENDS BinaryTree, FiniteSets

CONSTANT Elements

VARIABLES tree, call, ret

vars == <<tree, call, ret>>

Void == 0
None == -1            \* nil for a neighbour that does not exist

Init == tree = EmptyTree /\ call = <<"init">> /\ ret = Void

NodesIn(t) ==
  LET below[n \in Places] == IF n = nil THEN {} ELSE {n} \cup below[t.left[n]] \cup below[t.right[n]]
  IN  below[t.root]

(* The tree without what is left in nodes it no longer links: ARC frees them or,
   in a cycle of parent and child, leaks them, which no operation can tell. *)
Settled(t) ==
  LET Keep(f, none) == [n \in Nodes |-> IF n \in NodesIn(t) THEN f[n] ELSE none]
  IN  [t EXCEPT !.left = Keep(@, nil), !.right = Keep(@, nil), !.parent = Keep(@, nil),
                !.element = Keep(@, 0)]

(* nodeWithElement: *)
nodeWithElement(t, e) ==
  LET find[n \in Places] ==
        CASE n = nil -> nil
          [] n # nil /\ e > t.element[n] -> find[t.right[n]]
          [] n # nil /\ e < t.element[n] -> find[t.left[n]]
          [] OTHER -> n
  IN  find[t.root]

(* The last node on the way to the place of e. *)
ParentFor(t, e) ==
  LET down[n \in Nodes] ==
        LET child == IF e > t.element[n] THEN t.right[n] ELSE t.left[n]
        IN  IF child = nil THEN n ELSE down[child]
  IN  down[t.root]

Grown(t, n, parent, e) ==
  [t EXCEPT !.element[n] = e, !.parent[n] = parent, !.size = @ + 1]

(* An element that is there already is overwritten with itself. *)
addElement(e) ==
  /\ call' = <<"add", e>> /\ ret' = Void
  /\ LET fresh == Nodes \ NodesIn(tree)
         n     == CHOOSE m \in fresh : \A k \in fresh : m <= k
         p     == ParentFor(tree, e)
     IN  CASE tree.root = nil -> tree' = [Grown(tree, n, nil, e) EXCEPT !.root = n]
           [] tree.root # nil /\ nodeWithElement(tree, e) # nil -> UNCHANGED tree
           [] OTHER -> /\ fresh # {}
                       /\ tree' = IF e > tree.element[p]
                                  THEN [Grown(tree, n, p, e) EXCEPT !.right[p] = n]
                                  ELSE [Grown(tree, n, p, e) EXCEPT !.left[p] = n]

(* Mutant: the smallest node of the left subtree stands in for a node with two
   children. *)
UnlinkedLeftmost(t, node) ==
  IF hasTwoChildren(t, node) THEN Far(t.left, t.left[node]) ELSE node

(* The node that is unlinked when the element of node is removed. *)
Unlinked(t, node) == IF hasTwoChildren(t, node) THEN successor(t, node) ELSE node

(* A node with two children takes over the element of its successor, which is
   unlinked in its place; a node with at most one child is replaced by it. *)
removeNode(t, node) ==
  LET v     == Unlinked(t, node)
      child == IF t.left[v] # nil THEN t.left[v] ELSE t.right[v]
      p     == t.parent[v]
      moved == [t EXCEPT !.element[node] = t.element[v]]
      freed == IF child = nil THEN moved ELSE [moved EXCEPT !.parent[child] = p]
      small == [freed EXCEPT !.size = @ - 1]
  IN  CASE p = nil -> [small EXCEPT !.root = child]
        [] p # nil /\ v = t.left[p] -> [small EXCEPT !.left[p] = child]
        [] OTHER -> [small EXCEPT !.right[p] = child]

removeElement(e) ==
  /\ call' = <<"remove", e>> /\ ret' = Void
  /\ LET n == nodeWithElement(tree, e)
     IN  tree' = IF n = nil THEN tree ELSE Settled(removeNode(tree, n))

containsElement(e) ==
  call' = <<"contains", e>> /\ ret' = (nodeWithElement(tree, e) # nil) /\ UNCHANGED tree

size == call' = <<"size">> /\ ret' = tree.size /\ UNCHANGED tree

clear == call' = <<"clear">> /\ ret' = Void /\ tree' = EmptyTree

inOrderTraverse == call' = <<"inOrder">> /\ ret' = inOrder(tree) /\ UNCHANGED tree

(* predecessor: and successor: of the node that holds e *)
Neighbour(name, e, n) ==
  /\ nodeWithElement(tree, e) # nil
  /\ call' = <<name, e>> /\ ret' = (IF n = nil THEN None ELSE tree.element[n])
  /\ UNCHANGED tree

predecessorOf(e) ==
  LET node == nodeWithElement(tree, e) IN Neighbour("predecessor", e, predecessor(tree, node))

successorOf(e) ==
  LET node == nodeWithElement(tree, e) IN Neighbour("successor", e, successor(tree, node))

Next ==
  \/ \E e \in Elements : \/ addElement(e) \/ removeElement(e) \/ containsElement(e)
                         \/ predecessorOf(e) \/ successorOf(e)
  \/ size \/ clear \/ inOrderTraverse

Spec == Init /\ [][Next]_vars
-------------------------------------------------------------------------------
(* Type invariant: size counts the nodes, and every child knows its parent. *)
TypeOK ==
  /\ tree.root \in Places /\ tree.size = Cardinality(NodesIn(tree))
  /\ tree.root # nil => tree.parent[tree.root] = nil
  /\ \A n \in NodesIn(tree) : \A c \in {tree.left[n], tree.right[n]} \ {nil} : tree.parent[c] = n

(* "every node's value is greater than all the values of its left subtree, and
   less than all the values of its right subtree" (BinarySearchTree.swift:10). *)
SearchOrder ==
  \A n \in NodesIn(tree) :
    /\ tree.left[n] # nil =>
         \A m \in NodesIn([tree EXCEPT !.root = tree.left[n]]) : tree.element[m] < tree.element[n]
    /\ tree.right[n] # nil =>
         \A m \in NodesIn([tree EXCEPT !.root = tree.right[n]]) : tree.element[m] > tree.element[n]

(* The tree implements an ordered set: whatever was added and removed before,
   searches find what is there, the in-order walk lists it in order, and the
   neighbours are found downwards or by climbing. *)
S == INSTANCE SortedSet WITH members <- {tree.element[n] : n \in NodesIn(tree)}
ImplementsSortedSet == S!SetSpec

(* Numbers of the nodes of a complete tree, from top to bottom and from left to
   right ("numbered like the full tree of the same height", BinaryTree.swift:46). *)
Number ==
  LET number[n \in Nodes] ==
        IF tree.parent[n] = nil THEN 1
        ELSE 2 * number[tree.parent[n]] + (IF n = tree.right[tree.parent[n]] THEN 1 ELSE 0)
  IN  number

(* The loops over a queue of BinaryTree.swift visit the nodes of any tree by
   level and from the left, count its levels and recognise the complete trees. *)
QueueWalks ==
  LET N   == Cardinality(NodesIn(tree))
      nth == [k \in 1..N |-> CHOOSE n \in NodesIn(tree) :
                Cardinality({m \in NodesIn(tree) : Number[m] <= Number[n]}) = k]
  IN  /\ levelOrderTraverse(tree) = [k \in 1..N |-> tree.element[nth[k]]]
      /\ heightByLevels(tree) = heightWithRecursion(tree)
      /\ isCompleteBinaryTree(tree) <=> N > 0 /\ {Number[n] : n \in NodesIn(tree)} = 1..N
================================================================================
