------------------------------- MODULE BinaryTree ------------------------------
(***************************************************************************)
(* Binary trees as WGSearchTreeNode.m and BinaryTree.swift link them: a     *)
(* root, nodes with a left and a right child and a parent, and the methods  *)
(* that only read them.                                                     *)
(***************************************************************************)
EXTENDS Integers, Sequences

CONSTANT Nodes     \* addresses of nodes

nil == 0
Places == Nodes \cup {nil}

EmptyTree ==
  [root |-> nil, size |-> 0, element |-> [n \in Nodes |-> 0],
   left |-> [n \in Nodes |-> nil], right |-> [n \in Nodes |-> nil], parent |-> [n \in Nodes |-> nil]]

isLeaf(t, n) == t.left[n] = nil /\ t.right[n] = nil
hasTwoChildren(t, n) == t.left[n] # nil /\ t.right[n] # nil

(* p = p->right while there is one (link = right), and the mirror image. *)
Far(link, n) ==
  LET far[m \in Nodes] == IF link[m] = nil THEN m ELSE far[link[m]] IN far[n]

(* The parent reached after climbing while the node is its parent's child on
   the side given. *)
Climb(t, side, n) ==
  LET up[m \in Nodes] ==
        IF t.parent[m] # nil /\ m = side[t.parent[m]] THEN up[t.parent[m]] ELSE t.parent[m]
  IN  up[n]

predecessor(t, n) ==
  IF t.left[n] # nil THEN Far(t.right, t.left[n]) ELSE Climb(t, t.left, n)

(* Mutant: the climb stops at the parent. *)
successorShort(t, n) ==
  IF t.right[n] # nil THEN Far(t.left, t.right[n]) ELSE t.parent[n]

successor(t, n) ==
  IF t.right[n] # nil THEN Far(t.left, t.right[n]) ELSE Climb(t, t.right, n)

(* inOrderTraverse and heightWithRecursion *)
inOrder(t) ==
  LET visit[n \in Places] ==
        IF n = nil THEN <<>> ELSE visit[t.left[n]] \o <<t.element[n]>> \o visit[t.right[n]]
  IN  visit[t.root]

heightWithRecursion(t) ==
  LET height[n \in Places] ==
        IF n = nil THEN 0
        ELSE 1 + (IF height[t.left[n]] > height[t.right[n]] THEN height[t.left[n]] ELSE height[t.right[n]])
  IN  height[t.root]

(* What the loops of BinaryTree.swift put into their queue for a node. *)
Children(t, n) == SelectSeq(<<t.left[n], t.right[n]>>, LAMBDA m : m # nil)

RECURSIVE LevelLoop(_, _)
LevelLoop(t, queue) ==
  IF queue = <<>> THEN <<>>
  ELSE <<t.element[Head(queue)]>> \o LevelLoop(t, Tail(queue) \o Children(t, Head(queue)))

levelOrderTraverse(t) == IF t.root = nil THEN <<>> ELSE LevelLoop(t, <<t.root>>)

(* levelSize nodes of the current level are still in the queue. *)
RECURSIVE HeightLoop(_, _, _, _)
HeightLoop(t, queue, levelSize, height) ==
  IF queue = <<>> THEN height
  ELSE LET rest == Tail(queue) \o Children(t, Head(queue))
       IN  IF levelSize = 1 THEN HeightLoop(t, rest, Len(rest), height + 1)
           ELSE HeightLoop(t, rest, levelSize - 1, height)

heightByLevels(t) == IF t.root = nil THEN 0 ELSE HeightLoop(t, <<t.root>>, 1, 0)

(* leaf: from here on every node has to be a leaf. *)
RECURSIVE CompleteLoop(_, _, _)
CompleteLoop(t, queue, leaf) ==
  IF queue = <<>> THEN TRUE
  ELSE LET n == Head(queue) IN
       /\ leaf => isLeaf(t, n)
       /\ t.left[n] = nil => t.right[n] = nil
       /\ CompleteLoop(t, Tail(queue) \o Children(t, n), leaf \/ t.right[n] = nil)

(* Mutant: a node without a right child does not end the level. *)
isCompleteLoose(t) ==
  t.root # nil /\ (LET inner == {n \in Nodes : t.right[n] # nil} IN \A n \in inner : t.left[n] # nil)

isCompleteBinaryTree(t) == t.root # nil /\ CompleteLoop(t, <<t.root>>, FALSE)
================================================================================
