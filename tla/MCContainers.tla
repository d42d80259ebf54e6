------------------------------ MODULE MCContainers -----------------------------
(***************************************************************************)
(* One object of one of the containers that keep their elements in arrays,  *)
(* linked nodes, stacks or trees, under any sequence of calls; the sorting  *)
(* methods and the interview solutions run on the arrays the heap is built  *)
(* from and on the trees that come about.  kind says which container is     *)
(* used: the others stay as they were created, so the state space is the    *)
(* sum of theirs.                                                           *)
(*   - lists of up to three elements; the fourth node is for what a lost    *)
(*     cursor keeps alive;                                                  *)
(*   - rings and dynamic arrays: a capacity of 2 that grows to 3, 4 and 6   *)
(*     while up to five (four) elements come and go;                        *)
(*   - two stacks: up to four elements in inStack;                          *)
(*   - trees of up to five elements: removed nodes with two children and    *)
(*     neighbours three levels apart;                                       *)
(*   - heaps of up to seven elements, built from every array of up to five. *)
(***************************************************************************)
EXTENDS Containers, WGSort

CONSTANT Null

VARIABLES kind,
          tree, tCall, tRet,
          base, arr, hSize, hCall, hRet

arrayVars == <<aClass, slots, aSize, aLength, aCall, aRet>>
queueVars == <<inStack, outStack, qCall, qRet>>
treeVars == <<tree, tCall, tRet>>
heapVars == <<base, arr, hSize, hCall, hRet>>
listVars == <<lClass, list, current, lCall, lRet>>

Tree == INSTANCE BinarySearchTree WITH
          Elements <- 1..5, Nodes <- 1..5, call <- tCall, ret <- tRet
Heap == INSTANCE WGBinaryHeap WITH
          Elements <- 1..4, Inputs <- SeqOf(1..4, 5), MaxCount <- 7,
          size <- hSize, call <- hCall, ret <- hRet
Interview == INSTANCE LeetCodeInterview WITH Nodes <- 1..5

MCInit ==
  /\ kind \in {"ring", "array", "queue", "tree", "heap", "list"}
  /\ Init /\ Arr!Init /\ Two!Init /\ Tree!Init /\ Heap!Init /\ Lists!Init
  /\ kind # "ring" => class = "CircleQueue"
  /\ kind # "array" => aClass = "WGDynamicArray" /\ aLength = 2
  /\ kind # "heap" => base = <<>>
  /\ kind # "list" => lClass = "WGSingleList"

MCNext ==
  /\ \/ kind = "ring" /\ Next /\ UNCHANGED <<arrayVars, queueVars, treeVars, heapVars, listVars>>
     \/ kind = "array" /\ Arr!Next /\ UNCHANGED <<vars, queueVars, treeVars, heapVars, listVars>>
     \/ kind = "queue" /\ Two!Next /\ UNCHANGED <<vars, arrayVars, treeVars, heapVars, listVars>>
     \/ kind = "tree" /\ Tree!Next /\ UNCHANGED <<vars, arrayVars, queueVars, heapVars, listVars>>
     \/ kind = "heap" /\ Heap!Next /\ UNCHANGED <<vars, arrayVars, queueVars, treeVars, listVars>>
     \/ kind = "list" /\ Lists!Next /\ UNCHANGED <<vars, arrayVars, queueVars, treeVars, heapVars>>
  /\ UNCHANGED kind

MCSpec == MCInit /\ [][MCNext]_<<kind, vars, arrayVars, queueVars, treeVars, heapVars, listVars>>

(* What the next call can depend on: not the last call and its result, unless it
   ended the program. *)
ObjectState ==
  <<kind, class, front, size, array, length, ret = Trap,
    aClass, slots, aSize, aLength, aRet = Arr!Crash, inStack, outStack, qRet = Trap, tree,
    IF hCall = <<"init">> THEN base ELSE <<>>, arr, hSize, hRet = Trap,
    lClass, list, current, lRet = Lists!Crash>>
-------------------------------------------------------------------------------
(* WGBinarySearchTree implements an ordered set (BinarySearchTree). *)
ImplementsSortedSet == Tree!ImplementsSortedSet

(* Its size counts its nodes, its parent links match its child links, and its
   nodes are in search order, whatever was removed before. *)
TreeOrdered == Tree!TypeOK /\ Tree!SearchOrder

(* WGBinaryHeap implements a priority queue as far as its calls return. *)
ImplementsPriorityQueue == Heap!ImplementsPriorityQueue

(* Its remove and replace return the top they took away (WGBinaryHeap). *)
RemoveReturnsTop == Heap!RemoveReturnsTop
-------------------------------------------------------------------------------
Built == hCall = <<"init">>
n == Len(base)
Items == [i \in 0..(n - 1) |-> [key |-> base[i + 1], place |-> i]]

(* All the sorts sort and lose nothing, whatever the array: also the ones that stop
   early, skip a sorted tail or search for the place with a bisection, and
   quicksort, whose gap moves from end to end.  The bubble and the insertion sorts
   and a single column of the shell sort leave equal items in their old order; the
   selection sort, which the comment in line 83 calls stable, does not always. *)
Sorted ==
  Built =>
    LET stable == {maopao1(Items, n - 1), maopao2(Items, n - 1), maopao3(Items, n - 1),
                   insert1(Items, n), insert2(Items, n), insert3(Items, n), sortWithStep(Items, n, 1)}
    IN  /\ \A a \in stable : InOldOrder(a, n)
        /\ \A a \in stable \cup {select(Items, n - 1), quick(Items, 0, n)} :
             Ordered(a, n) /\ SameItems(a, Items, n)

(* The columns of the shell sort are sorted, and what one step width put in order
   the next one keeps in order. *)
StepsCompose ==
  Built =>
    \A wide \in 1..n, step \in 1..n :
      LET a == sortWithStep(sortWithStep(Items, n, wide), n, step)
          Column(s) == \A i \in s..(n - 1) : ~Greater(a[i - s], a[i])
      IN  Column(step) /\ Column(wide) /\ SameItems(a, Items, n)

(* binarySearch finds a key in a sorted array exactly if it is there. *)
SearchFinds ==
  Built =>
    LET a == maopao1(Items, n - 1) IN
    \A key \in 1..4 :
      LET found == binarySearch(a, key, 0, n)
          there == {i \in 0..(n - 1) : a[i].key = key}
      IN  IF there = {} THEN found = -1 ELSE found \in there

(* The methods of WGSort, on every array. *)
SortAndSearch == Sorted /\ StepsCompose /\ SearchFinds
-------------------------------------------------------------------------------
(* The solutions of LeetCodeInterview.swift that keep their own stack visit the
   nodes in the order of the recursive walks, those with a queue split them into
   levels, from the top or from the bottom, as the level-order loops of
   BinaryTree.swift do, and two walks determine the tree: both constructions rebuild
   it.  The values of the trees are distinct: what the solutions do with equal ones
   is not claimed here (postorderTraversal2 compares values in line 283). *)
WalksAgree ==
  kind = "tree" =>
  LET height == Tree!heightWithRecursion(tree)
      levels == [d \in 1..height |-> Interview!Level(tree, d)]
      pre    == Interview!preorderTraversal(tree)
      inward == Interview!inorderTraversal(tree)
      post   == Interview!postorderTraversal(tree)
  IN  /\ Tree!QueueWalks
      /\ Interview!preorderTraversal1(tree) = pre
      /\ Interview!inorderTraversal1(tree) = inward
      /\ Interview!postorderTraversal1(tree) = post /\ Interview!postorderTraversal2(tree) = post
      /\ Interview!levelOrder(tree) = levels
      /\ Interview!levelOrderBottom(tree) = Reverse(levels)
      /\ Interview!maxDepth1(tree) = height /\ Interview!maxDepth2(tree) = height
      /\ Interview!buildTree(inward, post) = Interview!Term(tree)
      /\ Interview!buildTree1(pre, inward) = Interview!Term(tree)

(* The four ways to invert a tree, which exchange the children while they walk,
   all give its mirror image; the two tests for symmetry recognise the trees that
   are their own, whatever the values. *)
Mirrored ==
  /\ \A t \in {Interview!invertTree1(tree, tree.root), Interview!invertTree2(tree, tree.root),
              Interview!invertTree3(tree, tree.root), Interview!invertTree4(tree)} :
       t = Interview!Mirror(tree)
  /\ \A label \in [1..5 -> 1..2] :
       LET t == Interview!Relabelled(tree, label)
           symmetric == Interview!Term(t) = Interview!Term(Interview!Mirror(t))
       IN  Interview!isSymmetric1(t) = symmetric /\ Interview!isSymmetric2(t) = symmetric

(* Both tests for search trees see a value in the wrong place wherever it is, and
   equal values. *)
ValidSeen ==
  \A a, b \in 1..5 :
    LET Exchanged == [e \in 1..5 |-> IF e = a THEN b ELSE IF e = b THEN a ELSE e]
        Doubled   == [e \in 1..5 |-> IF e = a THEN b ELSE e]
    IN  \A label \in {Exchanged, Doubled} :
          LET t == Interview!Relabelled(tree, label)
              valid == \A x, y \in Tree!NodesIn(tree) :
                         tree.element[x] < tree.element[y] => t.element[x] < t.element[y]
          IN  Interview!isValidBST(t) = valid /\ Interview!isValidBST1(t) = valid

(* The solutions that change trees and those that test them, on every tree. *)
TreeSolutions == kind = "tree" => Mirrored /\ ValidSeen

(* The arrays of the heap, cut in two and merged by sorting: all of merge3 to
   merge6; merge, merge1 and merge2 use the length of the wrong array, so they are
   claimed for parts of equal length only, and would fail the example of line 577
   (m = 1 and n = 0). *)
MergedRight(m) ==
  LET nums1 == [i \in 0..(n - 1) |-> IF i < m THEN Items[i] ELSE [key |-> 0, place |-> -1]]
      nums2 == [i \in 0..(n - m - 1) |-> Items[m + i]]
      results == {Interview!merge3(nums1, m, nums2, n - m), Interview!merge4(nums1, m, nums2, n - m),
                  Interview!merge5(nums1, m, nums2, n - m), Interview!merge6(nums1, m, nums2, n - m)}
      halves  == {Interview!merge(nums1, m, nums2, m), Interview!merge1(nums1, m, nums2, m),
                  Interview!merge2(nums1, m, nums2, m)}
  IN  \A a \in results \cup (IF 2 * m = n THEN halves ELSE {}) : Ordered(a, n) /\ SameItems(a, Items, n)

(* The array and list solutions: merging (three of the solutions only for parts of
   equal length), the slow pointer that stops at the middle
   the other two count out, and removing duplicates, which keeps the first of every
   value. *)
ArraySolutions ==
  Built =>
    /\ n > 0 => \A m \in 0..n : MergedRight(m)
    /\ \A middle \in {Interview!middleNode(base), Interview!middleNode1(base), Interview!middleNode2(base)} :
         middle = n \div 2
    /\ Interview!removeDuplicateNodes(base) = Interview!FirstOnes(base)
================================================================================
