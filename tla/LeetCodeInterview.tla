--------------------------- MODULE LeetCodeInterview --------------------------
(***************************************************************************)
(* The solutions of LeetCodeInterview.swift.  A tree is a record of child   *)
(* links as in BinaryTree (val is called element there); the tree a         *)
(* solution builds is a term <<left, val, right>>, <<>> being nil.  An      *)
(* array for the merging solutions is a function on 0..n-1 as in WGSort; a  *)
(* list is the sequence of its values.  The recursive solutions stand       *)
(* beside the ones that keep a stack or a queue of nodes.                   *)
(***************************************************************************)
EXTENDS BinaryTree, WGSort

Last1(stack) == stack[Len(stack)]
Popped(stack) == SubSeq(stack, 1, Len(stack) - 1)
-------------------------------------------------------------------------------
(* 226: exchange the children of every node. *)
Swapped(t, n) == [t EXCEPT !.left[n] = t.right[n], !.right[n] = t.left[n]]

RECURSIVE invertTree1(_, _), invertTree2(_, _)
invertTree1(t, n) ==
  IF n = nil THEN t
  ELSE LET s == Swapped(t, n)
           l == invertTree1(s, s.left[n])
       IN  invertTree1(l, l.right[n])

invertTree2(t, n) ==
  IF n = nil THEN t
  ELSE LET l == invertTree2(t, t.left[n]) IN Swapped(invertTree2(l, l.right[n]), n)

(* Mutant: goes on with the right child, which was on the left before. *)
RECURSIVE invertTree3Right(_, _)
invertTree3Right(t, n) ==
  IF n = nil THEN t
  ELSE LET s == Swapped(invertTree3Right(t, t.left[n]), n) IN invertTree3Right(s, s.right[n])

RECURSIVE invertTree3(_, _)
invertTree3(t, n) ==
  IF n = nil THEN t
  ELSE LET s == Swapped(invertTree3(t, t.left[n]), n) IN invertTree3(s, s.left[n])

RECURSIVE InvertLoop(_, _)
InvertLoop(t, queue) ==
  IF queue = <<>> THEN t
  ELSE LET s == Swapped(t, Head(queue)) IN InvertLoop(s, Tail(queue) \o Children(s, Head(queue)))

invertTree4(t) == IF t.root = nil THEN t ELSE InvertLoop(t, <<t.root>>)
-------------------------------------------------------------------------------
(* 144, 94, 145: the walks, recursively *)
preorderTraversal(t) ==
  LET walk[n \in Places] == IF n = nil THEN <<>> ELSE <<t.element[n]>> \o walk[t.left[n]] \o walk[t.right[n]]
  IN  walk[t.root]

inorderTraversal(t) == inOrder(t)

postorderTraversal(t) ==
  LET walk[n \in Places] == IF n = nil THEN <<>> ELSE walk[t.left[n]] \o walk[t.right[n]] \o <<t.element[n]>>
  IN  walk[t.root]

(* The same with a stack of nodes. *)
RECURSIVE PreLoop(_, _, _, _)
PreLoop(t, node, stack, arr) ==
  IF node # nil
  THEN PreLoop(t, t.left[node], IF t.right[node] = nil THEN stack ELSE Append(stack, t.right[node]),
               Append(arr, t.element[node]))
  ELSE IF stack = <<>> THEN arr
  ELSE PreLoop(t, Last1(stack), Popped(stack), arr)

preorderTraversal1(t) == PreLoop(t, t.root, <<>>, <<>>)

RECURSIVE InLoop(_, _, _, _)
InLoop(t, node, stack, arr) ==
  IF node # nil THEN InLoop(t, t.left[node], Append(stack, node), arr)
  ELSE IF stack = <<>> THEN arr
  ELSE InLoop(t, t.right[Last1(stack)], Popped(stack), Append(arr, t.element[Last1(stack)]))

inorderTraversal1(t) == InLoop(t, t.root, <<>>, <<>>)

(* from the root to the right, every value put in front *)
RECURSIVE PostLoop1(_, _, _, _)
PostLoop1(t, node, stack, arr) ==
  IF node # nil
  THEN PostLoop1(t, t.right[node], Append(stack, node), <<t.element[node]>> \o arr)
  ELSE IF stack = <<>> THEN arr
  ELSE PostLoop1(t, t.left[Last1(stack)], Popped(stack), arr)

postorderTraversal1(t) == PostLoop1(t, t.root, <<>>, <<>>)

(* The top of the stack is visited if it is a leaf or its child, by value, was
   visited last. *)
Visitable(t, n, prev) ==
  \/ isLeaf(t, n)
  \/ prev # nil /\ \E c \in {t.left[n], t.right[n]} \ {nil} : t.element[prev] = t.element[c]

Pushed(t, n, stack) == stack \o SelectSeq(<<t.right[n], t.left[n]>>, LAMBDA m : m # nil)

RECURSIVE PostLoop2(_, _, _, _)
PostLoop2(t, stack, prev, arr) ==
  IF stack = <<>> THEN arr
  ELSE LET top == Last1(stack)
       IN  IF Visitable(t, top, prev) THEN PostLoop2(t, Popped(stack), top, Append(arr, t.element[top]))
           ELSE PostLoop2(t, Pushed(t, top, stack), prev, arr)

postorderTraversal2(t) == IF t.root = nil THEN <<>> ELSE PostLoop2(t, <<t.root>>, nil, <<>>)
-------------------------------------------------------------------------------
(* 102, 107, 104: levels.  levelSize nodes of this level are still in the
   queue, levelArr are the values of the others; a finished level is appended or,
   for levelOrderBottom, put in front. *)
RECURSIVE LevelsLoop(_, _, _, _, _, _)
LevelsLoop(t, queue, levelSize, levelArr, arr, front) ==
  IF queue = <<>> THEN arr
  ELSE LET rest  == Tail(queue) \o Children(t, Head(queue))
           level == Append(levelArr, t.element[Head(queue)])
       IN  IF levelSize # 1 THEN LevelsLoop(t, rest, levelSize - 1, level, arr, front)
           ELSE LevelsLoop(t, rest, Len(rest), <<>>,
                           IF front THEN <<level>> \o arr ELSE Append(arr, level), front)

levelOrder(t) == IF t.root = nil THEN <<>> ELSE LevelsLoop(t, <<t.root>>, 1, <<>>, <<>>, FALSE)
levelOrderBottom(t) == IF t.root = nil THEN <<>> ELSE LevelsLoop(t, <<t.root>>, 1, <<>>, <<>>, TRUE)

maxDepth1(t) == heightWithRecursion(t)
maxDepth2(t) == heightByLevels(t)
-------------------------------------------------------------------------------
(* 101: is the tree its own mirror image? *)
RECURSIVE compare(_, _, _)
compare(t, l, r) ==
  IF l = nil THEN r = nil
  ELSE /\ r # nil
       /\ t.element[l] = t.element[r]
       /\ compare(t, t.left[l], t.right[r]) /\ compare(t, t.right[l], t.left[r])

isSymmetric1(t) == t.root = nil \/ compare(t, t.left[t.root], t.right[t.root])

RECURSIVE SymmetricLoop(_, _)
SymmetricLoop(t, queue) ==
  IF queue = <<>> THEN TRUE
  ELSE LET n1 == queue[1]
           n2 == queue[2]
           rest == SubSeq(queue, 3, Len(queue))
       IN  IF n1 = nil /\ n2 = nil THEN SymmetricLoop(t, rest)
           ELSE /\ n1 # nil /\ n2 # nil /\ t.element[n1] = t.element[n2]
                /\ SymmetricLoop(t, rest \o <<t.left[n1], t.right[n2], t.right[n1], t.left[n2]>>)

isSymmetric2(t) == t.root = nil \/ SymmetricLoop(t, <<t.left[t.root], t.right[t.root]>>)
-------------------------------------------------------------------------------
(* 106, 105: the tree with these walks.  A read outside the array ends the
   program. *)
Trapped == <<"trap">>
IndexIn(arr, value) ==        \* k stays 0 if the value is not found
  IF \E i \in 1..Len(arr) : arr[i] = value THEN SelectInSeq(arr, LAMBDA x : x = value) - 1 ELSE 0

(* Mutant: forgets the nodes on the right. *)
leftPostEndNext(postEnd, inEnd, k) == postEnd - 1

leftPostEnd(postEnd, inEnd, k) == postEnd - (inEnd - k) - 1

RECURSIVE build(_, _, _, _, _)
build(inorder, inStart, inEnd, postorder, postEnd) ==
  IF inStart > inEnd THEN <<>>
  ELSE IF postEnd \notin 0..(Len(postorder) - 1) THEN Trapped
  ELSE LET rootValue == postorder[postEnd + 1]
           k == IndexIn(inorder, rootValue)
       IN  <<build(inorder, inStart, k - 1, postorder, leftPostEnd(postEnd, inEnd, k)),
             rootValue,
             build(inorder, k + 1, inEnd, postorder, postEnd - 1)>>

buildTree(inorder, postorder) == build(inorder, 0, Len(inorder) - 1, postorder, Len(postorder) - 1)

RECURSIVE build1(_, _, _, _, _, _)
build1(preorder, preStart, preEnd, inorder, inStart, inEnd) ==
  IF preStart > preEnd THEN <<>>
  ELSE IF preStart \notin 0..(Len(preorder) - 1) THEN Trapped
  ELSE LET rootValue == preorder[preStart + 1]
           k == IndexIn(inorder, rootValue)
           leftCount == k - inStart
       IN  <<build1(preorder, preStart + 1, preStart + leftCount, inorder, inStart, k - 1),
             rootValue,
             build1(preorder, preStart + leftCount + 1, preEnd, inorder, k + 1, inEnd)>>

buildTree1(preorder, inorder) ==
  build1(preorder, 0, Len(preorder) - 1, inorder, 0, Len(inorder) - 1)
-------------------------------------------------------------------------------
(* 98: is it a search tree? *)
Increasing(arr) == \A i \in 2..Len(arr) : arr[i] > arr[i - 1]
isValidBST(t) == t.root = nil \/ Increasing(InLoop(t, t.root, <<>>, <<>>))

(* Mutant: compares a node with its parent only. *)
RECURSIVE isValidBSTNear(_, _, _, _)
isValidBSTNear(t, n, leftMin, rightMax) ==
  IF n = nil THEN TRUE
  ELSE /\ leftMin < t.element[n] /\ rightMax > t.element[n]
       /\ isValidBSTNear(t, t.left[n], -1000, t.element[n])
       /\ isValidBSTNear(t, t.right[n], t.element[n], 1000)

RECURSIVE isValidBSTRecursive(_, _, _, _)
isValidBSTRecursive(t, n, leftMin, rightMax) ==
  IF n = nil THEN TRUE
  ELSE /\ leftMin < t.element[n] /\ rightMax > t.element[n]
       /\ isValidBSTRecursive(t, t.left[n], leftMin, t.element[n])
       /\ isValidBSTRecursive(t, t.right[n], t.element[n], rightMax)

(* Int.min and Int.max: all the properties need is that no value is one of them,
   which isValidBST1 would reject. *)
IntMin == -1000
IntMax == 1000
isValidBST1(t) == isValidBSTRecursive(t, t.root, IntMin, IntMax)
-------------------------------------------------------------------------------
(* 88: nums1 has m values and room for the n values of nums2. *)
Filled(nums1, m, nums2, n) ==
  [i \in 0..(m + n - 1) |-> IF i < m THEN nums1[i] ELSE nums2[i - m]]

(* merge, merge1 and merge2 take m + m for the length: with m > n their first
   pass reads behind the end of the array, with m < n they leave the rest as it
   is.  The end = sortIndex of merge2 sets the loop's own copy only. *)
merge(nums1, m, nums2, n) ==
  IF m > n THEN Trapped ELSE maopao1(Filled(nums1, m, nums2, n), m + m - 1)
merge1(nums1, m, nums2, n) ==
  IF m > n THEN Trapped ELSE maopao2(Filled(nums1, m, nums2, n), m + m - 1)
merge2(nums1, m, nums2, n) == merge(nums1, m, nums2, n)

(* The range 1..<count of merge3, merge4 and merge5 does not exist for count 0. *)
merge3(nums1, m, nums2, n) ==
  IF m + n = 0 THEN Trapped ELSE select(Filled(nums1, m, nums2, n), m + n - 1)
merge4(nums1, m, nums2, n) ==
  IF m + n = 0 THEN Trapped ELSE insert1(Filled(nums1, m, nums2, n), m + n)
merge5(nums1, m, nums2, n) ==
  IF m + n = 0 THEN Trapped ELSE insert2(Filled(nums1, m, nums2, n), m + n)
merge6(nums1, m, nums2, n) == quick(Filled(nums1, m, nums2, n), 0, m + n)
-------------------------------------------------------------------------------
(* 876: the node in the middle.  A node is its place in the list, 0 for the first;
   the place after the last one is nil.  The walk along next collects the nodes from
   baseHead on, and counts them. *)
RECURSIVE Collect(_, _, _, _)
Collect(list, baseHead, arr, count) ==
  IF baseHead = Len(list) THEN [arr |-> arr, count |-> count]
  ELSE Collect(list, baseHead + 1, Append(arr, baseHead), count + 1)

middleNode(list) ==
  IF Len(list) <= 1 THEN 0
  ELSE LET all == Collect(list, 0, <<>>, 0) IN all.arr[1 + all.count \div 2]
middleNode1(list) ==
  IF Len(list) <= 1 THEN 0
  ELSE LET arr == Collect(list, 0, <<>>, 0).arr IN arr[1 + Len(arr) \div 2]

RECURSIVE SlowFast(_, _, _)
SlowFast(list, slow, fast) ==
  IF fast < Len(list) /\ fast + 1 < Len(list) THEN SlowFast(list, slow + 1, fast + 2) ELSE slow
middleNode2(list) == IF Len(list) <= 1 THEN 0 ELSE SlowFast(list, 0, 0)

(* 02.01: rest is what follows baseNode, kept what ends with it. *)
(* Mutant: goes on to the next node after a removal too, without looking at it. *)
RECURSIVE DropLoopOn(_, _, _)
DropLoopOn(kept, rest, seen) ==
  IF rest = <<>> THEN kept
  ELSE IF Head(rest) \notin seen
  THEN DropLoopOn(Append(kept, Head(rest)), Tail(rest), seen \cup {Head(rest)})
  ELSE IF Len(rest) = 1 THEN kept
  ELSE DropLoopOn(Append(kept, rest[2]), Tail(Tail(rest)), seen)

RECURSIVE DropLoop(_, _, _)
DropLoop(kept, rest, seen) ==
  IF rest = <<>> THEN kept
  ELSE IF Head(rest) \in seen THEN DropLoop(kept, Tail(rest), seen)
  ELSE DropLoop(Append(kept, Head(rest)), Tail(rest), seen \cup {Head(rest)})

removeDuplicateNodes(list) ==
  IF Len(list) <= 1 THEN list ELSE DropLoop(<<Head(list)>>, Tail(list), {Head(list)})
-------------------------------------------------------------------------------
(* What the solutions should do: *)
Term(t) ==
  LET term[n \in Places] == IF n = nil THEN <<>> ELSE <<term[t.left[n]], t.element[n], term[t.right[n]]>>
  IN  term[t.root]

Mirror(t) == [t EXCEPT !.left = t.right, !.right = t.left]

Relabelled(t, label) == [t EXCEPT !.element = [n \in Nodes |-> IF t.element[n] = 0 THEN 0 ELSE label[t.element[n]]]]

(* the values of level d from the left; depth counts the climbs to the root *)
Level(t, d) ==
  LET depth[n \in Nodes] == IF t.parent[n] = nil THEN 1 ELSE 1 + depth[t.parent[n]]
  IN  SelectSeq(inOrder(t), LAMBDA e : \E n \in Nodes : t.element[n] = e /\ depth[n] = d)

FirstOnes(list) ==
  LET first == {i \in 1..Len(list) : \A j \in 1..(i - 1) : list[j] # list[i]}
  IN  [k \in 1..Cardinality(first) |->
         list[CHOOSE i \in first : Cardinality({j \in first : j <= i}) = k]]
================================================================================
