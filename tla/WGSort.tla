--------------------------------- MODULE WGSort --------------------------------
(***************************************************************************)
(* The sorting methods of WGSort.m, each as an operator from the array it    *)
(* starts with to the array it ends with.  An array is a function on         *)
(* 0..n-1; its items carry a key and the place they started from, which the  *)
(* methods never look at, so that stability can be stated.                   *)
(***************************************************************************)
EXTENDS Integers, SequencesExt

Swap(a, i, j) == [a EXCEPT ![i] = a[j], ![j] = a[i]]
Greater(x, y) == x.key > y.key
UpTo(from, to) == [k \in 1..(to - from + 1) |-> from + k - 1]

(* The inner loop of the bubble sorts; last is where the last exchange was. *)
BubblePass(a, end) ==
  FoldLeft(LAMBDA s, begin : IF Greater(s.arr[begin - 1], s.arr[begin])
                             THEN [arr |-> Swap(s.arr, begin - 1, begin), last |-> begin]
                             ELSE s,
           [arr |-> a, last |-> 0], UpTo(1, end))

RECURSIVE maopao1(_, _), maopao2(_, _), maopao3(_, _)
maopao1(a, end) == IF end <= 0 THEN a ELSE maopao1(BubblePass(a, end).arr, end - 1)

maopao2(a, end) ==
  IF end <= 0 THEN a
  ELSE LET p == BubblePass(a, end) IN IF p.last = 0 THEN a ELSE maopao2(p.arr, end - 1)

(* end = sortIndex, and then end-- of the for loop *)
maopao3(a, end) ==
  IF end <= 0 THEN a
  ELSE LET p == BubblePass(a, end)
           sortIndex == IF p.last = 0 THEN 1 ELSE p.last
       IN  maopao3(p.arr, sortIndex - 1)

(* maxIndex after the inner loop: the first of the largest items *)
maxIndex(a, end) ==
  CHOOSE m \in 0..end : /\ \A i \in 0..end : ~Greater(a[i], a[m])
                        /\ \A i \in 0..(m - 1) : Greater(a[m], a[i])

RECURSIVE select(_, _)
select(a, end) == IF end <= 0 THEN a ELSE select(Swap(a, maxIndex(a, end), end), end - 1)

(* Insertion by exchanges (sort_insert1), and by step columns (sortWithStep). *)
RECURSIVE SinkBack(_, _, _, _)
SinkBack(a, cur, col, step) ==
  IF cur > col /\ Greater(a[cur - step], a[cur])
  THEN SinkBack(Swap(a, cur, cur - step), cur - step, col, step) ELSE a

insert1(a, n) == FoldLeft(LAMBDA s, begin : SinkBack(s, begin, 0, 1), a, UpTo(1, n - 1))

(* Mutant: the last row of every column is left out. *)
sortWithStepShort(a, n, step) ==
  LET rows(col) == [k \in 1..((n - 2 - col) \div step) |-> col + k * step]
      column(s, col) == FoldLeft(LAMBDA t, begin : SinkBack(t, begin, col, step), s, rows(col))
  IN  FoldLeft(column, a, UpTo(0, step - 1))

sortWithStep(a, n, step) ==
  LET rows(col) == [k \in 1..((n - 1 - col) \div step) |-> col + k * step]
      column(s, col) == FoldLeft(LAMBDA t, begin : SinkBack(t, begin, col, step), s, rows(col))
  IN  FoldLeft(column, a, UpTo(0, step - 1))

(* Insertion by moving the larger items up (sort_insert2). *)
RECURSIVE MoveUp(_, _, _)
MoveUp(a, cur, item) ==
  IF cur > 0 /\ Greater(a[cur - 1], item)
  THEN MoveUp([a EXCEPT ![cur] = a[cur - 1]], cur - 1, item)
  ELSE [a EXCEPT ![cur] = item]

insert2(a, n) == FoldLeft(LAMBDA s, begin : MoveUp(s, begin, s[begin]), a, UpTo(1, n - 1))

(* Mutant: an equal item sends the search to the left. *)
RECURSIVE searchLeft(_, _, _, _)
searchLeft(a, index, begin, end) ==
  IF begin >= end THEN begin
  ELSE LET mid == (begin + end) \div 2
       IN  IF ~Greater(a[index], a[mid]) THEN searchLeft(a, index, begin, mid)
           ELSE searchLeft(a, index, mid + 1, end)

(* searchWithIndex: where in 0..index-1 the item at index belongs *)
RECURSIVE searchWithIndex(_, _, _, _)
searchWithIndex(a, index, begin, end) ==
  IF begin >= end THEN begin
  ELSE LET mid == (begin + end) \div 2
       IN  IF Greater(a[mid], a[index]) THEN searchWithIndex(a, index, begin, mid)
           ELSE searchWithIndex(a, index, mid + 1, end)

insert3(a, n) ==
  LET Insert(s, begin) ==
        LET at == searchWithIndex(s, begin, 0, begin)
        IN  [i \in 0..(n - 1) |-> CASE i = at -> s[begin]
                                    [] at < i /\ i <= begin -> s[i - 1]
                                    [] OTHER -> s[i]]
  IN  FoldLeft(Insert, a, UpTo(1, n - 1))

(* Mutant: the part on the left loses its last place. *)
RECURSIVE binarySearchShort(_, _, _, _)
binarySearchShort(a, key, begin, end) ==
  IF begin >= end THEN -1
  ELSE LET mid == (begin + end) \div 2
       IN  IF key < a[mid].key THEN binarySearchShort(a, key, begin, mid - 1)
           ELSE IF key > a[mid].key THEN binarySearchShort(a, key, mid + 1, end)
           ELSE mid

(* binarySearchWithElement: on a sorted array *)
RECURSIVE binarySearch(_, _, _, _)
binarySearch(a, key, begin, end) ==
  IF begin >= end THEN -1
  ELSE LET mid == (begin + end) \div 2
       IN  IF key < a[mid].key THEN binarySearch(a, key, begin, mid)
           ELSE IF key > a[mid].key THEN binarySearch(a, key, mid + 1, end)
           ELSE mid

(* pivotIndexWithBegin: the two inner loops take turns until begin meets end. *)
RECURSIVE FromRight(_, _, _, _), FromLeft(_, _, _, _)
FromRight(a, pivot, begin, end) ==
  IF begin >= end THEN [arr |-> [a EXCEPT ![begin] = pivot], mid |-> begin]
  ELSE IF Greater(a[end], pivot) THEN FromRight(a, pivot, begin, end - 1)
  ELSE FromLeft([a EXCEPT ![begin] = a[end]], pivot, begin + 1, end)

FromLeft(a, pivot, begin, end) ==
  IF begin >= end THEN [arr |-> [a EXCEPT ![begin] = pivot], mid |-> begin]
  ELSE IF Greater(pivot, a[begin]) THEN FromLeft(a, pivot, begin + 1, end)
  ELSE FromRight([a EXCEPT ![end] = a[begin]], pivot, begin, end - 1)

RECURSIVE quick(_, _, _)
quick(a, begin, end) ==
  IF end - begin < 2 THEN a
  ELSE LET p == FromRight(a, a[begin], begin, end - 1)
       IN  quick(quick(p.arr, begin, p.mid), p.mid + 1, end)
-------------------------------------------------------------------------------
(* What the methods should do: *)
Ordered(a, n) == \A i \in 1..(n - 1) : ~Greater(a[i - 1], a[i])
SameItems(a, b, n) == {a[i] : i \in 0..(n - 1)} = {b[i] : i \in 0..(n - 1)}
InOldOrder(a, n) == \A i \in 1..(n - 1) : a[i - 1].key = a[i].key => a[i - 1].place < a[i].place
================================================================================
