------------------------------ MODULE WGBinaryHeap ------------------------------
(***************************************************************************)
(* WGBinaryHeap.m: a heap in an NSMutableArray, built from an array that is  *)
(* given at the start.  Places that were vacated hold NSNull, which has no   *)
(* int value; reading one, or reading behind the end of the array, raises an *)
(* exception and ends the program (ret = Trap).                              *)
(***************************************************************************)
EXTENDS Integers, Bags, FiniteSets, SequencesExt

CONSTANTS Elements,   \* int values
          Inputs,     \* the arrays initWithElements: is called with
          MaxCount,   \* bound on the size of the heap
          Null, Trap

VARIABLES base,   \* the array given to initWithElements:
          arr,    \* a function on 0..count-1
          size, call, ret

vars == <<base, arr, size, call, ret>>

Void == -2
Put(a, i, e) == [k \in DOMAIN a \cup {i} |-> IF k = i THEN e ELSE a[k]]
HasInt(a, i) == i \in DOMAIN a /\ a[i] # Null

RECURSIVE siftUp(_, _)
siftUp(a, index) ==
  LET parent == (index - 1) \div 2
  IN  IF index = 0 \/ a[parent] >= a[index] THEN a
      ELSE siftUp([a EXCEPT ![index] = a[parent], ![parent] = a[index]], parent)

heapify1(a, n) == FoldLeft(siftUp, a, [k \in 1..(n - 1) |-> k])

(* Mutant: the left child is compared even if the right one is larger. *)
RECURSIVE siftDownLeft(_, _, _, _)
siftDownLeft(a, n, index, e) ==
  IF index >= n \div 2 THEN [a EXCEPT ![index] = e]
  ELSE LET left == 2 * index + 1
       IN  IF ~HasInt(a, left + 1) THEN Trap
           ELSE IF e > a[left] THEN [a EXCEPT ![index] = e]
           ELSE siftDownLeft([a EXCEPT ![index] = a[left]], n, left, e)

(* The loop of siftDownWithIndex: for n elements; the value of the right child is
   read before its index is compared with the size. *)
RECURSIVE siftDown(_, _, _, _)
siftDown(a, n, index, e) ==
  IF index >= n \div 2 THEN [a EXCEPT ![index] = e]
  ELSE LET left  == 2 * index + 1
           right == left + 1
           child == IF right < n /\ a[right] > a[left] THEN right ELSE left
       IN  IF ~HasInt(a, right) THEN Trap
           ELSE IF e > a[child] THEN [a EXCEPT ![index] = e]
           ELSE siftDown([a EXCEPT ![index] = a[child]], n, child, e)

(* initWithElements: *)
Init ==
  /\ base \in Inputs
  /\ size = Len(base)
  /\ arr = heapify1([i \in 0..(Len(base) - 1) |-> base[i + 1]], Len(base))
  /\ call = <<"init">> /\ ret = Void

(* Mutant: the new element is not sifted up. *)
addElementOnly(e) ==
  /\ size < MaxCount
  /\ call' = <<"add", e>> /\ ret' = Void
  /\ arr' = Put(arr, size, e) /\ size' = size + 1

addElement(e) ==
  /\ size < MaxCount
  /\ call' = <<"add", e>> /\ ret' = Void
  /\ arr' = siftUp(Put(arr, size, e), size) /\ size' = size + 1

get ==
  /\ call' = <<"get">>
  /\ ret' = IF HasInt(arr, 0) THEN arr[0] ELSE Trap
  /\ UNCHANGED <<arr, size>>

(* The element e at index 0 is sifted down in array a of n elements. *)
Sifted(a, n, e, top) ==
  LET after == siftDown(a, n, 0, e)
  IN  IF after = Trap THEN ret' = Trap /\ UNCHANGED <<arr, size>>
      ELSE arr' = after /\ size' = n /\ ret' = top

(* remove: with one element left, its place is NSNull before it is read. *)
remove ==
  /\ call' = <<"remove">>
  /\ IF size = 0 THEN ret' = -1 /\ UNCHANGED <<arr, size>>
     ELSE IF size = 1 THEN ret' = Trap /\ UNCHANGED <<arr, size>>
     ELSE Sifted([arr EXCEPT ![0] = arr[size - 1], ![size - 1] = Null],
                 size - 1, arr[size - 1], arr[0])

replace(e) ==
  /\ call' = <<"replace", e>>
  /\ IF size = 0 THEN arr' = Put(arr, 0, e) /\ size' = 1 /\ ret' = -1
     ELSE Sifted([arr EXCEPT ![0] = e], size, e, arr[0])

clear ==
  /\ call' = <<"clear">> /\ ret' = Void
  /\ arr' = [i \in DOMAIN arr |-> IF i < size THEN Null ELSE arr[i]] /\ size' = 0

Next ==
  /\ ret # Trap
  /\ \/ \E e \in Elements : addElement(e) \/ replace(e)
     \/ get \/ remove \/ clear
  /\ UNCHANGED base

Spec == Init /\ [][Next]_vars
-------------------------------------------------------------------------------
(* Type invariant: the first size places hold elements, the others nothing. *)
TypeOK ==
  /\ base \in Inputs /\ size \in 0..MaxCount
  /\ \E n \in size..MaxCount :
       arr \in [0..(n - 1) -> Elements \cup {Null}] /\ \A i \in 0..(n - 1) : i < size <=> arr[i] # Null

(* A parent is not smaller than its children, after any sequence of add, remove,
   replace and clear on a heap built from any array ("node > parent: exchange"
   and "node < child: exchange" in the comments on siftUp and siftDown). *)
HeapOrder == \A i \in 1..(size - 1) : arr[(i - 1) \div 2] >= arr[i]

(* The array implements a priority queue as far as its calls return: get, remove and
   replace return the largest element, and no element is lost or doubled by the gaps
   that siftDown moves.  The calls that do not return are the subject of
   RemoveReturnsTop. *)
Held == [e \in {arr[i] : i \in 0..(size - 1)} |-> Cardinality({i \in 0..(size - 1) : arr[i] = e})]
P == INSTANCE PriorityQueue WITH elements <- Held
ImplementsPriorityQueue == [][ret' # Trap => P!PQNext(Elements)]_vars

(* "delete the top element of the heap, return the top element that was deleted"
   (WGBinaryHeap.h:74, of remove; :77 says the same of replace): with a second element
   to take its place the top leaves and is returned. *)
RemoveReturnsTop ==
  [][size > 1 /\ call'[1] \in {"remove", "replace"} => ret' = arr[0]]_vars
================================================================================
