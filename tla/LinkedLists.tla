------------------------------- MODULE LinkedLists ------------------------------
(***************************************************************************)
(* One object of one of the list classes of WGSingleList.m to               *)
(* WGDoubleCycleList.m, SingleList.swift and DoubleList.swift, or of a stack *)
(* or queue class built on a two-way list, and the calls its users make.  A *)
(* call that reads through a nil node pointer, or fails an assertion of the *)
(* Swift classes, ends the program (ret = Crash).                           *)
(***************************************************************************)
EXTENDS SwiftLists, Sequences

CONSTANTS Classes,   \* the classes considered
          MaxSize,   \* bound on the size of the list
          Careful    \* callers avoid the call sequences the classes break on

VARIABLES class,     \* class of the object
          list,      \* its list
          current,   \* cursor of WGDoubleCycleList, nil in the other classes
          call, ret

vars == <<class, list, current, call, ret>>

Void == 0
Crash == -2
Indices == -1..(MaxSize + 1)

Init ==
  /\ class \in Classes
  /\ list = EmptyList /\ current = nil
  /\ call = <<"init">> /\ ret = Void

InList(n) == \E k \in 0..(list.size - 1) : Walk(list.next, list.first, k) = n

Becomes(l, c) == current' = c /\ list' = Settled(l, c)
Same == UNCHANGED <<list, current>>

Swift == class \in {"SingleList", "SingleCycleList", "DoubleList", "DoubleCycleList",
                    "Queue", "DoubleQueue"}

(* The classes by what they do once the arguments are checked. *)
Op_add(n, i, e) ==
  CASE class = "WGSingleList" -> SingleAdd(list, n, i, e)
    [] class = "WGSingleCycleList" -> CycleAdd(list, n, i, e)
    [] class = "WGDoubleCycleList" -> RingAdd(list, n, i, e)
    [] class = "SingleList" -> SingleListAdd(list, n, i, e)
    [] class = "SingleCycleList" -> SingleCycleListAdd(list, n, i, e)
    [] class = "DoubleCycleList" -> DoubleCycleListAdd(list, n, i, e)
    [] class \in {"DoubleList", "Queue", "DoubleQueue"} -> DoubleListAdd(list, n, i, e)
    [] OTHER -> DoubleAdd(list, n, i, e)

Op_remove(i) ==
  CASE class = "WGSingleList" -> SingleRemove(list, i)
    [] class = "WGSingleCycleList" -> CycleRemove(list, i)
    [] class = "WGDoubleCycleList" -> RingRemove(list, i)
    [] class = "SingleList" -> SingleListRemove(list, i)
    [] class = "SingleCycleList" -> SingleCycleListRemove(list, i)
    [] class = "DoubleCycleList" -> DoubleCycleListRemove(list, i)
    [] class \in {"DoubleList", "Queue", "DoubleQueue"} -> DoubleListRemove(list, i)
    [] OTHER -> DoubleRemove(list, i)

OneWay == class \in {"WGSingleList", "WGSingleCycleList", "SingleList", "SingleCycleList"}

Op_clear ==
  CASE OneWay -> SingleClear(list)
    [] ~OneWay /\ Swift -> DoubleListClear(list)
    [] OTHER -> DoubleClear(list)

getNodeWithIndex(i) ==
  CASE OneWay /\ Swift -> SingleListNode(list, i)
    [] OneWay /\ ~Swift -> SingleNode(list, i)
    [] ~OneWay /\ Swift -> DoubleListNode(list, i)
    [] OTHER -> DoubleNode(list, i)

(* A call with a bad index: the Swift classes assert that there are none, the
   others log it and return value. *)
BadIndex(value) ==
  /\ Swift => ~Careful
  /\ ret' = (IF Swift THEN Crash ELSE value) /\ Same

(* add:withElement:, add(val:index:) *)
Add(i, e) ==
  /\ call' = <<"add", i, e>>
  /\ Careful /\ class = "WGSingleCycleList" /\ list.size > 0 => i # 0
  /\ IF 0 <= i /\ i <= list.size
     THEN LET fresh == Nodes \ Reachable(list, current)
          IN  /\ list.size < MaxSize /\ fresh # {} /\ ret' = Void
              /\ Becomes(Op_add(CHOOSE n \in fresh : \A m \in fresh : n <= m, i, e), current)
     ELSE BadIndex(Void)

(* remove:, remove(index:) *)
Remove(i) ==
  /\ call' = <<"remove", i>>
  /\ IF InRange(list, i)
     THEN Becomes(Op_remove(i), current) /\ ret' = list.elem[getNodeWithIndex(i)]
     ELSE BadIndex(NOT_FOUND)

(* The two-way lists in Objective-C are not searched. *)
Searchable == OneWay \/ Swift

(* Mutant: size is decremented once more after remove: has done so. *)
RemoveElementTwice(e) ==
  /\ Searchable
  /\ call' = <<"removeElement", e>> /\ ret' = Void
  /\ IF indexOf(list, e) # NOT_FOUND
     THEN Becomes([Op_remove(indexOf(list, e)) EXCEPT !.size = @ - 1], current) ELSE Same

(* removeElement:, removeValue(val:) *)
RemoveElement(e) ==
  /\ Searchable
  /\ call' = <<"removeElement", e>> /\ ret' = Void
  /\ IF indexOf(list, e) # NOT_FOUND THEN Becomes(Op_remove(indexOf(list, e)), current) ELSE Same

(* indexOf: (and contains:, which asks whether it finds anything) *)
IndexOf(e) ==
  /\ Searchable
  /\ call' = <<"indexOf", e>> /\ ret' = indexOf(list, e)
  /\ Same

(* get: and set:withElement: - the two-way lists in Objective-C do not check the
   index: the node is nil and reading its element traps. *)
Missing == IF OneWay THEN NOT_FOUND ELSE Crash

Get(i) ==
  /\ call' = <<"get", i>>
  /\ IF InRange(list, i) THEN ret' = list.elem[getNodeWithIndex(i)] /\ Same
     ELSE BadIndex(Missing)

Set(i, e) ==
  /\ call' = <<"set", i, e>>
  /\ IF InRange(list, i)
     THEN /\ ret' = list.elem[getNodeWithIndex(i)]
          /\ Becomes(SetElement(list, getNodeWithIndex(i), e), current)
     ELSE BadIndex(Missing)

Clear ==
  /\ call' = <<"clear">> /\ ret' = Void
  /\ Becomes(Op_clear, current)

HasCursor == class = "WGDoubleCycleList"

resetCurrent ==
  /\ HasCursor
  /\ call' = <<"resetCurrent">> /\ ret' = Void
  /\ Becomes(list, list.first)

(* clear and remove: leave current where it was, also when its node is gone. *)
CursorUsable == HasCursor /\ (Careful => current = nil \/ InList(current))

nextCurrent ==
  /\ CursorUsable
  /\ call' = <<"nextCurrent">>
  /\ IF current = nil THEN ret' = NOT_FOUND /\ Same
     ELSE Becomes(list, list.next[current]) /\ ret' = list.elem[list.next[current]]

(* Mutant: the cursor is left on the node that was removed. *)
removeCurrentStays ==
  /\ CursorUsable
  /\ call' = <<"removeCurrent">>
  /\ IF current = nil THEN ret' = NOT_FOUND /\ Same
     ELSE /\ ret' = list.elem[current]
          /\ Becomes(removeNode(list, current), IF list.size = 1 THEN nil ELSE current)

removeCurrent ==
  /\ CursorUsable
  /\ call' = <<"removeCurrent">>
  /\ IF current = nil THEN ret' = NOT_FOUND /\ Same
     ELSE LET after == removeNode(list, current)
          IN  /\ ret' = list.elem[current]
              /\ Becomes(after, IF after.size = 0 THEN nil ELSE list.next[current])

(* The calls of the classes built on WGDoubleList or DoubleList, in terms of its
   methods. *)
StackCall ==      \* push, pop, top
  \/ \E e \in Elements : Add(list.size, e)
  \/ Remove(list.size - 1) \/ Get(list.size - 1)

QueueCall ==      \* enQueue, deQueue, front, clear
  \/ \E e \in Elements : Add(list.size, e)
  \/ Remove(0) \/ Get(0) \/ Clear

SwiftQueueCall == \* enQueue, deQueue, front
  \/ \E e \in Elements : Add(list.size, e)
  \/ Remove(0) \/ Get(0)

DoubleQueueCall ==   \* enQueueFront/Rear, deQueueFront/Rear, front, rear, clear
  \/ \E e \in Elements : Add(0, e) \/ Add(list.size, e)
  \/ Remove(0) \/ Remove(list.size - 1) \/ Get(0) \/ Get(list.size - 1) \/ Clear

ListCall ==
  \/ \E i \in Indices, e \in Elements : Add(i, e) \/ Set(i, e)
  \/ \E i \in Indices : Remove(i) \/ Get(i)
  \/ \E e \in Elements : RemoveElement(e) \/ IndexOf(e)
  \/ Clear \/ resetCurrent \/ nextCurrent \/ removeCurrent

Next ==
  /\ ret # Crash
  /\ \/ class = "WGStack" /\ StackCall
     \/ class = "WGQueue" /\ QueueCall
     \/ class = "Queue" /\ SwiftQueueCall
     \/ class \in {"WGDoubleQueue", "DoubleQueue"} /\ DoubleQueueCall
     \/ class \notin {"WGStack", "WGQueue", "Queue", "WGDoubleQueue", "DoubleQueue"} /\ ListCall
  /\ UNCHANGED class

Spec == Init /\ [][Next]_vars
-------------------------------------------------------------------------------
(* Type invariant: pointers are nodes or nil, size is a size. *)
TypeOK ==
  /\ class \in Classes
  /\ list \in [first : Nodes \cup {nil}, last : Nodes \cup {nil}, size : 0..MaxSize,
               next : [Nodes -> Nodes \cup {nil}], prev : [Nodes -> Nodes \cup {nil}],
               elem : [Nodes -> Elements \cup {NOT_FOUND}]]
  /\ current \in Nodes \cup {nil}
  /\ ret \in Int

(* The last node of a ring leads back to the first one ("get the last node
   and let its next point to the new first node", WGSingleCycleList.m:74). *)
RingClosed ==
  class = "WGSingleCycleList" /\ list.size > 0 =>
    Walk(list.next, list.first, list.size) = list.first

(* The links of a list agree with its size and with each other: a list of
   different nodes that starts at first, ends at last, and, where it is linked
   both ways, reads the same from the back (add:, remove: and removeNode: relink
   up to five pointers each).  The ring of SingleCycleList stays open until an
   element is added or removed at its front. *)
WellLinked ==
  LET node(k) == Walk(list.next, list.first, k)
      ring    == class \in {"WGSingleCycleList", "WGDoubleCycleList", "DoubleCycleList"}
      ends    == CASE ring -> {list.first}
                   [] class = "SingleCycleList" -> {list.first, nil}
                   [] OTHER -> {nil}
  IN  /\ list.size = 0 => list.first = nil /\ list.last = nil
      /\ list.size > 0 => node(list.size) \in ends
      /\ \A j, k \in 0..(list.size - 1) : node(j) # nil /\ (j # k => node(j) # node(k))
      /\ ~OneWay /\ list.size > 0 =>
           /\ list.last = node(list.size - 1)
           /\ list.prev[list.first] = IF ring THEN list.last ELSE nil
           /\ \A k \in 1..(list.size - 1) : list.prev[node(k)] = node(k - 1)

(* The list classes implement lists with positions and a cursor: every call
   returns and changes what the list of elements says it should, also from the
   half of the list that getNodeWithIndex: walks backwards, and the cursor stays
   on its element when elements are added or removed before it. *)
Position(n) == CHOOSE k \in 0..(list.size - 1) : Walk(list.next, list.first, k) = n
AbstractCursor == IF current = nil THEN -1 ELSE IF InList(current) THEN Position(current) ELSE -2

L == INSTANCE ListSpec WITH content <- Content(list), cursor <- AbstractCursor
ImplementsList == L!List
================================================================================
