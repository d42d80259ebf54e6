------------------------------ MODULE DynamicArray -----------------------------
(***************************************************************************)
(* WGDynamicArray.m, DynamicArray.swift and Stack.swift, which uses only    *)
(* the end of a DynamicArray: a list in an array that is                    *)
(* copied to one and a half times its capacity when it is full.  The        *)
(* Objective-C class fills an NSMutableArray that starts empty and keeps    *)
(* what it no longer uses behind size; the Swift class fills an array of    *)
(* the full capacity, asserts its indices and, in clear, casts NSNull to    *)
(* the type of each element, which no such type allows: clear of a Swift    *)
(* array that is not empty ends the program (ret = Crash).                  *)
(***************************************************************************)
EXTENDS Integers, SequencesExt

CONSTANTS Elements,
          DEFAULT_CAPACITY,
          Capacities,        \* what callers pass to the initialiser
          MaxSize,           \* bound on the number of elements
          Careful            \* callers of the Swift class keep its assertions
                             \* and ask for a capacity that can grow

VARIABLES class, slots, size, length, call, ret

vars == <<class, slots, size, length, call, ret>>

Void == 0
NOT_FOUND == -1              \* also what unused slots of the Swift class hold
Crash == -2

Swift == class \in {"DynamicArray", "Stack"}
Indices == -1..(MaxSize + 1)
Fill(s, n) == s \o [k \in 1..(n - Len(s)) |-> NOT_FOUND]

Init ==
  /\ class \in {"WGDynamicArray", "DynamicArray", "Stack"}
  /\ \E capa \in Capacities :
       /\ Careful /\ Swift => capa >= 2    \* a capacity of 0 or 1 does not grow
       /\ length = IF ~Swift /\ capa < DEFAULT_CAPACITY THEN DEFAULT_CAPACITY ELSE capa
  /\ class = "Stack" => length = DEFAULT_CAPACITY
  /\ slots = IF Swift THEN Fill(<<>>, length) ELSE <<>>
  /\ size = 0 /\ call = <<"init">> /\ ret = Void

Same == UNCHANGED <<slots, size, length>>

(* A bad index: the Swift class stops at its assertion, the other one logs it
   and returns value. *)
Refused(value) ==
  /\ Swift => ~Careful
  /\ ret' = (IF Swift THEN Crash ELSE value) /\ Same

(* ensureCapacity: *)
Full == length < size + 1
NewLength == IF Full THEN length + length \div 2 ELSE length

(* Mutant: one element too few is copied. *)
NewSlotsShort ==
  CASE ~Full -> slots
    [] Full /\ Swift -> Fill(SubSeq(slots, 1, size - 1), NewLength)
    [] Full /\ ~Swift -> Append(SubSeq(slots, 1, size - 1), slots[1])

NewSlots ==
  CASE ~Full -> slots
    [] Full /\ Swift -> Fill(SubSeq(slots, 1, size), NewLength)
    [] Full /\ ~Swift -> SubSeq(slots, 1, size)

(* Slots index to size - 1 move up by one, from the last one down, and e is
   stored at index; the NSMutableArray grows by the slot it needs. *)
Opened(s, index, e) ==
  [k \in 1..(IF Len(s) > size THEN Len(s) ELSE size + 1) |->
     CASE k = index + 1 -> e
       [] k > index + 1 /\ k <= size + 1 -> s[k - 1]
       [] OTHER -> s[k]]

(* add:withElement:, addElement(element:index:) *)
Add(index, e) ==
  /\ call' = <<"add", index, e>>
  /\ IF 0 <= index /\ index <= size
     THEN /\ size < MaxSize
          /\ IF Swift /\ Len(NewSlots) < size + 1 THEN ret' = Crash /\ Same
             ELSE /\ slots' = Opened(NewSlots, index, e)
                  /\ size' = size + 1 /\ length' = NewLength /\ ret' = Void
     ELSE Refused(Void)

InRange(index) == 0 <= index /\ index < size

Get(index) ==
  /\ call' = <<"get", index>>
  /\ IF InRange(index) THEN ret' = slots[index + 1] /\ Same ELSE Refused(NOT_FOUND)

Set(index, e) ==
  /\ call' = <<"set", index, e>>
  /\ IF InRange(index)
     THEN /\ ret' = slots[index + 1] /\ slots' = ReplaceAt(slots, index + 1, e)
          /\ UNCHANGED <<size, length>>
     ELSE Refused(NOT_FOUND)

(* Slots index + 1 to size - 1 move down by one; the last one keeps its value. *)
Closed(index) ==
  [k \in 1..Len(slots) |-> IF k > index /\ k < size THEN slots[k + 1] ELSE slots[k]]

Take(index) == slots' = Closed(index) /\ size' = size - 1 /\ UNCHANGED length

RemoveIndex(index) ==
  /\ call' = <<"remove", index>>
  /\ IF InRange(index) THEN ret' = slots[index + 1] /\ Take(index) ELSE Refused(NOT_FOUND)

(* Mutant: the search also looks at what is left behind size. *)
indexOfSlots(e) == SelectInSeq(slots, LAMBDA x : x = e) - 1

indexOf(e) == SelectInSeq(SubSeq(slots, 1, size), LAMBDA x : x = e) - 1

IndexOf(e) == call' = <<"indexOf", e>> /\ ret' = indexOf(e) /\ Same

(* remove(indexOf(element)), also when that is ELEMENT_NOT_FOUND *)
RemoveElement(e) ==
  /\ call' = <<"removeElement", e>>
  /\ IF InRange(indexOf(e)) THEN ret' = Void /\ Take(indexOf(e)) ELSE Refused(Void)

Clear ==
  /\ call' = <<"clear">>
  /\ IF Swift /\ size > 0 THEN ret' = Crash /\ Same
     ELSE ret' = Void /\ size' = 0 /\ UNCHANGED <<slots, length>>

StackCall ==     \* push, pop, top
  \/ \E e \in Elements : Add(size, e)
  \/ RemoveIndex(size - 1) \/ Get(size - 1)

ArrayCall ==
  \/ \E i \in Indices, e \in Elements : Add(i, e) \/ Set(i, e)
  \/ \E i \in Indices : RemoveIndex(i) \/ Get(i)
  \/ \E e \in Elements : RemoveElement(e) \/ IndexOf(e)
  \/ Clear

Next ==
  /\ ret # Crash
  /\ IF class = "Stack" THEN StackCall ELSE ArrayCall
  /\ UNCHANGED class

Spec == Init /\ [][Next]_vars
-------------------------------------------------------------------------------
(* Type invariant: the elements fit into the slots, the slots into the
   capacity. *)
TypeOK ==
  /\ class \in {"WGDynamicArray", "DynamicArray", "Stack"}
  /\ length \in Nat /\ size \in 0..Len(slots) /\ Len(slots) <= length
  /\ slots \in Seq(Elements \cup {NOT_FOUND})
  /\ ret \in Elements \cup Indices \cup {Crash}

(* The array classes implement lists: whatever is left behind size and however
   often the array grew, every call returns and changes what the list of
   elements says, except that clear of a Swift array that is not empty never
   does (line 123 of DynamicArray.swift; line 119 says that it removes all
   elements). *)
L == INSTANCE ListSpec WITH content <- SubSeq(slots, 1, size), cursor <- -1
ClearFails == class = "DynamicArray" /\ size > 0 /\ call' = <<"clear">> /\ ret' = Crash /\ Same
ImplementsArrayList ==
  L!ListInit /\ [][L!ListNext \/ ClearFails]_<<SubSeq(slots, 1, size), call, ret>>
================================================================================
