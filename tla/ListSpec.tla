-------------------------------- MODULE ListSpec -------------------------------
(***************************************************************************)
(* What the headers of the list classes promise: a list of elements that    *)
(* are added, replaced and removed by position, and a cursor that stays on  *)
(* its element whatever happens around it.  call is the last call with its  *)
(* arguments, ret what it returned.                                         *)
(***************************************************************************)
EXTENDS Integers, SequencesExt

CONSTANTS Elements, Indices

VARIABLES content,   \* the elements, front first
          cursor,    \* position of the cursor, NoCursor or Lost
          call, ret

NoCursor == -1
Lost == -2          \* the element under the cursor left the list
Void == 0           \* methods without a return value
NOT_FOUND == -1
Crash == -2          \* the call reads through a nil pointer

Positions == 0..(Len(content) - 1)
OnElement == cursor \in Positions
PositionOf(e) == SelectInSeq(content, LAMBDA x : x = e) - 1

ListInit == content = <<>> /\ cursor = NoCursor /\ call = <<"init">> /\ ret = Void

(* InsertAt, RemoveAt, ReplaceAt count from 1, the classes from 0. *)
AddAt(i, e) ==
  /\ call' = <<"add", i, e>> /\ ret' = Void
  /\ IF i \in 0..Len(content)
     THEN /\ content' = InsertAt(content, i + 1, e)
          /\ cursor' = IF OnElement /\ cursor >= i THEN cursor + 1 ELSE cursor
     ELSE UNCHANGED <<content, cursor>>

(* The element at i leaves; a cursor behind it moves up, one on it is lost. *)
Taken(i) ==
  /\ content' = RemoveAt(content, i + 1)
  /\ cursor' = CASE cursor = i -> Lost
                 [] OnElement /\ cursor > i -> cursor - 1
                 [] OTHER -> cursor

RemoveIndex(i) ==
  /\ call' = <<"remove", i>>
  /\ IF i \in Positions THEN Taken(i) /\ ret' = content[i + 1]
     ELSE ret' = NOT_FOUND /\ UNCHANGED <<content, cursor>>

RemoveElement(e) ==
  /\ call' = <<"removeElement", e>> /\ ret' = Void
  /\ IF e \in Range(content) THEN Taken(PositionOf(e)) ELSE UNCHANGED <<content, cursor>>

SetIndex(i, e) ==
  /\ call' = <<"set", i, e>>
  /\ IF i \in Positions THEN content' = ReplaceAt(content, i + 1, e) /\ ret' = content[i + 1]
     ELSE ret' \in {NOT_FOUND, Crash} /\ UNCHANGED content
  /\ UNCHANGED cursor

GetIndex(i) ==
  /\ call' = <<"get", i>>
  /\ IF i \in Positions THEN ret' = content[i + 1] ELSE ret' \in {NOT_FOUND, Crash}
  /\ UNCHANGED <<content, cursor>>

IndexOf(e) ==
  /\ call' = <<"indexOf", e>> /\ ret' = PositionOf(e)
  /\ UNCHANGED <<content, cursor>>

Clear ==
  /\ call' = <<"clear">> /\ ret' = Void
  /\ content' = <<>> /\ cursor' = IF OnElement THEN Lost ELSE cursor

ResetCursor ==
  /\ call' = <<"resetCurrent">> /\ ret' = Void
  /\ cursor' = (IF content = <<>> THEN NoCursor ELSE 0) /\ UNCHANGED content

(* Without a cursor nextCurrent and removeCurrent return -1. *)
NextCursor ==
  /\ call' = <<"nextCurrent">>
  /\ IF cursor = NoCursor THEN ret' = NOT_FOUND /\ UNCHANGED cursor
     ELSE /\ OnElement
          /\ cursor' = (cursor + 1) % Len(content)
          /\ ret' = content[cursor' + 1]
  /\ UNCHANGED content

RemoveUnderCursor ==
  /\ call' = <<"removeCurrent">>
  /\ IF cursor = NoCursor THEN ret' = NOT_FOUND /\ UNCHANGED <<content, cursor>>
     ELSE /\ OnElement
          /\ content' = RemoveAt(content, cursor + 1) /\ ret' = content[cursor + 1]
          /\ cursor' = IF Len(content) = 1 THEN NoCursor ELSE cursor % (Len(content) - 1)

ListNext ==
  \/ \E i \in Indices, e \in Elements : AddAt(i, e) \/ SetIndex(i, e)
  \/ \E i \in Indices : RemoveIndex(i) \/ GetIndex(i)
  \/ \E e \in Elements : RemoveElement(e) \/ IndexOf(e)
  \/ Clear \/ ResetCursor \/ NextCursor \/ RemoveUnderCursor

List == ListInit /\ [][ListNext]_<<content, cursor, call, ret>>
================================================================================
