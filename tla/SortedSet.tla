-------------------------------- MODULE SortedSet ------------------------------
(***************************************************************************)
(* What the headers of the search trees promise: a set of elements that can *)
(* be listed in their order, with the neighbours of each element.           *)
(***************************************************************************)
EXTENDS Integers, SequencesExt

CONSTANT Elements

VARIABLES members, call, ret

Void == 0
None == -1

SetInit == members = {} /\ call = <<"init">> /\ ret = Void

AddMember(e) == call' = <<"add", e>> /\ ret' = Void /\ members' = members \cup {e}
RemoveMember(e) == call' = <<"remove", e>> /\ ret' = Void /\ members' = members \ {e}
HasMember(e) == call' = <<"contains", e>> /\ ret' = (e \in members) /\ UNCHANGED members
MemberCount == call' = <<"size">> /\ ret' = Cardinality(members) /\ UNCHANGED members
Clear == call' = <<"clear">> /\ ret' = Void /\ members' = {}

Listed ==
  /\ call' = <<"inOrder">> /\ ret' = SetToSortSeq(members, LAMBDA a, b : a < b)
  /\ UNCHANGED members

Below(e) ==
  LET smaller == {m \in members : m < e} IN
  /\ e \in members /\ call' = <<"predecessor", e>>
  /\ ret' = (IF smaller = {} THEN None ELSE Max(smaller))
  /\ UNCHANGED members

Above(e) ==
  LET greater == {m \in members : m > e} IN
  /\ e \in members /\ call' = <<"successor", e>>
  /\ ret' = (IF greater = {} THEN None ELSE Min(greater))
  /\ UNCHANGED members

SetNext ==
  \/ \E e \in Elements : AddMember(e) \/ RemoveMember(e) \/ HasMember(e) \/ Below(e) \/ Above(e)
  \/ MemberCount \/ Clear \/ Listed

SetSpec == SetInit /\ [][SetNext]_<<members, call, ret>>
================================================================================
