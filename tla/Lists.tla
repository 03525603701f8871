------------------------------- MODULE Lists --------------------------------
(***************************************************************************)
(* What the intrusive lists of util/list.h promise: every list is a        *)
(* sequence of items, an item is in one list at most, and an operation     *)
(* changes the lists it is meant to change and no other.                   *)
(***************************************************************************)
EXTENDS Integers, Sequences, SequencesExt

CONSTANTS
  Anchor, \* the lists
  Item,   \* what they link
  Key,    \* Key[x]: what conditions compare
  None    \* NULL

VARIABLES
  list,   \* list[h]: the items of h
  got     \* the node the last removal returned

Listed == UNION {ToSet(list[h]) : h \in Anchor}

AddAtFront(h, x) ==
  /\ x \notin Listed
  /\ list' = [list EXCEPT ![h] = <<x>> \o @]
  /\ UNCHANGED got

AddAtRear(h, x) ==
  /\ x \notin Listed
  /\ list' = [list EXCEPT ![h] = Append(@, x)]
  /\ UNCHANGED got

(* The item goes before the items of smaller key and after the others,     *)
(* which a list that is only filled in this way keeps apart.               *)
InsertInOrder(h, x) ==
  /\ x \notin Listed
  /\ \E i \in 1 .. Len(list[h]) + 1 :
       /\ \A j \in 1 .. i - 1 : Key[list[h][j]] >= Key[x]
       /\ i <= Len(list[h]) => Key[list[h][i]] < Key[x]
       /\ list' = [list EXCEPT ![h] = InsertAt(@, i, x)]
  /\ UNCHANGED got

(* The item leaves whatever list it is in.                                 *)
TakeOut(x) ==
  /\ list' = [h \in Anchor |-> RemoveFirst(list[h], x)]
  /\ UNCHANGED got

RemoveFront(h) ==
  IF list[h] = << >> THEN got' = None /\ UNCHANGED list
  ELSE /\ got' = Head(list[h])
       /\ list' = [list EXCEPT ![h] = Tail(@)]

RemoveRear(h) ==
  IF list[h] = << >> THEN got' = None /\ UNCHANGED list
  ELSE /\ got' = Last(list[h])
       /\ list' = [list EXCEPT ![h] = Front(@)]

Init == list = [h \in Anchor |-> << >>] /\ got = None

Next ==
  \/ \E h \in Anchor :
       \/ RemoveFront(h) \/ RemoveRear(h)
       \/ \E x \in Item : AddAtFront(h, x) \/ AddAtRear(h, x) \/ InsertInOrder(h, x)
  \/ \E x \in Item : TakeOut(x)

Spec == Init /\ [][Next]_<<list, got>>

=============================================================================
