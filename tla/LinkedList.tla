----------------------------- MODULE LinkedList -----------------------------
(***************************************************************************)
(* util/list.h: circular doubly linked lists whose links are fields of the *)
(* things they link.  A list is a node of its own, its head; a node in no  *)
(* list points to itself.  An operation is atomic: every caller runs with  *)
(* interrupts masked, in a service or in a handler of one priority.        *)
(***************************************************************************)
EXTENDS Integers, Sequences, SequencesExt

CONSTANTS
  ListHead,    \* the heads
  ListItem,    \* the nodes to be linked
  ItemKey,     \* what the conditions of list_insert_condition compare
  NoNode,      \* NULL
  OnlyUnlinked \* the callers of list_insert_condition insert no linked node

Node == ListHead \cup ListItem

ASSUME ListAssumption ==
  /\ ListHead \cap ListItem = {} /\ IsFiniteSet(ListItem)
  /\ ItemKey \in [ListItem -> Int]
  /\ NoNode \notin Node
  /\ OnlyUnlinked \in BOOLEAN

VARIABLES
  next,    \* list_t.next of every node
  prev,    \* list_t.prev
  gotNode, \* what the last removal returned
  misused  \* the assertion "New node is not initialized" failed

listVars == <<next, prev, gotNode, misused>>

(* list_init, on every node.                                               *)
ListInit ==
  /\ next = [n \in Node |-> n]
  /\ prev = [n \in Node |-> n]
  /\ gotNode = NoNode
  /\ misused = FALSE

-----------------------------------------------------------------------------
(* What a walk from the head meets: from next to next, until it is back.   *)
WalkMeets(h, s) ==
  /\ next[h] = IF s = << >> THEN h ELSE s[1]
  /\ \A i \in 1 .. Len(s) : next[s[i]] = IF i = Len(s) THEN h ELSE s[i + 1]

Contents(h) ==
  CHOOSE s \in SeqOf(ListItem, Cardinality(ListItem)) : WalkMeets(h, s)

ListEmpty(h)    == next[h] = h
Initialised(n)  == next[n] = n /\ prev[n] = n

(* list_insert(new, p, n).                                                 *)
ListInsert(new, p, n) ==
  /\ prev' = [prev EXCEPT ![n] = new, ![new] = p]
  /\ next' = [next EXCEPT ![new] = n, ![p] = new]

Checked(new, Insertion) ==
  IF Initialised(new) THEN Insertion /\ UNCHANGED misused
  ELSE misused' = TRUE /\ UNCHANGED <<next, prev>>

AddAtFront(h, x) ==
  /\ ~misused
  /\ Checked(x, ListInsert(x, h, next[h]))
  /\ UNCHANGED gotNode

AddAtRear(h, x) ==
  /\ ~misused
  /\ Checked(x, ListInsert(x, prev[h], h))
  /\ UNCHANGED gotNode

CondNoGreater(pos, new) == ItemKey[pos] <= ItemKey[new]          \* mutant

(* The condition of the scheduler and of the timers: the item at hand is   *)
(* smaller than the new one.                                               *)
Cond(pos, new)       == ItemKey[pos] < ItemKey[new]

(* list_insert_condition: before the first item that meets the condition,  *)
(* unchecked, or at the end by list_addAtRear, which checks the node.  The *)
(* code takes any node; whether its two callers (scheduler_priority.c:44,  *)
(* systimer.c:172) give it a linked one is OnlyUnlinked.                   *)
Position(h, x) ==
  LET i == SelectInSeq(Contents(h), LAMBDA pos : Cond(pos, x))
  IN  IF i = 0 THEN h ELSE Contents(h)[i]

InsertCondition(h, x) ==
  /\ ~misused
  /\ OnlyUnlinked => Initialised(x)
  /\ \E pos \in Node :
       /\ pos = Position(h, x)
       /\ IF pos = h THEN Checked(x, ListInsert(x, prev[h], h))
          ELSE ListInsert(x, prev[pos], pos) /\ UNCHANGED misused
  /\ UNCHANGED gotNode

UnlinkOnly(n) ==                                                 \* mutant
  /\ prev' = [prev EXCEPT ![next[n]] = prev[n]]
  /\ next' = [next EXCEPT ![prev[n]] = next[n]]

(* list_remove: the neighbours are linked and the node initialised.        *)
Unlink(n) ==
  /\ prev' = [prev EXCEPT ![next[n]] = prev[n], ![n] = n]
  /\ next' = [next EXCEPT ![prev[n]] = next[n], ![n] = n]

ListRemove(x) ==
  /\ ~misused
  /\ Unlink(x)
  /\ UNCHANGED <<gotNode, misused>>

RemoveNode(h, n) ==
  /\ ~misused
  /\ IF ListEmpty(h) THEN gotNode' = NoNode /\ UNCHANGED <<next, prev>>
     ELSE gotNode' = n /\ Unlink(n)
  /\ UNCHANGED misused

RemoveFront(h) == RemoveNode(h, next[h])
RemoveRear(h)  == RemoveNode(h, prev[h])

ListNext ==
  \/ \E h \in ListHead, x \in ListItem :
       AddAtFront(h, x) \/ AddAtRear(h, x) \/ InsertCondition(h, x)
  \/ \E x \in ListItem : ListRemove(x)
  \/ \E h \in ListHead : RemoveFront(h) \/ RemoveRear(h)

ListSpec == ListInit /\ [][ListNext]_listVars

-----------------------------------------------------------------------------
(* The two links of every node agree with its neighbours' (list.h:73-83,   *)
(* 133-141): an unlinked node kept by one neighbour, or a node linked into *)
(* two lists, would break it, and list_remove writes through both links of *)
(* whatever node it is given.                                              *)
LinksAgree ==
  \A n \in Node :
    /\ next[n] \in Node /\ prev[n] \in Node
    /\ prev[next[n]] = n
    /\ next[prev[n]] = n

AllContents == [h \in ListHead |-> Contents(h)]

Promised == INSTANCE Lists WITH
  Anchor <- ListHead, Item <- ListItem, Key <- ItemKey, None <- NoNode,
  list <- AllContents, got <- gotNode

(* The lists are sequences of items, every item in one list at most, and   *)
(* an operation changes the lists it is meant to and no other              *)
(* (list.h:73-216).                                                        *)
ImplementsLists == Promised!Spec

=============================================================================
