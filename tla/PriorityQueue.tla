--------------------------- MODULE PriorityQueue ----------------------------
(***************************************************************************)
(* What util/heap.c promises: a bounded bag of things from which the one   *)
(* with the largest key, or the smallest, leaves first.                    *)
(***************************************************************************)
EXTENDS Integers

CONSTANTS
  Thing,    \* what is kept, the same thing maybe several times
  Key,      \* Key[x]: its key
  Capacity, \* how many are kept at most
  Nothing   \* NULL

VARIABLES
  held,     \* held[x]: how many times x is kept
  count,    \* how many are kept in all
  first,    \* which key leaves first: "largest" or "smallest"
  accepted, \* the answer of the last insertion
  left      \* what the last removal returned

vars == <<held, count, first, accepted, left>>

Before(x, y) == IF first = "largest" THEN Key[x] > Key[y] ELSE Key[x] < Key[y]

Firsts == {x \in Thing : held[x] > 0 /\ \A y \in Thing : held[y] > 0 => ~Before(y, x)}

Insert(x) ==
  /\ accepted' = (count < Capacity)
  /\ IF accepted' THEN held' = [held EXCEPT ![x] = @ + 1] /\ count' = count + 1
     ELSE UNCHANGED <<held, count>>
  /\ UNCHANGED <<first, left>>

RemoveFirst ==
  /\ IF count = 0 THEN left' = Nothing /\ UNCHANGED <<held, count>>
     ELSE /\ \E x \in Firsts : left' = x /\ held' = [held EXCEPT ![x] = @ - 1]
          /\ count' = count - 1
  /\ UNCHANGED <<first, accepted>>

Init ==
  /\ held = [x \in Thing |-> 0]
  /\ count = 0
  /\ first \in {"largest", "smallest"}
  /\ accepted = TRUE
  /\ left = Nothing

Next == RemoveFirst \/ \E x \in Thing : Insert(x)

Spec == Init /\ [][Next]_vars

=============================================================================
