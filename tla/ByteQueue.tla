----------------------------- MODULE ByteQueue ------------------------------
(***************************************************************************)
(* What a ring buffer promises its one producer and its one consumer: the  *)
(* bytes come out in the order they went in, none twice and none lost, and *)
(* there are never more than Capacity of them.                             *)
(***************************************************************************)
EXTENDS Integers, Sequences

CONSTANTS Byte, Capacity

VARIABLES
  queue,   \* the bytes inserted and not yet removed
  taken    \* the byte the last removal returned, or the initial one

Init == queue = << >> /\ taken \in Byte

Insert ==
  /\ Len(queue) < Capacity
  /\ \E c \in Byte : queue' = Append(queue, c)
  /\ UNCHANGED taken

Remove ==
  /\ queue # << >>
  /\ taken' = Head(queue)
  /\ queue' = Tail(queue)

Next == Insert \/ Remove

Spec == Init /\ [][Next]_<<queue, taken>>

=============================================================================
