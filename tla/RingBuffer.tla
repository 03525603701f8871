----------------------------- MODULE RingBuffer -----------------------------
(***************************************************************************)
(* util/ring_buffer.c between one producer and one consumer, of which one  *)
(* is a task and the other the serial port's interrupt (device/vcp.c): the *)
(* interrupt may come between any two memory accesses of the task, so each *)
(* access of a shared field is a step of its own.  There is no lock.       *)
(*                                                                         *)
(* Both sides check first, as the code asks them to: insertion asserts     *)
(* that the buffer is not full, and a removal is made when it is not empty.*)
(***************************************************************************)
EXTENDS Integers, Sequences

CONSTANTS
  Byte,      \* the elements
  Size,      \* ring_buffer_t.size
  TooClose   \* RING_BUFFER_TOO_CLOSE

ASSUME RingAssumption ==
  /\ Size \in Nat \ {0}
  /\ Byte # {}
  /\ TooClose \in Nat

VARIABLES
  start,     \* ring_buffer_t.start
  end,       \* ring_buffer_t.end
  ring,      \* ring_buffer_t.buffer, the storage
  inserting, \* where the producer is in ringbuffer_insert_element
  inserted,  \* its argument
  removing,  \* where the consumer is in ringbuffer_extract_element
  removed,   \* its result so far
  taken,     \* the last result it returned
  failed     \* the assertion "Ring Buffer is Full." failed

producer == <<inserting, inserted>>
consumer == <<removing, removed, taken>>
ringVars == <<start, end, ring, producer, consumer, failed>>

RingIndex == 0 .. Size - 1

RingInit ==
  /\ start = 0
  /\ end = 0
  /\ \E zero \in Byte :
       /\ ring = [i \in RingIndex |-> zero]
       /\ inserted = zero /\ removed = zero /\ taken = zero
  /\ inserting = "idle"
  /\ removing = "idle"
  /\ failed = FALSE

-----------------------------------------------------------------------------
NeverFull  == FALSE                                              \* mutant
NeverEmpty == FALSE                                              \* mutant

Succ(i) == (i + 1) % Size

Full  == Succ(end) = start
Empty == start = end

(* remainder returns a uint8_t.                                            *)
Remainder  == ((start + Size - end) % Size) % 256
Used       == (Size + end - start) % Size
AlmostFull == Remainder >= TooClose

-----------------------------------------------------------------------------
(* ringbuffer_insert_element, of an argument c.                            *)
InsertBegin ==
  /\ ~failed
  /\ inserting = "idle"
  /\ IF Full THEN failed' = TRUE /\ UNCHANGED producer
     ELSE /\ \E c \in Byte : inserted' = c
          /\ inserting' = "store"
          /\ UNCHANGED failed
  /\ UNCHANGED <<start, end, ring, consumer>>

InsertStore ==
  /\ ~failed
  /\ inserting = "store"
  /\ ring' = [ring EXCEPT ![end] = inserted]
  /\ inserting' = "publish"
  /\ UNCHANGED <<start, end, inserted, consumer, failed>>

InsertPublish ==
  /\ ~failed
  /\ inserting = "publish"
  /\ end' = Succ(end)
  /\ inserting' = "idle"
  /\ UNCHANGED <<start, ring, inserted, consumer, failed>>

(* ringbuffer_extract_element, after a test that the buffer is not empty.  *)
RemoveBegin ==
  /\ ~failed
  /\ removing = "idle"
  /\ ~Empty
  /\ removed' = ring[start]
  /\ removing' = "advance"
  /\ UNCHANGED <<start, end, ring, producer, taken, failed>>

RemoveAdvance ==
  /\ ~failed
  /\ removing = "advance"
  /\ start' = Succ(start)
  /\ removing' = "idle"
  /\ taken' = removed
  /\ UNCHANGED <<end, ring, producer, removed, failed>>

RingNext ==
  \/ InsertBegin \/ InsertStore \/ InsertPublish
  \/ RemoveBegin \/ RemoveAdvance

RingSpec == RingInit /\ [][RingNext]_ringVars

-----------------------------------------------------------------------------
(* Properties.                                                             *)

TypeOK ==
  /\ start \in RingIndex
  /\ end \in RingIndex
  /\ ring \in [RingIndex -> Byte]
  /\ inserting \in {"idle", "store", "publish"}
  /\ inserted \in Byte
  /\ removing \in {"idle", "advance"}
  /\ removed \in Byte
  /\ taken \in Byte
  /\ failed \in BOOLEAN

(***************************************************************************)
(* The ring buffer is a bounded queue without a lock: a byte goes in when  *)
(* end is advanced and comes out when start is, whichever side interrupts  *)
(* the other.                                                              *)
(***************************************************************************)
Queued == [i \in 1 .. Used |-> ring[(start + i - 1) % Size]]

Queue == INSTANCE ByteQueue WITH
           Capacity <- Size - 1, queue <- Queued

ImplementsQueue == Queue!Spec

(***************************************************************************)
(* The two sides never use the same place of the buffer: the producer only *)
(* writes a place that the consumer is not about to read.                  *)
(***************************************************************************)
PlacesApart ==
  /\ inserting # "idle" => ~Full
  /\ removing = "advance" => ~Empty /\ removed = ring[start]

-----------------------------------------------------------------------------
(* What the code's comments say, and the code does not do.                 *)

(* "Used + Remainder = Size" (ring_buffer.c:122-126).                      *)
UsedAndRemainder == Used + Remainder = Size

(* almost_full: "the remainder count is less than" the limit               *)
(* (ring_buffer.c:62), the remainder being the count of elements left      *)
(* (ring_buffer.c:49-53).                                                  *)
AlmostFullInTime == AlmostFull <=> Size - 1 - Used < TooClose

=============================================================================
