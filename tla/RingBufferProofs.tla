-------------------------- MODULE RingBufferProofs --------------------------
(***************************************************************************)
(* The ring buffer of any size implements a bounded queue.                 *)
(***************************************************************************)
EXTENDS RingBuffer, SequenceTheorems, TLAPS

-----------------------------------------------------------------------------
(* Arithmetic modulo Size.                                                 *)

LEMMA ModSmall ==
  ASSUME NEW n \in Nat \ {0}, NEW i \in 0 .. n - 1
  PROVE  i % n = i
  OBVIOUS

LEMMA ModOnce ==
  ASSUME NEW n \in Nat \ {0}, NEW i \in n .. 2 * n - 1
  PROVE  i % n = i - n
  OBVIOUS

(* The lemmas are about any values s, e and b of start, end and ring, so   *)
(* that they can be cited for the values before and after a step.          *)
UsedOf(s, e)        == (Size + e - s) % Size
Place(s, k)         == (s + k - 1) % Size
ContentsOf(s, e, b) == [k \in 1 .. UsedOf(s, e) |-> b[Place(s, k)]]

(* How far e is ahead of s, without the modulus.                           *)
LEMMA UsedValue ==
  ASSUME NEW s \in RingIndex, NEW e \in RingIndex
  PROVE  /\ UsedOf(s, e) \in 0 .. Size - 1
         /\ e >= s => UsedOf(s, e) = e - s
         /\ e < s  => UsedOf(s, e) = e - s + Size
<1>1. Size \in Nat \ {0} /\ s \in 0 .. Size - 1 /\ e \in 0 .. Size - 1
  BY RingAssumption DEF RingIndex
<1>2. CASE e >= s
  <2> DEFINE sum == Size + e - s
  <2>1. sum \in Size .. 2 * Size - 1 /\ sum - Size = e - s
    BY <1>1, <1>2
  <2>2. UsedOf(s, e) = sum % Size
    BY DEF UsedOf
  <2> HIDE DEF sum
  <2>3. UsedOf(s, e) = sum - Size
    BY <1>1, <2>1, <2>2, ModOnce
  <2> QED
    BY <1>1, <1>2, <2>1, <2>3
<1>3. CASE e < s
  <2>1. Size + e - s \in 0 .. Size - 1
    BY <1>1, <1>3
  <2>2. UsedOf(s, e) = Size + e - s
    BY <1>1, <2>1, ModSmall DEF UsedOf
  <2> QED
    BY <1>1, <1>3, <2>2
<1> QED
  BY <1>1, <1>2, <1>3

LEMMA SuccValue ==
  ASSUME NEW i \in RingIndex
  PROVE  /\ Succ(i) \in RingIndex
         /\ i < Size - 1 => Succ(i) = i + 1
         /\ i = Size - 1 => Succ(i) = 0
<1>1. Size \in Nat \ {0} /\ i \in 0 .. Size - 1
  BY RingAssumption DEF RingIndex
<1>2. CASE i < Size - 1
  <2>1. i + 1 \in 0 .. Size - 1
    BY <1>1, <1>2
  <2>2. Succ(i) = i + 1
    BY <1>1, <2>1, ModSmall DEF Succ
  <2> QED
    BY <1>2, <2>1, <2>2 DEF RingIndex
<1>3. CASE i = Size - 1
  <2>1. i + 1 \in Size .. 2 * Size - 1 /\ i + 1 = Size
    BY <1>1, <1>3
  <2>2. Succ(i) = 0
    BY <1>1, <2>1, ModOnce DEF Succ
  <2> QED
    BY <1>1, <1>3, <2>2 DEF RingIndex
<1> QED
  BY <1>1, <1>2, <1>3

(* The place of the k-th byte of the queue, without the modulus.           *)
LEMMA PlaceValue ==
  ASSUME NEW s \in RingIndex, NEW k \in 1 .. Size
  PROVE  /\ Place(s, k) \in RingIndex
         /\ s + k - 1 < Size  => Place(s, k) = s + k - 1
         /\ s + k - 1 >= Size => Place(s, k) = s + k - 1 - Size
<1>1. Size \in Nat \ {0} /\ s \in 0 .. Size - 1
  BY RingAssumption DEF RingIndex
<1>2. CASE s + k - 1 < Size
  <2>1. s + k - 1 \in 0 .. Size - 1
    BY <1>1, <1>2
  <2>2. Place(s, k) = s + k - 1
    BY <1>1, <2>1, ModSmall DEF Place
  <2> QED
    BY <1>1, <1>2, <2>1, <2>2 DEF RingIndex
<1>3. CASE s + k - 1 >= Size
  <2> DEFINE sum == s + k - 1
  <2>1. sum \in Size .. 2 * Size - 1 /\ sum - Size \in 0 .. Size - 1
    BY <1>1, <1>3
  <2>2. Place(s, k) = sum % Size
    BY DEF Place
  <2> HIDE DEF sum
  <2>3. Place(s, k) = sum - Size
    BY <1>1, <2>1, <2>2, ModOnce
  <2> QED
    BY <1>1, <1>3, <2>1, <2>3 DEF RingIndex, sum
<1> QED
  BY <1>1, <1>2, <1>3

(* The bytes of the queue are not in the producer's place, which follows.  *)
LEMMA PlacesOfQueue ==
  ASSUME NEW s \in RingIndex, NEW e \in RingIndex
  PROVE  /\ \A k \in 1 .. UsedOf(s, e) : Place(s, k) \in RingIndex /\ Place(s, k) # e
         /\ Place(s, UsedOf(s, e) + 1) = e
         /\ Place(s, 1) = s
<1>1. /\ Size \in Nat \ {0} /\ s \in 0 .. Size - 1 /\ e \in 0 .. Size - 1
  BY RingAssumption DEF RingIndex
<1>2. /\ UsedOf(s, e) \in 0 .. Size - 1
      /\ UsedOf(s, e) + 1 \in 1 .. Size /\ 1 \in 1 .. Size
  BY <1>1, UsedValue
<1>3. ASSUME NEW k \in 1 .. UsedOf(s, e)
      PROVE  Place(s, k) \in RingIndex /\ Place(s, k) # e
  <2>1. k \in 1 .. Size
    BY <1>2, <1>1
  <2> QED
    BY <1>1, <2>1, UsedValue, PlaceValue
<1>4. Place(s, UsedOf(s, e) + 1) = e
  <2> DEFINE next == UsedOf(s, e) + 1
  <2>1. /\ next \in 1 .. Size
        /\ e >= s => s + next - 1 = e
        /\ e < s  => s + next - 1 = e + Size
    BY <1>1, <1>2, UsedValue
  <2> HIDE DEF next
  <2>2. /\ s + next - 1 < Size  => Place(s, next) = s + next - 1
        /\ s + next - 1 >= Size => Place(s, next) = s + next - 1 - Size
    BY <2>1, PlaceValue
  <2>3. Place(s, next) = e
    BY <1>1, <2>1, <2>2
  <2> QED
    BY <2>3 DEF next
<1>5. Place(s, 1) = s
  BY <1>1, <1>2, PlaceValue
<1> QED
  BY <1>3, <1>4, <1>5

LEMMA ContentsValue ==
  ASSUME NEW s \in RingIndex, NEW e \in RingIndex, NEW b \in [RingIndex -> Byte]
  PROVE  /\ ContentsOf(s, e, b) \in Seq(Byte)
         /\ Len(ContentsOf(s, e, b)) = UsedOf(s, e)
         /\ \A k \in 1 .. UsedOf(s, e) : ContentsOf(s, e, b)[k] = b[Place(s, k)]
<1>1. UsedOf(s, e) \in Nat
  BY UsedValue, RingAssumption
<1>2. ContentsOf(s, e, b) = [k \in 1 .. UsedOf(s, e) |-> b[Place(s, k)]]
  BY DEF ContentsOf
<1>3. \A k \in 1 .. UsedOf(s, e) : b[Place(s, k)] \in Byte
  BY PlacesOfQueue
<1>4. ContentsOf(s, e, b) \in [1 .. UsedOf(s, e) -> Byte]
  BY <1>2, <1>3
<1>5. ContentsOf(s, e, b) \in Seq(Byte)
  BY <1>1, <1>4, SeqDef
<1>6. Len(ContentsOf(s, e, b)) = UsedOf(s, e)
  BY <1>1, <1>4, <1>5
<1> QED
  BY <1>2, <1>5, <1>6

-----------------------------------------------------------------------------
(* What the steps do to the queue.                                         *)

(* Storing a byte at e leaves the queue alone.                             *)
LEMMA StoreContents ==
  ASSUME NEW s \in RingIndex, NEW e \in RingIndex, NEW b \in [RingIndex -> Byte],
         NEW c \in Byte
  PROVE  ContentsOf(s, e, [b EXCEPT ![e] = c]) = ContentsOf(s, e, b)
<1>1. \A k \in 1 .. UsedOf(s, e) : [b EXCEPT ![e] = c][Place(s, k)] = b[Place(s, k)]
  BY PlacesOfQueue
<1> QED
  BY <1>1 DEF ContentsOf

(* Advancing e appends the byte stored there.                              *)
LEMMA PublishContents ==
  ASSUME NEW s \in RingIndex, NEW e \in RingIndex, NEW b \in [RingIndex -> Byte],
         Succ(e) # s
  PROVE  /\ UsedOf(s, e) < Size - 1
         /\ ContentsOf(s, Succ(e), b) = Append(ContentsOf(s, e, b), b[e])
<1> DEFINE old == ContentsOf(s, e, b)
           new == ContentsOf(s, Succ(e), b)
<1>1. Size \in Nat \ {0} /\ s \in 0 .. Size - 1 /\ e \in 0 .. Size - 1
  BY RingAssumption DEF RingIndex
<1>2. Succ(e) \in RingIndex /\ UsedOf(s, e) \in Nat
  BY <1>1, SuccValue, UsedValue
<1>3. UsedOf(s, Succ(e)) = UsedOf(s, e) + 1 /\ UsedOf(s, Succ(e)) < Size
  BY <1>1, <1>2, SuccValue, UsedValue
<1>4. /\ old \in Seq(Byte) /\ Len(old) = UsedOf(s, e)
      /\ \A k \in 1 .. UsedOf(s, e) : old[k] = b[Place(s, k)]
  BY ContentsValue
<1>5. /\ new \in Seq(Byte) /\ Len(new) = UsedOf(s, e) + 1
      /\ \A k \in 1 .. UsedOf(s, e) + 1 : new[k] = b[Place(s, k)]
  BY <1>2, <1>3, ContentsValue
<1>6. b[e] \in Byte /\ Place(s, UsedOf(s, e) + 1) = e
  BY PlacesOfQueue
<1> HIDE DEF old, new
<1>7. /\ Append(old, b[e]) \in Seq(Byte)
      /\ Len(Append(old, b[e])) = UsedOf(s, e) + 1
      /\ \A k \in 1 .. UsedOf(s, e) : Append(old, b[e])[k] = b[Place(s, k)]
      /\ Append(old, b[e])[UsedOf(s, e) + 1] = b[e]
  BY <1>4, <1>6, AppendProperties
<1>8. ASSUME NEW k \in 1 .. UsedOf(s, e) + 1
      PROVE  new[k] = Append(old, b[e])[k]
  BY <1>2, <1>5, <1>6, <1>7
<1>9. new = Append(old, b[e])
  BY <1>5, <1>7, <1>8, SeqEqual
<1> QED
  BY <1>1, <1>2, <1>3, <1>9 DEF old, new

(* Advancing s removes the first byte.                                     *)
LEMMA AdvanceContents ==
  ASSUME NEW s \in RingIndex, NEW e \in RingIndex, NEW b \in [RingIndex -> Byte],
         s # e
  PROVE  /\ ContentsOf(s, e, b) # << >>
         /\ Head(ContentsOf(s, e, b)) = b[s]
         /\ ContentsOf(Succ(s), e, b) = Tail(ContentsOf(s, e, b))
<1> DEFINE old == ContentsOf(s, e, b)
           new == ContentsOf(Succ(s), e, b)
<1>1. Size \in Nat \ {0} /\ s \in 0 .. Size - 1 /\ e \in 0 .. Size - 1
  BY RingAssumption DEF RingIndex
<1>2. Succ(s) \in RingIndex /\ UsedOf(s, e) \in 1 .. Size - 1
  BY <1>1, SuccValue, UsedValue
<1>3. UsedOf(Succ(s), e) = UsedOf(s, e) - 1
  BY <1>1, <1>2, SuccValue, UsedValue
<1>4. /\ old \in Seq(Byte) /\ Len(old) = UsedOf(s, e)
      /\ \A k \in 1 .. UsedOf(s, e) : old[k] = b[Place(s, k)]
  BY ContentsValue
<1>5. /\ new \in Seq(Byte) /\ Len(new) = UsedOf(s, e) - 1
      /\ \A k \in 1 .. UsedOf(s, e) - 1 : new[k] = b[Place(Succ(s), k)]
  BY <1>2, <1>3, ContentsValue
<1>6. ASSUME NEW k \in 1 .. UsedOf(s, e) - 1
      PROVE  Place(Succ(s), k) = Place(s, k + 1)
  <2>1. k \in 1 .. Size /\ k + 1 \in 1 .. Size
    BY <1>1, <1>2
  <2> QED
    BY <1>1, <1>2, <2>1, SuccValue, PlaceValue
<1>7. old # << >>
  BY <1>2, <1>4
<1> HIDE DEF old, new
<1>8. /\ Tail(old) \in Seq(Byte) /\ Len(Tail(old)) = UsedOf(s, e) - 1
      /\ \A k \in 1 .. UsedOf(s, e) - 1 : Tail(old)[k] = old[k + 1]
  BY <1>4, <1>7, HeadTailProperties
<1>9. ASSUME NEW k \in 1 .. UsedOf(s, e) - 1
      PROVE  new[k] = Tail(old)[k]
  <2>1. k + 1 \in 1 .. UsedOf(s, e)
    BY <1>2
  <2> QED
    BY <1>4, <1>5, <1>6, <1>8, <2>1
<1>10. new = Tail(old)
  BY <1>5, <1>8, <1>9, SeqEqual
<1>11. Head(old) = b[s]
  <2>1. 1 \in 1 .. UsedOf(s, e)
    BY <1>2
  <2>2. Head(old) = old[1]
    BY <1>4, <1>7
  <2> QED
    BY <1>4, <2>1, <2>2, PlacesOfQueue
<1> QED
  BY <1>7, <1>10, <1>11 DEF old, new

-----------------------------------------------------------------------------
(* The invariant: each side knows where the other is not.                  *)

Inv ==
  /\ TypeOK
  /\ PlacesApart
  /\ inserting = "publish" => ring[end] = inserted

LEMMA InitInv == RingInit => Inv
<1> SUFFICES ASSUME RingInit
             PROVE  Inv
  OBVIOUS
<1>1. 0 \in RingIndex
  BY RingAssumption DEF RingIndex
<1> QED
  BY <1>1 DEF RingInit, Inv, TypeOK, PlacesApart

LEMMA SuccInjective ==
  ASSUME NEW i \in RingIndex, NEW j \in RingIndex, Succ(i) = Succ(j)
  PROVE  i = j
<1>1. Size \in Nat \ {0} /\ i \in 0 .. Size - 1 /\ j \in 0 .. Size - 1
  BY RingAssumption DEF RingIndex
<1> QED
  BY <1>1, SuccValue

LEMMA StepInv == Inv /\ [RingNext]_ringVars => Inv'
<1> SUFFICES ASSUME Inv, [RingNext]_ringVars
             PROVE  Inv'
  OBVIOUS
<1> USE DEF Inv, TypeOK, PlacesApart, Full, Empty
<1>1. CASE InsertBegin
  BY <1>1 DEF InsertBegin, producer, consumer
<1>2. CASE InsertStore
  BY <1>2 DEF InsertStore, consumer
<1>3. CASE InsertPublish
  BY <1>3, SuccValue DEF InsertPublish, consumer
<1>4. CASE RemoveBegin
  BY <1>4 DEF RemoveBegin, producer
<1>5. CASE RemoveAdvance
  BY <1>5, SuccValue, SuccInjective DEF RemoveAdvance, producer
<1>6. CASE UNCHANGED ringVars
  BY <1>6 DEF ringVars, producer, consumer
<1> QED
  BY <1>1, <1>2, <1>3, <1>4, <1>5, <1>6 DEF RingNext

(* Neither side uses the place the other is about to use.                  *)
THEOREM SidesApart == RingSpec => []PlacesApart
<1>1. Inv => PlacesApart
  BY DEF Inv
<1> QED
  BY InitInv, StepInv, <1>1, PTL DEF RingSpec

(* Every step is an insertion, a removal, or none for the queue.           *)
LEMMA StepQueue ==
  ASSUME Inv, [RingNext]_ringVars
  PROVE  [Queue!Next]_<<Queued, taken>>
<1>1. /\ start \in RingIndex /\ end \in RingIndex /\ ring \in [RingIndex -> Byte]
      /\ inserted \in Byte
  BY DEF Inv, TypeOK
<1>2. /\ Queued = ContentsOf(start, end, ring)
      /\ Queued' = ContentsOf(start', end', ring')
  BY DEF Queued, ContentsOf, Used, UsedOf, Place
<1>3. Len(Queued) = UsedOf(start, end)
  BY <1>1, <1>2, ContentsValue
<1>4. CASE InsertBegin \/ RemoveBegin \/ UNCHANGED ringVars
  BY <1>2, <1>4 DEF InsertBegin, RemoveBegin, ringVars, producer, consumer
<1>5. CASE InsertStore
  BY <1>1, <1>2, <1>5, StoreContents DEF InsertStore, consumer
<1>6. CASE InsertPublish
  <2>1. Succ(end) # start /\ ring[end] = inserted
    BY <1>6 DEF InsertPublish, Inv, PlacesApart, Full
  <2>2. Len(Queued) < Size - 1 /\ Queued' = Append(Queued, inserted)
    BY <1>1, <1>2, <1>3, <1>6, <2>1, PublishContents DEF InsertPublish
  <2> QED
    BY <1>1, <1>6, <2>2 DEF InsertPublish, consumer, Queue!Next, Queue!Insert
<1>7. CASE RemoveAdvance
  <2>1. start # end /\ removed = ring[start]
    BY <1>7 DEF RemoveAdvance, Inv, PlacesApart, Empty
  <2>2. /\ Queued # << >> /\ removed = Head(Queued)
        /\ Queued' = Tail(Queued)
    BY <1>1, <1>2, <1>7, <2>1, AdvanceContents DEF RemoveAdvance
  <2> QED
    BY <1>7, <2>2 DEF RemoveAdvance, Queue!Next, Queue!Remove
<1> QED
  BY <1>4, <1>5, <1>6, <1>7 DEF RingNext

LEMMA InitQueue ==
  ASSUME RingInit
  PROVE  Queue!Init
<1>1. 0 \in RingIndex
  BY RingAssumption DEF RingIndex
<1>2. UsedOf(0, 0) = 0
  BY <1>1, UsedValue
<1>3. Queued = ContentsOf(0, 0, ring) /\ ring \in [RingIndex -> Byte]
  BY DEF RingInit, Queued, ContentsOf, Used, UsedOf, Place
<1>4. Queued \in Seq(Byte) /\ Len(Queued) = 0
  BY <1>1, <1>2, <1>3, ContentsValue
<1>5. Queued = << >>
  BY <1>4, EmptySeq
<1> QED
  BY <1>5 DEF RingInit, Queue!Init

(* The ring buffer, of any size, implements the bounded queue.             *)
THEOREM RingIsQueue == RingSpec => ImplementsQueue
<1>1. RingInit => Queue!Init
  BY InitQueue
<1>2. Inv /\ [RingNext]_ringVars => [Queue!Next]_<<Queued, taken>>
  BY StepQueue
<1> QED
  BY InitInv, StepInv, <1>1, <1>2, PTL
     DEF RingSpec, ImplementsQueue, Queue!Spec

=============================================================================
