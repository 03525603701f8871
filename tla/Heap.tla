-------------------------------- MODULE Heap --------------------------------
(***************************************************************************)
(* util/heap.c: a binary heap in an array, of pointers to things whose key *)
(* a function gives, the largest or the smallest key at the head.  Indices *)
(* are heap_index_t, signed and 8 bits wide (util/heap.h:18), whatever the *)
(* size of the array.                                                      *)
(*                                                                         *)
(* An operation changes the array first, and then moves one thing up or    *)
(* down, a turn of heap_heapify_up's loop or a call of heap_heapify being  *)
(* a step; no other operation begins meanwhile.                            *)
(***************************************************************************)
EXTENDS Integers, FiniteSets

CONSTANTS
  HeapThing, \* what is inserted
  HeapKey,   \* get_key
  MaxSize,   \* max_size
  HalfRange, \* 128: heap_index_t holds -HalfRange .. HalfRange - 1
  NoThing    \* NULL

ASSUME HeapAssumption ==
  /\ HeapKey \in [HeapThing -> Nat]
  /\ MaxSize \in Nat \ {0} /\ HalfRange \in Nat \ {0}
  /\ NoThing \notin HeapThing

VARIABLES
  size,         \* heap_t.size
  data,         \* heap_t.data
  cmp,          \* heap_t.cmp: "max" or "min"
  heapAccepted, \* what the last heap_insert returned
  heapRemoved,  \* what the last heap_remove_head returned
  sifting,      \* "up" in heap_heapify_up, "down" in heap_heapify, or "no"
  sifted,       \* the index there, 0 if in neither
  outside       \* an index outside the array was used

heapVars == <<size, data, cmp, heapAccepted, heapRemoved, sifting, sifted, outside>>

Slots == 0 .. MaxSize - 1

(* heap_init.                                                              *)
HeapInit ==
  /\ size = 0
  /\ data = [i \in Slots |-> NoThing]
  /\ cmp \in {"max", "min"}
  /\ heapAccepted = TRUE
  /\ heapRemoved = NoThing
  /\ sifting = "no" /\ sifted = 0
  /\ outside = FALSE

-----------------------------------------------------------------------------
(* Conversion to heap_index_t.                                             *)
Index8(i) == ((i + HalfRange) % (2 * HalfRange)) - HalfRange

Parent(i)     == Index8((i - 1) \div 2)
LeftChild(i)  == Index8(i * 2 + 1)
RightChildOff(i) == Index8(i * 2 + 3)                            \* mutant

RightChild(i) == Index8(i * 2 + 2)

(* heap_cmp_max, heap_cmp_min.                                             *)
Compare(a, b) ==
  IF cmp = "max" THEN HeapKey[data[a]] > HeapKey[data[b]]
                 ELSE HeapKey[data[a]] < HeapKey[data[b]]

Swap(a, b) == data' = [data EXCEPT ![a] = data[b], ![b] = data[a]]

Sift(way, i) == sifting' = way /\ sifted' = i

(* heap_heapify_up: a thing moves up while its parent does not come before *)
(* it, on equal keys too.                                                  *)
HeapifyUp ==
  /\ sifting = "up"
  /\ IF sifted > 0 /\ ~Compare(Parent(sifted), sifted)
       THEN Swap(Parent(sifted), sifted) /\ Sift("up", Parent(sifted))
       ELSE Sift("no", 0) /\ UNCHANGED data
  /\ UNCHANGED <<size, cmp, heapAccepted, heapRemoved, outside>>

(* heap_heapify: a thing moves down while a child comes before it.  A      *)
(* child's index that wrapped to a negative is below the size, and read.   *)
Better(c, i) == IF c < size /\ Compare(c, i) THEN c ELSE i

Strays(i) == LeftChild(i) < 0 \/ RightChild(i) < 0

Heapify ==
  /\ sifting = "down" /\ ~outside
  /\ outside' = Strays(sifted)
  /\ IF outside' THEN UNCHANGED <<data, sifting, sifted>>
     ELSE \E minmax \in Slots :
            /\ minmax = Better(RightChild(sifted), Better(LeftChild(sifted), sifted))
            /\ IF minmax = sifted THEN Sift("no", 0) /\ UNCHANGED data
               ELSE Swap(sifted, minmax) /\ Sift("down", minmax)
  /\ UNCHANGED <<size, cmp, heapAccepted, heapRemoved>>

HeapIsFull  == size = MaxSize
HeapIsEmpty == size = 0

HeapInsert(x) ==
  /\ sifting = "no"
  /\ heapAccepted' = ~HeapIsFull
  /\ IF HeapIsFull THEN UNCHANGED <<size, data, sifting, sifted>>
     ELSE /\ size' = size + 1
          /\ data' = [data EXCEPT ![size] = x]
          /\ Sift("up", Index8(size))
  /\ UNCHANGED <<cmp, heapRemoved, outside>>

(* The last element takes the head's place, and moves down.                *)
HeapRemoveHead ==
  /\ sifting = "no"
  /\ IF HeapIsEmpty
       THEN heapRemoved' = NoThing /\ UNCHANGED <<size, data, sifting, sifted>>
       ELSE /\ heapRemoved' = data[0]
            /\ size' = size - 1
            /\ data' = [data EXCEPT ![0] = data[size - 1], ![size - 1] = NoThing]
            /\ Sift("down", 0)
  /\ UNCHANGED <<cmp, heapAccepted, outside>>

HeapNext ==
  \/ HeapRemoveHead \/ \E x \in HeapThing : HeapInsert(x)
  \/ HeapifyUp \/ Heapify

HeapSpec == HeapInit /\ [][HeapNext]_heapVars

-----------------------------------------------------------------------------
(* heap_max_heap_property, heap_min_heap_property.                         *)
HeapProperty(i) ==
  IF cmp = "max" THEN HeapKey[data[Parent(i)]] >= HeapKey[data[i]]
  ELSE HeapKey[data[Parent(i)]] <= HeapKey[data[i]]

(* heap_valid, the code's own check, whose calls are commented out         *)
(* (heap.c:206, 228, 249): the elements in use, and no other, are there,   *)
(* and none comes before its parent.                                       *)
HeapValid ==
  sifting = "no" =>
    /\ \A i \in Slots : data[i] # NoThing <=> i < size
    /\ \A i \in 1 .. size - 1 : HeapProperty(i)

(* No index of a child is outside the array (heap.c:121-139).              *)
NeverStrays == ~outside

Bounded == INSTANCE PriorityQueue WITH
  Thing <- HeapThing, Key <- HeapKey, Capacity <- MaxSize, Nothing <- NoThing,
  held <- [x \in HeapThing |-> Cardinality({i \in 0 .. size - 1 : data[i] = x})],
  first <- IF cmp = "max" THEN "largest" ELSE "smallest",
  count <- size, accepted <- heapAccepted, left <- heapRemoved

(* Insertions and removals never lose a thing nor make one up, and the one *)
(* that leaves is one of the first (heap.c:217-251).                       *)
ImplementsPriorityQueue == Bounded!Spec

=============================================================================
