------------------------------- MODULE Memory -------------------------------
(***************************************************************************)
(* core/memory.h over newlib/_sbrk.c: tasks live in blocks of malloc, cut  *)
(* so that they are aligned, with the pointer to be freed in the word      *)
(* before the block.  malloc is the C library's: it may choose any place.  *)
(***************************************************************************)
EXTENDS Integers

CONSTANTS
  HeapBegin, \* _Heap_Begin
  HeapLimit, \* _Heap_Limit
  Request,   \* the sizes asked for
  Alignment  \* 8, in task_new; a power of two

ASSUME MemoryAssumption ==
  /\ HeapBegin \in Nat /\ HeapLimit \in Nat
  /\ 0 < HeapBegin /\ HeapBegin <= HeapLimit
  /\ HeapBegin % 4 = 0
  /\ Request \subseteq Nat \ {0}
  /\ Alignment \in Nat \ {0}

Address == HeapBegin .. HeapLimit

VARIABLES
  heapEnd, \* current_heap_end: 0 before the first call
  stored,  \* stored[a]: the pointer written at a, 0 once overwritten
  blocks,  \* what was allocated and not freed yet
  refused  \* malloc returned NULL

memoryVars == <<heapEnd, stored, blocks, refused>>

MemoryInit ==
  /\ heapEnd = 0
  /\ stored = [a \in Address |-> 0]
  /\ blocks = {}
  /\ refused = FALSE

-----------------------------------------------------------------------------
(* _sbrk: the increment is rounded up to a word.                           *)
HeapEnd      == IF heapEnd = 0 THEN HeapBegin ELSE heapEnd
Rounded(n)   == ((n + 3) \div 4) * 4
SbrkFits(n)  == HeapEnd + Rounded(n) <= HeapLimit

NoPointer == Alignment - 1                                       \* mutant

(* A block: the size asked for, where it is, where malloc put it.          *)
Offset    == 4 + Alignment - 1
AlignDown(a) == a - (a % Alignment)
Block(p, n)  == [size |-> n, from |-> p, at |-> AlignDown(p + Offset)]

(* Where the library may put n bytes: a free place, at a word, in the      *)
(* memory it already has.                                                  *)
FreePlaces(n) ==
  {p \in Address :
     /\ p % 4 = 0
     /\ p + n <= heapEnd
     /\ \A b \in blocks : p + n <= b.from \/ b.from + b.size + Offset <= p}

Handed(b) ==
  /\ blocks' = blocks \cup {b}
  /\ stored' = [stored EXCEPT ![b.at - 4] = b.from]

(* malloc_aligned.  When malloc fails the result is an address near 0, to  *)
(* which the caller writes: nothing is said of what follows.               *)
MallocAligned(n) ==
  /\ ~refused
  /\ \/ /\ \E p \in FreePlaces(n + Offset) : Handed(Block(p, n))
        /\ UNCHANGED <<heapEnd, refused>>
     \/ /\ SbrkFits(n + Offset)
        /\ Handed(Block(HeapEnd, n))
        /\ heapEnd' = HeapEnd + Rounded(n + Offset)
        /\ UNCHANGED refused
     \/ /\ ~SbrkFits(n + Offset)
        /\ FreePlaces(n + Offset) = {}
        /\ refused' = TRUE
        /\ heapEnd' = HeapEnd
        /\ UNCHANGED <<stored, blocks>>

(* The owner of a block writes all of it.                                  *)
Fill(b) ==
  /\ ~refused
  /\ stored' = [a \in Address |-> IF a \in b.at .. b.at + b.size - 1 THEN 0 ELSE stored[a]]
  /\ UNCHANGED <<heapEnd, blocks, refused>>

(* free_aligned: what is freed is what the word before the block says.     *)
(* What is allocated is above _ebss, so that it is always freed.           *)
FreeAligned(b) ==
  /\ ~refused
  /\ blocks' = {c \in blocks : c.from # stored[b.at - 4]}
  /\ UNCHANGED <<heapEnd, stored, refused>>

MemoryNext ==
  \/ \E n \in Request : MallocAligned(n)
  \/ \E b \in blocks : Fill(b) \/ FreeAligned(b)

MemorySpec == MemoryInit /\ [][MemoryNext]_memoryVars

-----------------------------------------------------------------------------
(* Every block lies in the memory _sbrk gave out, below the main stack, no *)
(* two overlap, and the word before each still holds the pointer malloc    *)
(* returned, whatever the owners write (memory.h:31-45, _sbrk.c:26-60).    *)
BlocksApart ==
  \A b \in blocks :
    /\ HeapBegin <= b.from /\ b.from + 4 <= b.at
    /\ b.at + b.size <= heapEnd /\ heapEnd <= HeapLimit
    /\ stored[b.at - 4] = b.from
    /\ \A c \in blocks : b = c \/ b.at + b.size <= c.at - 4 \/ c.at + c.size <= b.at - 4

(* A caller of malloc_aligned does not look at its result, so that the     *)
(* library must never run out of memory (memory.h:34, task.c:22).          *)
NeverRefused == ~refused

=============================================================================
