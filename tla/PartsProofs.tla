----------------------------- MODULE PartsProofs -----------------------------
(***************************************************************************)
(* The small parts that share no state with one another, each for any      *)
(* values of its constants: the links of lists, memory, the ADC task, the  *)
(* clock, the shell's lines, the C library's files, the heap, printing,    *)
(* and the listing of callers.                                             *)
(***************************************************************************)
EXTENDS LinkedList, Heap, Memory, Adc, Clock, Shell, Files, OsPrintf, Backtrace,
        FiniteSetTheorems, SequenceTheorems, TLAPS

(* For the least number of a set.                                          *)
Numbers == INSTANCE TaskListsProofs WITH Prio <- [k \in Key |-> 0]

-----------------------------------------------------------------------------
(* Lists: the two links of every node agree, for any number of lists and   *)
(* items.                                                                  *)

LinksTyped == next \in [Node -> Node] /\ prev \in [Node -> Node]

(* The inductive invariant: LinksAgree with the domains of the links.      *)
LinksInv == LinksTyped /\ LinksAgree

(* A node that is not linked goes between p and n, which are neighbours.   *)
LEMMA InsertKeepsLinks ==
  ASSUME LinksInv, NEW x \in Node, NEW p \in Node, NEW n \in Node,
         next[p] = n, Initialised(x), x # n, ListInsert(x, p, n)
  PROVE  LinksInv'
<1>1. prev[n] = p /\ x # p
  BY DEF LinksInv, LinksTyped, LinksAgree, Initialised
<1>2. LinksTyped'
  BY DEF LinksInv, LinksTyped, ListInsert
<1>3. ASSUME NEW m \in Node
      PROVE  prev'[next'[m]] = m /\ next'[prev'[m]] = m
  BY <1>1 DEF LinksInv, LinksTyped, LinksAgree, Initialised, ListInsert
<1>4. LinksAgree'
  BY <1>2, <1>3 DEF LinksTyped, LinksAgree
<1> QED  BY <1>2, <1>4 DEF LinksInv

LEMMA UnlinkKeepsLinks ==
  ASSUME LinksInv, NEW x \in Node, Unlink(x)
  PROVE  LinksInv'
<1>1. LinksTyped'
  BY DEF LinksInv, LinksTyped, Unlink
<1>2. ASSUME NEW m \in Node
      PROVE  prev'[next'[m]] = m /\ next'[prev'[m]] = m
  BY DEF LinksInv, LinksTyped, LinksAgree, Unlink
<1>3. LinksAgree'
  BY <1>1, <1>2 DEF LinksTyped, LinksAgree
<1> QED  BY <1>1, <1>3 DEF LinksInv

(* An item that is not linked is no neighbour of another node.             *)
LEMMA UnlinkedHasNoNeighbour ==
  ASSUME LinksInv, NEW x \in Node, Initialised(x), NEW n \in Node, n # x
  PROVE  next[n] # x /\ prev[n] # x
BY DEF LinksInv, LinksTyped, LinksAgree, Initialised

(* An unlinked node passes the check of list_addAtRear, so that it goes in *)
(* the same way wherever its place is.                                     *)
LEMMA InsertsAtPosition ==
  ASSUME OnlyUnlinked, NEW h \in ListHead, NEW x \in ListItem, InsertCondition(h, x)
  PROVE  /\ Initialised(x) /\ gotNode' = gotNode
         /\ \E pos \in Node : pos = Position(h, x) /\ ListInsert(x, prev[pos], pos)
<1>1. Initialised(x) /\ gotNode' = gotNode
  BY DEF InsertCondition
<1>2. PICK pos \in Node :
        /\ pos = Position(h, x)
        /\ IF pos = h THEN Checked(x, ListInsert(x, prev[h], h))
           ELSE ListInsert(x, prev[pos], pos) /\ UNCHANGED misused
  BY DEF InsertCondition
<1>3. ListInsert(x, prev[pos], pos)
  BY <1>1, <1>2 DEF Checked
<1> QED  BY <1>1, <1>2, <1>3

LEMMA StepKeepsLinks ==
  ASSUME OnlyUnlinked
  PROVE  LinksInv /\ [ListNext]_listVars => LinksInv'
<1> SUFFICES ASSUME LinksInv, [ListNext]_listVars PROVE LinksInv'
  OBVIOUS
<1> USE DEF Node
<1>1. ASSUME NEW h \in ListHead, NEW x \in ListItem, AddAtFront(h, x)
      PROVE  LinksInv'
  <2>1. CASE Initialised(x)
    <3>1. ListInsert(x, h, next[h])
      BY <1>1, <2>1 DEF AddAtFront, Checked
    <3>2. h # x /\ next[h] \in Node /\ next[h] # x
      BY <2>1, ListAssumption, UnlinkedHasNoNeighbour DEF LinksInv, LinksTyped
    <3> QED  BY <2>1, <3>1, <3>2, InsertKeepsLinks
  <2>2. CASE ~Initialised(x)
    BY <1>1, <2>2 DEF AddAtFront, Checked, LinksInv, LinksTyped, LinksAgree
  <2> QED  BY <2>1, <2>2
<1>2. ASSUME NEW h \in ListHead, NEW x \in ListItem, AddAtRear(h, x)
      PROVE  LinksInv'
  <2>1. CASE Initialised(x)
    <3>1. ListInsert(x, prev[h], h)
      BY <1>2, <2>1 DEF AddAtRear, Checked
    <3>2. h # x /\ prev[h] \in Node /\ next[prev[h]] = h
      BY ListAssumption DEF LinksInv, LinksTyped, LinksAgree
    <3> QED  BY <2>1, <3>1, <3>2, InsertKeepsLinks
  <2>2. CASE ~Initialised(x)
    BY <1>2, <2>2 DEF AddAtRear, Checked, LinksInv, LinksTyped, LinksAgree
  <2> QED  BY <2>1, <2>2
<1>3. ASSUME NEW h \in ListHead, NEW x \in ListItem, InsertCondition(h, x)
      PROVE  LinksInv'
  <2>1. PICK pos \in Node : pos = Position(h, x) /\ ListInsert(x, prev[pos], pos)
    BY <1>3, InsertsAtPosition
  <2>2. Initialised(x) /\ prev[pos] \in Node /\ next[prev[pos]] = pos
    BY <1>3, InsertsAtPosition DEF LinksInv, LinksTyped, LinksAgree
  <2>3. CASE pos # x
    BY <2>1, <2>2, <2>3, InsertKeepsLinks
  <2>4. CASE pos = x
    BY <2>1, <2>2, <2>4 DEF ListInsert, Initialised, LinksInv, LinksTyped, LinksAgree
  <2> QED  BY <2>3, <2>4
<1>4. ASSUME NEW x \in ListItem, ListRemove(x)
      PROVE  LinksInv'
  BY <1>4, UnlinkKeepsLinks DEF ListRemove
<1>5. ASSUME NEW h \in ListHead, NEW x \in Node, RemoveNode(h, x)
      PROVE  LinksInv'
  <2>1. CASE ListEmpty(h)
    BY <1>5, <2>1 DEF RemoveNode, LinksInv, LinksTyped, LinksAgree
  <2>2. CASE ~ListEmpty(h)
    BY <1>5, <2>2, UnlinkKeepsLinks DEF RemoveNode
  <2> QED  BY <2>1, <2>2
<1>6. ASSUME NEW h \in ListHead, RemoveFront(h) \/ RemoveRear(h)
      PROVE  LinksInv'
  <2>1. next[h] \in Node /\ prev[h] \in Node
    BY DEF LinksInv, LinksTyped
  <2> QED  BY <1>5, <1>6, <2>1 DEF RemoveFront, RemoveRear
<1>7. CASE UNCHANGED listVars
  BY <1>7 DEF listVars, LinksInv, LinksTyped, LinksAgree
<1> QED  BY <1>1, <1>2, <1>3, <1>4, <1>6, <1>7 DEF ListNext

(* In every list the links of a node agree with its neighbours', whatever  *)
(* is inserted and removed and in whatever order (list.h:73-141), as long  *)
(* as list_insert_condition, which does not look, is given no linked node. *)
THEOREM LinksStayPaired ==
  ASSUME OnlyUnlinked
  PROVE  ListSpec => []LinksAgree
<1>1. ListInit => LinksInv
  BY DEF ListInit, LinksInv, LinksTyped, LinksAgree
<1> QED  BY <1>1, StepKeepsLinks, PTL DEF ListSpec, LinksInv

(* Insertion into a sequence and removal, place by place.                  *)
LEMMA SeqInserts ==
  ASSUME NEW S, NEW q \in Seq(S), NEW t \in S, NEW p \in 1 .. Len(q) + 1
  PROVE  /\ InsertAt(q, p, t) \in Seq(S)
         /\ Len(InsertAt(q, p, t)) = Len(q) + 1
         /\ \A k \in 1 .. p - 1 : InsertAt(q, p, t)[k] = q[k]
         /\ InsertAt(q, p, t)[p] = t
         /\ \A k \in p + 1 .. Len(q) + 1 : InsertAt(q, p, t)[k] = q[k - 1]
<1>1. InsertAt(q, p, t) = Numbers!InsertAt(q, p, t)
  BY DEF InsertAt, Numbers!InsertAt
<1>2. PICK r : r = Numbers!InsertAt(q, p, t)
  OBVIOUS
<1>3. r \in Seq(S) /\ Len(r) = Len(q) + 1 /\ r[p] = t
  BY <1>2, Numbers!InsertAtProperties
<1>4. \A k \in 1 .. p - 1 : r[k] = q[k]
  BY <1>2, Numbers!InsertAtProperties
<1>5. ASSUME NEW k \in p + 1 .. Len(q) + 1
      PROVE  r[k] = q[k - 1]
  <2>1. Numbers!InsertAt(q, p, t)[k] = q[k - 1]
    BY Numbers!InsertAtProperties
  <2> QED  BY <1>2, <2>1
<1> QED  BY <1>1, <1>2, <1>3, <1>4, <1>5

LEMMA SeqRemoves ==
  ASSUME NEW S, NEW q \in Seq(S), NEW p \in 1 .. Len(q)
  PROVE  /\ RemoveAt(q, p) \in Seq(S)
         /\ Len(RemoveAt(q, p)) = Len(q) - 1
         /\ \A k \in 1 .. p - 1 : RemoveAt(q, p)[k] = q[k]
         /\ \A k \in p .. Len(q) - 1 : RemoveAt(q, p)[k] = q[k + 1]
<1>1. RemoveAt(q, p) = Numbers!RemoveAt(q, p)
  BY DEF RemoveAt, Numbers!RemoveAt
<1> QED  BY <1>1, Numbers!RemoveAtProperties

-----------------------------------------------------------------------------
(***************************************************************************)
(* Lists: what they contain.  Some sequences, of which no two share an     *)
(* item, say where every link leads: from the head, which is place 0 of    *)
(* its list, to the items in order and back to it; an item in none of them *)
(* is linked to itself.                                                    *)
(***************************************************************************)
Place(h, s, i) == IF i \in 1 .. Len(s) THEN s[i] ELSE h

Chain(nx, pv, h, s) ==
  \A i \in 0 .. Len(s) :
    /\ nx[Place(h, s, i)] = Place(h, s, i + 1)
    /\ pv[Place(h, s, i + 1)] = Place(h, s, i)

Unshared(L) ==
  \A g, h \in ListHead : \A i \in 1 .. Len(L[g]), j \in 1 .. Len(L[h]) :
    L[g][i] = L[h][j] => g = h /\ i = j

InSome(L, x) == \E h \in ListHead : \E i \in 1 .. Len(L[h]) : L[h][i] = x

Hold(nx, pv, L) ==
  /\ L \in [ListHead -> Seq(ListItem)] /\ Unshared(L)
  /\ \A h \in ListHead : Chain(nx, pv, h, L[h])
  /\ \A x \in ListItem : ~InSome(L, x) => nx[x] = x /\ pv[x] = x

(* Every place of a list is a node of its own; the place after the last is *)
(* the first one.                                                          *)
LEMMA PlacesDiffer ==
  ASSUME NEW L \in [ListHead -> Seq(ListItem)], Unshared(L),
         NEW g \in ListHead, NEW h \in ListHead,
         NEW i \in 0 .. Len(L[g]), NEW j \in 0 .. Len(L[h]),
         Place(g, L[g], i) = Place(h, L[h], j)
  PROVE  g = h /\ i = j
<1>1. Len(L[g]) \in Nat /\ Len(L[h]) \in Nat
  OBVIOUS
<1>2. /\ i \in 1 .. Len(L[g]) => L[g][i] \in ListItem
      /\ j \in 1 .. Len(L[h]) => L[h][j] \in ListItem
  OBVIOUS
<1>3. i = 0 \/ i \in 1 .. Len(L[g])
  BY <1>1
<1>4. j = 0 \/ j \in 1 .. Len(L[h])
  BY <1>1
<1>5. ~(0 \in 1 .. Len(L[g])) /\ ~(0 \in 1 .. Len(L[h]))
  BY <1>1
<1> QED
  BY <1>2, <1>3, <1>4, <1>5, ListAssumption DEF Place, Unshared

LEMMA PlaceFacts ==
  ASSUME NEW L \in [ListHead -> Seq(ListItem)], NEW h \in ListHead
  PROVE  /\ Len(L[h]) \in Nat
         /\ Place(h, L[h], 0) = h /\ Place(h, L[h], Len(L[h]) + 1) = h
         /\ \A i \in 1 .. Len(L[h]) :
              Place(h, L[h], i) = L[h][i] /\ L[h][i] \in ListItem
         /\ \A i \in Int : Place(h, L[h], i) \in Node
BY DEF Place, Node

(* An item that points to itself is in no list.                            *)
LEMMA UnlinkedInNone ==
  ASSUME NEW nx, NEW pv, NEW L, Hold(nx, pv, L), NEW x \in ListItem
  PROVE  nx[x] = x <=> ~InSome(L, x)
<1>1. ASSUME NEW h \in ListHead, NEW i \in 1 .. Len(L[h]), L[h][i] = x, nx[x] = x
      PROVE  FALSE
  <2>1. L \in [ListHead -> Seq(ListItem)] /\ Unshared(L) /\ Chain(nx, pv, h, L[h])
    BY DEF Hold
  <2>2. Len(L[h]) \in Nat /\ i \in 0 .. Len(L[h]) /\ Place(h, L[h], i) = x
    BY <1>1, <2>1, PlaceFacts
  <2>3. Place(h, L[h], i + 1) = x
    BY <1>1, <2>1, <2>2 DEF Chain
  <2>4. CASE i = Len(L[h])
    BY <2>1, <2>3, <2>4, PlaceFacts, ListAssumption
  <2>5. CASE i # Len(L[h])
    <3>1. i + 1 \in 0 .. Len(L[h]) /\ i + 1 # i
      BY <2>2, <2>5
    <3> QED  BY <2>1, <2>2, <2>3, <3>1, PlacesDiffer
  <2> QED  BY <2>4, <2>5
<1> QED  BY <1>1 DEF Hold, InSome


(* As many different items as are counted are no more than there are.      *)
LEMMA ItemsCounted ==
  ASSUME NEW n \in Nat, NEW f \in [1 .. n -> ListItem],
         \A i, j \in 1 .. n : f[i] = f[j] => i = j
  PROVE  n <= Cardinality(ListItem)
<1>1. IsFiniteSet(ListItem) /\ Cardinality(ListItem) \in Nat
  BY ListAssumption, FS_CardinalityType
<1> SUFFICES ASSUME Cardinality(ListItem) < n  PROVE FALSE
  BY <1>1
<1>2. IsFiniteSet(1 .. n) /\ Cardinality(1 .. n) = n
  BY FS_Interval
<1>3. \E i, j \in 1 .. n : i # j /\ f[i] = f[j]
  BY <1>1, <1>2, FS_PigeonHole
<1> QED  BY <1>3

LEMMA ListsFit ==
  ASSUME NEW L \in [ListHead -> Seq(ListItem)], Unshared(L), NEW h \in ListHead
  PROVE  L[h] \in SeqOf(ListItem, Cardinality(ListItem))
<1>1. /\ Len(L[h]) \in Nat /\ L[h] \in [1 .. Len(L[h]) -> ListItem]
      /\ Cardinality(ListItem) \in Nat
  BY ListAssumption, FS_CardinalityType
<1>2. \A i, j \in 1 .. Len(L[h]) : L[h][i] = L[h][j] => i = j
  BY DEF Unshared
<1>3. Len(L[h]) <= Cardinality(ListItem)
  BY <1>1, <1>2, ItemsCounted
<1>4. Len(L[h]) \in 0 .. Cardinality(ListItem)
  BY <1>1, <1>3
<1> QED  BY <1>1, <1>4 DEF SeqOf

LEMMA SeqOfIsSeq ==
  ASSUME NEW s \in SeqOf(ListItem, Cardinality(ListItem))
  PROVE  s \in Seq(ListItem)
<1>1. Cardinality(ListItem) \in Nat
  BY ListAssumption, FS_CardinalityType
<1> QED  BY <1>1 DEF SeqOf

(* A walk from a head meets one sequence only.                             *)
LEMMA OneWalk ==
  ASSUME NEW h \in ListHead, NEW s \in Seq(ListItem), NEW t \in Seq(ListItem),
         WalkMeets(h, s), WalkMeets(h, t)
  PROVE  s = t
<1> DEFINE Differ == {i \in Nat : i \in 1 .. Len(s) /\ i \in 1 .. Len(t) /\ s[i] # t[i]}
<1>1. /\ Len(s) \in Nat /\ Len(t) \in Nat
      /\ \A i \in 1 .. Len(s) : s[i] \in ListItem
      /\ \A i \in 1 .. Len(t) : t[i] \in ListItem
      /\ h \notin ListItem
  BY ListAssumption
<1>2. (s = << >> <=> Len(s) = 0) /\ (t = << >> <=> Len(t) = 0)
  BY EmptySeq
<1>3. Differ = {}
  <2> SUFFICES ASSUME Differ # {} PROVE FALSE
    OBVIOUS
  <2>1. PICK i \in Differ : \A k \in Differ : i <= k
    BY Numbers!LeastElement
  <2>2. i \in Nat /\ i \in 1 .. Len(s) /\ i \in 1 .. Len(t) /\ s[i] # t[i]
    BY <2>1
  <2>3. CASE i = 1
    BY <1>1, <1>2, <2>2, <2>3 DEF WalkMeets
  <2>4. CASE i # 1
    <3>1. /\ i - 1 \in Nat /\ i - 1 \in 1 .. Len(s) /\ i - 1 \in 1 .. Len(t)
          /\ i - 1 # Len(s) /\ i - 1 # Len(t) /\ (i - 1) + 1 = i /\ ~(i <= i - 1)
      BY <1>1, <2>2, <2>4
    <3>2. s[i - 1] = t[i - 1]
      BY <2>1, <3>1
    <3>3. next[s[i - 1]] = s[i] /\ next[t[i - 1]] = t[i]
      BY <3>1 DEF WalkMeets
    <3> QED  BY <2>2, <3>2, <3>3
  <2> QED  BY <2>3, <2>4
<1>4. \A i \in 1 .. Len(s) : i \in 1 .. Len(t) => s[i] = t[i]
  BY <1>1, <1>3
<1>5. ASSUME Len(s) < Len(t)  PROVE FALSE
  <2>1. CASE Len(s) = 0
    BY <1>1, <1>2, <1>5, <2>1 DEF WalkMeets
  <2>2. CASE Len(s) # 0
    <3>1. /\ Len(s) \in 1 .. Len(s) /\ Len(s) \in 1 .. Len(t) /\ Len(s) # Len(t)
          /\ Len(s) + 1 \in 1 .. Len(t)
      BY <1>1, <1>5, <2>2
    <3>2. next[s[Len(s)]] = h /\ next[t[Len(s)]] = t[Len(s) + 1]
      BY <3>1 DEF WalkMeets
    <3> QED  BY <1>1, <1>4, <3>1, <3>2
  <2> QED  BY <2>1, <2>2
<1>6. ASSUME Len(t) < Len(s)  PROVE FALSE
  <2>1. CASE Len(t) = 0
    BY <1>1, <1>2, <1>6, <2>1 DEF WalkMeets
  <2>2. CASE Len(t) # 0
    <3>1. /\ Len(t) \in 1 .. Len(t) /\ Len(t) \in 1 .. Len(s) /\ Len(t) # Len(s)
          /\ Len(t) + 1 \in 1 .. Len(s)
      BY <1>1, <1>6, <2>2
    <3>2. next[t[Len(t)]] = h /\ next[s[Len(t)]] = s[Len(t) + 1]
      BY <3>1 DEF WalkMeets
    <3> QED  BY <1>1, <1>4, <3>1, <3>2
  <2> QED  BY <2>1, <2>2
<1>7. Len(s) = Len(t)
  BY <1>1, <1>5, <1>6
<1> QED  BY <1>4, <1>7, SeqEqual

LEMMA ContentsFound ==
  ASSUME NEW L, Hold(next, prev, L), NEW h \in ListHead
  PROVE  Contents(h) = L[h]
<1>1. L \in [ListHead -> Seq(ListItem)] /\ Unshared(L) /\ Chain(next, prev, h, L[h])
  BY DEF Hold
<1>2. /\ Len(L[h]) \in Nat
      /\ Place(h, L[h], 0) = h /\ Place(h, L[h], Len(L[h]) + 1) = h
      /\ \A i \in 1 .. Len(L[h]) : Place(h, L[h], i) = L[h][i]
  BY <1>1, PlaceFacts
<1>3. L[h] \in Seq(ListItem) /\ (L[h] = << >> <=> Len(L[h]) = 0)
  BY <1>1, EmptySeq
<1>4. next[h] = IF L[h] = << >> THEN h ELSE L[h][1]
  <2>1. 0 \in 0 .. Len(L[h]) /\ 0 + 1 = 1
    BY <1>2
  <2>2. next[h] = Place(h, L[h], 1)
    BY <1>1, <1>2, <2>1 DEF Chain
  <2>3. Len(L[h]) # 0 => 1 \in 1 .. Len(L[h])
    BY <1>2
  <2> QED  BY <1>2, <1>3, <2>2, <2>3
<1>5. ASSUME NEW i \in 1 .. Len(L[h])
      PROVE  next[L[h][i]] = IF i = Len(L[h]) THEN h ELSE L[h][i + 1]
  <2>1. i \in 0 .. Len(L[h]) /\ (i # Len(L[h]) => i + 1 \in 1 .. Len(L[h]))
    BY <1>2
  <2>2. next[L[h][i]] = Place(h, L[h], i + 1)
    BY <1>1, <1>2, <2>1 DEF Chain
  <2> QED  BY <1>2, <2>1, <2>2
<1>6. WalkMeets(h, L[h]) /\ L[h] \in SeqOf(ListItem, Cardinality(ListItem))
  BY <1>1, <1>4, <1>5, ListsFit DEF WalkMeets
<1>7. \A s \in SeqOf(ListItem, Cardinality(ListItem)) : WalkMeets(h, s) => s = L[h]
  BY <1>3, <1>6, SeqOfIsSeq, OneWalk
<1> QED  BY <1>6, <1>7 DEF Contents


-----------------------------------------------------------------------------
(* The place after the last one of a list is its first.                    *)
LEMMA SamePlace ==
  ASSUME NEW L \in [ListHead -> Seq(ListItem)], Unshared(L), NEW h \in ListHead,
         NEW i \in 1 .. Len(L[h]) + 1, NEW j \in 1 .. Len(L[h]) + 1,
         Place(h, L[h], i) = Place(h, L[h], j)
  PROVE  i = j
<1> DEFINE m == Len(L[h])
           Wrapped(k) == IF k = m + 1 THEN 0 ELSE k
<1>1. m \in Nat
  BY PlaceFacts
<1>2. \A k \in 1 .. m + 1 : Wrapped(k) \in 0 .. m
                            /\ Place(h, L[h], Wrapped(k)) = Place(h, L[h], k)
  BY <1>1, PlaceFacts
<1>3. Wrapped(i) = Wrapped(j)
  <2> HIDE DEF Wrapped
  <2> QED  BY <1>2, PlacesDiffer
<1> QED  BY <1>1, <1>3

LEMMA NextPlace ==
  ASSUME NEW L \in [ListHead -> Seq(ListItem)], NEW h \in ListHead,
         NEW i \in 0 .. Len(L[h])
  PROVE  \E j \in 0 .. Len(L[h]) : Place(h, L[h], i + 1) = Place(h, L[h], j)
<1>1. CASE i = Len(L[h])
  BY <1>1, PlaceFacts
<1>2. CASE i # Len(L[h])
  <2>1. i + 1 \in 0 .. Len(L[h])
    BY <1>2, PlaceFacts
  <2> QED  BY <2>1
<1> QED  BY <1>1, <1>2

(* A new item between place k and the next one.                            *)
PutBehind(nx, pv, L, h, k, x, ny, py) ==
  LET p == Place(h, L[h], k)
      n == Place(h, L[h], k + 1)
  IN  /\ py = [pv EXCEPT ![n] = x, ![x] = p]
      /\ ny = [nx EXCEPT ![x] = n, ![p] = x]

LEMMA PutBehindInserts ==
  ASSUME NEW L \in [ListHead -> Seq(ListItem)], NEW h \in ListHead,
         NEW k \in 0 .. Len(L[h]), NEW x \in ListItem
  PROVE  LET t == InsertAt(L[h], k + 1, x)
         IN  /\ t \in Seq(ListItem) /\ Len(t) = Len(L[h]) + 1 /\ t[k + 1] = x
             /\ \A i \in 1 .. k : t[i] = L[h][i]
             /\ \A i \in k + 2 .. Len(L[h]) + 1 : t[i] = L[h][i - 1]
<1>1. L[h] \in Seq(ListItem) /\ Len(L[h]) \in Nat
  OBVIOUS
<1>2. PICK p \in 1 .. Len(L[h]) + 1 : p = k + 1 /\ p - 1 = k /\ p + 1 = k + 2
  BY <1>1
<1>3. /\ InsertAt(L[h], p, x) \in Seq(ListItem)
      /\ Len(InsertAt(L[h], p, x)) = Len(L[h]) + 1
      /\ \A i \in 1 .. p - 1 : InsertAt(L[h], p, x)[i] = L[h][i]
      /\ InsertAt(L[h], p, x)[p] = x
      /\ \A i \in p + 1 .. Len(L[h]) + 1 : InsertAt(L[h], p, x)[i] = L[h][i - 1]
  BY <1>1, <1>2, SeqInserts
<1> QED  BY <1>2, <1>3

LEMMA InsertHolds ==
  ASSUME NEW nx \in [Node -> Node], NEW pv \in [Node -> Node],
         NEW L, Hold(nx, pv, L), NEW h \in ListHead, NEW k \in 0 .. Len(L[h]),
         NEW x \in ListItem, ~InSome(L, x),
         NEW ny, NEW py, PutBehind(nx, pv, L, h, k, x, ny, py),
         NEW M, M = [L EXCEPT ![h] = InsertAt(L[h], k + 1, x)]
  PROVE  Hold(ny, py, M)
<1> PICK p, n : p = Place(h, L[h], k) /\ n = Place(h, L[h], k + 1)
  OBVIOUS
<1> DEFINE m == Len(L[h])
           t == InsertAt(L[h], k + 1, x)
<1>1. /\ L \in [ListHead -> Seq(ListItem)] /\ Unshared(L)
      /\ \A g \in ListHead : Chain(nx, pv, g, L[g])
      /\ m \in Nat /\ k \in Nat /\ k + 1 \in 1 .. m + 1 /\ k + 1 \in Int
  BY PlaceFacts DEF Hold
<1>2. p \in Node /\ n \in Node /\ x \in Node
  BY <1>1, PlaceFacts DEF Node
<1>3. \A g \in ListHead, i \in Int : Place(g, L[g], i) # x
  BY <1>1, ListAssumption DEF Place, InSome
<1>4. p # x /\ n # x
  BY <1>1, <1>3
<1>5. /\ ny[x] = n /\ ny[p] = x /\ \A u \in Node : u # x /\ u # p => ny[u] = nx[u]
      /\ py[x] = p /\ py[n] = x /\ \A u \in Node : u # x /\ u # n => py[u] = pv[u]
  BY <1>2, <1>4 DEF PutBehind
<1>6. /\ t \in Seq(ListItem) /\ Len(t) = m + 1 /\ t[k + 1] = x
      /\ \A i \in 1 .. k : t[i] = L[h][i]
      /\ \A i \in k + 2 .. m + 1 : t[i] = L[h][i - 1]
  BY <1>1, PutBehindInserts
<1>7. /\ M \in [ListHead -> Seq(ListItem)] /\ M[h] = t
      /\ \A g \in ListHead : g # h => M[g] = L[g]
  BY <1>1, <1>6
<1> HIDE DEF t
<1>8. /\ \A i \in 0 .. k : Place(h, t, i) = Place(h, L[h], i)
      /\ Place(h, t, k + 1) = x
      /\ \A i \in k + 2 .. m + 2 : Place(h, t, i) = Place(h, L[h], i - 1)
  <2>1. ASSUME NEW i \in 0 .. k  PROVE Place(h, t, i) = Place(h, L[h], i)
    <3>1. i = 0 \/ (i \in 1 .. k /\ i \in 1 .. m /\ i \in 1 .. m + 1)
      BY <1>1
    <3>2. ~(0 \in 1 .. m) /\ ~(0 \in 1 .. m + 1)
      BY <1>1
    <3> QED  BY <1>6, <3>1, <3>2 DEF Place
  <2>2. Place(h, t, k + 1) = x
    BY <1>1, <1>6 DEF Place
  <2>3. ASSUME NEW i \in k + 2 .. m + 2  PROVE Place(h, t, i) = Place(h, L[h], i - 1)
    <3>1. \/ i = m + 2 /\ ~(i \in 1 .. m + 1) /\ ~(i - 1 \in 1 .. m)
          \/ i \in k + 2 .. m + 1 /\ i \in 1 .. m + 1 /\ i - 1 \in 1 .. m
      BY <1>1
    <3> QED  BY <1>6, <3>1 DEF Place
  <2> QED  BY <2>1, <2>2, <2>3
<1>9. Chain(ny, py, h, t)
  <2> SUFFICES ASSUME NEW i \in 0 .. m + 1
               PROVE  /\ ny[Place(h, t, i)] = Place(h, t, i + 1)
                      /\ py[Place(h, t, i + 1)] = Place(h, t, i)
    BY <1>6 DEF Chain
  <2>1. CASE i < k
    <3>1. /\ i \in 0 .. k /\ i + 1 \in 0 .. k /\ i \in 0 .. m /\ i # k
          /\ i + 1 \in 1 .. m + 1 /\ i + 1 # k + 1 /\ k \in 0 .. m
          /\ i \in Int /\ i + 1 \in Int
      BY <1>1, <2>1
    <3>2. Place(h, L[h], i) # p
      BY <1>1, <3>1, PlacesDiffer
    <3>3. Place(h, L[h], i + 1) # n
      BY <1>1, <3>1, SamePlace
    <3>4. /\ nx[Place(h, L[h], i)] = Place(h, L[h], i + 1)
          /\ pv[Place(h, L[h], i + 1)] = Place(h, L[h], i)
      BY <1>1, <3>1 DEF Chain
    <3>5. Place(h, L[h], i) \in Node /\ Place(h, L[h], i + 1) \in Node
      BY <1>1, <3>1, PlaceFacts
    <3> QED  BY <1>3, <1>5, <1>8, <3>1, <3>2, <3>3, <3>4, <3>5
  <2>2. CASE i = k
    <3>1. i \in 0 .. k
      BY <1>1, <2>2
    <3> QED  BY <1>5, <1>8, <2>2, <3>1
  <2>3. CASE i = k + 1
    <3>1. i + 1 \in k + 2 .. m + 2 /\ (i + 1) - 1 = k + 1
      BY <1>1, <2>3
    <3> QED  BY <1>5, <1>8, <2>3, <3>1
  <2>4. CASE i > k + 1
    <3>1. /\ i \in k + 2 .. m + 2 /\ i + 1 \in k + 2 .. m + 2 /\ (i + 1) - 1 = (i - 1) + 1
          /\ i - 1 \in 0 .. m /\ i - 1 # k /\ k \in 0 .. m
          /\ (i - 1) + 1 \in 1 .. m + 1 /\ (i - 1) + 1 # k + 1
          /\ i - 1 \in Int /\ (i - 1) + 1 \in Int
      BY <1>1, <2>4
    <3>2. Place(h, L[h], i - 1) # p
      BY <1>1, <3>1, PlacesDiffer
    <3>3. Place(h, L[h], (i - 1) + 1) # n
      BY <1>1, <3>1, SamePlace
    <3>4. /\ nx[Place(h, L[h], i - 1)] = Place(h, L[h], (i - 1) + 1)
          /\ pv[Place(h, L[h], (i - 1) + 1)] = Place(h, L[h], i - 1)
      BY <1>1, <3>1 DEF Chain
    <3>5. Place(h, L[h], i - 1) \in Node /\ Place(h, L[h], (i - 1) + 1) \in Node
      BY <1>1, <3>1, PlaceFacts
    <3>6. /\ Place(h, t, i) = Place(h, L[h], i - 1)
          /\ Place(h, t, i + 1) = Place(h, L[h], (i - 1) + 1)
      BY <1>8, <3>1
    <3> QED  BY <1>3, <1>5, <3>1, <3>2, <3>3, <3>4, <3>5, <3>6
  <2> QED  BY <1>1, <2>1, <2>2, <2>3, <2>4
<1>10. ASSUME NEW g \in ListHead, g # h  PROVE Chain(ny, py, g, M[g])
  <2> SUFFICES ASSUME NEW i \in 0 .. Len(L[g])
               PROVE  /\ ny[Place(g, L[g], i)] = Place(g, L[g], i + 1)
                      /\ py[Place(g, L[g], i + 1)] = Place(g, L[g], i)
    BY <1>7, <1>10 DEF Chain
  <2>1. /\ Len(L[g]) \in Nat /\ i \in Int /\ i + 1 \in Int /\ k \in 0 .. m
        /\ Place(g, L[g], i) \in Node /\ Place(g, L[g], i + 1) \in Node
    BY <1>1, PlaceFacts
  <2>2. Place(g, L[g], i) # p
    BY <1>1, <1>10, <2>1, PlacesDiffer
  <2>3. Place(g, L[g], i + 1) # n
    <3>1. PICK a \in 0 .. Len(L[g]) : Place(g, L[g], i + 1) = Place(g, L[g], a)
      BY <1>1, <2>1, PlaceFacts, NextPlace
    <3>2. PICK b \in 0 .. m : n = Place(h, L[h], b)
      BY <1>1, <2>1, PlaceFacts, NextPlace
    <3> QED  BY <1>1, <1>10, <3>1, <3>2, PlacesDiffer
  <2>4. /\ nx[Place(g, L[g], i)] = Place(g, L[g], i + 1)
        /\ pv[Place(g, L[g], i + 1)] = Place(g, L[g], i)
    BY <1>1 DEF Chain
  <2> QED  BY <1>3, <1>5, <2>1, <2>2, <2>3, <2>4
<1>11. \A i \in 1 .. m + 1 :
         \/ t[i] = x /\ i = k + 1
         \/ \E j \in 1 .. m : t[i] = L[h][j] /\ i = IF j <= k THEN j ELSE j + 1
  <2> TAKE i \in 1 .. m + 1
  <2>1. CASE i \in 1 .. k
    <3>1. i \in 1 .. m /\ i <= k
      BY <1>1, <2>1
    <3> QED  BY <1>6, <2>1, <3>1
  <2>2. CASE i = k + 1
    BY <1>6, <2>2
  <2>3. CASE i \in k + 2 .. m + 1
    <3>1. i - 1 \in 1 .. m /\ ~(i - 1 <= k) /\ i = (i - 1) + 1
      BY <1>1, <2>3
    <3> QED  BY <1>6, <2>3, <3>1
  <2> QED  BY <1>1, <2>1, <2>2, <2>3
<1>12. Unshared(M)
  <2> SUFFICES ASSUME NEW f \in ListHead, NEW g \in ListHead,
                      NEW i \in 1 .. Len(M[f]), NEW j \in 1 .. Len(M[g]),
                      M[f][i] = M[g][j]
               PROVE  f = g /\ i = j
    BY DEF Unshared
  <2>1. ASSUME NEW e \in ListHead, NEW b \in 1 .. Len(L[e])  PROVE L[e][b] # x
    BY <2>1 DEF InSome
  <2>6. /\ \A a, b \in 1 .. m : L[h][a] = L[h][b] => a = b
        /\ \A e \in ListHead : e # h =>
             \A a \in 1 .. m, b \in 1 .. Len(L[e]) : L[h][a] # L[e][b]
    BY <1>1 DEF Unshared
  <2>2. CASE f = h /\ g = h
    <3>1. i \in 1 .. m + 1 /\ j \in 1 .. m + 1 /\ t[i] = t[j]
      BY <1>6, <1>7, <2>2
    <3>2. CASE t[i] = x
      BY <1>11, <2>1, <2>2, <3>1, <3>2
    <3>3. CASE t[i] # x
      <4>1. PICK a \in 1 .. m : t[i] = L[h][a] /\ i = IF a <= k THEN a ELSE a + 1
        BY <1>11, <3>1, <3>3
      <4>2. PICK b \in 1 .. m : t[j] = L[h][b] /\ j = IF b <= k THEN b ELSE b + 1
        BY <1>11, <3>1, <3>3
      <4>3. a = b
        BY <2>6, <3>1, <4>1, <4>2
      <4> QED  BY <2>2, <4>1, <4>2, <4>3
    <3> QED  BY <3>2, <3>3
  <2>3. CASE f = h /\ g # h
    <3>1. i \in 1 .. m + 1 /\ j \in 1 .. Len(L[g]) /\ t[i] = L[g][j]
      BY <1>6, <1>7, <2>3
    <3>2. PICK a \in 1 .. m : t[i] = L[h][a]
      BY <1>11, <2>1, <3>1
    <3> QED  BY <2>3, <2>6, <3>1, <3>2
  <2>4. CASE f # h /\ g = h
    <3>1. i \in 1 .. Len(L[f]) /\ j \in 1 .. m + 1 /\ L[f][i] = t[j]
      BY <1>6, <1>7, <2>4
    <3>2. PICK a \in 1 .. m : t[j] = L[h][a]
      BY <1>11, <2>1, <3>1
    <3> QED  BY <2>4, <2>6, <3>1, <3>2
  <2>5. CASE f # h /\ g # h
    BY <1>1, <1>7, <2>5 DEF Unshared
  <2> QED  BY <2>2, <2>3, <2>4, <2>5
<1>13. ASSUME NEW u \in ListItem, ~InSome(M, u)
       PROVE  ny[u] = u /\ py[u] = u
  <2>1. u # x
    BY <1>1, <1>6, <1>7, <1>13 DEF InSome
  <2>2. ~InSome(L, u)
    <3> SUFFICES ASSUME NEW g \in ListHead, NEW j \in 1 .. Len(L[g]), L[g][j] = u
                 PROVE  FALSE
      BY DEF InSome
    <3>1. CASE g # h
      BY <1>7, <1>13, <3>1 DEF InSome
    <3>2. CASE g = h
      <4>1. CASE j <= k
        <5>1. j \in 1 .. k /\ j \in 1 .. m + 1
          BY <1>1, <3>2, <4>1
        <5> QED  BY <1>6, <1>7, <1>13, <3>2, <5>1 DEF InSome
      <4>2. CASE j > k
        <5>1. j + 1 \in k + 2 .. m + 1 /\ j + 1 \in 1 .. m + 1 /\ (j + 1) - 1 = j
          BY <1>1, <3>2, <4>2
        <5>2. t[j + 1] = u
          BY <1>6, <3>2, <5>1
        <5>3. j + 1 \in 1 .. Len(M[h]) /\ M[h][j + 1] = u
          BY <1>6, <1>7, <5>1, <5>2
        <5> QED  BY <1>13, <5>3 DEF InSome
      <4> QED  BY <1>1, <4>1, <4>2
    <3> QED  BY <3>1, <3>2
  <2>3. nx[u] = u /\ pv[u] = u /\ u \in Node
    BY <2>2 DEF Hold, Node
  <2>4. \A i \in Int : Place(h, L[h], i) # u
    BY <1>1, <2>2, ListAssumption DEF Place, InSome
  <2>5. u # p /\ u # n
    BY <1>1, <2>4
  <2> QED  BY <1>5, <2>1, <2>3, <2>5
<1> QED  BY <1>7, <1>9, <1>10, <1>12, <1>13 DEF Hold


(* The item at place k leaves.                                             *)
LEMMA RemoveHolds ==
  ASSUME NEW nx \in [Node -> Node], NEW pv \in [Node -> Node],
         NEW L, Hold(nx, pv, L), NEW h \in ListHead, NEW k \in 1 .. Len(L[h]),
         NEW x, x = L[h][k], NEW ny, NEW py,
         py = [pv EXCEPT ![nx[x]] = pv[x], ![x] = x],
         ny = [nx EXCEPT ![pv[x]] = nx[x], ![x] = x],
         NEW M, M = [L EXCEPT ![h] = RemoveAt(L[h], k)]
  PROVE  Hold(ny, py, M)
<1> DEFINE m == Len(L[h])
           t == RemoveAt(L[h], k)
           p == Place(h, L[h], k - 1)
           n == Place(h, L[h], k + 1)
<1>1. /\ L \in [ListHead -> Seq(ListItem)] /\ Unshared(L)
      /\ \A g \in ListHead : Chain(nx, pv, g, L[g])
      /\ m \in Nat /\ k \in 0 .. m /\ k \in 1 .. m + 1 /\ k - 1 \in 0 .. m
      /\ k + 1 \in 1 .. m + 1 /\ (k - 1) + 1 = k /\ k - 1 # k /\ k # k + 1
      /\ k \in Int /\ k - 1 \in Int /\ k + 1 \in Int
  BY PlaceFacts DEF Hold
<1>2. p \in Node /\ n \in Node /\ x \in Node /\ x \in ListItem /\ Place(h, L[h], k) = x
  BY <1>1, PlaceFacts DEF Node
<1>3. nx[x] = n /\ pv[x] = p
  <2>1. /\ nx[Place(h, L[h], k)] = Place(h, L[h], k + 1)
        /\ pv[Place(h, L[h], (k - 1) + 1)] = Place(h, L[h], k - 1)
    BY <1>1 DEF Chain
  <2> QED  BY <1>1, <1>2, <2>1
<1>4. p # x /\ n # x
  BY <1>1, <1>2, PlacesDiffer, SamePlace
<1>5. /\ ny[x] = x /\ ny[p] = n /\ \A u \in Node : u # x /\ u # p => ny[u] = nx[u]
      /\ py[x] = x /\ py[n] = p /\ \A u \in Node : u # x /\ u # n => py[u] = pv[u]
  BY <1>2, <1>3, <1>4
<1>6. /\ t \in Seq(ListItem) /\ Len(t) = m - 1
      /\ \A i \in 1 .. k - 1 : t[i] = L[h][i]
      /\ \A i \in k .. m - 1 : t[i] = L[h][i + 1]
  <2> DEFINE q == L[h]
  <2>1. q \in Seq(ListItem) /\ k \in 1 .. Len(q)
    BY <1>1
  <2> HIDE DEF q
  <2>2. /\ RemoveAt(q, k) \in Seq(ListItem) /\ Len(RemoveAt(q, k)) = Len(q) - 1
        /\ \A i \in 1 .. k - 1 : RemoveAt(q, k)[i] = q[i]
        /\ \A i \in k .. Len(q) - 1 : RemoveAt(q, k)[i] = q[i + 1]
    BY <2>1, SeqRemoves
  <2> QED  BY <2>2 DEF q
<1>7. /\ M \in [ListHead -> Seq(ListItem)] /\ M[h] = t
      /\ \A g \in ListHead : g # h => M[g] = L[g]
  BY <1>1, <1>6
<1> HIDE DEF t
<1>8. /\ \A i \in 0 .. k - 1 : Place(h, t, i) = Place(h, L[h], i)
      /\ \A i \in k .. m : Place(h, t, i) = Place(h, L[h], i + 1)
  <2>1. ASSUME NEW i \in 0 .. k - 1  PROVE Place(h, t, i) = Place(h, L[h], i)
    <3>1. \/ i = 0 /\ ~(i \in 1 .. m) /\ ~(i \in 1 .. m - 1)
          \/ i \in 1 .. k - 1 /\ i \in 1 .. m /\ i \in 1 .. m - 1
      BY <1>1
    <3> QED  BY <1>6, <3>1 DEF Place
  <2>2. ASSUME NEW i \in k .. m  PROVE Place(h, t, i) = Place(h, L[h], i + 1)
    <3>1. \/ i = m /\ ~(i \in 1 .. m - 1) /\ ~(i + 1 \in 1 .. m)
          \/ i \in k .. m - 1 /\ i \in 1 .. m - 1 /\ i + 1 \in 1 .. m
      BY <1>1
    <3> QED  BY <1>6, <3>1 DEF Place
  <2> QED  BY <2>1, <2>2
<1> HIDE DEF p, n
<1>9. Chain(ny, py, h, t)
  <2> SUFFICES ASSUME NEW i \in 0 .. m - 1
               PROVE  /\ ny[Place(h, t, i)] = Place(h, t, i + 1)
                      /\ py[Place(h, t, i + 1)] = Place(h, t, i)
    BY <1>6 DEF Chain
  <2>1. CASE i < k - 1
    <3>1. /\ i \in 0 .. k - 1 /\ i + 1 \in 0 .. k - 1 /\ i \in 0 .. m /\ i # k - 1
          /\ i # k /\ i + 1 # k
          /\ i + 1 \in 1 .. m + 1 /\ i + 1 # k + 1 /\ i \in Int /\ i + 1 \in Int
      BY <1>1, <2>1
    <3>2. Place(h, L[h], i) # p /\ Place(h, L[h], i) # x
      BY <1>1, <1>2, <3>1, PlacesDiffer DEF p
    <3>3. Place(h, L[h], i + 1) # n /\ Place(h, L[h], i + 1) # x
      BY <1>1, <1>2, <3>1, SamePlace DEF n
    <3>4. /\ nx[Place(h, L[h], i)] = Place(h, L[h], i + 1)
          /\ pv[Place(h, L[h], i + 1)] = Place(h, L[h], i)
      BY <1>1, <3>1 DEF Chain
    <3>5. Place(h, L[h], i) \in Node /\ Place(h, L[h], i + 1) \in Node
      BY <1>1, <3>1, PlaceFacts
    <3> QED  BY <1>5, <1>8, <3>1, <3>2, <3>3, <3>4, <3>5
  <2>2. CASE i = k - 1
    <3>1. i \in 0 .. k - 1 /\ i + 1 = k /\ k \in k .. m
      BY <1>1, <2>2
    <3> QED  BY <1>5, <1>8, <2>2, <3>1 DEF p, n
  <2>3. CASE i > k - 1
    <3>1. /\ i \in k .. m /\ i + 1 \in k .. m /\ i + 1 \in 0 .. m
          /\ i + 1 # k - 1 /\ i + 1 # k
          /\ (i + 1) + 1 \in 1 .. m + 1 /\ (i + 1) + 1 # k + 1 /\ (i + 1) + 1 # k
          /\ i + 1 \in Int /\ (i + 1) + 1 \in Int
      BY <1>1, <2>3
    <3>2. Place(h, L[h], i + 1) # p /\ Place(h, L[h], i + 1) # x
      BY <1>1, <1>2, <3>1, PlacesDiffer DEF p
    <3>3. Place(h, L[h], (i + 1) + 1) # n /\ Place(h, L[h], (i + 1) + 1) # x
      BY <1>1, <1>2, <3>1, SamePlace DEF n
    <3>4. /\ nx[Place(h, L[h], i + 1)] = Place(h, L[h], (i + 1) + 1)
          /\ pv[Place(h, L[h], (i + 1) + 1)] = Place(h, L[h], i + 1)
      BY <1>1, <3>1 DEF Chain
    <3>5. Place(h, L[h], i + 1) \in Node /\ Place(h, L[h], (i + 1) + 1) \in Node
      BY <1>1, <3>1, PlaceFacts
    <3> QED  BY <1>5, <1>8, <3>1, <3>2, <3>3, <3>4, <3>5
  <2> QED  BY <1>1, <2>1, <2>2, <2>3
<1>10. ASSUME NEW g \in ListHead, g # h  PROVE Chain(ny, py, g, M[g])
  <2> SUFFICES ASSUME NEW i \in 0 .. Len(L[g])
               PROVE  /\ ny[Place(g, L[g], i)] = Place(g, L[g], i + 1)
                      /\ py[Place(g, L[g], i + 1)] = Place(g, L[g], i)
    BY <1>7, <1>10 DEF Chain
  <2>1. /\ Len(L[g]) \in Nat /\ i \in Int /\ i + 1 \in Int
        /\ Place(g, L[g], i) \in Node /\ Place(g, L[g], i + 1) \in Node
    <3>1. Len(L[g]) \in Nat
      BY <1>1, PlaceFacts
    <3>2. i \in 0 .. Len(L[g]) + 1 /\ i + 1 \in 0 .. Len(L[g]) + 1
      BY <3>1
    <3> QED  BY <1>1, <3>1, <3>2, PlaceFacts
  <2>2. Place(g, L[g], i) # p /\ Place(g, L[g], i) # x
    BY <1>1, <1>2, <1>10, <2>1, PlacesDiffer DEF p
  <2>3. PICK a \in 0 .. Len(L[g]) : Place(g, L[g], i + 1) = Place(g, L[g], a)
    BY <1>1, NextPlace
  <2>4. PICK b \in 0 .. m : n = Place(h, L[h], b)
    BY <1>1, NextPlace DEF n
  <2>5. Place(g, L[g], i + 1) # n /\ Place(g, L[g], i + 1) # x
    BY <1>1, <1>2, <1>10, <2>3, <2>4, PlacesDiffer
  <2>6. /\ nx[Place(g, L[g], i)] = Place(g, L[g], i + 1)
        /\ pv[Place(g, L[g], i + 1)] = Place(g, L[g], i)
    BY <1>1 DEF Chain
  <2> QED  BY <1>5, <2>1, <2>2, <2>5, <2>6
<1>11. ASSUME NEW i \in 1 .. m - 1
       PROVE  \E j \in 1 .. m : t[i] = L[h][j] /\ j # k /\ j = IF i < k THEN i ELSE i + 1
  <2>1. CASE i < k
    <3>1. i \in 1 .. k - 1 /\ i \in 1 .. m
      BY <1>1, <2>1
    <3> QED  BY <1>6, <2>1, <3>1
  <2>2. CASE ~(i < k)
    <3>1. i \in k .. m - 1 /\ i + 1 \in 1 .. m /\ i + 1 # k
      BY <1>1, <2>2
    <3> QED  BY <1>6, <2>2, <3>1
  <2> QED  BY <2>1, <2>2
<1>12. /\ \A a, b \in 1 .. m : L[h][a] = L[h][b] => a = b
       /\ \A e \in ListHead : e # h =>
            \A a \in 1 .. m, b \in 1 .. Len(L[e]) : L[h][a] # L[e][b]
  BY <1>1 DEF Unshared
<1>13. Unshared(M)
  <2> SUFFICES ASSUME NEW f \in ListHead, NEW g \in ListHead,
                      NEW i \in 1 .. Len(M[f]), NEW j \in 1 .. Len(M[g]),
                      M[f][i] = M[g][j]
               PROVE  f = g /\ i = j
    BY DEF Unshared
  <2>1. CASE f = h /\ g = h
    <3>1. i \in 1 .. m - 1 /\ j \in 1 .. m - 1 /\ t[i] = t[j]
      BY <1>6, <1>7, <2>1
    <3>2. PICK a \in 1 .. m : t[i] = L[h][a] /\ a = IF i < k THEN i ELSE i + 1
      BY <1>11, <3>1
    <3>3. PICK b \in 1 .. m : t[j] = L[h][b] /\ b = IF j < k THEN j ELSE j + 1
      BY <1>11, <3>1
    <3>4. a = b
      BY <1>12, <3>1, <3>2, <3>3
    <3> QED  BY <2>1, <3>1, <3>2, <3>3, <3>4
  <2>2. CASE f = h /\ g # h
    <3>1. i \in 1 .. m - 1 /\ j \in 1 .. Len(L[g]) /\ t[i] = L[g][j]
      BY <1>6, <1>7, <2>2
    <3> QED  BY <1>11, <1>12, <2>2, <3>1
  <2>3. CASE f # h /\ g = h
    <3>1. j \in 1 .. m - 1 /\ i \in 1 .. Len(L[f]) /\ t[j] = L[f][i]
      BY <1>6, <1>7, <2>3
    <3> QED  BY <1>11, <1>12, <2>3, <3>1
  <2>4. CASE f # h /\ g # h
    BY <1>1, <1>7, <2>4 DEF Unshared
  <2> QED  BY <2>1, <2>2, <2>3, <2>4
<1>14. ASSUME NEW u \in ListItem, ~InSome(M, u)
       PROVE  ny[u] = u /\ py[u] = u
  <2>1. CASE u = x
    BY <1>5, <2>1
  <2>2. CASE u # x
    <3>1. ~InSome(L, u)
      <4> SUFFICES ASSUME NEW g \in ListHead, NEW j \in 1 .. Len(L[g]), L[g][j] = u
                   PROVE  FALSE
        BY DEF InSome
      <4>1. CASE g # h
        BY <1>7, <1>14, <4>1 DEF InSome
      <4>2. CASE g = h
        <5>1. CASE j < k
          <6>1. j \in 1 .. k - 1 /\ j \in 1 .. m - 1
            BY <1>1, <4>2, <5>1
          <6> QED  BY <1>6, <1>7, <1>14, <4>2, <6>1 DEF InSome
        <5>2. CASE j = k
          BY <2>2, <4>2, <5>2
        <5>3. CASE j > k
          <6>1. j - 1 \in k .. m - 1 /\ j - 1 \in 1 .. m - 1 /\ (j - 1) + 1 = j
            BY <1>1, <4>2, <5>3
          <6>2. t[j - 1] = u
            BY <1>6, <4>2, <6>1
          <6> QED  BY <1>6, <1>7, <1>14, <6>1, <6>2 DEF InSome
        <5> QED  BY <1>1, <5>1, <5>2, <5>3
      <4> QED  BY <4>1, <4>2
    <3>2. nx[u] = u /\ pv[u] = u /\ u \in Node
      BY <3>1 DEF Hold, Node
    <3>3. \A i \in Int : Place(h, L[h], i) # u
      BY <1>1, <3>1, ListAssumption DEF Place, InSome
    <3>4. u # p /\ u # n
      BY <1>1, <3>3 DEF p, n
    <3> QED  BY <1>5, <2>2, <3>2, <3>4
  <2> QED  BY <2>1, <2>2
<1> QED  BY <1>7, <1>9, <1>10, <1>13, <1>14 DEF Hold


-----------------------------------------------------------------------------
(* The sequences that the operations of Lists make.                        *)
LEMMA SeqEnds ==
  ASSUME NEW S, NEW s \in Seq(S), NEW x \in S
  PROVE  /\ InsertAt(s, 1, x) = <<x>> \o s
         /\ InsertAt(s, Len(s) + 1, x) = Append(s, x)
         /\ s # << >> => RemoveAt(s, 1) = Tail(s) /\ RemoveAt(s, Len(s)) = Front(s)
<1>1. Len(s) \in Nat /\ <<x>> \in Seq(S) /\ Len(<<x>>) = 1 /\ <<x>>[1] = x
  OBVIOUS
<1>2. InsertAt(s, 1, x) = <<x>> \o s
  <2>1. /\ InsertAt(s, 1, x) \in Seq(S) /\ Len(InsertAt(s, 1, x)) = Len(s) + 1
        /\ InsertAt(s, 1, x)[1] = x
        /\ \A k \in 1 + 1 .. Len(s) + 1 : InsertAt(s, 1, x)[k] = s[k - 1]
    BY <1>1, SeqInserts
  <2>2. /\ <<x>> \o s \in Seq(S) /\ Len(<<x>> \o s) = 1 + Len(s)
        /\ \A k \in 1 .. 1 + Len(s) :
             (<<x>> \o s)[k] = IF k <= 1 THEN <<x>>[k] ELSE s[k - 1]
    BY <1>1, ConcatProperties
  <2>3. \A k \in 1 .. Len(s) + 1 : InsertAt(s, 1, x)[k] = (<<x>> \o s)[k]
    BY <1>1, <2>1, <2>2
  <2>4. Len(InsertAt(s, 1, x)) = Len(<<x>> \o s)
    BY <1>1, <2>1, <2>2
  <2> QED  BY <2>1, <2>2, <2>3, <2>4, SeqEqual
<1>3. InsertAt(s, Len(s) + 1, x) = Append(s, x)
  <2>1. /\ InsertAt(s, Len(s) + 1, x) \in Seq(S)
        /\ Len(InsertAt(s, Len(s) + 1, x)) = Len(s) + 1
        /\ InsertAt(s, Len(s) + 1, x)[Len(s) + 1] = x
        /\ \A k \in 1 .. (Len(s) + 1) - 1 : InsertAt(s, Len(s) + 1, x)[k] = s[k]
    BY <1>1, SeqInserts
  <2>2. /\ Append(s, x) \in Seq(S) /\ Len(Append(s, x)) = Len(s) + 1
        /\ \A k \in 1 .. Len(s) : Append(s, x)[k] = s[k]
        /\ Append(s, x)[Len(s) + 1] = x
    BY AppendProperties
  <2>3. \A k \in 1 .. Len(s) + 1 : InsertAt(s, Len(s) + 1, x)[k] = Append(s, x)[k]
    BY <1>1, <2>1, <2>2
  <2> QED  BY <2>1, <2>2, <2>3, SeqEqual
<1>4. ASSUME s # << >>
      PROVE  RemoveAt(s, 1) = Tail(s) /\ RemoveAt(s, Len(s)) = Front(s)
  <2>1. Len(s) # 0 /\ 1 \in 1 .. Len(s) /\ Len(s) \in 1 .. Len(s)
    BY <1>1, <1>4, EmptySeq
  <2>2. /\ RemoveAt(s, 1) \in Seq(S) /\ Len(RemoveAt(s, 1)) = Len(s) - 1
        /\ \A k \in 1 .. Len(s) - 1 : RemoveAt(s, 1)[k] = s[k + 1]
    BY <2>1, SeqRemoves
  <2>3. /\ Tail(s) \in Seq(S) /\ Len(Tail(s)) = Len(s) - 1
        /\ \A k \in 1 .. Len(s) - 1 : Tail(s)[k] = s[k + 1]
    BY <1>4, HeadTailProperties
  <2>4. RemoveAt(s, 1) = Tail(s)
    BY <2>2, <2>3, SeqEqual
  <2>5. /\ RemoveAt(s, Len(s)) \in Seq(S) /\ Len(RemoveAt(s, Len(s))) = Len(s) - 1
        /\ \A k \in 1 .. Len(s) - 1 : RemoveAt(s, Len(s))[k] = s[k]
    BY <2>1, SeqRemoves
  <2>6. /\ Front(s) \in Seq(S) /\ Len(Front(s)) = Len(s) - 1
        /\ \A k \in 1 .. Len(s) - 1 : Front(s)[k] = s[k]
    <3>1. \A i \in 1 .. Len(s) - 1 : s[i] \in S
      BY <1>1
    <3>2. Front(s) = [i \in 1 .. Len(s) - 1 |-> s[i]]
      BY <1>1 DEF Front
    <3> QED  BY <1>1, <2>1, <3>1, <3>2, IsASeq
  <2>7. RemoveAt(s, Len(s)) = Front(s)
    BY <2>5, <2>6, SeqEqual
  <2> QED  BY <2>4, <2>7
<1> QED  BY <1>2, <1>3, <1>4

(* The place of an item that is listed once.                               *)
LEMMA FirstIsOnly ==
  ASSUME NEW S, NEW s \in Seq(S), NEW k \in 1 .. Len(s),
         \A i \in 1 .. Len(s) : s[i] = s[k] => i = k
  PROVE  RemoveFirst(s, s[k]) = RemoveAt(s, k)
<1> DEFINE I == {i \in 1 .. Len(s) : s[i] = s[k]}
<1>1. I = {k}
  OBVIOUS
<1>2. Min(I) = k
  BY <1>1 DEF Min
<1> QED  BY <1>1, <1>2 DEF RemoveFirst, SelectInSeq


-----------------------------------------------------------------------------
(* Every step of the links is one of the lists or none.                    *)
ListsInv == LinksInv /\ \E L : Hold(next, prev, L)

LEMMA ListsFound ==
  \A L : Hold(next, prev, L) => AllContents = L
<1> SUFFICES ASSUME NEW L, Hold(next, prev, L) PROVE AllContents = L
  OBVIOUS
<1>1. \A h \in ListHead : Contents(h) = L[h]
  BY ContentsFound
<1>2. L = [h \in ListHead |-> L[h]]
  BY DEF Hold
<1> QED  BY <1>1, <1>2 DEF AllContents

LEMMA ListsFoundAfter ==
  \A L : Hold(next', prev', L) => AllContents' = L
<1>1. (\A L : Hold(next, prev, L) => AllContents = L)'
  BY ListsFound, PTL
<1> QED  BY <1>1 DEF Hold, Chain, Place, Unshared, InSome

LEMMA ListInitHolds ==
  ASSUME ListInit
  PROVE  ListsInv /\ Promised!Init
<1> DEFINE L == [h \in ListHead |-> << >>]
<1>1. LinksInv
  BY DEF ListInit, LinksInv, LinksTyped, LinksAgree
<1>2. Hold(next, prev, L)
  <2>1. L \in [ListHead -> Seq(ListItem)] /\ \A h \in ListHead : L[h] = << >> /\ Len(L[h]) = 0
    OBVIOUS
  <2>2. \A h \in ListHead, i \in 0 .. 1 : Place(h, L[h], i) = h
    BY <2>1 DEF Place
  <2>3. \A n \in Node : next[n] = n /\ prev[n] = n
    BY DEF ListInit
  <2> HIDE DEF L
  <2>4. ASSUME NEW h \in ListHead  PROVE Chain(next, prev, h, L[h])
    <3>1. h \in Node /\ 0 \in 0 .. 1 /\ 1 \in 0 .. 1 /\ \A i \in 0 .. 0 : i = 0 /\ i + 1 = 1
      BY DEF Node
    <3> QED  BY <2>1, <2>2, <2>3, <3>1 DEF Chain
  <2>5. Unshared(L)
    BY <2>1 DEF Unshared
  <2> QED  BY <2>1, <2>3, <2>4, <2>5 DEF Hold, Node
<1>3. AllContents = L
  BY <1>2, ListsFound
<1> QED  BY <1>1, <1>2, <1>3 DEF ListsInv, ListInit, Promised!Init

(* A node that is linked in at some place of a list.                       *)
LEMMA LinkedIn ==
  ASSUME LinksInv, NEW L, Hold(next, prev, L), NEW h \in ListHead,
         NEW k \in 0 .. Len(L[h]), NEW x \in ListItem, Initialised(x),
         NEW p, NEW n, ListInsert(x, p, n),
         p = Place(h, L[h], k), n = Place(h, L[h], k + 1)
  PROVE  /\ Hold(next', prev', [L EXCEPT ![h] = InsertAt(L[h], k + 1, x)])
         /\ AllContents = L /\ x \notin Promised!Listed
         /\ AllContents' = [AllContents EXCEPT ![h] = InsertAt(@, k + 1, x)]
<1> DEFINE M == [L EXCEPT ![h] = InsertAt(L[h], k + 1, x)]
<1>1. ~InSome(L, x)
  BY UnlinkedInNone DEF Initialised
<1>2. next \in [Node -> Node] /\ prev \in [Node -> Node]
  BY DEF LinksInv, LinksTyped
<1>3. Hold(next', prev', M)
  <2>1. /\ prev' = [prev EXCEPT ![n] = x, ![x] = p]
        /\ next' = [next EXCEPT ![x] = n, ![p] = x]
    BY DEF ListInsert
  <2>2. M = [L EXCEPT ![h] = InsertAt(L[h], k + 1, x)]
    OBVIOUS
  <2>3. PutBehind(next, prev, L, h, k, x, next', prev')
    BY <2>1 DEF PutBehind
  <2> HIDE DEF M
  <2> QED  BY <1>1, <1>2, <2>2, <2>3, InsertHolds
<1>4. AllContents = L /\ AllContents' = M
  BY <1>3, ListsFound, ListsFoundAfter
<1>5. x \notin Promised!Listed
  BY <1>1, <1>4 DEF Promised!Listed, Promised!ToSet, InSome, Hold
<1> QED  BY <1>3, <1>4, <1>5

(* An item that is taken out of the list it is in.                         *)
LEMMA TakenOut ==
  ASSUME LinksInv, NEW L, Hold(next, prev, L), NEW h \in ListHead,
         NEW k \in 1 .. Len(L[h]), Unlink(L[h][k])
  PROVE  /\ Hold(next', prev', [L EXCEPT ![h] = RemoveAt(L[h], k)])
         /\ AllContents = L
         /\ AllContents' = [AllContents EXCEPT ![h] = RemoveAt(@, k)]
<1> DEFINE M == [L EXCEPT ![h] = RemoveAt(L[h], k)]
<1>1. next \in [Node -> Node] /\ prev \in [Node -> Node]
  BY DEF LinksInv, LinksTyped
<1>2. Hold(next', prev', M)
  BY <1>1, RemoveHolds DEF Unlink
<1>3. AllContents = L /\ AllContents' = M
  BY <1>2, ListsFound, ListsFoundAfter
<1> QED  BY <1>2, <1>3

(* The first and the last node of a list.                                  *)
LEMMA EndsOfList ==
  ASSUME NEW nx, NEW pv, NEW L, Hold(nx, pv, L), NEW h \in ListHead
  PROVE  /\ L[h] \in Seq(ListItem) /\ Len(L[h]) \in Nat
         /\ nx[h] = Place(h, L[h], 1) /\ pv[h] = Place(h, L[h], Len(L[h]))
         /\ nx[h] = h <=> L[h] = << >>
         /\ L[h] # << >> =>
              /\ 1 \in 1 .. Len(L[h]) /\ Len(L[h]) \in 1 .. Len(L[h])
              /\ nx[h] = L[h][1] /\ pv[h] = L[h][Len(L[h])]
<1>1. L \in [ListHead -> Seq(ListItem)] /\ Chain(nx, pv, h, L[h])
  BY DEF Hold
<1>2. /\ Len(L[h]) \in Nat /\ L[h] \in Seq(ListItem)
      /\ Place(h, L[h], 0) = h /\ Place(h, L[h], Len(L[h]) + 1) = h
      /\ \A i \in 1 .. Len(L[h]) : Place(h, L[h], i) = L[h][i] /\ L[h][i] \in ListItem
  BY <1>1, PlaceFacts
<1>3. 0 \in 0 .. Len(L[h]) /\ Len(L[h]) \in 0 .. Len(L[h]) /\ 0 + 1 = 1
  BY <1>2
<1>4. nx[h] = Place(h, L[h], 1) /\ pv[h] = Place(h, L[h], Len(L[h]))
  BY <1>1, <1>2, <1>3 DEF Chain
<1>5. L[h] = << >> <=> Len(L[h]) = 0
  BY <1>2, EmptySeq
<1>6. CASE Len(L[h]) = 0
  <2>1. Len(L[h]) + 1 = 1
    BY <1>6
  <2> QED  BY <1>2, <1>4, <1>5, <1>6, <2>1
<1>7. CASE Len(L[h]) # 0
  <2>1. 1 \in 1 .. Len(L[h]) /\ Len(L[h]) \in 1 .. Len(L[h])
    BY <1>2, <1>7
  <2> QED  BY <1>2, <1>4, <1>5, <1>7, <2>1, ListAssumption
<1> QED  BY <1>6, <1>7


(* Where InsertCondition puts an item: before the first that is smaller.   *)
LEMMA PositionFound ==
  ASSUME NEW L, Hold(next, prev, L), NEW h \in ListHead, NEW x \in ListItem
  PROVE  \E i \in 1 .. Len(L[h]) + 1 :
           /\ Position(h, x) = Place(h, L[h], i)
           /\ \A j \in 1 .. i - 1 : ItemKey[L[h][j]] >= ItemKey[x]
           /\ i <= Len(L[h]) => ItemKey[L[h][i]] < ItemKey[x]
<1> DEFINE I == {i \in 1 .. Len(L[h]) : ItemKey[L[h][i]] < ItemKey[x]}
<1>1. /\ L \in [ListHead -> Seq(ListItem)] /\ Len(L[h]) \in Nat
      /\ \A i \in 1 .. Len(L[h]) : L[h][i] \in ListItem
      /\ Contents(h) = L[h]
  BY ContentsFound DEF Hold
<1>2. \A i \in 1 .. Len(L[h]) : ItemKey[L[h][i]] \in Int /\ ItemKey[x] \in Int
  BY <1>1, ListAssumption
<1>3. Position(h, x) = IF I # {} THEN (IF Min(I) = 0 THEN h ELSE L[h][Min(I)]) ELSE h
  BY <1>1 DEF Position, SelectInSeq, Cond
<1>4. CASE I = {}
  <2>1. Position(h, x) = Place(h, L[h], Len(L[h]) + 1)
    BY <1>1, <1>3, <1>4, PlaceFacts
  <2>2. \A j \in 1 .. (Len(L[h]) + 1) - 1 : ItemKey[L[h][j]] >= ItemKey[x]
    BY <1>1, <1>2, <1>4
  <2>3. Len(L[h]) + 1 \in 1 .. Len(L[h]) + 1 /\ ~(Len(L[h]) + 1 <= Len(L[h]))
    BY <1>1
  <2> QED  BY <2>1, <2>2, <2>3
<1>5. CASE I # {}
  <2>1. I \subseteq Nat
    BY <1>1
  <2>2. PICK i \in I : \A j \in I : i <= j
    BY <1>5, <2>1, Numbers!LeastElement
  <2>3. Min(I) = i
    <3>1. \A k \in I : (\A j \in I : k <= j) => k = i
      BY <2>1, <2>2
    <3> QED  BY <2>2, <3>1 DEF Min
  <2>4. i \in 1 .. Len(L[h]) /\ i \in 1 .. Len(L[h]) + 1 /\ i # 0 /\ ItemKey[L[h][i]] < ItemKey[x]
    BY <1>1, <2>2
  <2>5. Position(h, x) = Place(h, L[h], i)
    BY <1>3, <1>5, <2>3, <2>4 DEF Place
  <2>6. \A j \in 1 .. i - 1 : ItemKey[L[h][j]] >= ItemKey[x]
    <3> TAKE j \in 1 .. i - 1
    <3>1. j \in 1 .. Len(L[h]) /\ ~(i <= j)
      BY <1>1, <2>4
    <3>2. j \notin I
      BY <2>2, <3>1
    <3> QED  BY <1>2, <3>1, <3>2
  <2> QED  BY <2>4, <2>5, <2>6
<1> QED  BY <1>4, <1>5

LEMMA FrontAdds ==
  ASSUME ListsInv, NEW h \in ListHead, NEW x \in ListItem, AddAtFront(h, x)
  PROVE  /\ \E M : Hold(next', prev', M)
         /\ Promised!AddAtFront(h, x) \/ UNCHANGED <<AllContents, gotNode>>
<1>1. PICK L : Hold(next, prev, L)
  BY DEF ListsInv
<1>2. CASE Initialised(x)
  <2>1. ListInsert(x, h, next[h]) /\ gotNode' = gotNode
    BY <1>2 DEF AddAtFront, Checked
  <2>2. L[h] \in Seq(ListItem) /\ Len(L[h]) \in Nat /\ next[h] = Place(h, L[h], 0 + 1)
    BY <1>1, EndsOfList
  <2>3. 0 \in 0 .. Len(L[h]) /\ h = Place(h, L[h], 0) /\ 0 + 1 = 1
    BY <2>2 DEF Place
  <2>4. /\ Hold(next', prev', [L EXCEPT ![h] = InsertAt(L[h], 0 + 1, x)])
        /\ AllContents = L /\ x \notin Promised!Listed
        /\ AllContents' = [AllContents EXCEPT ![h] = InsertAt(@, 0 + 1, x)]
    BY <1>1, <1>2, <2>1, <2>2, <2>3, LinkedIn DEF ListsInv
  <2>5. InsertAt(L[h], 0 + 1, x) = <<x>> \o L[h]
    BY <2>2, <2>3, SeqEnds
  <2>6. AllContents' = [AllContents EXCEPT ![h] = <<x>> \o @]
    BY <2>4, <2>5
  <2> QED  BY <2>1, <2>4, <2>6 DEF Promised!AddAtFront
<1>3. CASE ~Initialised(x)
  <2>1. next' = next /\ prev' = prev /\ gotNode' = gotNode
    BY <1>3 DEF AddAtFront, Checked
  <2>2. Hold(next', prev', L)
    BY <1>1, <2>1
  <2> QED  BY <1>1, <2>1, <2>2, ListsFound, ListsFoundAfter
<1> QED  BY <1>2, <1>3

LEMMA RearAdds ==
  ASSUME ListsInv, NEW h \in ListHead, NEW x \in ListItem, AddAtRear(h, x)
  PROVE  /\ \E M : Hold(next', prev', M)
         /\ Promised!AddAtRear(h, x) \/ UNCHANGED <<AllContents, gotNode>>
<1>1. PICK L : Hold(next, prev, L)
  BY DEF ListsInv
<1>2. CASE Initialised(x)
  <2>1. ListInsert(x, prev[h], h) /\ gotNode' = gotNode
    BY <1>2 DEF AddAtRear, Checked
  <2>2. L[h] \in Seq(ListItem) /\ Len(L[h]) \in Nat /\ prev[h] = Place(h, L[h], Len(L[h]))
    BY <1>1, EndsOfList
  <2>3. Len(L[h]) \in 0 .. Len(L[h]) /\ h = Place(h, L[h], Len(L[h]) + 1)
    BY <2>2 DEF Place
  <2>4. /\ Hold(next', prev', [L EXCEPT ![h] = InsertAt(L[h], Len(L[h]) + 1, x)])
        /\ AllContents = L /\ x \notin Promised!Listed
        /\ AllContents' = [AllContents EXCEPT ![h] = InsertAt(@, Len(L[h]) + 1, x)]
    BY <1>1, <1>2, <2>1, <2>2, <2>3, LinkedIn DEF ListsInv
  <2>5. InsertAt(L[h], Len(L[h]) + 1, x) = Append(L[h], x)
    BY <2>2, SeqEnds
  <2>6. AllContents' = [AllContents EXCEPT ![h] = Append(@, x)]
    BY <2>4, <2>5
  <2> QED  BY <2>1, <2>4, <2>6 DEF Promised!AddAtRear
<1>3. CASE ~Initialised(x)
  <2>1. next' = next /\ prev' = prev /\ gotNode' = gotNode
    BY <1>3 DEF AddAtRear, Checked
  <2>2. Hold(next', prev', L)
    BY <1>1, <2>1
  <2> QED  BY <1>1, <2>1, <2>2, ListsFound, ListsFoundAfter
<1> QED  BY <1>2, <1>3

LEMMA OrderInserts ==
  ASSUME OnlyUnlinked, ListsInv, NEW h \in ListHead, NEW x \in ListItem,
         InsertCondition(h, x)
  PROVE  /\ \E M : Hold(next', prev', M)
         /\ Promised!InsertInOrder(h, x)
<1>1. PICK L : Hold(next, prev, L)
  BY DEF ListsInv
<1>2. PICK pos \in Node : pos = Position(h, x) /\ ListInsert(x, prev[pos], pos)
  BY InsertsAtPosition
<1>3. PICK i \in 1 .. Len(L[h]) + 1 :
        /\ pos = Place(h, L[h], i)
        /\ \A j \in 1 .. i - 1 : ItemKey[L[h][j]] >= ItemKey[x]
        /\ i <= Len(L[h]) => ItemKey[L[h][i]] < ItemKey[x]
  BY <1>1, <1>2, PositionFound
<1>4. /\ L \in [ListHead -> Seq(ListItem)] /\ Len(L[h]) \in Nat
      /\ Chain(next, prev, h, L[h])
  BY <1>1 DEF Hold
<1>5. i - 1 \in 0 .. Len(L[h]) /\ (i - 1) + 1 = i
  BY <1>4
<1>6. prev[pos] = Place(h, L[h], i - 1) /\ pos = Place(h, L[h], (i - 1) + 1)
  BY <1>3, <1>4, <1>5 DEF Chain
<1>7. Initialised(x) /\ gotNode' = gotNode
  BY InsertsAtPosition
<1>8. /\ Hold(next', prev', [L EXCEPT ![h] = InsertAt(L[h], (i - 1) + 1, x)])
      /\ AllContents = L /\ x \notin Promised!Listed
      /\ AllContents' = [AllContents EXCEPT ![h] = InsertAt(@, (i - 1) + 1, x)]
  BY <1>1, <1>2, <1>5, <1>6, <1>7, LinkedIn DEF ListsInv
<1>9. AllContents' = [AllContents EXCEPT ![h] = Promised!InsertAt(@, i, x)]
  BY <1>5, <1>8 DEF InsertAt, Promised!InsertAt
<1> QED  BY <1>3, <1>7, <1>8, <1>9 DEF Promised!InsertInOrder


(* RemoveFirst, of a list that holds the item once or not at all.          *)
LEMMA RemovesOnly ==
  ASSUME NEW s \in Seq(ListItem), NEW k \in 1 .. Len(s),
         \A i \in 1 .. Len(s) : s[i] = s[k] => i = k
  PROVE  Promised!RemoveFirst(s, s[k]) = RemoveAt(s, k)
<1> DEFINE I == {i \in 1 .. Len(s) : s[i] = s[k]}
<1>1. I = {k}
  OBVIOUS
<1>2. Promised!Min(I) = k
  BY <1>1 DEF Promised!Min
<1>3. \E i \in 1 .. Len(s) : s[i] = s[k]
  OBVIOUS
<1>4. Promised!RemoveFirst(s, s[k]) = Promised!RemoveAt(s, k)
  BY <1>1, <1>2, <1>3 DEF Promised!RemoveFirst, Promised!SelectInSeq
<1> QED  BY <1>4 DEF RemoveAt, Promised!RemoveAt

LEMMA ItemRemoves ==
  ASSUME ListsInv, NEW x \in ListItem, ListRemove(x)
  PROVE  /\ \E M : Hold(next', prev', M)
         /\ Promised!TakeOut(x)
<1>1. PICK L : Hold(next, prev, L)
  BY DEF ListsInv
<1>2. /\ L \in [ListHead -> Seq(ListItem)] /\ Unshared(L) /\ AllContents = L
      /\ gotNode' = gotNode /\ Unlink(x)
  BY <1>1, ListsFound DEF Hold, ListRemove
<1>3. ASSUME NEW g \in ListHead, \A i \in 1 .. Len(L[g]) : L[g][i] # x
      PROVE  Promised!RemoveFirst(L[g], x) = L[g]
  BY <1>3 DEF Promised!RemoveFirst
<1>4. CASE InSome(L, x)
  <2>1. PICK h \in ListHead : \E i \in 1 .. Len(L[h]) : L[h][i] = x
    BY <1>4 DEF InSome
  <2>2. PICK k \in 1 .. Len(L[h]) : L[h][k] = x
    BY <2>1
  <2>3. /\ Hold(next', prev', [L EXCEPT ![h] = RemoveAt(L[h], k)])
        /\ AllContents' = [AllContents EXCEPT ![h] = RemoveAt(@, k)]
    BY <1>1, <1>2, <2>2, TakenOut DEF ListsInv
  <2>4. Promised!RemoveFirst(L[h], x) = RemoveAt(L[h], k)
    <3>1. L[h] \in Seq(ListItem) /\ \A i \in 1 .. Len(L[h]) : L[h][i] = L[h][k] => i = k
      BY <1>2 DEF Unshared
    <3> QED  BY <2>2, <3>1, RemovesOnly
  <2>5. ASSUME NEW g \in ListHead, g # h
        PROVE  Promised!RemoveFirst(L[g], x) = L[g]
    BY <1>2, <1>3, <2>2, <2>5 DEF Unshared
  <2>6. AllContents' = [g \in ListHead |-> Promised!RemoveFirst(AllContents[g], x)]
    BY <1>2, <2>3, <2>4, <2>5
  <2> QED  BY <1>2, <2>3, <2>6 DEF Promised!TakeOut
<1>5. CASE ~InSome(L, x)
  <2>1. next[x] = x /\ prev[x] = x /\ x \in Node
    BY <1>1, <1>5 DEF Hold, Node
  <2>2. next' = next /\ prev' = prev
    BY <1>2, <2>1 DEF ListsInv, LinksInv, LinksTyped, Unlink
  <2>3. Hold(next', prev', L) /\ AllContents' = L
    BY <1>1, <2>2, ListsFoundAfter
  <2>4. L = [g \in ListHead |-> Promised!RemoveFirst(L[g], x)]
    BY <1>2, <1>3, <1>5 DEF InSome
  <2> QED  BY <1>2, <2>3, <2>4 DEF Promised!TakeOut
<1> QED  BY <1>4, <1>5

LEMMA FrontRemoves ==
  ASSUME ListsInv, NEW h \in ListHead, RemoveFront(h)
  PROVE  /\ \E M : Hold(next', prev', M)
         /\ Promised!RemoveFront(h)
<1>1. PICK L : Hold(next, prev, L)
  BY DEF ListsInv
<1>2. AllContents = L /\ L[h] \in Seq(ListItem) /\ (next[h] = h <=> L[h] = << >>)
  BY <1>1, ListsFound, EndsOfList
<1>3. CASE L[h] = << >>
  <2>1. next' = next /\ prev' = prev /\ gotNode' = NoNode
    BY <1>2, <1>3 DEF RemoveFront, RemoveNode, ListEmpty
  <2>2. Hold(next', prev', L) /\ AllContents' = L
    BY <1>1, <2>1, ListsFoundAfter
  <2> QED  BY <1>2, <1>3, <2>1, <2>2 DEF Promised!RemoveFront
<1>4. CASE L[h] # << >>
  <2>1. 1 \in 1 .. Len(L[h]) /\ next[h] = L[h][1]
    BY <1>1, <1>4, EndsOfList
  <2>2. gotNode' = L[h][1] /\ Unlink(L[h][1])
    BY <1>2, <1>4, <2>1 DEF RemoveFront, RemoveNode, ListEmpty
  <2>3. /\ Hold(next', prev', [L EXCEPT ![h] = RemoveAt(L[h], 1)])
        /\ AllContents' = [AllContents EXCEPT ![h] = RemoveAt(@, 1)]
    BY <1>1, <2>1, <2>2, TakenOut DEF ListsInv
  <2>4. RemoveAt(L[h], 1) = Tail(L[h])
    <3>1. \E y : y \in ListItem
      BY <1>2, <2>1
    <3> QED  BY <1>2, <1>4, <3>1, SeqEnds
  <2>5. AllContents' = [AllContents EXCEPT ![h] = Tail(@)]
    BY <1>2, <2>3, <2>4
  <2>6. gotNode' = Head(L[h])
    BY <1>2, <2>2
  <2> QED  BY <1>2, <1>4, <2>3, <2>5, <2>6 DEF Promised!RemoveFront
<1> QED  BY <1>3, <1>4

LEMMA RearRemoves ==
  ASSUME ListsInv, NEW h \in ListHead, RemoveRear(h)
  PROVE  /\ \E M : Hold(next', prev', M)
         /\ Promised!RemoveRear(h)
<1>1. PICK L : Hold(next, prev, L)
  BY DEF ListsInv
<1>2. AllContents = L /\ L[h] \in Seq(ListItem) /\ (next[h] = h <=> L[h] = << >>)
  BY <1>1, ListsFound, EndsOfList
<1>3. CASE L[h] = << >>
  <2>1. next' = next /\ prev' = prev /\ gotNode' = NoNode
    BY <1>2, <1>3 DEF RemoveRear, RemoveNode, ListEmpty
  <2>2. Hold(next', prev', L) /\ AllContents' = L
    BY <1>1, <2>1, ListsFoundAfter
  <2> QED  BY <1>2, <1>3, <2>1, <2>2 DEF Promised!RemoveRear
<1>4. CASE L[h] # << >>
  <2>1. Len(L[h]) \in 1 .. Len(L[h]) /\ prev[h] = L[h][Len(L[h])]
    BY <1>1, <1>4, EndsOfList
  <2>2. gotNode' = L[h][Len(L[h])] /\ Unlink(L[h][Len(L[h])])
    BY <1>2, <1>4, <2>1 DEF RemoveRear, RemoveNode, ListEmpty
  <2>3. /\ Hold(next', prev', [L EXCEPT ![h] = RemoveAt(L[h], Len(L[h]))])
        /\ AllContents' = [AllContents EXCEPT ![h] = RemoveAt(L[h], Len(L[h]))]
        /\ AllContents' = [AllContents EXCEPT ![h] = RemoveAt(@, Len(L[h]))]
    BY <1>1, <1>2, <2>1, <2>2, TakenOut DEF ListsInv
  <2>4. RemoveAt(L[h], Len(L[h])) = Front(L[h])
    <3>1. \E y : y \in ListItem
      BY <1>2, <2>1
    <3> QED  BY <1>2, <1>4, <3>1, SeqEnds
  <2>5. AllContents' = [AllContents EXCEPT ![h] = Promised!Front(@)]
    BY <1>2, <2>3, <2>4 DEF Front, Promised!Front
  <2>6. gotNode' = Promised!Last(L[h])
    BY <2>2 DEF Promised!Last
  <2> QED  BY <1>2, <1>4, <2>3, <2>5, <2>6 DEF Promised!RemoveRear
<1> QED  BY <1>3, <1>4

LEMMA ListsStep ==
  ASSUME OnlyUnlinked, ListsInv, [ListNext]_listVars
  PROVE  /\ \E M : Hold(next', prev', M)
         /\ [Promised!Next]_<<AllContents, gotNode>>
<1>1. CASE ListNext
  <2>1. ASSUME NEW h \in ListHead, NEW x \in ListItem, AddAtFront(h, x)
        PROVE  (\E M : Hold(next', prev', M)) /\ [Promised!Next]_<<AllContents, gotNode>>
    BY <2>1, FrontAdds DEF Promised!Next
  <2>2. ASSUME NEW h \in ListHead, NEW x \in ListItem, AddAtRear(h, x)
        PROVE  (\E M : Hold(next', prev', M)) /\ [Promised!Next]_<<AllContents, gotNode>>
    BY <2>2, RearAdds DEF Promised!Next
  <2>3. ASSUME NEW h \in ListHead, NEW x \in ListItem, InsertCondition(h, x)
        PROVE  (\E M : Hold(next', prev', M)) /\ [Promised!Next]_<<AllContents, gotNode>>
    BY <2>3, OrderInserts DEF Promised!Next
  <2>4. ASSUME NEW x \in ListItem, ListRemove(x)
        PROVE  (\E M : Hold(next', prev', M)) /\ [Promised!Next]_<<AllContents, gotNode>>
    BY <2>4, ItemRemoves DEF Promised!Next
  <2>5. ASSUME NEW h \in ListHead, RemoveFront(h)
        PROVE  (\E M : Hold(next', prev', M)) /\ [Promised!Next]_<<AllContents, gotNode>>
    BY <2>5, FrontRemoves DEF Promised!Next
  <2>6. ASSUME NEW h \in ListHead, RemoveRear(h)
        PROVE  (\E M : Hold(next', prev', M)) /\ [Promised!Next]_<<AllContents, gotNode>>
    BY <2>6, RearRemoves DEF Promised!Next
  <2> QED  BY <1>1, <2>1, <2>2, <2>3, <2>4, <2>5, <2>6 DEF ListNext
<1>2. CASE UNCHANGED listVars
  <2>1. PICK L : Hold(next, prev, L)
    BY DEF ListsInv
  <2>2. next' = next /\ prev' = prev /\ gotNode' = gotNode
    BY <1>2 DEF listVars
  <2>3. Hold(next', prev', L)
    BY <2>1, <2>2
  <2>4. AllContents = L /\ AllContents' = L
    BY <2>1, <2>3, ListsFound, ListsFoundAfter
  <2> QED  BY <2>2, <2>3, <2>4
<1> QED  BY <1>1, <1>2

(* util/list.h:73-216 keeps what Lists promises: a walk from each head     *)
(* meets a sequence of items, no item is in two of them, and an operation  *)
(* changes the lists it is meant to and no other.                          *)
THEOREM LinksAreLists ==
  ASSUME OnlyUnlinked
  PROVE  ListSpec => ImplementsLists
<1>1. ListInit => ListsInv /\ Promised!Init
  BY ListInitHolds
<1>2. ListsInv /\ [ListNext]_listVars => ListsInv'
  <2> SUFFICES ASSUME ListsInv, [ListNext]_listVars PROVE ListsInv'
    OBVIOUS
  <2>1. LinksInv'
    BY StepKeepsLinks DEF ListsInv
  <2>2. \E M : Hold(next', prev', M)
    BY ListsStep
  <2> QED  BY <2>1, <2>2 DEF ListsInv, Hold, Chain, Place, Unshared, InSome
<1>3. ListsInv /\ [ListNext]_listVars => [Promised!Next]_<<AllContents, gotNode>>
  BY ListsStep
<1> QED  BY <1>1, <1>2, <1>3, PTL DEF ListSpec, ImplementsLists, Promised!Spec


-----------------------------------------------------------------------------
(* The ADC task.                                                           *)

Reading == [channel : {"temperature", "reference", "none"}, age : 0 .. 2]

AdcTyped ==
  /\ task \in {"start", "wait", "blocked", "clear", "use", "delay"}
  /\ signal \in BOOLEAN
  /\ rank \in 0 .. 2
  /\ valIdx \in 0 .. 1
  /\ values \in [0 .. 1 -> Reading]

(* The value that the last interrupt stored, and the one it did not.       *)
Latest == values[1 - valIdx]
Former == values[valIdx]

(* The task waits while a sequence goes on, and the event is set from its  *)
(* end until the task has seen it; from then to the next start the latest  *)
(* value is new.                                                           *)
AdcInv ==
  /\ AdcTyped
  /\ rank # 0 => task \in {"wait", "blocked"} /\ ~signal /\ Prior(Latest)
  /\ rank = 0 => task # "blocked" /\ (task = "wait" => signal)
  /\ rank = 0 /\ task # "start" => New(Latest) /\ Prior(Former)
  /\ task = "start" => New(Latest) \/ Latest = Unset
  /\ task \in {"start", "use", "delay"} => ~signal
  /\ ReadingsAlternate

LEMMA AdcInitInv == AdcInit => AdcInv
<1> SUFFICES ASSUME AdcInit PROVE AdcInv
  OBVIOUS
<1>1. /\ task = "start" /\ signal = FALSE /\ rank = 0 /\ valIdx = 0 /\ shown = << >>
      /\ values = [i \in 0 .. 1 |-> Unset]
  BY DEF AdcInit
<1>2. Unset \in Reading
  BY DEF Unset, Reading
<1>3. values \in [0 .. 1 -> Reading] /\ Latest = Unset
  BY <1>1, <1>2 DEF Latest
<1> QED  BY <1>1, <1>3 DEF AdcInv, AdcTyped, ReadingsAlternate

LEMMA OlderReading ==
  ASSUME NEW v \in Reading
  PROVE  /\ Older(v) \in Reading
         /\ New(v) \/ v = Unset => Prior(Older(v))
BY DEF Reading, Older, New, Prior, Unset

LEMMA AdcStepKeepsInv ==
  ASSUME AdcInv, [AdcNext]_adcVars
  PROVE  AdcInv'
<1>1. /\ values \in [0 .. 1 -> Reading] /\ valIdx \in 0 .. 1 /\ 1 - valIdx \in 0 .. 1
      /\ 1 - (1 - valIdx) = valIdx /\ 1 - valIdx # valIdx
  BY DEF AdcInv, AdcTyped
<1>2. CASE StartConversions
  <2>1. values' = [i \in 0 .. 1 |-> Older(values[i])] /\ valIdx' = valIdx
    BY <1>2 DEF StartConversions
  <2>2. values' \in [0 .. 1 -> Reading]
    BY <1>1, <2>1, OlderReading
  <2>3. Prior(Latest')
    <3>1. New(Latest) \/ Latest = Unset
      BY <1>2 DEF StartConversions, AdcInv
    <3>2. Latest' = Older(Latest) /\ Latest \in Reading
      BY <1>1, <2>1 DEF Latest
    <3> QED  BY <3>1, <3>2, OlderReading
  <2>4. /\ rank' = 1 /\ task' = "wait" /\ ~signal' /\ valIdx' \in 0 .. 1
        /\ shown' = shown /\ signal' \in BOOLEAN
    BY <1>2 DEF StartConversions, AdcInv, AdcTyped
  <2>5. Prior(Latest)'
    BY <2>3 DEF Prior, Unset
  <2> QED  BY <2>2, <2>4, <2>5 DEF AdcInv, AdcTyped, ReadingsAlternate
<1>3. CASE EventWait \/ ClearSignal \/ DelayOver \/ ConversionEnds
  <2>1. UNCHANGED <<values, valIdx, shown>>
    BY <1>3 DEF EventWait, ClearSignal, DelayOver, ConversionEnds
  <2>2. /\ UNCHANGED Latest /\ UNCHANGED Former
        /\ ReadingsAlternate' /\ values' \in [0 .. 1 -> Reading] /\ valIdx' \in 0 .. 1
    BY <1>1, <2>1 DEF Latest, Former, ReadingsAlternate, AdcInv
  <2>3. /\ New(Latest)' <=> New(Latest)
        /\ Prior(Latest)' <=> Prior(Latest)
        /\ Prior(Former)' <=> Prior(Former)
        /\ (Latest = Unset)' <=> Latest = Unset
    BY <2>2 DEF New, Prior, Unset
  <2>4. CASE EventWait
    BY <2>2, <2>3, <2>4 DEF EventWait, AdcInv, AdcTyped
  <2>5. CASE ClearSignal
    BY <2>2, <2>3, <2>5 DEF ClearSignal, AdcInv, AdcTyped
  <2>6. CASE DelayOver
    BY <2>2, <2>3, <2>6 DEF DelayOver, AdcInv, AdcTyped
  <2>7. CASE ConversionEnds
    <3>1. rank = 1 /\ rank' = 2 /\ UNCHANGED <<task, signal>>
      BY <2>7 DEF ConversionEnds, Channels, AdcInv, AdcTyped
    <3> QED  BY <2>2, <2>3, <3>1 DEF AdcInv, AdcTyped
  <2> QED  BY <1>3, <2>4, <2>5, <2>6, <2>7
<1>4. CASE UseValues
  <2>1. rank = 0 /\ New(Latest) /\ Prior(Former)
    BY <1>4 DEF UseValues, AdcInv
  <2>2. ReadingsAlternate'
    BY <1>1, <1>4, <2>1 DEF UseValues, Latest, Former, ReadingsAlternate
  <2>3. UNCHANGED <<Latest, Former, values, valIdx, rank, signal>> /\ task' = "delay"
    BY <1>4 DEF UseValues, Latest, Former
  <2> QED
    BY <1>4, <2>1, <2>2, <2>3 DEF UseValues, AdcInv, AdcTyped, New, Prior, Unset
<1>5. CASE SequenceEnds
  <2> DEFINE read == [channel |-> "reference", age |-> 0]
  <2>1. /\ rank = 2 /\ rank' = 0 /\ signal' = TRUE /\ shown' = shown
        /\ values' = [values EXCEPT ![valIdx] = read]
        /\ task' = IF task = "blocked" THEN "clear" ELSE task
    BY <1>5 DEF SequenceEnds, Callback, Channels
  <2>2. valIdx' = 1 - valIdx
    BY <1>1, <1>5 DEF SequenceEnds, Callback, NextIdx
  <2>3. task \in {"wait", "blocked"} /\ Prior(Latest)
    BY <2>1 DEF AdcInv
  <2>4. read \in Reading
    BY DEF Reading
  <2>5. /\ values' \in [0 .. 1 -> Reading] /\ values'[valIdx] = read
        /\ values'[1 - valIdx] = Latest
    BY <1>1, <2>1, <2>4 DEF Latest
  <2>6. New(Latest)' /\ Prior(Former)'
    BY <1>1, <2>2, <2>3, <2>5 DEF Latest, Former, New, Prior, Unset
  <2>7. ReadingsAlternate'
    BY <2>1 DEF AdcInv, ReadingsAlternate
  <2> QED  BY <1>1, <2>1, <2>2, <2>3, <2>5, <2>6, <2>7 DEF AdcInv, AdcTyped
<1>6. CASE UNCHANGED adcVars
  BY <1>6 DEF adcVars, AdcInv, AdcTyped, Latest, Former, New, Prior, Unset, ReadingsAlternate
<1> QED
  BY <1>2, <1>3, <1>4, <1>5, <1>6 DEF AdcNext

(***************************************************************************)
(* With one interrupt at the end of the two conversions (adc_task.c:70),   *)
(* of the two values the task shows one was converted since its last start *)
(* and the other a start earlier or never, whenever the interrupt comes    *)
(* while the task goes to wait (adc_task.c:31-40, 112-117).                *)
(***************************************************************************)
THEOREM ReadingsStayAlternate == AdcSpec => []ReadingsAlternate
<1>1. AdcInv /\ [AdcNext]_adcVars => AdcInv'
  BY AdcStepKeepsInv
<1>2. AdcInv => ReadingsAlternate
  BY DEF AdcInv
<1> QED
  BY AdcInitInv, <1>1, <1>2, PTL DEF AdcSpec

-----------------------------------------------------------------------------
(* The clock.                                                              *)

LEMMA Products ==
  ASSUME NEW a \in Int, NEW b \in Int, NEW n \in Int
  PROVE  /\ a * n \in Int
         /\ (a + b) * n = a * n + b * n
         /\ (a - b) * n = a * n - b * n
OBVIOUS

LEMMA ProductAssociates ==
  ASSUME NEW a \in Int, NEW b \in Int, NEW c \in Int
  PROVE  (a * b) * c = a * (c * b)
OBVIOUS

(* A quotient and its remainder are the only ones.                         *)
LEMMA OneQuotient ==
  ASSUME NEW n \in Nat \ {0}, NEW i \in Int, NEW j \in Int,
         NEW r \in 0 .. n - 1, NEW s \in 0 .. n - 1, i * n + r = j * n + s
  PROVE  i = j /\ r = s
<1>1. i * n \in Int /\ j * n \in Int
  OBVIOUS
<1>2. ASSUME NEW x \in Int, NEW y \in Int, x < y
      PROVE  x * n + n <= y * n
  <2>1. y - x - 1 \in Nat
    BY <1>2
  <2>2. (y - x - 1) * n \in Nat
    BY <2>1
  <2>3. (y - x - 1) * n = y * n - x * n - n
    <3>1. (y - x - 1) * n = (y - x) * n - 1 * n
      BY Products
    <3>2. (y - x) * n = y * n - x * n
      BY Products
    <3> QED  BY <3>1, <3>2
  <2> QED  BY <2>2, <2>3
<1>3. ~(i < j)
  BY <1>1, <1>2
<1>4. ~(j < i)
  BY <1>1, <1>2
<1> QED  BY <1>1, <1>3, <1>4

LEMMA QuotientOf ==
  ASSUME NEW n \in Nat \ {0}, NEW i \in Nat
  PROVE  /\ i \div n \in Nat /\ i % n \in 0 .. n - 1
         /\ i = (i \div n) * n + (i % n)
OBVIOUS

(* The counter's laps: what its next count adds.                           *)
LEMMA NextQuotient ==
  ASSUME NEW n \in Nat \ {0}, NEW i \in Nat
  PROVE  (i + 1) \div n = IF (i + 1) % n = 0 THEN (i \div n) + 1 ELSE i \div n
<1> DEFINE q == i \div n
           r == i % n
           p == (i + 1) \div n
           s == (i + 1) % n
<1>1. q \in Nat /\ r \in 0 .. n - 1 /\ i = q * n + r
  BY QuotientOf
<1>2. p \in Nat /\ s \in 0 .. n - 1 /\ i + 1 = p * n + s
  <2>1. i + 1 \in Nat
    OBVIOUS
  <2> QED  BY <2>1, QuotientOf
<1> HIDE DEF q, r, p, s
<1>3. CASE r = n - 1
  <2>1. (q + 1) * n = q * n + 1 * n /\ 1 * n = n /\ q * n \in Int
    BY <1>1, Products
  <2>2. (q + 1) * n + 0 = p * n + s
    BY <1>1, <1>2, <1>3, <2>1
  <2>3. q + 1 = p /\ s = 0
    BY <1>1, <1>2, <2>2, OneQuotient
  <2> QED  BY <2>3 DEF q, p, s
<1>4. CASE r # n - 1
  <2>1. r + 1 \in 0 .. n - 1 /\ r + 1 # 0 /\ q * n \in Int
    BY <1>1, <1>4, Products
  <2>2. q * n + (r + 1) = p * n + s
    BY <1>1, <1>2, <2>1
  <2>3. q \in Int /\ p \in Int
    BY <1>1, <1>2
  <2>4. q = p /\ r + 1 = s
    BY <1>2, <2>1, <2>2, <2>3, OneQuotient
  <2> QED  BY <2>1, <2>4 DEF q, p, s
<1> QED  BY <1>3, <1>4

(* A lap of the slave in microseconds, and the laps that are over.         *)
LapTime == MasterPeriod * SlavePeriod

Laps == usec \div LapTime

LEMMA LapTimeType ==
  /\ MasterPeriod \in Nat \ {0} /\ SlavePeriod \in Nat \ {0}
  /\ LapTime \in Nat \ {0}
  /\ SlavePeriod * MasterPeriod = LapTime
BY ClockAssumption DEF LapTime

(* The two hardware counters show the time since the last lap.             *)
LEMMA HardwareShows ==
  ASSUME usec \in Nat
  PROVE  /\ Laps \in Nat
         /\ MasterCnt \in 0 .. MasterPeriod - 1 /\ SlaveCnt \in Nat
         /\ SlaveCnt * MasterPeriod + MasterCnt = usec - Laps * LapTime
<1> DEFINE a == usec \div MasterPeriod
           r == usec % MasterPeriod
           b == a \div SlavePeriod
           t == a % SlavePeriod
           w == usec % LapTime
<1>1. a \in Nat /\ r \in 0 .. MasterPeriod - 1 /\ usec = a * MasterPeriod + r
  BY LapTimeType, QuotientOf
<1>2. Laps \in Nat /\ w \in 0 .. LapTime - 1 /\ usec = Laps * LapTime + w
  BY LapTimeType, QuotientOf DEF Laps
<1>3. MasterCnt = r /\ SlaveCnt = t
  BY DEF MasterCnt, SlaveCnt
<1> HIDE DEF a, r, w
<1>4. b \in Nat /\ t \in 0 .. SlavePeriod - 1 /\ a = b * SlavePeriod + t
  BY <1>1, LapTimeType, QuotientOf
<1> HIDE DEF b, t
<1>5. a * MasterPeriod = b * LapTime + t * MasterPeriod
  <2>1. b * SlavePeriod \in Int /\ t \in Int
    BY <1>4, LapTimeType
  <2>2. a * MasterPeriod = (b * SlavePeriod) * MasterPeriod + t * MasterPeriod
    BY <1>4, <2>1, LapTimeType, Products
  <2>3. (b * SlavePeriod) * MasterPeriod = b * (MasterPeriod * SlavePeriod)
    BY <1>4, LapTimeType, ProductAssociates
  <2> QED  BY <2>2, <2>3 DEF LapTime
<1>6. t * MasterPeriod + r \in 0 .. LapTime - 1
  <2>1. t * MasterPeriod \in Nat
    BY <1>4, LapTimeType
  <2>2. (SlavePeriod - 1 - t) * MasterPeriod \in Nat
    <3>1. SlavePeriod - 1 - t \in Nat
      BY <1>4, LapTimeType
    <3> QED  BY <3>1, LapTimeType
  <2>3. (SlavePeriod - 1 - t) * MasterPeriod
          = LapTime - MasterPeriod - t * MasterPeriod
    <3>1. SlavePeriod - 1 \in Int /\ SlavePeriod \in Int /\ 1 \in Int
          /\ t \in Int /\ MasterPeriod \in Int
      BY <1>4, LapTimeType
    <3>2. (SlavePeriod - 1 - t) * MasterPeriod
            = (SlavePeriod - 1) * MasterPeriod - t * MasterPeriod
      BY <3>1, Products
    <3>3. (SlavePeriod - 1) * MasterPeriod
            = SlavePeriod * MasterPeriod - 1 * MasterPeriod
      BY <3>1, Products
    <3>4. 1 * MasterPeriod = MasterPeriod
      BY <3>1
    <3> QED  BY <3>2, <3>3, <3>4, LapTimeType
  <2> DEFINE up == t * MasterPeriod
  <2> HIDE DEF up
  <2>4. up \in Nat /\ LapTime - MasterPeriod - up \in Nat
    BY <2>1, <2>2, <2>3 DEF up
  <2>5. up + r \in 0 .. LapTime - 1
    BY <1>1, <2>4, LapTimeType
  <2> QED  BY <2>5 DEF up
<1>7. b * LapTime + (t * MasterPeriod + r) = Laps * LapTime + w
  <2>1. b * LapTime \in Int /\ t * MasterPeriod \in Int
    BY <1>4, LapTimeType
  <2>2. usec = (b * LapTime + t * MasterPeriod) + r
    BY <1>1, <1>5
  <2> QED  BY <1>1, <1>2, <2>1, <2>2
<1>8. t * MasterPeriod + r = w
  <2> DEFINE past == t * MasterPeriod + r
  <2>1. past \in 0 .. LapTime - 1 /\ b * LapTime + past = Laps * LapTime + w
    BY <1>6, <1>7
  <2> HIDE DEF past
  <2>2. b \in Int /\ Laps \in Int /\ LapTime \in Nat \ {0}
    BY <1>2, <1>4, LapTimeType
  <2>3. past = w
    BY <1>2, <2>1, <2>2, OneQuotient
  <2> QED  BY <2>3 DEF past
<1>9. w = usec - Laps * LapTime
  <2> DEFINE before == Laps * LapTime
  <2>1. before \in Int /\ usec = before + w /\ w \in Int
    BY <1>2, LapTimeType
  <2> HIDE DEF before
  <2>2. w = usec - before
    BY <2>1
  <2> QED  BY <2>2 DEF before
<1>10. SlaveCnt * MasterPeriod + MasterCnt = t * MasterPeriod + r
  BY <1>3
<1>11. SlaveCnt * MasterPeriod + MasterCnt = usec - Laps * LapTime
  BY <1>8, <1>9, <1>10
<1>12. SlaveCnt \in Nat /\ MasterCnt \in 0 .. MasterPeriod - 1
  BY <1>1, <1>3, <1>4, LapTimeType
<1> QED  BY <1>2, <1>11, <1>12

(* Laps the update interrupt has counted: the last may still be pending.   *)
Counted == Laps - (IF lapOver THEN 1 ELSE 0)

(* The laps over at a moment of the call, or counted at one.               *)
CallLaps == Laps - crossed .. Laps

(* What a read of each term gave, at some moment of the call.              *)
CounterGave(c) == \E k \in CallLaps : c = k * LapTime

SlaveGave(s) ==
  \E l \in CallLaps, x \in calledAt - MasterPeriod + 1 .. usec : s = x - l * LapTime

MasterGave(m) == m \in 0 .. MasterPeriod - 1

SumOf(terms, c, s, m) ==
  /\ IF "counter" \in terms THEN c = 0 ELSE CounterGave(c)
  /\ IF "slave" \in terms THEN s = 0 ELSE SlaveGave(s)
  /\ IF "master" \in terms THEN m = 0 ELSE MasterGave(m)

CallInv ==
  /\ calledAt <= usec
  /\ lapOver => crossed >= 1
  /\ \E c, s, m \in Int : sum = c + s + m /\ SumOf(unread, c, s, m)

ClockTyped ==
  /\ usec \in Nat /\ calledAt \in Nat /\ crossed \in Nat
  /\ sum \in Int /\ lapOver \in BOOLEAN

ClockInv ==
  /\ ClockTyped
  /\ msecCounter = Counted * SlavePeriod
  /\ unread # {} => CallInv
  /\ TimeTold

LEMMA ClockInitInv == ClockInit => ClockInv
<1> SUFFICES ASSUME ClockInit  PROVE ClockInv
  OBVIOUS
<1>1. Laps = 0
  BY LapTimeType DEF Laps, ClockInit
<1>2. msecCounter = Counted * SlavePeriod
  BY <1>1, LapTimeType DEF Counted, ClockInit
<1>3. TimeTold
  <2>1. told.crossed = 0 /\ told.behind = 0 /\ told.ahead = 0
    BY DEF ClockInit, Exact
  <2>2. 0 * SlavePeriod * MasterPeriod = 0
    BY LapTimeType
  <2> QED  BY <2>1, <2>2, LapTimeType DEF TimeTold
<1>4. ClockTyped
  <2>1. lapOver \in BOOLEAN
    BY Zenon DEF ClockInit
  <2>2. usec \in Nat /\ calledAt \in Nat /\ crossed \in Nat /\ sum \in Int
    BY DEF ClockInit
  <2> QED  BY <2>1, <2>2 DEF ClockTyped
<1>5. unread = {}
  BY DEF ClockInit
<1> QED  BY <1>2, <1>3, <1>4, <1>5 DEF ClockInv

LEMMA LapsStay ==
  ASSUME UNCHANGED usec
  PROVE  Laps' = Laps
BY DEF Laps

(* While it counts, what was read before stays within the call.            *)
LEMMA CountUpKeepsInv ==
  ASSUME ClockInv, CountUp
  PROVE  ClockInv'
<1>1. usec \in Nat /\ usec' = usec + 1 /\ Laps \in Nat
  BY HardwareShows DEF CountUp, ClockInv, ClockTyped
<1>2. Wraps <=> (usec + 1) % LapTime = 0
  BY DEF Wraps, LapTime
<1>3. Laps' = IF Wraps THEN Laps + 1 ELSE Laps
  BY <1>1, <1>2, LapTimeType, NextQuotient DEF Laps
<1>4. Counted' = Counted
  <2>1. CASE Wraps
    <3>1. ~lapOver /\ lapOver'
      BY <2>1 DEF CountUp
    <3> QED  BY <1>1, <1>3, <2>1, <3>1 DEF Counted
  <2>2. CASE ~Wraps
    BY <1>3, <2>2 DEF Counted, CountUp, ClockInv, ClockTyped
  <2> QED  BY <2>1, <2>2
<1>5. ClockTyped'
  BY <1>1 DEF CountUp, ClockInv, ClockTyped
<1>6. ASSUME unread' # {}  PROVE CallInv'
  <2>1. CallInv /\ unread' = unread /\ sum' = sum /\ calledAt' = calledAt
    BY <1>6 DEF CountUp, ClockInv
  <2>2. CallLaps \subseteq CallLaps' /\ Laps \in Int /\ crossed \in Nat
        /\ crossed' = IF Wraps THEN crossed + 1 ELSE crossed
    BY <1>1, <1>3, <1>6 DEF CallLaps, CountUp, ClockInv, ClockTyped
  <2>3. calledAt' <= usec' /\ (lapOver' => crossed' >= 1)
    BY <1>1, <2>1, <2>2 DEF CallInv, CountUp, ClockInv, ClockTyped
  <2>4. PICK c \in Int, s \in Int, m \in Int :
          sum = c + s + m /\ SumOf(unread, c, s, m)
    BY <2>1 DEF CallInv
  <2>5. CounterGave(c) => CounterGave(c)'
    BY <2>2 DEF CounterGave
  <2>6. SlaveGave(s) => SlaveGave(s)'
    <3>1. calledAt - MasterPeriod + 1 .. usec
            \subseteq (calledAt - MasterPeriod + 1 .. usec)'
      BY <1>1, <2>1, LapTimeType DEF ClockInv, ClockTyped
    <3> QED  BY <2>2, <3>1 DEF SlaveGave
  <2>7. SumOf(unread, c, s, m)'
    BY <2>1, <2>4, <2>5, <2>6 DEF SumOf, MasterGave
  <2> QED  BY <2>1, <2>3, <2>4, <2>7 DEF CallInv
<1>7. TimeTold'
  BY DEF CountUp, ClockInv, TimeTold
<1> QED  BY <1>4, <1>5, <1>6, <1>7 DEF CountUp, ClockInv

LEMMA UpdateInterruptKeepsInv ==
  ASSUME ClockInv, UpdateInterrupt
  PROVE  ClockInv'
<1>1. Laps' = Laps /\ Laps \in Nat /\ lapOver /\ ~lapOver'
  BY LapsStay, HardwareShows DEF UpdateInterrupt, ClockInv, ClockTyped
<1>2. msecCounter' = Counted' * SlavePeriod
  <2>1. msecCounter' = (Laps - 1) * SlavePeriod + SlavePeriod
    BY <1>1 DEF UpdateInterrupt, Lap, ClockInv, Counted
  <2>2. (Laps - 1) * SlavePeriod = Laps * SlavePeriod - 1 * SlavePeriod
    BY <1>1, LapTimeType, Products
  <2>3. 1 * SlavePeriod = SlavePeriod /\ Laps * SlavePeriod \in Int
        /\ SlavePeriod \in Int
    BY <1>1, LapTimeType
  <2>4. msecCounter' = Laps * SlavePeriod
    BY <2>1, <2>2, <2>3
  <2>5. Counted' = Laps
    BY <1>1 DEF Counted
  <2> QED  BY <2>4, <2>5
<1>3. unread' # {} => CallInv'
  BY <1>1 DEF UpdateInterrupt, ClockInv, CallInv, SumOf, CounterGave, SlaveGave,
              MasterGave, CallLaps
<1>4. TimeTold'
  BY DEF UpdateInterrupt, ClockInv, TimeTold
<1> QED  BY <1>2, <1>3, <1>4 DEF UpdateInterrupt, ClockInv, ClockTyped

LEMMA CallTimeKeepsInv ==
  ASSUME ClockInv, NEW function, NEW irqOff, CallTime(function, irqOff)
  PROVE  ClockInv'
<1>1. Laps' = Laps /\ Counted' = Counted
  BY LapsStay DEF CallTime, Counted
<1>2. ClockTyped'
  BY DEF CallTime, ClockInv, ClockTyped
<1>3. "counter" \in unread' /\ "slave" \in unread'
  BY DEF CallTime, Terms
<1>4. SumOf(unread, 0, 0, 0)'
  BY <1>3, LapTimeType DEF SumOf, MasterGave
<1>5. sum' = 0 + 0 + 0
  BY DEF CallTime
<1>6. calledAt' <= usec' /\ (lapOver' => crossed' >= 1)
  BY DEF CallTime, ClockInv, ClockTyped
<1>7. CallInv'
  BY <1>4, <1>5, <1>6 DEF CallInv
<1>8. TimeTold'
  BY DEF CallTime, ClockInv, TimeTold
<1> QED  BY <1>1, <1>2, <1>7, <1>8 DEF ClockInv, CallTime

(* What each of the three reads gives.                                     *)
LEMMA CounterRead ==
  ASSUME ClockInv, CallInv
  PROVE  Value("counter") \in Int /\ CounterGave(Value("counter"))
<1>1. Laps \in Nat /\ Counted \in Int
  BY HardwareShows DEF Counted, ClockInv, ClockTyped
<1>2. Value("counter") = (Counted * SlavePeriod) * MasterPeriod
  BY DEF Value, ClockInv
<1>3. (Counted * SlavePeriod) * MasterPeriod = Counted * LapTime
  BY <1>1, LapTimeType, ProductAssociates DEF LapTime
<1>4. Counted \in CallLaps
  BY <1>1 DEF Counted, CallLaps, CallInv, ClockInv, ClockTyped
<1> QED  BY <1>1, <1>2, <1>3, <1>4, LapTimeType DEF CounterGave

LEMMA SlaveRead ==
  ASSUME ClockInv, CallInv
  PROVE  Value("slave") \in Int /\ SlaveGave(Value("slave"))
<1> DEFINE before == Laps * LapTime
           count == SlaveCnt * MasterPeriod
<1>1. Laps \in Nat /\ MasterCnt \in 0 .. MasterPeriod - 1 /\ usec \in Nat
      /\ before \in Int /\ count \in Int /\ count + MasterCnt = usec - before
  BY HardwareShows, LapTimeType DEF ClockInv, ClockTyped
<1>2. Value("slave") = count
  BY DEF Value
<1>3. Laps \in CallLaps
  BY <1>1 DEF CallLaps, ClockInv, ClockTyped
<1> DEFINE x == usec - MasterCnt
<1>4. x \in calledAt - MasterPeriod + 1 .. usec
  BY <1>1, LapTimeType DEF CallInv, ClockInv, ClockTyped
<1> SUFFICES SlaveGave(count)
  BY <1>1, <1>2
<1> HIDE DEF before, count
<1>5. count = x - before
  BY <1>1, LapTimeType
<1> QED  BY <1>3, <1>4, <1>5 DEF SlaveGave, before

(* When all is read, the sum is a time of the call, to a count of the      *)
(* slave and to the laps that were read in one term and not in the other.  *)
LEMMA SumIsRight ==
  ASSUME ClockInv, NEW c \in Int, NEW s \in Int, NEW m \in Int,
         CounterGave(c), SlaveGave(s), MasterGave(m)
  PROVE  \E laps \in -crossed .. crossed :
           LET off == laps * SlavePeriod * MasterPeriod
           IN  /\ calledAt - (c + s + m) - off < MasterPeriod
               /\ (c + s + m) - usec + off < MasterPeriod
<1>1. PICK k \in CallLaps : c = k * LapTime
  BY DEF CounterGave
<1>2. PICK l \in CallLaps, x \in calledAt - MasterPeriod + 1 .. usec :
        s = x - l * LapTime
  BY DEF SlaveGave
<1>3. Laps \in Nat /\ crossed \in Nat /\ calledAt \in Nat /\ usec \in Nat
  BY HardwareShows DEF ClockInv, ClockTyped
<1>4. k \in Int /\ l \in Int /\ l - k \in -crossed .. crossed
  BY <1>3 DEF CallLaps
<1> DEFINE far == l * LapTime
           off == (l - k) * SlavePeriod * MasterPeriod
<1>5. far \in Int /\ off \in Int /\ off = far - c
  <2>1. off = (l - k) * LapTime
    BY <1>4, LapTimeType, ProductAssociates DEF LapTime
  <2>2. (l - k) * LapTime = l * LapTime - k * LapTime
    BY <1>4, LapTimeType, Products
  <2> QED  BY <1>1, <1>4, <2>1, <2>2, LapTimeType
<1>6. s = x - far
  BY <1>2
<1> HIDE DEF far, off
<1>7. calledAt - (c + s + m) - off < MasterPeriod
      /\ (c + s + m) - usec + off < MasterPeriod
  BY <1>2, <1>3, <1>5, <1>6, LapTimeType DEF MasterGave
<1> QED  BY <1>4, <1>7 DEF off

LEMMA ReadTermKeepsInv ==
  ASSUME ClockInv, NEW term \in {"counter", "slave", "master"}, ReadTerm(term)
  PROVE  ClockInv'
<1>1. CallInv /\ term \in unread /\ unread' = unread \ {term}
  BY DEF ReadTerm, ClockInv
<1>2. Laps' = Laps /\ Counted' = Counted
  BY LapsStay DEF ReadTerm, Counted
<1>3. MasterGave(Value("master")) /\ Value("master") \in Int
  BY HardwareShows, LapTimeType DEF MasterGave, Value, ClockInv, ClockTyped
<1>4. PICK c \in Int, s \in Int, m \in Int :
        sum = c + s + m /\ SumOf(unread, c, s, m)
  BY <1>1 DEF CallInv
<1>5. \E d, e, f \in Int : sum' = d + e + f /\ SumOf(unread', d, e, f)
  <2>1. CASE term = "counter"
    <3>1. c = 0 /\ sum' = Value("counter") + s + m
      BY <1>1, <1>4, <2>1, CounterRead DEF SumOf, ReadTerm
    <3>2. SumOf(unread', Value("counter"), s, m)
      BY <1>1, <1>4, <2>1, CounterRead DEF SumOf
    <3> QED  BY <1>1, <3>1, <3>2, CounterRead
  <2>2. CASE term = "slave"
    <3>1. s = 0 /\ sum' = c + Value("slave") + m
      BY <1>1, <1>4, <2>2, SlaveRead DEF SumOf, ReadTerm
    <3>2. SumOf(unread', c, Value("slave"), m)
      BY <1>1, <1>4, <2>2, SlaveRead DEF SumOf
    <3> QED  BY <1>1, <3>1, <3>2, SlaveRead
  <2>3. CASE term = "master"
    <3>1. m = 0 /\ sum' = c + s + Value("master")
      BY <1>1, <1>3, <1>4, <2>3 DEF SumOf, ReadTerm
    <3>2. SumOf(unread', c, s, Value("master"))
      BY <1>1, <1>3, <1>4, <2>3 DEF SumOf
    <3> QED  BY <1>3, <3>1, <3>2
  <2> QED  BY <2>1, <2>2, <2>3
<1>6. CallInv'
  BY <1>1, <1>2, <1>5 DEF ReadTerm, CallInv, SumOf, CounterGave, SlaveGave,
                          MasterGave, CallLaps
<1>7. ClockTyped'
  BY <1>5 DEF ReadTerm, ClockInv, ClockTyped
<1>8. TimeTold'
  <2>1. CASE unread' # {}
    BY <2>1 DEF ReadTerm, ClockInv, TimeTold
  <2>2. CASE unread' = {}
    <3>1. PICK d \in Int, e \in Int, f \in Int :
            /\ sum' = d + e + f
            /\ CounterGave(d) /\ SlaveGave(e) /\ MasterGave(f)
      BY <1>5, <2>2 DEF SumOf
    <3>2. told'.crossed = crossed /\ told'.behind = calledAt - sum'
          /\ told'.ahead = sum' - usec
      BY <2>2 DEF ReadTerm
    <3> QED  BY <3>1, <3>2, SumIsRight DEF TimeTold
  <2> QED  BY <2>1, <2>2
<1> QED  BY <1>2, <1>6, <1>7, <1>8 DEF ClockInv, ReadTerm

LEMMA ClockStepKeepsInv == ClockInv /\ [ClockNext]_clockVars => ClockInv'
<1> SUFFICES ASSUME ClockInv, [ClockNext]_clockVars  PROVE ClockInv'
  OBVIOUS
<1>1. CASE CountUp
  BY <1>1, CountUpKeepsInv
<1>2. CASE UpdateInterrupt
  BY <1>2, UpdateInterruptKeepsInv
<1>3. CASE \E function \in {"usec_time", "msec_time"}, irqOff \in BOOLEAN :
             CallTime(function, irqOff)
  BY <1>3, CallTimeKeepsInv
<1>4. CASE \E term \in {"counter", "slave", "master"} : ReadTerm(term)
  BY <1>4, ReadTermKeepsInv
<1>5. CASE UNCHANGED clockVars
  BY <1>5 DEF clockVars, ClockInv, ClockTyped, CallInv, SumOf, CounterGave,
              SlaveGave, MasterGave, CallLaps, Counted, Laps, TimeTold
<1> QED  BY <1>1, <1>2, <1>3, <1>4, <1>5 DEF ClockNext

(***************************************************************************)
(* For any periods of the two counters and any time, whatever the order of *)
(* the reads and whenever the update interrupt is served: the time a call  *)
(* tells is of the call, to a count of the slave and to the laps that      *)
(* ended in it or were not counted when it began (systimer.c:46-54).       *)
(***************************************************************************)
THEOREM TimeStaysTold == ClockSpec => []TimeTold
<1>1. ClockInv => TimeTold
  BY DEF ClockInv
<1> QED  BY ClockInitInv, ClockStepKeepsInv, <1>1, PTL DEF ClockSpec

-----------------------------------------------------------------------------
(* Memory: blocks are apart, for any heap, sizes and alignment, and        *)
(* wherever the C library puts what it allocates.                          *)

(* What malloc returned for a block and the size it was asked for bound    *)
(* what may be written on its behalf: no two such ranges meet.             *)
Within(b) ==
  /\ b.size \in Nat \ {0} /\ b.from \in Nat /\ b.at \in Nat
  /\ HeapBegin <= b.from /\ b.from + 4 <= b.at
  /\ b.at <= b.from + Offset
  /\ b.from + b.size + Offset <= heapEnd

Apart(b, c) == b.from + b.size + Offset <= c.from \/ c.from + c.size + Offset <= b.from

MemoryInv ==
  /\ heapEnd \in Nat /\ heapEnd <= HeapLimit
  /\ (heapEnd # 0 => HeapBegin <= heapEnd)
  /\ stored \in [Address -> Nat]
  /\ \A b \in blocks : Within(b) /\ stored[b.at - 4] = b.from
  /\ \A b, c \in blocks : b = c \/ Apart(b, c)

USE MemoryAssumption

LEMMA OffsetIsNat == Offset \in Nat /\ Offset = Alignment + 3
BY DEF Offset

(* The aligned address lies between the pointer's word and the end of what *)
(* was added to the size.                                                  *)
LEMMA AlignedIsInside ==
  ASSUME NEW p \in Nat
  PROVE  /\ AlignDown(p + Offset) \in Nat
         /\ p + 4 <= AlignDown(p + Offset)
         /\ AlignDown(p + Offset) <= p + Offset
<1>1. p + Offset \in Nat /\ Alignment \in Nat \ {0}
  BY OffsetIsNat
<1>2. (p + Offset) % Alignment \in 0 .. Alignment - 1
  BY <1>1
<1> QED  BY <1>1, <1>2, OffsetIsNat DEF AlignDown

LEMMA RoundedIsEnough ==
  ASSUME NEW n \in Nat
  PROVE  Rounded(n) \in Nat /\ n <= Rounded(n)
BY DEF Rounded

LEMMA WordIsInHeap ==
  ASSUME MemoryInv, NEW b, Within(b)
  PROVE  b.at - 4 \in Address
<1>1. heapEnd \in Nat /\ heapEnd <= HeapLimit
  BY DEF MemoryInv
<1>2. b.size \in Nat /\ b.from \in Nat /\ b.at \in Nat
  BY DEF Within
<1>3. HeapBegin <= b.at - 4 /\ b.at <= heapEnd
  BY <1>1, <1>2, OffsetIsNat DEF Within
<1> QED  BY <1>1, <1>2, <1>3 DEF Address

(* A block that malloc puts at a place apart from the others, in memory    *)
(* the library has.                                                        *)
LEMMA HandedKeepsInv ==
  ASSUME MemoryInv, NEW n \in Request, NEW p \in Nat,
         HeapBegin <= p, p + n + Offset <= heapEnd',
         \A b \in blocks : p + n + Offset <= b.from \/ b.from + b.size + Offset <= p,
         heapEnd' \in Nat, heapEnd <= heapEnd', heapEnd' <= HeapLimit,
         Handed(Block(p, n))
  PROVE  MemoryInv'
<1> DEFINE new == Block(p, n)
<1>1. n \in Nat \ {0} /\ Offset \in Nat
  BY OffsetIsNat
<1>2. new.size = n /\ new.from = p /\ new.at = AlignDown(p + Offset)
  BY DEF Block
<1>3. new.at \in Nat /\ p + 4 <= new.at /\ new.at <= p + Offset
  BY <1>2, AlignedIsInside
<1>4. new.at - 4 \in Address
  BY <1>1, <1>3 DEF Address
<1>5. blocks' = blocks \cup {new} /\ stored' = [stored EXCEPT ![new.at - 4] = p]
  BY <1>2 DEF Handed
<1> HIDE DEF new
<1>6. stored' \in [Address -> Nat]
  BY <1>5 DEF MemoryInv
<1>7. Within(new)' /\ stored'[new.at - 4] = new.from
  BY <1>1, <1>2, <1>3, <1>4, <1>5 DEF Within, MemoryInv, Offset
<1>8. ASSUME NEW b \in blocks
      PROVE  Within(b)' /\ stored'[b.at - 4] = b.from /\ Apart(b, new)
  <2>1. Within(b) /\ stored[b.at - 4] = b.from /\ Apart(b, new)
    BY <1>2 DEF MemoryInv, Apart
  <2>2. b.at - 4 # new.at - 4
    BY <1>1, <1>2, <1>3, <2>1 DEF Within, Apart
  <2>3. b.at - 4 \in Address
    BY <2>1, WordIsInHeap
  <2> QED  BY <1>1, <1>5, <2>1, <2>2, <2>3 DEF Within, MemoryInv, Offset
<1>9. \A b, c \in blocks' : b = c \/ Apart(b, c)
  BY <1>5, <1>8 DEF MemoryInv, Apart
<1>10. heapEnd' # 0 => HeapBegin <= heapEnd'
  BY <1>1
<1> QED  BY <1>5, <1>6, <1>7, <1>8, <1>9, <1>10 DEF MemoryInv, Apart

LEMMA AllocationKeepsInv ==
  ASSUME MemoryInv, NEW n \in Request, MallocAligned(n)
  PROVE  MemoryInv'
<1>1. n \in Nat \ {0} /\ Offset \in Nat
  BY OffsetIsNat
<1>2. HeapEnd \in Nat /\ HeapBegin <= HeapEnd /\ heapEnd <= HeapEnd /\ HeapEnd <= HeapLimit
  BY DEF HeapEnd, MemoryInv
<1>3. CASE /\ \E p \in FreePlaces(n + Offset) : Handed(Block(p, n))
           /\ UNCHANGED <<heapEnd, refused>>
  <2>1. PICK p \in FreePlaces(n + Offset) : Handed(Block(p, n))
    BY <1>3
  <2>2. /\ p \in Nat /\ HeapBegin <= p /\ p + n + Offset <= heapEnd
        /\ \A b \in blocks : p + n + Offset <= b.from \/ b.from + b.size + Offset <= p
    BY <1>1 DEF FreePlaces, Address
  <2> QED  BY <1>1, <1>3, <2>1, <2>2, HandedKeepsInv DEF MemoryInv
<1>4. CASE /\ SbrkFits(n + Offset)
           /\ Handed(Block(HeapEnd, n))
           /\ heapEnd' = HeapEnd + Rounded(n + Offset)
  <2>1. Rounded(n + Offset) \in Nat /\ n + Offset <= Rounded(n + Offset)
    BY <1>1, RoundedIsEnough
  <2>2. /\ heapEnd' \in Nat /\ heapEnd <= heapEnd' /\ heapEnd' <= HeapLimit
        /\ HeapEnd + n + Offset <= heapEnd'
    BY <1>1, <1>2, <1>4, <2>1 DEF SbrkFits, MemoryInv
  <2>3. \A b \in blocks : b.from + b.size + Offset <= HeapEnd
    BY <1>1, <1>2 DEF MemoryInv, Within
  <2> QED  BY <1>2, <1>4, <2>2, <2>3, HandedKeepsInv
<1>5. CASE heapEnd' = HeapEnd /\ UNCHANGED <<stored, blocks>>
  BY <1>1, <1>2, <1>5 DEF MemoryInv, Within, Apart, Offset
<1> QED  BY <1>3, <1>4, <1>5 DEF MallocAligned

(* Filling a block leaves the words before the blocks alone.               *)
LEMMA FillingKeepsInv ==
  ASSUME MemoryInv, NEW b \in blocks, Fill(b)
  PROVE  MemoryInv'
<1>1. stored' \in [Address -> Nat]
  BY DEF Fill, MemoryInv
<1>2. ASSUME NEW c \in blocks
      PROVE  stored'[c.at - 4] = c.from
  <2>1. Within(b) /\ Within(c) /\ (b = c \/ Apart(b, c)) /\ Offset \in Nat
    BY OffsetIsNat DEF MemoryInv
  <2>2. c.at - 4 \notin b.at .. b.at + b.size - 1
    BY <2>1 DEF Within, Apart
  <2>3. c.at - 4 \in Address
    BY <2>1, WordIsInHeap
  <2> QED  BY <2>2, <2>3 DEF Fill, MemoryInv
<1> QED  BY <1>1, <1>2 DEF Fill, MemoryInv, Within, Apart

LEMMA MemoryStepKeepsInv == MemoryInv /\ [MemoryNext]_memoryVars => MemoryInv'
<1> SUFFICES ASSUME MemoryInv, [MemoryNext]_memoryVars PROVE MemoryInv'
  OBVIOUS
<1>1. ASSUME NEW n \in Request, MallocAligned(n) PROVE MemoryInv'
  BY <1>1, AllocationKeepsInv
<1>2. ASSUME NEW b \in blocks, Fill(b) PROVE MemoryInv'
  BY <1>2, FillingKeepsInv
<1>3. ASSUME NEW b \in blocks, FreeAligned(b) PROVE MemoryInv'
  <2>1. blocks' \subseteq blocks /\ UNCHANGED <<heapEnd, stored>>
    BY <1>3 DEF FreeAligned
  <2> QED  BY <2>1 DEF MemoryInv, Within, Apart
<1>4. CASE UNCHANGED memoryVars
  BY <1>4 DEF memoryVars, MemoryInv, Within, Apart
<1> QED  BY <1>1, <1>2, <1>3, <1>4 DEF MemoryNext

LEMMA InvKeepsBlocksApart == MemoryInv => BlocksApart
<1> SUFFICES ASSUME MemoryInv, NEW b \in blocks
             PROVE  /\ HeapBegin <= b.from /\ b.from + 4 <= b.at
                    /\ b.at + b.size <= heapEnd /\ heapEnd <= HeapLimit
                    /\ stored[b.at - 4] = b.from
                    /\ \A c \in blocks : b = c \/ b.at + b.size <= c.at - 4
                                               \/ c.at + c.size <= b.at - 4
  BY DEF BlocksApart
<1>1. Within(b) /\ Offset \in Nat /\ stored[b.at - 4] = b.from /\ heapEnd <= HeapLimit
  BY OffsetIsNat DEF MemoryInv
<1>2. heapEnd \in Nat
  BY DEF MemoryInv
<1>3. ASSUME NEW c \in blocks, b # c
      PROVE  b.at + b.size <= c.at - 4 \/ c.at + c.size <= b.at - 4
  <2>1. Within(c) /\ Apart(b, c)
    BY <1>3 DEF MemoryInv
  <2> QED  BY <1>1, <2>1 DEF Within, Apart
<1> QED  BY <1>1, <1>2, <1>3 DEF Within

(* Blocks lie apart in the memory given out, each with malloc's pointer    *)
(* before it, whatever was allocated, written and freed (memory.h:30-45).  *)
THEOREM MemoryStaysApart == MemorySpec => []BlocksApart
<1>1. MemoryInit => MemoryInv
  BY DEF MemoryInit, MemoryInv
<1> QED  BY <1>1, MemoryStepKeepsInv, InvKeepsBlocksApart, PTL DEF MemorySpec

HIDE MemoryAssumption

-----------------------------------------------------------------------------
(* Shell: what runs is what is shown, for lines that leave a byte of the   *)
(* buffer for the end of the string.                                       *)

LinesFit == MaxLine < IoSize

Cell == Key \cup {"NUL", "BS", "LF", "CR", "ETX", "ESC"}

(* Left of the cursor the buffer holds what the terminal shows.            *)
ShellInv ==
  /\ at \in 0 .. MaxLine
  /\ buffer \in [0 .. IoSize - 1 -> Cell]
  /\ argv \in [0 .. 1 -> Int]
  /\ screen \in Seq(Key) /\ Len(screen) = at
  /\ \A i \in 1 .. at : buffer[i - 1] = screen[i]

LEMMA LeastIndex ==
  ASSUME NEW I, NEW i \in I, I \subseteq Int, \A j \in I : i <= j
  PROVE  Min(I) = i /\ FirstOf(I) = i
<1>1. \A k \in I : (\A j \in I : k <= j) => k = i
  OBVIOUS
<1> QED  BY <1>1 DEF Min, FirstOf

-----------------------------------------------------------------------------
(* The pieces of a line, by the places where they begin and end.           *)
LEMMA SpacesFrom ==
  ASSUME NEW s \in Seq(Cell), NEW p \in 1 .. Len(s), ~IsSpace(s[p]),
         \A i \in 1 .. p - 1 : IsSpace(s[i])
  PROVE  Spaces(s) = SubSeq(s, p, Len(s))
<1> DEFINE I == {i \in 1 .. Len(s) : ~IsSpace(s[i])}
<1>1. Min(I) = p
  <2>1. I \subseteq Int /\ p \in I /\ \A j \in I : p <= j
    OBVIOUS
  <2> HIDE DEF I
  <2> QED  BY <2>1, LeastIndex
<1>2. I # {}
  OBVIOUS
<1>3. SelectInSeq(s, NotSpace) = p
  BY <1>1, <1>2 DEF SelectInSeq, NotSpace
<1> QED  BY <1>3 DEF Spaces, FromFirst

LEMMA OnlySpaces ==
  ASSUME NEW s \in Seq(Cell), \A i \in 1 .. Len(s) : IsSpace(s[i])
  PROVE  Spaces(s) = << >>
<1>1. {i \in 1 .. Len(s) : ~IsSpace(s[i])} = {}
  OBVIOUS
<1>2. SelectInSeq(s, NotSpace) = 0
  BY <1>1 DEF SelectInSeq, NotSpace
<1> QED  BY <1>2 DEF Spaces, FromFirst

LEMMA SplitAtSpace ==
  ASSUME NEW s \in Seq(Cell), NEW e \in 1 .. Len(s), IsSpace(s[e]),
         \A i \in 1 .. e - 1 : ~IsSpace(s[i])
  PROVE  /\ UpToFirst(s, IsSpace) = SubSeq(s, 1, e - 1)
         /\ FromFirst(s, IsSpace) = SubSeq(s, e, Len(s))
<1> DEFINE I == {i \in 1 .. Len(s) : IsSpace(s[i])}
<1>1. Min(I) = e
  <2>1. I \subseteq Int /\ e \in I /\ \A j \in I : e <= j
    OBVIOUS
  <2> HIDE DEF I
  <2> QED  BY <2>1, LeastIndex
<1>2. I # {}
  OBVIOUS
<1>3. SelectInSeq(s, IsSpace) = e
  BY <1>1, <1>2 DEF SelectInSeq
<1> QED  BY <1>3 DEF UpToFirst, FromFirst

LEMMA NoSpaceToSplitAt ==
  ASSUME NEW s \in Seq(Cell), \A i \in 1 .. Len(s) : ~IsSpace(s[i])
  PROVE  UpToFirst(s, IsSpace) = s /\ FromFirst(s, IsSpace) = << >>
<1>1. {i \in 1 .. Len(s) : IsSpace(s[i])} = {}
  OBVIOUS
<1>2. SelectInSeq(s, IsSpace) = 0
  BY <1>1 DEF SelectInSeq
<1> QED  BY <1>2 DEF UpToFirst, FromFirst

(* A string ends at its NUL.                                               *)
LEMMA StringIs ==
  ASSUME NEW buf \in [0 .. IoSize - 1 -> Cell], NEW a \in Nat, NEW m \in Nat,
         a + m < IoSize, buf[a + m] = "NUL",
         \A k \in 0 .. m - 1 : buf[a + k] # "NUL"
  PROVE  StringAt(buf, a) = [i \in 1 .. m |-> buf[a + i - 1]]
<1> DEFINE s == [i \in 1 .. IoSize - a |-> buf[a + i - 1]]
           I == {i \in 1 .. Len(s) : s[i] = "NUL"}
<1> USE ShellAssumption
<1>1. s \in Seq(Cell) /\ Len(s) = IoSize - a
  OBVIOUS
<1>2. Min(I) = m + 1 /\ I # {}
  <2>1. m + 1 \in 1 .. Len(s) /\ s[m + 1] = "NUL"
    BY <1>1
  <2>2. ASSUME NEW j \in 1 .. m PROVE s[j] # "NUL"
    <3>1. buf[a + (j - 1)] # "NUL"
      OBVIOUS
    <3> QED  BY <3>1
  <2> HIDE DEF s
  <2>3. m + 1 \in I /\ I \subseteq Int /\ \A j \in I : m + 1 <= j
    BY <1>1, <2>1, <2>2
  <2> HIDE DEF I
  <2>4. Min(I) = m + 1
    BY <2>3, LeastIndex
  <2> QED  BY <2>3, <2>4
<1>3. SelectInSeq(s, IsNul) = m + 1
  BY <1>2 DEF SelectInSeq, IsNul
<1>4. UpToFirst(s, IsNul) = SubSeq(s, 1, m)
  <2> HIDE DEF s
  <2> QED  BY <1>3 DEF UpToFirst
<1>5. StringAt(buf, a) = UpToFirst(s, IsNul)
  BY DEF StringAt, NoArg
<1>6. SubSeq(s, 1, m) = [i \in 1 .. m |-> buf[a + i - 1]]
  BY <1>1
<1> QED  BY <1>4, <1>5, <1>6

-----------------------------------------------------------------------------
(* A word of the line s: from p up to e, the place after it.               *)
IsFirstWord(s, p, e) ==
  /\ p \in 1 .. Len(s) /\ e \in p + 1 .. Len(s) + 1
  /\ \A i \in 1 .. p - 1 : IsSpace(s[i])
  /\ \A i \in p .. e - 1 : ~IsSpace(s[i])
  /\ e <= Len(s) => IsSpace(s[e])

(* What follows the spaces after it begins at q.                           *)
IsRest(s, e, q) ==
  /\ q \in e + 1 .. Len(s)
  /\ \A i \in e .. q - 1 : IsSpace(s[i])
  /\ ~IsSpace(s[q])

LEMMA WordIs ==
  ASSUME NEW s \in Seq(Cell), NEW p, NEW e, IsFirstWord(s, p, e)
  PROVE  /\ FirstWord(s) = [i \in 1 .. e - p |-> s[p + i - 1]]
         /\ AfterWord(s) = IF e = Len(s) + 1 THEN << >> ELSE Spaces(SubSeq(s, e, Len(s)))
<1> DEFINE r == SubSeq(s, p, Len(s))
<1>1. /\ p \in 1 .. Len(s) /\ e \in p + 1 .. Len(s) + 1
      /\ p \in Nat /\ e \in Nat /\ Len(s) \in Nat
  BY DEF IsFirstWord
<1>2. Spaces(s) = r
  BY <1>1, SpacesFrom DEF IsFirstWord
<1>3. r \in Seq(Cell) /\ Len(r) = Len(s) - p + 1 /\ \A i \in 1 .. Len(r) : r[i] = s[p + i - 1]
  BY <1>1
<1> HIDE DEF r
<1>4. \A i \in 1 .. e - p : ~IsSpace(r[i])
  <2> SUFFICES ASSUME NEW i \in 1 .. e - p PROVE ~IsSpace(r[i])
    OBVIOUS
  <2>1. p + i - 1 \in p .. e - 1 /\ i \in 1 .. Len(r)
    BY <1>1, <1>3
  <2>2. ~IsSpace(s[p + i - 1])
    BY <2>1 DEF IsFirstWord
  <2> QED  BY <1>3, <2>1, <2>2
<1>5. CASE e = Len(s) + 1
  <2>1. e - p = Len(r)
    BY <1>1, <1>3, <1>5
  <2>2. UpToFirst(r, IsSpace) = r /\ FromFirst(r, IsSpace) = << >>
    BY <1>3, <1>4, <2>1, NoSpaceToSplitAt
  <2>3. r = [i \in 1 .. e - p |-> s[p + i - 1]]
    BY <1>3, <2>1
  <2>4. Spaces(<< >>) = << >>
    <3>1. << >> \in Seq(Cell) /\ \A i \in 1 .. Len(<< >>) : IsSpace(<< >>[i])
      OBVIOUS
    <3> QED  BY <3>1, OnlySpaces
  <2> QED  BY <1>2, <1>5, <2>2, <2>3, <2>4 DEF FirstWord, AfterWord
<1>6. CASE e # Len(s) + 1
  <2> DEFINE k == e - p + 1
  <2>1. k \in 1 .. Len(r) /\ IsSpace(r[k]) /\ \A i \in 1 .. k - 1 : ~IsSpace(r[i])
    <3>1. k \in 1 .. Len(r) /\ p + k - 1 = e /\ k - 1 = e - p
      <4>1. e <= Len(s)
        BY <1>1, <1>6
      <4> QED  BY <1>1, <1>3, <4>1
    <3>2. r[k] = s[e]
      BY <1>3, <3>1
    <3> QED  BY <1>4, <1>6, <3>1, <3>2 DEF IsFirstWord
  <2>2. UpToFirst(r, IsSpace) = SubSeq(r, 1, k - 1) /\ FromFirst(r, IsSpace) = SubSeq(r, k, Len(r))
    BY <1>3, <2>1, SplitAtSpace
  <2>3. SubSeq(r, 1, k - 1) = [i \in 1 .. e - p |-> s[p + i - 1]]
    BY <1>1, <1>3, <1>6
  <2>4. SubSeq(r, k, Len(r)) = SubSeq(s, e, Len(s))
    BY <1>1, <1>3, <1>6
  <2> HIDE DEF k
  <2>5. FirstWord(s) = UpToFirst(r, IsSpace) /\ AfterWord(s) = Spaces(FromFirst(r, IsSpace))
    BY <1>2 DEF FirstWord, AfterWord
  <2> QED  BY <1>6, <2>2, <2>3, <2>4, <2>5
<1> QED  BY <1>1, <1>5, <1>6

LEMMA RestIs ==
  ASSUME NEW s \in Seq(Cell), NEW p, NEW e, IsFirstWord(s, p, e), AfterWord(s) # << >>
  PROVE  \E q : IsRest(s, e, q) /\ AfterWord(s) = [i \in 1 .. Len(s) - q + 1 |-> s[q + i - 1]]
<1> DEFINE r == SubSeq(s, e, Len(s))
           I == {i \in 1 .. Len(r) : ~IsSpace(r[i])}
<1>1. e \in 1 .. Len(s) /\ Len(s) \in Nat /\ AfterWord(s) = Spaces(r)
  <2>1. p \in 1 .. Len(s) /\ e \in p + 1 .. Len(s) + 1 /\ Len(s) \in Nat
    BY DEF IsFirstWord
  <2>2. AfterWord(s) = IF e = Len(s) + 1 THEN << >> ELSE Spaces(r)
    BY WordIs
  <2> QED  BY <2>1, <2>2
<1>2. r \in Seq(Cell) /\ Len(r) = Len(s) - e + 1 /\ \A i \in 1 .. Len(r) : r[i] = s[e + i - 1]
  BY <1>1
<1> HIDE DEF r
<1>3. I # {}
  BY <1>1, <1>2, OnlySpaces
<1>4. PICK k \in I : \A i \in I : k <= i
  <2>1. I \subseteq Nat
    OBVIOUS
  <2> QED  BY <1>3, <2>1, Numbers!LeastElement
<1>5. k \in 1 .. Len(r) /\ ~IsSpace(r[k]) /\ \A i \in 1 .. k - 1 : IsSpace(r[i])
  BY <1>2, <1>4
<1>6. Spaces(r) = SubSeq(r, k, Len(r))
  BY <1>2, <1>5, SpacesFrom
<1> DEFINE q == e + k - 1
<1>7. q \in e .. Len(s) /\ s[q] = r[k]
  BY <1>1, <1>2, <1>5
<1>8. q # e
  BY <1>1, <1>5, <1>7 DEF IsFirstWord
<1>9. ASSUME NEW i \in e .. q - 1 PROVE IsSpace(s[i])
  <2>1. i - e + 1 \in 1 .. k - 1 /\ i - e + 1 \in 1 .. Len(r) /\ e + (i - e + 1) - 1 = i
    BY <1>1, <1>2, <1>5
  <2>2. r[i - e + 1] = s[i]
    BY <1>2, <2>1
  <2> QED  BY <1>5, <2>1, <2>2
<1>10. IsRest(s, e, q)
  <2> HIDE DEF q
  <2> QED  BY <1>1, <1>5, <1>7, <1>8, <1>9 DEF IsRest
<1>11. SubSeq(r, k, Len(r)) = [i \in 1 .. Len(s) - q + 1 |-> s[q + i - 1]]
  BY <1>1, <1>2, <1>5
<1> QED  BY <1>1, <1>6, <1>10, <1>11

-----------------------------------------------------------------------------
(* The line in the buffer, ended by a NUL.                                 *)
LineIs(buf, s) ==
  /\ buf \in [0 .. IoSize - 1 -> Cell]
  /\ s \in Seq(Key) /\ Len(s) < IoSize
  /\ \A i \in 1 .. Len(s) : buf[i - 1] = s[i]
  /\ buf[Len(s)] = "NUL"

(* Where words begin, in terms of what is shown.                           *)
LEMMA StartsAre ==
  ASSUME NEW buf, NEW s, LineIs(buf, s)
  PROVE  /\ WordStarts(buf, Len(s) + 1) \subseteq 0 .. Len(s)
         /\ \A i \in 0 .. Len(s) - 1 :
              i \in WordStarts(buf, Len(s) + 1) <=>
                ~IsSpace(s[i + 1]) /\ (i = 0 \/ IsSpace(s[i]))
         /\ Len(s) \in WordStarts(buf, Len(s) + 1) <=> Len(s) = 0 \/ IsSpace(s[Len(s)])
<1>1. Len(s) \in Nat
  BY DEF LineIs
<1>2. ASSUME NEW i \in 0 .. Len(s) - 1 PROVE buf[i] = s[i + 1] /\ (i # 0 => buf[i - 1] = s[i])
  <2>1. buf[(i + 1) - 1] = s[i + 1] /\ (i # 0 => buf[i - 1] = s[i])
    BY <1>1 DEF LineIs
  <2> QED  BY <2>1
<1>3. Len(s) # 0 => buf[Len(s) - 1] = s[Len(s)]
  BY <1>1 DEF LineIs
<1>4. buf[Len(s)] = "NUL" /\ ~IsSpace("NUL")
  BY DEF LineIs, IsSpace
<1> QED  BY <1>1, <1>2, <1>3, <1>4 DEF WordStarts

Later(S) == {i \in S : \E j \in S : j < i}
ParseEnd(S, n) == IF Later(S) = {} THEN n + 1 ELSE FirstOf(Later(S))

(* What shell_parse_cmd makes of a line.                                   *)
LEMMA ParsedIs ==
  ASSUME NEW buf, NEW s, LineIs(buf, s), argv \in [0 .. 1 -> Int],
         NEW starts, starts = WordStarts(buf, Len(s) + 1), starts # {},
         NEW parsed, parsed = ShellParse(buf, Len(s) + 1)
  PROVE  /\ parsed.args[0] = FirstOf(starts)
         /\ Later(starts) # {} => parsed.args[1] = FirstOf(Later(starts))
         /\ parsed.buffer \in [0 .. IoSize - 1 -> Cell]
         /\ \A i \in 0 .. Len(s) :
              parsed.buffer[i] = IF i < ParseEnd(starts, Len(s)) /\ IsSpace(buf[i]) THEN "NUL" ELSE buf[i]
<1> DEFINE others == {i \in starts : \E j \in starts : j < i}
           end    == ParseEnd(starts, Len(s))
           args   == IF others = {} THEN [argv EXCEPT ![0] = FirstOf(starts)]
                     ELSE [argv EXCEPT ![0] = FirstOf(starts), ![1] = FirstOf(others)]
           cells  == [i \in DOMAIN buf |-> IF i = Len(s) + 1 \/ (i < end /\ IsSpace(buf[i]))
                                           THEN "NUL" ELSE buf[i]]
<1>1. others = Later(starts)
  BY DEF Later
<1>2. parsed = [args |-> args, buffer |-> cells]
  BY <1>1 DEF ShellParse, ParseEnd
<1>3. Len(s) \in Nat /\ Len(s) < IoSize /\ buf \in [0 .. IoSize - 1 -> Cell]
  BY DEF LineIs
<1>4. cells \in [0 .. IoSize - 1 -> Cell]
  BY <1>3 DEF Cell
<1>5. \A i \in 0 .. Len(s) : cells[i] = IF i < end /\ IsSpace(buf[i]) THEN "NUL" ELSE buf[i]
  BY <1>3, ShellAssumption
<1>6. args[0] = FirstOf(starts) /\ (others # {} => args[1] = FirstOf(others))
  OBVIOUS
<1> HIDE DEF args, cells, others, end
<1>7. parsed.args = args /\ parsed.buffer = cells
  BY <1>2
<1>8. parsed.buffer \in [0 .. IoSize - 1 -> Cell]
  BY <1>4, <1>7
<1>9. \A i \in 0 .. Len(s) :
        parsed.buffer[i] = IF i < end /\ IsSpace(buf[i]) THEN "NUL" ELSE buf[i]
  BY <1>5, <1>7
<1> QED  BY <1>1, <1>6, <1>7, <1>8, <1>9 DEF end

LEMMA ParsedTypes ==
  ASSUME NEW buf, NEW s, LineIs(buf, s), argv \in [0 .. 1 -> Int],
         NEW parsed, parsed = ShellParse(buf, Len(s) + 1)
  PROVE  parsed.buffer \in [0 .. IoSize - 1 -> Cell] /\ parsed.args \in [0 .. 1 -> Int]
<1> DEFINE starts == WordStarts(buf, Len(s) + 1)
           others == {i \in starts : \E j \in starts : j < i}
<1>1. Len(s) \in Nat /\ buf \in [0 .. IoSize - 1 -> Cell]
  BY DEF LineIs
<1>2. starts \subseteq Nat /\ others \subseteq Nat
  BY <1>1, StartsAre
<1>3. (starts # {} => FirstOf(starts) \in Int) /\ (others # {} => FirstOf(others) \in Int)
  <2>1. ASSUME NEW S, S \subseteq Nat, S # {} PROVE FirstOf(S) \in Int
    <3>1. PICK i \in S : \A j \in S : i <= j
      BY <2>1, Numbers!LeastElement
    <3>2. S \subseteq Int
      BY <2>1
    <3>3. FirstOf(S) = i
      BY <3>1, <3>2, LeastIndex
    <3> QED  BY <3>2, <3>3
  <2> HIDE DEF starts, others
  <2> QED  BY <1>2, <2>1
<1>4. parsed.args \in [0 .. 1 -> Int]
  BY <1>3 DEF ShellParse
<1>5. parsed.buffer \in [0 .. IoSize - 1 -> Cell]
  BY <1>1 DEF ShellParse, Cell
<1> QED  BY <1>4, <1>5

(* A line of spaces names no command.                                      *)
LEMMA EmptyLine ==
  ASSUME NEW buf, NEW s, LineIs(buf, s), argv \in [0 .. 1 -> Int],
         \A i \in 1 .. Len(s) : IsSpace(s[i]),
         NEW parsed, parsed = ShellParse(buf, Len(s) + 1)
  PROVE  /\ StringAt(parsed.buffer, parsed.args[0]) = << >>
         /\ FirstWord(s) = << >> /\ AfterWord(s) = << >>
<1> DEFINE starts == WordStarts(buf, Len(s) + 1)
<1>1. Len(s) \in Nat /\ Len(s) < IoSize /\ s \in Seq(Cell) /\ buf[Len(s)] = "NUL"
  BY DEF LineIs, Cell
<1>2. starts = {Len(s)}
  <2> HIDE DEF starts
  <2>1. starts \subseteq 0 .. Len(s) /\ Len(s) \in starts
    BY <1>1, StartsAre DEF starts
  <2>2. \A i \in 0 .. Len(s) - 1 : i \notin starts
    BY <1>1, StartsAre DEF starts
  <2>3. ASSUME NEW i \in starts PROVE i = Len(s)
    <3>1. i \in 0 .. Len(s) /\ i \notin 0 .. Len(s) - 1
      BY <2>1, <2>2
    <3> QED  BY <1>1, <3>1
  <2> QED  BY <2>1, <2>3
<1>3. Later(starts) = {} /\ FirstOf(starts) = Len(s)
  BY <1>1, <1>2 DEF FirstOf, Later
<1> HIDE DEF starts
<1>4. /\ parsed.args[0] = Len(s)
      /\ parsed.buffer \in [0 .. IoSize - 1 -> Cell] /\ parsed.buffer[Len(s)] = "NUL"
  <2>1. starts = WordStarts(buf, Len(s) + 1) /\ starts # {}
    BY <1>2 DEF starts
  <2>2. /\ parsed.args[0] = FirstOf(starts)
        /\ parsed.buffer \in [0 .. IoSize - 1 -> Cell]
        /\ \A i \in 0 .. Len(s) :
             parsed.buffer[i] = IF i < ParseEnd(starts, Len(s)) /\ IsSpace(buf[i]) THEN "NUL"
                                ELSE buf[i]
    BY <2>1, ParsedIs
  <2>3. parsed.buffer[Len(s)] = "NUL"
    BY <1>1, <2>2
  <2> QED  BY <1>3, <2>2, <2>3
<1>5. StringAt(parsed.buffer, Len(s)) = << >>
  BY <1>1, <1>4, StringIs
<1>6. Spaces(s) = << >> /\ Spaces(<< >>) = << >>
  <2>1. << >> \in Seq(Cell) /\ \A i \in 1 .. Len(<< >>) : IsSpace(<< >>[i])
    OBVIOUS
  <2> QED  BY <1>1, <2>1, OnlySpaces
<1>7. UpToFirst(<< >>, IsSpace) = << >> /\ FromFirst(<< >>, IsSpace) = << >>
  <2>1. << >> \in Seq(Cell) /\ \A i \in 1 .. Len(<< >>) : ~IsSpace(<< >>[i])
    OBVIOUS
  <2> QED  BY <2>1, NoSpaceToSplitAt
<1> QED  BY <1>4, <1>5, <1>6, <1>7 DEF FirstWord, AfterWord

(* The first word and the rest of a line.                                  *)
LEMMA FirstStart ==
  ASSUME NEW buf, NEW s, LineIs(buf, s), NEW p, NEW e, IsFirstWord(s, p, e),
         NEW starts, starts = WordStarts(buf, Len(s) + 1)
  PROVE  /\ p - 1 \in starts /\ FirstOf(starts) = p - 1
         /\ \A i \in Later(starts) : i >= e
<1>1. Len(s) \in Nat /\ p \in 1 .. Len(s) /\ e \in p + 1 .. Len(s) + 1
  BY DEF LineIs, IsFirstWord
<1>2. starts \subseteq 0 .. Len(s)
  BY StartsAre
<1>3. p - 1 \in starts
  <2>1. p - 1 \in 0 .. Len(s) - 1 /\ ~IsSpace(s[p]) /\ (p # 1 => IsSpace(s[p - 1])) /\ (p - 1) + 1 = p
    BY <1>1 DEF IsFirstWord
  <2> QED  BY <2>1, StartsAre
<1>4. ASSUME NEW i \in starts, i < p - 1 PROVE FALSE
  <2>1. i \in 0 .. Len(s) - 1 /\ i + 1 \in 1 .. p - 1
    BY <1>1, <1>2, <1>4
  <2> QED  BY <2>1, <1>4, StartsAre DEF IsFirstWord
<1>5. \A i \in starts : p - 1 <= i
  BY <1>1, <1>2, <1>4
<1>6. FirstOf(starts) = p - 1
  BY <1>2, <1>3, <1>5, LeastIndex
<1>7. ASSUME NEW i \in starts, i > p - 1, i < e PROVE FALSE
  <2>1. i \in p .. e - 1 /\ i \in 1 .. Len(s) /\ i \in Nat
    BY <1>1, <1>2, <1>7
  <2>2. ~IsSpace(s[i])
    BY <2>1 DEF IsFirstWord
  <2>3. CASE i = Len(s)
    BY <1>1, <2>1, <2>2, <2>3, <1>7, StartsAre
  <2>4. CASE i # Len(s)
    <3>1. i \in 0 .. Len(s) - 1 /\ i # 0
      BY <1>1, <2>1, <2>4
    <3> QED  BY <2>2, <3>1, <1>7, StartsAre
  <2> QED  BY <2>3, <2>4
<1>8. ASSUME NEW i \in Later(starts) PROVE i >= e
  <2>1. i \in starts /\ i > p - 1
    BY <1>1, <1>2, <1>5 DEF Later
  <2> QED  BY <1>1, <1>2, <1>7, <2>1
<1> QED  BY <1>3, <1>6, <1>8

LEMMA WordRuns ==
  ASSUME NEW buf, NEW s, LineIs(buf, s), argv \in [0 .. 1 -> Int],
         NEW p, NEW e, IsFirstWord(s, p, e),
         NEW parsed, parsed = ShellParse(buf, Len(s) + 1)
  PROVE  StringAt(parsed.buffer, parsed.args[0]) = FirstWord(s)
<1> DEFINE starts == WordStarts(buf, Len(s) + 1)
           end    == ParseEnd(starts, Len(s))
<1>1. /\ Len(s) \in Nat /\ Len(s) < IoSize /\ buf[Len(s)] = "NUL"
      /\ p \in 1 .. Len(s) /\ e \in p + 1 .. Len(s) + 1 /\ p \in Nat /\ e \in Nat
      /\ s \in Seq(Cell)
  BY DEF LineIs, IsFirstWord, Cell
<1>2. p - 1 \in starts /\ FirstOf(starts) = p - 1 /\ \A i \in Later(starts) : i >= e
  BY FirstStart
<1>3. starts \subseteq 0 .. Len(s)
  BY StartsAre
<1> HIDE DEF starts
<1>4. end \in Int /\ end >= e
  <2>1. CASE Later(starts) = {}
    BY <1>1, <2>1 DEF ParseEnd
  <2>2. CASE Later(starts) # {}
    <3>1. Later(starts) \subseteq Nat
      <4>1. Later(starts) \subseteq starts
        BY DEF Later
      <4>2. 0 .. Len(s) \subseteq Nat
        BY <1>1
      <4> QED  BY <1>3, <4>1, <4>2
    <3>2. PICK i \in Later(starts) : \A j \in Later(starts) : i <= j
      BY <2>2, <3>1, Numbers!LeastElement
    <3>3. FirstOf(Later(starts)) = i
      BY <3>1, <3>2, LeastIndex
    <3> QED  BY <1>1, <1>2, <2>2, <3>1, <3>3 DEF ParseEnd
  <2> QED  BY <2>1, <2>2
<1>5. /\ parsed.args[0] = p - 1
      /\ parsed.buffer \in [0 .. IoSize - 1 -> Cell]
      /\ \A i \in 0 .. Len(s) :
           parsed.buffer[i] = IF i < end /\ IsSpace(buf[i]) THEN "NUL" ELSE buf[i]
  BY <1>2, ParsedIs DEF starts
<1> HIDE DEF end
<1>6. \A i \in 1 .. Len(s) : buf[i - 1] = s[i] /\ s[i] # "NUL"
  BY ShellAssumption DEF LineIs
<1>7. ASSUME NEW i \in p .. e - 1 PROVE parsed.buffer[i - 1] = s[i] /\ s[i] # "NUL"
  <2>1. i \in 1 .. Len(s) /\ i - 1 \in 0 .. Len(s)
    BY <1>1
  <2>2. ~IsSpace(buf[i - 1])
    BY <1>6, <1>7, <2>1 DEF IsFirstWord
  <2> QED  BY <1>5, <1>6, <2>1, <2>2
<1>8. parsed.buffer[e - 1] = "NUL"
  <2>1. CASE e = Len(s) + 1
    <3>1. e - 1 = Len(s) /\ Len(s) \in 0 .. Len(s)
      BY <1>1, <2>1
    <3> QED  BY <1>1, <1>5, <3>1
  <2>2. CASE e # Len(s) + 1
    <3>1. e \in 1 .. Len(s) /\ e - 1 \in 0 .. Len(s) /\ e - 1 < end
      BY <1>1, <1>4, <2>2
    <3>2. IsSpace(buf[e - 1])
      BY <1>6, <3>1 DEF IsFirstWord
    <3> QED  BY <1>5, <3>1, <3>2
  <2> QED  BY <2>1, <2>2
<1> DEFINE m == e - p
           b == parsed.buffer
<1>9. /\ p - 1 \in Nat /\ m \in Nat /\ (p - 1) + m < IoSize /\ b[(p - 1) + m] = "NUL"
      /\ \A k \in 0 .. m - 1 : b[(p - 1) + k] # "NUL"
  <2>1. p - 1 \in Nat /\ m \in Nat /\ (p - 1) + m < IoSize /\ (p - 1) + m = e - 1
    BY <1>1, ShellAssumption
  <2>2. ASSUME NEW k \in 0 .. m - 1 PROVE b[(p - 1) + k] # "NUL"
    <3>1. p + k \in p .. e - 1 /\ (p + k) - 1 = (p - 1) + k
      BY <1>1
    <3> QED  BY <1>7, <3>1
  <2> QED  BY <1>8, <2>1, <2>2
<1> HIDE DEF m, b
<1>10. StringAt(b, p - 1) = [i \in 1 .. m |-> b[(p - 1) + i - 1]]
  BY <1>5, <1>9, StringIs DEF b
<1>11. \A i \in 1 .. m : b[(p - 1) + i - 1] = s[p + i - 1]
  <2> SUFFICES ASSUME NEW i \in 1 .. m PROVE b[(p - 1) + i - 1] = s[p + i - 1]
    OBVIOUS
  <2>1. p + i - 1 \in p .. e - 1 /\ (p + i - 1) - 1 = (p - 1) + i - 1
    BY <1>1, <1>9 DEF m
  <2> QED  BY <1>7, <2>1 DEF b
<1>12. FirstWord(s) = [i \in 1 .. m |-> s[p + i - 1]]
  BY <1>1, WordIs DEF m
<1> QED  BY <1>5, <1>10, <1>11, <1>12 DEF b

LEMMA RestRuns ==
  ASSUME NEW buf, NEW s, LineIs(buf, s), argv \in [0 .. 1 -> Int],
         NEW p, NEW e, IsFirstWord(s, p, e), AfterWord(s) # << >>,
         NEW parsed, parsed = ShellParse(buf, Len(s) + 1)
  PROVE  StringAt(parsed.buffer, parsed.args[1]) = AfterWord(s)
<1> DEFINE starts == WordStarts(buf, Len(s) + 1)
<1>1. /\ Len(s) \in Nat /\ Len(s) < IoSize /\ buf[Len(s)] = "NUL"
      /\ p \in 1 .. Len(s) /\ e \in p + 1 .. Len(s) + 1 /\ p \in Nat /\ e \in Nat
      /\ s \in Seq(Cell)
  BY DEF LineIs, IsFirstWord, Cell
<1>2. p - 1 \in starts /\ FirstOf(starts) = p - 1 /\ \A i \in Later(starts) : i >= e
  BY FirstStart
<1>3. starts \subseteq 0 .. Len(s)
  BY StartsAre
<1>4. PICK q : IsRest(s, e, q) /\ AfterWord(s) = [i \in 1 .. Len(s) - q + 1 |-> s[q + i - 1]]
  BY <1>1, RestIs
<1>5. q \in e + 1 .. Len(s) /\ q \in Nat
  BY <1>1, <1>4 DEF IsRest
<1>6. q - 1 \in starts
  <2>1. q - 1 \in 0 .. Len(s) - 1 /\ q - 1 \in e .. q - 1 /\ (q - 1) + 1 = q
    BY <1>1, <1>5
  <2>2. ~IsSpace(s[q]) /\ IsSpace(s[q - 1])
    BY <1>4, <2>1 DEF IsRest
  <2> QED  BY <2>1, <2>2, StartsAre
<1> HIDE DEF starts
<1>7. q - 1 \in Later(starts) /\ Later(starts) \subseteq Int
  <2>1. p - 1 \in starts /\ p - 1 < q - 1
    BY <1>1, <1>2, <1>5
  <2>2. Later(starts) \subseteq starts /\ starts \subseteq Int
    BY <1>1, <1>3 DEF Later
  <2> QED  BY <1>6, <2>1, <2>2 DEF Later
<1>8. ASSUME NEW i \in Later(starts), i < q - 1 PROVE FALSE
  <2>1. i \in starts /\ i \in 0 .. Len(s) - 1 /\ i >= e /\ i + 1 \in e .. q - 1
    BY <1>1, <1>2, <1>3, <1>5, <1>8 DEF Later
  <2>2. ~IsSpace(s[i + 1])
    BY <2>1, StartsAre DEF starts
  <2> QED  BY <1>4, <2>1, <2>2 DEF IsRest
<1>9. \A i \in Later(starts) : q - 1 <= i
  BY <1>5, <1>7, <1>8
<1>10. FirstOf(Later(starts)) = q - 1
  BY <1>7, <1>9, LeastIndex
<1>11. ParseEnd(starts, Len(s)) = q - 1
  BY <1>7, <1>10 DEF ParseEnd
<1>12. /\ parsed.args[1] = q - 1
       /\ parsed.buffer \in [0 .. IoSize - 1 -> Cell]
       /\ \A i \in 0 .. Len(s) :
            parsed.buffer[i] = IF i < q - 1 /\ IsSpace(buf[i]) THEN "NUL" ELSE buf[i]
  BY <1>2, <1>7, <1>10, <1>11, ParsedIs DEF starts
<1>13. \A i \in 1 .. Len(s) : buf[i - 1] = s[i] /\ s[i] # "NUL"
  BY ShellAssumption DEF LineIs
<1>14. ASSUME NEW i \in q .. Len(s) PROVE parsed.buffer[i - 1] = s[i] /\ s[i] # "NUL"
  <2>1. i \in 1 .. Len(s) /\ i - 1 \in 0 .. Len(s) /\ ~(i - 1 < q - 1)
    BY <1>1, <1>5
  <2> QED  BY <1>12, <1>13, <2>1
<1>15. parsed.buffer[Len(s)] = "NUL"
  BY <1>1, <1>5, <1>12
<1> DEFINE m == Len(s) - q + 1
           b == parsed.buffer
<1>16. /\ q - 1 \in Nat /\ m \in Nat /\ (q - 1) + m < IoSize /\ b[(q - 1) + m] = "NUL"
       /\ \A k \in 0 .. m - 1 : b[(q - 1) + k] # "NUL"
  <2>1. q - 1 \in Nat /\ m \in Nat /\ (q - 1) + m < IoSize /\ (q - 1) + m = Len(s)
    BY <1>1, <1>5, ShellAssumption
  <2>2. ASSUME NEW k \in 0 .. m - 1 PROVE b[(q - 1) + k] # "NUL"
    <3>1. q + k \in q .. Len(s) /\ (q + k) - 1 = (q - 1) + k
      BY <1>1, <1>5
    <3> QED  BY <1>14, <3>1
  <2> QED  BY <1>15, <2>1, <2>2
<1> HIDE DEF m, b
<1>17. StringAt(b, q - 1) = [i \in 1 .. m |-> b[(q - 1) + i - 1]]
  BY <1>12, <1>16, StringIs DEF b
<1>18. \A i \in 1 .. m : b[(q - 1) + i - 1] = s[q + i - 1]
  <2> SUFFICES ASSUME NEW i \in 1 .. m PROVE b[(q - 1) + i - 1] = s[q + i - 1]
    OBVIOUS
  <2>1. q + i - 1 \in q .. Len(s) /\ (q + i - 1) - 1 = (q - 1) + i - 1
    BY <1>1, <1>5, <1>16 DEF m
  <2> QED  BY <1>14, <2>1 DEF b
<1> QED  BY <1>4, <1>12, <1>17, <1>18 DEF b, m

LEMMA HasFirstWord ==
  ASSUME NEW s \in Seq(Cell), ~(\A i \in 1 .. Len(s) : IsSpace(s[i]))
  PROVE  \E p, e : IsFirstWord(s, p, e)
<1> DEFINE words == {i \in 1 .. Len(s) : ~IsSpace(s[i])}
<1>1. Len(s) \in Nat /\ words \subseteq Nat /\ words # {}
  OBVIOUS
<1>2. PICK p \in words : \A i \in words : p <= i
  BY <1>1, Numbers!LeastElement
<1> DEFINE gaps == {i \in p .. Len(s) : IsSpace(s[i])} \cup {Len(s) + 1}
<1>3. gaps \subseteq Nat /\ gaps # {}
  BY <1>1, <1>2
<1>4. PICK e \in gaps : \A i \in gaps : e <= i
  <2> HIDE DEF gaps
  <2> QED  BY <1>3, Numbers!LeastElement
<1>5. p \in 1 .. Len(s) /\ ~IsSpace(s[p]) /\ \A i \in 1 .. p - 1 : IsSpace(s[i])
  BY <1>1, <1>2
<1>6. e \in p + 1 .. Len(s) + 1 /\ (e <= Len(s) => IsSpace(s[e]))
  <2>1. e # p
    BY <1>1, <1>4, <1>5
  <2> QED  BY <1>1, <1>4, <1>5, <2>1
<1>7. \A i \in p .. e - 1 : ~IsSpace(s[i])
  BY <1>1, <1>4, <1>5, <1>6
<1> QED  BY <1>5, <1>6, <1>7 DEF IsFirstWord

(* A line that ends at n, of at most MaxLine bytes.                        *)
LEMMA LineRuns ==
  ASSUME LinesFit, NEW buf \in [0 .. IoSize - 1 -> Cell], argv \in [0 .. 1 -> Int],
         NEW s \in Seq(Key), Len(s) <= MaxLine, \A i \in 1 .. Len(s) : buf[i - 1] = s[i],
         RunLine(buf, Len(s), s)
  PROVE  /\ RunsWhatIsShown'
         /\ buffer' \in [0 .. IoSize - 1 -> Cell] /\ argv' \in [0 .. 1 -> Int]
<1> DEFINE line   == [i \in DOMAIN buf |-> IF i \in {Len(s), Len(s) + 1} THEN "NUL" ELSE buf[i]]
           parsed == ShellParse(line, Len(s) + 1)
           name   == Named(StringAt(parsed.buffer, parsed.args[0]))
<1>1. Len(s) \in Nat /\ Len(s) < IoSize /\ IoSize \in Nat /\ s \in Seq(Cell)
  BY ShellAssumption DEF LinesFit, Cell
<1>2. LineIs(line, s)
  <2>1. line \in [0 .. IoSize - 1 -> Cell]
    BY DEF Cell
  <2>2. line[Len(s)] = "NUL"
    BY <1>1
  <2>3. \A i \in 1 .. Len(s) : line[i - 1] = s[i]
    BY <1>1
  <2> HIDE DEF line
  <2> QED  BY <1>1, <2>1, <2>2, <2>3 DEF LineIs
<1> HIDE DEF line
<1>3. /\ buffer' = parsed.buffer /\ argv' = parsed.args
      /\ ran' = [line |-> s, command |-> name,
                 argument |-> Argument(name, StringAt(parsed.buffer, parsed.args[1]))]
  BY DEF RunLine, line
<1> HIDE DEF parsed
<1>4. StringAt(parsed.buffer, parsed.args[0]) = FirstWord(s)
  <2>1. CASE \A i \in 1 .. Len(s) : IsSpace(s[i])
    BY <1>2, <2>1, EmptyLine DEF parsed
  <2>2. CASE ~(\A i \in 1 .. Len(s) : IsSpace(s[i]))
    BY <1>1, <1>2, <2>2, HasFirstWord, WordRuns DEF parsed
  <2> QED  BY <2>1, <2>2
<1>5. ASSUME AfterWord(s) # << >>
      PROVE  StringAt(parsed.buffer, parsed.args[1]) = AfterWord(s)
  <2>1. ~(\A i \in 1 .. Len(s) : IsSpace(s[i]))
    BY <1>2, <1>5, EmptyLine
  <2> QED  BY <1>1, <1>2, <1>5, <2>1, HasFirstWord, RestRuns DEF parsed
<1>6. RunsWhatIsShown'
  BY <1>3, <1>4, <1>5 DEF RunsWhatIsShown
<1>7. parsed.buffer \in [0 .. IoSize - 1 -> Cell] /\ parsed.args \in [0 .. 1 -> Int]
  BY <1>2, ParsedTypes DEF parsed
<1> QED  BY <1>3, <1>6, <1>7

LEMMA ShellInitInv == ShellInit => ShellInv /\ RunsWhatIsShown
<1> SUFFICES ASSUME ShellInit PROVE ShellInv /\ RunsWhatIsShown
  OBVIOUS
<1>1. ShellInv
  BY ShellAssumption DEF ShellInit, ShellInv, Cell, NoArg
<1>2. RunsWhatIsShown
  BY DEF ShellInit, RunsWhatIsShown
<1> QED  BY <1>1, <1>2

(* A key in the buffer, the cursor moved or not.                           *)
LEMMA ContinueKeepsInv ==
  ASSUME LinesFit, ShellInv, NEW buf \in [0 .. IoSize - 1 -> Cell],
         NEW n \in 0 .. MaxLine, NEW chars \in Seq(Key), Len(chars) = n,
         \A i \in 1 .. n : buf[i - 1] = chars[i],
         Continue(buf, n, chars)
  PROVE  ShellInv' /\ RunsWhatIsShown'
<1>1. n < IoSize /\ n \in Nat
  BY ShellAssumption DEF LinesFit
<1>2. /\ buffer' = buf /\ at' = n /\ screen' = chars /\ ran' = NoRun /\ argv' = argv
  BY <1>1 DEF Continue
<1>3. ShellInv'
  BY <1>2 DEF ShellInv
<1>4. RunsWhatIsShown'
  BY <1>2 DEF RunsWhatIsShown
<1> QED  BY <1>3, <1>4

LEMMA StoredIs ==
  ASSUME LinesFit, ShellInv, NEW c \in Cell
  PROVE  /\ Stored(c) \in [0 .. IoSize - 1 -> Cell]
         /\ Stored(c)[at] = c
         /\ \A i \in 1 .. at : Stored(c)[i - 1] = screen[i]
<1>1. at \in 0 .. IoSize - 1 /\ at \in Nat
  BY ShellAssumption DEF ShellInv, LinesFit
<1>2. \A i \in 1 .. at : i - 1 \in 0 .. IoSize - 1 /\ i - 1 # at
  BY <1>1, ShellAssumption
<1> QED  BY <1>1, <1>2 DEF ShellInv, Stored

LEMMA ShellStepKeepsInv ==
  ASSUME LinesFit, ShellInv, RunsWhatIsShown, [ShellNext]_shellVars
  PROVE  ShellInv' /\ RunsWhatIsShown'
<1>1. at \in 0 .. MaxLine /\ at \in Nat /\ screen \in Seq(Key) /\ Len(screen) = at
      /\ argv \in [0 .. 1 -> Int] /\ MaxLine \in Nat /\ 0 \in 0 .. MaxLine
  BY ShellAssumption DEF ShellInv
<1>2. ASSUME NEW c \in Key, TypeCell(c) PROVE ShellInv' /\ RunsWhatIsShown'
  <2>1. c \in Cell /\ at + 1 \in 0 .. MaxLine
        /\ Continue(Stored(c), at + 1, Append(screen, c))
    BY <1>1, <1>2 DEF TypeCell, Cell
  <2>2. /\ Append(screen, c) \in Seq(Key) /\ Len(Append(screen, c)) = at + 1
        /\ Append(screen, c)[at + 1] = c
        /\ \A i \in 1 .. at : Append(screen, c)[i] = screen[i]
    BY <1>1
  <2>3. ASSUME NEW i \in 1 .. at + 1 PROVE Stored(c)[i - 1] = Append(screen, c)[i]
    <3>1. CASE i = at + 1
      BY <1>1, <2>1, <2>2, <3>1, StoredIs
    <3>2. CASE i # at + 1
      <4>1. i \in 1 .. at
        BY <1>1, <3>2
      <4> QED  BY <2>1, <2>2, <4>1, StoredIs
    <3> QED  BY <3>1, <3>2
  <2>4. Stored(c) \in [0 .. IoSize - 1 -> Cell]
    BY <2>1, StoredIs
  <2> QED  BY <2>1, <2>2, <2>3, <2>4, ContinueKeepsInv
<1>3. ASSUME NEW c \in Key, InEscape(c) PROVE ShellInv' /\ RunsWhatIsShown'
  BY <1>3 DEF InEscape, ShellInv, RunsWhatIsShown
<1>4. ASSUME TypeBackspace PROVE ShellInv' /\ RunsWhatIsShown'
  <2> DEFINE n     == BackMoves(at)
             chars == IF at > 0 THEN Front(screen) ELSE screen
  <2>1. n \in 0 .. MaxLine /\ n \in 0 .. at
    BY <1>1 DEF BackMoves
  <2>2. chars \in Seq(Key) /\ Len(chars) = n /\ \A i \in 1 .. n : chars[i] = screen[i]
    <3>1. CASE at > 0
      <4>1. chars = SubSeq(screen, 1, at - 1) /\ n = at - 1
        BY <1>1, <3>1 DEF Front, BackMoves
      <4> QED  BY <1>1, <3>1, <4>1
    <3>2. CASE ~(at > 0)
      BY <1>1, <3>2 DEF BackMoves
    <3> QED  BY <3>1, <3>2
  <2>3. Continue(Stored("BS"), n, chars) /\ "BS" \in Cell
    BY <1>4 DEF TypeBackspace, Cell
  <2> HIDE DEF n, chars
  <2>4. \A i \in 1 .. n : Stored("BS")[i - 1] = chars[i]
    BY <1>1, <2>1, <2>2, <2>3, StoredIs
  <2>5. Stored("BS") \in [0 .. IoSize - 1 -> Cell]
    BY <2>3, StoredIs
  <2> QED  BY <2>1, <2>2, <2>3, <2>4, <2>5, ContinueKeepsInv
<1>5. ASSUME TypeLineFeed PROVE ShellInv' /\ RunsWhatIsShown'
  <2>1. "LF" \in Cell /\ Continue(Stored("LF"), at, screen)
    BY <1>5 DEF TypeLineFeed, Cell
  <2>2. /\ Stored("LF") \in [0 .. IoSize - 1 -> Cell]
        /\ \A i \in 1 .. at : Stored("LF")[i - 1] = screen[i]
    BY <2>1, StoredIs
  <2> QED  BY <1>1, <2>1, <2>2, ContinueKeepsInv
<1>6. ASSUME TypeReturn PROVE ShellInv' /\ RunsWhatIsShown'
  <2>1. "CR" \in Cell /\ RunLine(Stored("CR"), at, screen)
    BY <1>6 DEF TypeReturn, Cell
  <2>2. /\ Stored("CR") \in [0 .. IoSize - 1 -> Cell]
        /\ \A i \in 1 .. at : Stored("CR")[i - 1] = screen[i]
    BY <2>1, StoredIs
  <2>3. /\ RunsWhatIsShown'
        /\ buffer' \in [0 .. IoSize - 1 -> Cell] /\ argv' \in [0 .. 1 -> Int]
    <3>1. /\ RunLine(Stored("CR"), Len(screen), screen) /\ Len(screen) <= MaxLine
          /\ \A i \in 1 .. Len(screen) : Stored("CR")[i - 1] = screen[i]
      BY <1>1, <2>1, <2>2
    <3> QED  BY <1>1, <2>2, <3>1, LineRuns
  <2>4. at' = 0 /\ screen' = << >>
    BY <2>1 DEF RunLine
  <2> QED  BY <1>1, <2>3, <2>4 DEF ShellInv
<1>7. ASSUME TypeControlC PROVE ShellInv' /\ RunsWhatIsShown'
  <2>1. "ETX" \in Cell /\ buffer' = Stored("ETX") /\ at' = 0 /\ screen' = << >>
        /\ argv' = argv /\ ran' = NoRun
    BY <1>7 DEF TypeControlC, Cell
  <2>2. buffer' \in [0 .. IoSize - 1 -> Cell]
    BY <2>1, StoredIs
  <2> QED  BY <1>1, <2>1, <2>2 DEF ShellInv, RunsWhatIsShown
<1>8. ASSUME TypeEscape PROVE ShellInv' /\ RunsWhatIsShown'
  <2>1. "ESC" \in Cell /\ buffer' = Stored("ESC") /\ at' = at /\ screen' = screen
        /\ argv' = argv /\ ran' = NoRun
    BY <1>8 DEF TypeEscape, Cell
  <2>2. /\ buffer' \in [0 .. IoSize - 1 -> Cell]
        /\ \A i \in 1 .. at : buffer'[i - 1] = screen[i]
    BY <2>1, StoredIs
  <2> QED  BY <1>1, <2>1, <2>2 DEF ShellInv, RunsWhatIsShown
<1>9. CASE UNCHANGED shellVars
  BY <1>9 DEF shellVars, ShellInv, RunsWhatIsShown
<1> QED  BY <1>2, <1>3, <1>4, <1>5, <1>6, <1>7, <1>8, <1>9 DEF ShellNext

(* Whatever was erased and whatever earlier lines left in the buffer, the  *)
(* command that runs and its argument are those the terminal shows, for    *)
(* lines that do not fill the buffer (shell.c:87-110, vcp.c:155-202).      *)
THEOREM ShownIsRun ==
  ASSUME LinesFit PROVE ShellSpec => []RunsWhatIsShown
<1>1. ShellInv /\ RunsWhatIsShown /\ [ShellNext]_shellVars => (ShellInv /\ RunsWhatIsShown)'
  BY ShellStepKeepsInv
<1> QED  BY <1>1, ShellInitInv, PTL DEF ShellSpec

-----------------------------------------------------------------------------
(* Files: the table of descriptors agrees with the host, and O_EXCL is     *)
(* kept, for any number of files, descriptors and handles and files of any *)
(* length, when one task at a time uses files.                             *)

(* No open begins before another one ended.                                *)
OneCaller == \A t, u \in FileCaller : t = u

NeverAppends == \A flags \in FlagSets : "append" \notin flags

Slot  == [handle : HostHandle \cup {NoHandle}, pos : Int]
Entry == [file : Path \cup {"tt", "none"},
          uses : SUBSET {"read", "write", "append"}, at : Int]

Chosen == [fd : Fd \cup {-1}, path : Path \cup {"none"}, flags : FlagSets \cup {{}}]

FilesTyped ==
  /\ openfiles \in [Fd -> Slot]
  /\ host \in [HostHandle -> Entry]
  /\ length \in [Path -> Int]
  /\ asked \in [FileCaller -> Chosen]

OnHost(h) == host[h].file # "none"

(* The inductive invariant.  Only stdout and stderr share a handle, which  *)
(* is a terminal's; the slot chosen by an open under way stays free.       *)
FilesInv ==
  /\ FilesTyped
  /\ \A fd \in Fd : Valid(fd) => OnHost(Handle(fd))
  /\ \A h \in HostHandle :
       host[h].file \in Path => \E fd \in Fd : Handle(fd) = h
  /\ \A fd, other \in Fd :
       (Valid(fd) /\ Handle(fd) = Handle(other) /\ fd # other) =>
         fd \in {1, 2} /\ other \in {1, 2} /\ host[Handle(fd)].file = "tt"
  /\ \A t \in FileCaller :
       ~Outside(t) =>
         /\ asked[t].fd \in Fd /\ ~Valid(asked[t].fd)
         /\ asked[t].path \in Path
         /\ asked[t].flags \in FlagSets

USE FilesAssumption DEF Handle, Valid, OnHost

LEMMA HandlesAreNot ==
  /\ NoHandle \notin HostHandle
  /\ \A path \in Path : path # "tt" /\ path # "none"
BY DEF NoHandle

LEMMA MinIsOneOf ==
  ASSUME NEW a \in Int, NEW b \in Int
  PROVE  Min({a, b}) \in Int
<1>1. \E x \in {a, b} : \A y \in {a, b} : x <= y
  <2>1. a <= b \/ b <= a
    OBVIOUS
  <2> QED  BY <2>1
<1> QED  BY <1>1 DEF Min

LEMMA MaxIsOneOf ==
  ASSUME NEW a \in Int, NEW b \in Int
  PROVE  Max({a, b}) \in Int
<1>1. \E x \in {a, b} : \A y \in {a, b} : x >= y
  <2>1. a <= b \/ b <= a
    OBVIOUS
  <2> QED  BY <2>1
<1> QED  BY <1>1 DEF Max

(* The four facts about the table alone, which every step but an open and  *)
(* a close keeps because it leaves the handles, and the files they are of. *)
LEMMA SameHandlesKeepInv ==
  ASSUME FilesInv, FilesTyped',
         \A fd \in Fd : openfiles'[fd].handle = openfiles[fd].handle,
         \A h \in HostHandle : host'[h].file = host[h].file,
         UNCHANGED asked
  PROVE  FilesInv'
<1>1. \A fd \in Fd : Handle(fd)' = Handle(fd) /\ (Valid(fd)' <=> Valid(fd))
  OBVIOUS
<1>2. \A fd \in Fd : Valid(fd) => Handle(fd) \in HostHandle
  BY DEF FilesInv, FilesTyped, Slot
<1>3. ASSUME NEW fd \in Fd, Valid(fd)'
      PROVE  OnHost(Handle(fd))'
  <2>1. Valid(fd) /\ Handle(fd) \in HostHandle /\ OnHost(Handle(fd))
    BY <1>1, <1>2, <1>3 DEF FilesInv
  <2>2. host'[Handle(fd)].file = host[Handle(fd)].file
    BY <2>1
  <2> QED  BY <1>1, <2>1, <2>2
<1>4. \A h \in HostHandle :
        host'[h].file \in Path => \E fd \in Fd : Handle(fd)' = h
  BY <1>1 DEF FilesInv
<1>5. ASSUME NEW fd \in Fd, NEW other \in Fd, Valid(fd)', Handle(fd)' = Handle(other)', fd # other
      PROVE  fd \in {1, 2} /\ other \in {1, 2} /\ host'[Handle(fd)'].file = "tt"
  <2>1. Valid(fd) /\ Handle(fd) = Handle(other) /\ Handle(fd) \in HostHandle
    BY <1>1, <1>2, <1>5
  <2>2. fd \in {1, 2} /\ other \in {1, 2} /\ host[Handle(fd)].file = "tt"
    BY <1>5, <2>1 DEF FilesInv
  <2>3. host'[Handle(fd)].file = host[Handle(fd)].file
    BY <2>1
  <2> QED  BY <1>1, <2>2, <2>3
<1>6. ASSUME NEW t \in FileCaller, ~Outside(t)'
      PROVE  (/\ asked[t].fd \in Fd /\ ~Valid(asked[t].fd)
              /\ asked[t].path \in Path /\ asked[t].flags \in FlagSets)'
  <2>1. asked[t] # NotAsked /\ asked'[t] = asked[t]
    BY <1>6 DEF Outside
  <2>2. /\ asked[t].fd \in Fd /\ ~Valid(asked[t].fd)
        /\ asked[t].path \in Path /\ asked[t].flags \in FlagSets
    BY <2>1 DEF FilesInv, Outside
  <2> QED  BY <1>1, <2>1, <2>2
<1> QED  BY <1>3, <1>4, <1>5, <1>6 DEF FilesInv

(* A new handle in a free slot, by the only caller, which is done then or  *)
(* gives up its own choice of a slot.                                      *)
LEMMA OpenedKeepsInv ==
  ASSUME FilesInv, NEW fd \in Fd, ~Valid(fd), NEW h \in FreeHandles, NEW path \in Path,
         NEW mode, Opened(fd, h, path, mode), length' \in [Path -> Int],
         asked' \in [FileCaller -> Chosen], \A t \in FileCaller : Outside(t)'
  PROVE  FilesInv'
<1>1. h \in HostHandle /\ host[h].file = "none"
  BY DEF FreeHandles, Nobody
<1>2. \A g \in Fd : Handle(g)' = IF g = fd THEN h ELSE Handle(g)
  BY DEF Opened, FilesInv, FilesTyped
<1>3. \A g \in Fd : Valid(g)' <=> (g = fd \/ Valid(g))
  BY <1>1, <1>2, HandlesAreNot
<1>4. Uses(mode) \in SUBSET {"read", "write", "append"}
  BY DEF Uses
<1>5. FilesTyped'
  BY <1>1, <1>4 DEF Opened, FilesInv, FilesTyped, Slot, Entry
<1>6. \A g \in HostHandle : host'[g].file = IF g = h THEN path ELSE host[g].file
  BY <1>1 DEF Opened, FilesInv, FilesTyped, Entry
<1>7. \A g \in Fd : Valid(g) => Handle(g) \in HostHandle /\ Handle(g) # h
  BY <1>1 DEF FilesInv, FilesTyped, Slot
<1>8. \A g \in Fd : Valid(g)' => OnHost(Handle(g))'
  BY <1>1, <1>2, <1>3, <1>6, <1>7, HandlesAreNot DEF FilesInv
<1>9. ASSUME NEW k \in HostHandle, host'[k].file \in Path
      PROVE  \E g \in Fd : Handle(g)' = k
  <2>1. CASE k = h
    BY <1>2, <2>1
  <2>2. CASE k # h
    <3>1. PICK g \in Fd : Handle(g) = k
      BY <1>6, <1>9, <2>2 DEF FilesInv
    <3>2. g # fd
      BY <3>1, HandlesAreNot
    <3> QED  BY <1>2, <3>1, <3>2
  <2> QED  BY <2>1, <2>2
<1>10. ASSUME NEW g \in Fd, NEW other \in Fd, Valid(g)', Handle(g)' = Handle(other)', g # other
       PROVE  g \in {1, 2} /\ other \in {1, 2} /\ host'[Handle(g)'].file = "tt"
  <2>1. Valid(other)'
    BY <1>10
  <2>2. g # fd /\ other # fd
    <3>1. CASE g = fd
      BY <1>2, <1>3, <1>7, <1>10, <2>1, <3>1
    <3>2. CASE other = fd
      BY <1>2, <1>3, <1>7, <1>10, <3>2
    <3> QED  BY <3>1, <3>2
  <2>3. Valid(g) /\ Handle(g) = Handle(other)
    BY <1>2, <1>3, <1>10, <2>2
  <2>4. g \in {1, 2} /\ other \in {1, 2} /\ host[Handle(g)].file = "tt"
    BY <1>10, <2>3 DEF FilesInv
  <2>5. Handle(g)' = Handle(g) /\ Handle(g) \in HostHandle /\ Handle(g) # h
    BY <1>2, <1>7, <2>2, <2>3
  <2> QED  BY <1>6, <2>4, <2>5
<1> QED  BY <1>5, <1>8, <1>9, <1>10 DEF FilesInv

LEMMA OpenEndsKeepsInv ==
  ASSUME OneCaller, FilesInv, NEW t \in FileCaller, OpenEnds(t)
  PROVE  FilesInv'
<1> DEFINE path == asked[t].path
           flags == asked[t].flags
<1>1. /\ ~Outside(t) /\ asked[t].fd \in Fd /\ ~Valid(asked[t].fd)
      /\ path \in Path /\ flags \in FlagSets
  BY DEF OpenEnds, FilesInv
<1>2. asked' = [asked EXCEPT ![t] = NotAsked]
  BY DEF OpenEnds, Refuses
<1>3. \A u \in FileCaller : Outside(u)'
  BY <1>2 DEF Outside, OneCaller, FilesInv, FilesTyped
<1>7. asked' \in [FileCaller -> Chosen]
  BY <1>2 DEF FilesInv, FilesTyped, Chosen, NotAsked
<1>4. CASE UNCHANGED <<openfiles, host>> /\ length' = length
  BY <1>3, <1>4, <1>7 DEF FilesInv, FilesTyped
<1>5. CASE StatLeaves(path) /\ length' = length
  <2>1. PICK fd \in Fd, h \in FreeHandles : NewSlot(fd) /\ Opened(fd, h, path, {"r"})
    BY <1>5 DEF StatLeaves
  <2>2. ~Valid(fd)
    BY <2>1 DEF NewSlot, FreeSlots
  <2>3. length' \in [Path -> Int]
    BY <1>5 DEF FilesInv, FilesTyped
  <2> QED  BY <1>1, <1>3, <1>7, <2>1, <2>2, <2>3, OpenedKeepsInv
<1>6. CASE /\ \E h \in FreeHandles : Opened(asked[t].fd, h, path, AFlags(flags))
           /\ \/ length' = [length EXCEPT ![path] = 0]
              \/ length' = length
  <2>1. length' \in [Path -> Int]
    BY <1>1, <1>6 DEF FilesInv, FilesTyped
  <2> QED  BY <1>1, <1>3, <1>6, <1>7, <2>1, OpenedKeepsInv
<1> QED  BY <1>4, <1>5, <1>6 DEF OpenEnds, Refuses

LEMMA CloseKeepsInv ==
  ASSUME FilesInv, NEW fd \in Fd, CloseFile(fd), \A t \in FileCaller : Outside(t)
  PROVE  FilesInv'
<1>1. Valid(fd) /\ asked' = asked /\ length' = length
  BY DEF CloseFile
<1>2. CASE UNCHANGED <<openfiles, host>>
  BY <1>1, <1>2, SameHandlesKeepInv DEF FilesInv, FilesTyped
<1>3. CASE /\ openfiles' = [openfiles EXCEPT ![fd] = [handle |-> NoHandle, pos |-> 0]]
           /\ host' = IF Shares(fd) THEN host ELSE [host EXCEPT ![Handle(fd)] = Nobody]
  <2>1. \A g \in Fd : Handle(g)' = IF g = fd THEN NoHandle ELSE Handle(g)
    BY <1>3 DEF FilesInv, FilesTyped, Slot
  <2>2. \A g \in Fd : Valid(g)' <=> (g # fd /\ Valid(g))
    BY <2>1
  <2>3. \A g \in Fd : Valid(g) => Handle(g) \in HostHandle
    BY DEF FilesInv, FilesTyped, Slot
  <2>4. FilesTyped'
    BY <1>1, <1>3, <2>3 DEF FilesInv, FilesTyped, Slot, Entry, Nobody
  <2>5. \A h \in HostHandle :
          host'[h].file = IF ~Shares(fd) /\ h = Handle(fd) THEN "none" ELSE host[h].file
    BY <1>1, <1>3, <2>3 DEF FilesInv, FilesTyped, Entry, Nobody
  <2>6. ASSUME NEW g \in Fd, g # fd, Valid(g), Handle(g) = Handle(fd)
        PROVE  Shares(fd)
    <3>1. fd \in {1, 2} /\ g \in {1, 2}
      BY <1>1, <2>6 DEF FilesInv
    <3> QED  BY <2>6, <3>1 DEF Shares
  <2>7. \A g \in Fd : Valid(g)' => OnHost(Handle(g))'
    BY <2>1, <2>2, <2>3, <2>5, <2>6 DEF FilesInv
  <2>8. ASSUME NEW h \in HostHandle, host'[h].file \in Path
        PROVE  \E g \in Fd : Handle(g)' = h
    <3>1. host[h].file \in Path /\ (Shares(fd) \/ h # Handle(fd))
      BY <2>5, <2>8, HandlesAreNot
    <3>2. PICK g \in Fd : Handle(g) = h
      BY <3>1 DEF FilesInv
    <3>3. CASE g = fd
      <4>1. 1 \in Fd /\ 2 \in Fd
        BY DEF Fd
      <4>2. Valid(1) /\ Valid(2) /\ Handle(1) = Handle(2) /\ (fd = 1 \/ fd = 2)
        BY <1>1, <3>1, <3>2, <3>3 DEF Shares
      <4>3. host[Handle(fd)].file = "tt"
        BY <4>1, <4>2 DEF FilesInv
      <4> QED  BY <3>1, <3>2, <3>3, <4>3, HandlesAreNot
    <3> QED  BY <2>1, <3>2, <3>3
  <2>9. ASSUME NEW g \in Fd, NEW other \in Fd, Valid(g)', Handle(g)' = Handle(other)', g # other
        PROVE  g \in {1, 2} /\ other \in {1, 2} /\ host'[Handle(g)'].file = "tt"
    <3>1. Valid(other)'
      BY <2>9
    <3>2. /\ g # fd /\ other # fd /\ Valid(g)
          /\ Handle(g) = Handle(other) /\ Handle(g)' = Handle(g)
      BY <2>1, <2>2, <2>9, <3>1
    <3>3. g \in {1, 2} /\ other \in {1, 2} /\ host[Handle(g)].file = "tt"
      BY <2>9, <3>2 DEF FilesInv
    <3>4. Handle(g) # Handle(fd) \/ Shares(fd)
      BY <2>6, <3>2
    <3> QED  BY <2>3, <2>5, <3>2, <3>3, <3>4
  <2> QED  BY <1>1, <2>4, <2>7, <2>8, <2>9 DEF FilesInv, Outside
<1> QED  BY <1>2, <1>3 DEF CloseFile

(* A descriptor that is no terminal is of a file the host has open.        *)
LEMMA OnFileHasFile ==
  ASSUME FilesInv, NEW fd \in Fd, OnFile(fd)
  PROVE  /\ Valid(fd) /\ Handle(fd) \in HostHandle
         /\ host[Handle(fd)] \in Entry /\ host[Handle(fd)].file \in Path
<1>1. openfiles[fd] \in Slot /\ Valid(fd)
  BY DEF FilesInv, FilesTyped, OnFile
<1>2. Handle(fd) \in HostHandle
  BY <1>1 DEF Slot
<1>3. host[Handle(fd)] \in Entry
  BY <1>2 DEF FilesInv, FilesTyped
<1>4. OnHost(Handle(fd)) /\ host[Handle(fd)].file # "tt"
  BY <1>1 DEF FilesInv, OnFile
<1>5. host[Handle(fd)].file \in Path
  BY <1>3, <1>4 DEF Entry
<1> QED  BY <1>1, <1>2, <1>3, <1>5

(* A call by the only caller that changes positions, lengths and the like  *)
(* of files leaves every handle where it is.                               *)
LEMMA TransferKeepsInv ==
  ASSUME FilesInv, NEW fd \in Fd, NEW len \in 1 .. 2,
         ReadFile(fd, len) \/ WriteFile(fd, len)
  PROVE  FilesInv'
<1>0. OnFile(fd) /\ UNCHANGED asked
  BY DEF ReadFile, WriteFile
<1>1. Handle(fd) \in HostHandle /\ UNCHANGED asked
  BY <1>0, OnFileHasFile
<1>2. host[Handle(fd)] \in Entry /\ host[Handle(fd)].file \in Path
  BY <1>0, OnFileHasFile
<1>3. CASE UNCHANGED <<openfiles, host, length>>
  BY <1>1, <1>3, SameHandlesKeepInv DEF FilesInv, FilesTyped
<1>4. ASSUME NEW place \in Int, NEW n \in Int, Transfer(fd, place, len, n),
             length' \in [Path -> Int]
      PROVE  FilesInv'
  <2>1. FilesTyped'
    <3>1. /\ host \in [HostHandle -> Entry] /\ host[Handle(fd)] \in Entry
          /\ openfiles \in [Fd -> Slot] /\ openfiles[fd] \in Slot
          /\ asked' \in [FileCaller -> Chosen]
      BY <1>1 DEF FilesInv, FilesTyped
    <3>2. [host[Handle(fd)] EXCEPT !.at = place + n] \in Entry
      BY <1>4, <3>1 DEF Entry
    <3>3. [openfiles[fd] EXCEPT !.pos = @ + Advance(len, len - n)] \in Slot
      BY <1>4, <3>1 DEF Slot, Advance
    <3>4. host' \in [HostHandle -> Entry]
      BY <1>4, <3>1, <3>2 DEF Transfer
    <3>5. openfiles' \in [Fd -> Slot]
      BY <1>4, <3>1, <3>3 DEF Transfer
    <3> QED  BY <1>4, <3>1, <3>4, <3>5 DEF FilesTyped
  <2>2. \A g \in Fd : openfiles'[g].handle = openfiles[g].handle
    BY <1>4 DEF Transfer, FilesInv, FilesTyped, Slot
  <2>3. \A h \in HostHandle : host'[h].file = host[h].file
    BY <1>4 DEF Transfer, FilesInv, FilesTyped, Entry
  <2> QED  BY <1>1, <2>1, <2>2, <2>3, SameHandlesKeepInv
<1>5. host[Handle(fd)].at \in Int /\ length[host[Handle(fd)].file] \in Int
  <2>1. host[Handle(fd)].at \in Int
    BY <1>2 DEF Entry
  <2>2. length \in [Path -> Int]
    BY DEF FilesInv, FilesTyped
  <2> QED  BY <1>2, <2>1, <2>2
<1>6. CASE ReadFile(fd, len)
  <2> DEFINE n == Min({len, Max({0, length[host[Handle(fd)].file] - host[Handle(fd)].at})})
  <2>1. n \in Int
    <3>1. Max({0, length[host[Handle(fd)].file] - host[Handle(fd)].at}) \in Int
      <4> DEFINE left == length[host[Handle(fd)].file] - host[Handle(fd)].at
      <4>1. left \in Int
        BY <1>5
      <4> HIDE DEF left
      <4>2. Max({0, left}) \in Int
        BY <4>1, MaxIsOneOf
      <4> QED  BY <4>2 DEF left
    <3>2. len \in Int
      OBVIOUS
    <3> QED  BY <3>1, <3>2, MinIsOneOf
  <2>2. length' = length
    BY <1>6 DEF ReadFile
  <2> HIDE DEF n
  <2>3. CASE Transfer(fd, host[Handle(fd)].at, len, n)
    BY <1>4, <1>5, <2>1, <2>2, <2>3 DEF FilesInv, FilesTyped
  <2> QED  BY <1>3, <1>6, <2>2, <2>3 DEF ReadFile, n
<1>7. CASE WriteFile(fd, len)
  <2> DEFINE place == IF "append" \in host[Handle(fd)].uses THEN length[host[Handle(fd)].file]
                      ELSE host[Handle(fd)].at
             has   == length[host[Handle(fd)].file]
  <2>1. place \in Int /\ has \in Int
    BY <1>5
  <2>2. ASSUME NEW n \in 0 .. Min({len, MaxLength - place}), Transfer(fd, place, len, n),
               length' = [length EXCEPT ![host[Handle(fd)].file] =
                            IF n = 0 THEN has ELSE Max({has, place + n})]
        PROVE  FilesInv'
    <3>1. n \in Int
      OBVIOUS
    <3>2. Max({has, place + n}) \in Int
      BY <2>1, <3>1, MaxIsOneOf
    <3>3. length' \in [Path -> Int]
      BY <1>2, <2>1, <2>2, <3>2 DEF FilesInv, FilesTyped
    <3> QED  BY <1>4, <2>1, <2>2, <3>1, <3>3
  <2> QED  BY <1>3, <1>7, <2>2 DEF WriteFile
<1> QED  BY <1>6, <1>7

LEMMA SeekKeepsInv ==
  ASSUME FilesInv, NEW fd \in Fd, NEW offset \in -1 .. 1, NEW whence, Lseek(fd, offset, whence)
  PROVE  FilesInv'
<1> DEFINE target == SeekTarget(fd, offset, whence)
<1>1. /\ target \in Int /\ UNCHANGED <<asked, length>>
      /\ openfiles' = [openfiles EXCEPT ![fd].pos = target]
      /\ host' = [host EXCEPT ![Handle(fd)].at = target]
  BY DEF Lseek
<1> HIDE DEF target
<1>2. FilesTyped'
  <2>1. openfiles' \in [Fd -> Slot]
    BY <1>1 DEF FilesInv, FilesTyped, Slot
  <2>2. host' \in [HostHandle -> Entry]
    <3> DEFINE h == Handle(fd)
    <3>1. h \in HostHandle
      BY DEF Lseek, OnFile, FilesInv, FilesTyped, Slot
    <3>2. host' = [host EXCEPT ![h].at = target]
      BY <1>1
    <3> HIDE DEF h
    <3>3. host \in [HostHandle -> Entry] /\ host[h] \in Entry /\ target \in Int
      BY <1>1, <3>1 DEF FilesInv, FilesTyped
    <3>4. [host[h] EXCEPT !.at = target] \in Entry
      BY <3>3 DEF Entry
    <3> QED  BY <3>1, <3>2, <3>3, <3>4
  <2> QED  BY <1>1, <2>1, <2>2 DEF FilesInv, FilesTyped
<1>3. \A g \in Fd : openfiles'[g].handle = openfiles[g].handle
  BY <1>1 DEF FilesInv, FilesTyped, Slot
<1>4. \A h \in HostHandle : host'[h].file = host[h].file
  BY <1>1 DEF FilesInv, FilesTyped, Entry
<1> QED  BY <1>1, <1>2, <1>3, <1>4, SameHandlesKeepInv

LEMMA ChoiceKeepsInv ==
  ASSUME FilesInv, NEW t \in FileCaller, NEW path \in Path, NEW flags \in FlagSets,
         OpenChoosesSlot(t, path, flags)
  PROVE  FilesInv'
<1>1. PICK fd \in Fd :
        /\ NewSlot(fd)
        /\ asked' = [asked EXCEPT ![t] = [fd |-> fd, path |-> path, flags |-> flags]]
  BY DEF OpenChoosesSlot
<1>2. ~Valid(fd)
  BY <1>1 DEF NewSlot, FreeSlots
<1>3. asked' \in [FileCaller -> Chosen] /\ UNCHANGED <<openfiles, host, length>>
  BY <1>1 DEF OpenChoosesSlot, FilesInv, FilesTyped, Chosen
<1>4. ASSUME NEW u \in FileCaller, ~Outside(u)'
      PROVE  (/\ asked[u].fd \in Fd /\ ~Valid(asked[u].fd)
              /\ asked[u].path \in Path /\ asked[u].flags \in FlagSets)'
  <2>1. CASE u = t
    BY <1>1, <1>2, <1>3, <2>1 DEF FilesInv, FilesTyped
  <2>2. CASE u # t
    BY <1>1, <1>3, <1>4, <2>2 DEF FilesInv, FilesTyped, Outside
  <2> QED  BY <2>1, <2>2
<1> QED  BY <1>3, <1>4 DEF FilesInv, FilesTyped

LEMMA FilesStepKeepsInv == OneCaller /\ FilesInv /\ [FilesNext]_filesVars => FilesInv'
<1> SUFFICES ASSUME OneCaller, FilesInv, [FilesNext]_filesVars PROVE FilesInv'
  OBVIOUS
<1>1. ASSUME NEW t \in FileCaller, OpenEnds(t) PROVE FilesInv'
  BY <1>1, OpenEndsKeepsInv
<1>2. ASSUME NEW t \in FileCaller, Outside(t), NEW path \in Path, UnlinkFile(path) \/ RenameTo(path)
      PROVE  FilesInv'
  <2>1. length' \in [Path -> Int] /\ UNCHANGED <<openfiles, host, asked>>
    BY <1>2 DEF UnlinkFile, RenameTo, FilesInv, FilesTyped
  <2> QED  BY <2>1, SameHandlesKeepInv DEF FilesInv, FilesTyped
<1>3. ASSUME NEW t \in FileCaller, NEW path \in Path, NEW flags \in FlagSets,
             OpenChoosesSlot(t, path, flags)
      PROVE  FilesInv'
  BY <1>3, ChoiceKeepsInv
<1>4. ASSUME NEW t \in FileCaller, Outside(t), NEW fd \in Fd, CloseFile(fd) PROVE FilesInv'
  <2>1. \A u \in FileCaller : Outside(u)
    BY <1>4 DEF OneCaller
  <2> QED  BY <1>4, <2>1, CloseKeepsInv
<1>5. ASSUME NEW fd \in Fd, NEW len \in 1 .. 2, ReadFile(fd, len) \/ WriteFile(fd, len)
      PROVE  FilesInv'
  BY <1>5, TransferKeepsInv
<1>6. ASSUME NEW fd \in Fd, NEW offset \in -1 .. 1, NEW whence, Lseek(fd, offset, whence)
      PROVE  FilesInv'
  BY <1>6, SeekKeepsInv
<1>7. CASE UNCHANGED filesVars
  BY <1>7, SameHandlesKeepInv DEF filesVars, FilesInv, FilesTyped
<1> QED  BY <1>1, <1>2, <1>3, <1>4, <1>5, <1>6, <1>7 DEF FilesNext

LEMMA FilesInitInv == FilesInit => FilesInv
<1> SUFFICES ASSUME FilesInit PROVE FilesInv
  OBVIOUS
<1>1. PICK h \in [0 .. 2 -> Lowest(3)] :
        /\ h[0] < h[1] /\ h[0] < h[2] /\ h[1] <= h[2]
        /\ openfiles = [fd \in Fd |->
                          [handle |-> IF fd <= 2 THEN h[fd] ELSE NoHandle, pos |-> 0]]
        /\ host = [g \in HostHandle |->
                     CASE g = h[0] -> Terminal("read")
                       [] g = h[1] -> Terminal("write")
                       [] g = h[2] -> Terminal("append")
                       [] OTHER    -> Nobody]
  BY DEF FilesInit
<1>2. h[0] \in HostHandle /\ h[1] \in HostHandle /\ h[2] \in HostHandle
  BY DEF Lowest
<1>3. \A g \in HostHandle :
        /\ host[g] \in Entry
        /\ host[g].file = IF g \in {h[0], h[1], h[2]} THEN "tt" ELSE "none"
  BY <1>1 DEF Terminal, Nobody, Entry
<1>4. \A fd \in Fd : /\ fd \in Int /\ openfiles[fd] \in Slot
                     /\ Handle(fd) = IF fd <= 2 THEN h[fd] ELSE NoHandle
  BY <1>1, <1>2 DEF Slot, Fd
<1>5. FilesTyped
  BY <1>1, <1>3, <1>4 DEF FilesInit, FilesTyped, Chosen, NotAsked
<1>6. \A fd \in Fd : Valid(fd) => fd \in {0, 1, 2}
  BY <1>4 DEF Fd
<1>7. \A fd, other \in Fd :
        (Valid(fd) /\ Handle(fd) = Handle(other) /\ fd # other) =>
          fd \in {1, 2} /\ other \in {1, 2} /\ host[Handle(fd)].file = "tt"
  BY <1>1, <1>2, <1>3, <1>4, <1>6
<1>8. \A fd \in Fd : Valid(fd) => OnHost(Handle(fd))
  BY <1>2, <1>3, <1>4, <1>6
<1>9. \A g \in HostHandle : host[g].file \notin Path
  BY <1>3, HandlesAreNot
<1>10. \A t \in FileCaller : Outside(t)
  BY DEF FilesInit, Outside
<1> QED  BY <1>5, <1>7, <1>8, <1>9, <1>10 DEF FilesInv

(* Of the open handles and the descriptors none is without the other, for  *)
(* one caller, with closes and transfers that fail (_syscalls.c:607-653,   *)
(* 853-923, 941-972).                                                      *)
THEOREM DescriptorsHaveHandles == ASSUME OneCaller PROVE FilesSpec => []HandlesKept
<1>1. FilesInv => HandlesKept
  BY DEF FilesInv, HandlesKept, FilesTyped, Slot, Nobody
<1> QED  BY <1>1, FilesInitInv, FilesStepKeepsInv, PTL DEF FilesSpec

-----------------------------------------------------------------------------
(* Positions agree as long as no file is opened to append.                 *)
PositionInv ==
  /\ PositionsAgree
  /\ \A h \in HostHandle : host[h].file \in Path => "append" \notin host[h].uses

(* Descriptors of files do not share handles.                              *)
LEMMA FilesHaveOwnHandle ==
  ASSUME FilesInv, NEW fd \in Fd, NEW g \in Fd, g # fd, Valid(fd),
         host[Handle(fd)].file \in Path
  PROVE  Handle(g) # Handle(fd)
BY HandlesAreNot DEF FilesInv

LEMMA OpenedKeepsPositions ==
  ASSUME FilesInv, PositionInv, NEW fd \in Fd, ~Valid(fd), NEW h \in FreeHandles,
         NEW path \in Path, NEW mode, "a" \notin mode, Opened(fd, h, path, mode)
  PROVE  PositionInv'
<1>1. h \in HostHandle /\ host[h].file = "none"
  BY DEF FreeHandles, Nobody
<1>2. \A g \in HostHandle :
        host'[g] = IF g = h THEN [file |-> path, uses |-> Uses(mode), at |-> 0] ELSE host[g]
  BY <1>1 DEF Opened, FilesInv, FilesTyped
<1>3. "append" \notin Uses(mode)
  BY DEF Uses
<1>4. ASSUME NEW g \in Fd, Valid(g)', host'[Handle(g)'].file \in Path
      PROVE  openfiles'[g].pos = host'[Handle(g)'].at
  <2>1. CASE g = fd
    BY <1>1, <1>2, <2>1 DEF Opened, FilesInv, FilesTyped
  <2>2. CASE g # fd
    <3>1. openfiles'[g] = openfiles[g] /\ Valid(g)
      BY <1>4, <2>2 DEF Opened, FilesInv, FilesTyped
    <3>2. Handle(g) \in HostHandle /\ OnHost(Handle(g))
      BY <3>1 DEF FilesInv, FilesTyped, Slot
    <3>3. host'[Handle(g)] = host[Handle(g)]
      BY <1>1, <1>2, <3>2
    <3> QED  BY <1>4, <3>1, <3>3 DEF PositionInv, PositionsAgree
  <2> QED  BY <2>1, <2>2
<1> QED  BY <1>2, <1>3, <1>4 DEF PositionInv, PositionsAgree

(* What moves the position of one descriptor of a file, on both sides.     *)
LEMMA MoveKeepsPositions ==
  ASSUME FilesInv, PositionInv, NEW fd \in Fd, OnFile(fd), NEW to \in Int,
         openfiles' = [openfiles EXCEPT ![fd].pos = to],
         host' = [host EXCEPT ![Handle(fd)].at = to]
  PROVE  PositionInv'
<1>1. Valid(fd) /\ Handle(fd) \in HostHandle
  BY DEF OnFile, FilesInv, FilesTyped, Slot
<1>2. host[Handle(fd)].file \in Path
  BY <1>1 DEF OnFile, FilesInv, FilesTyped, Entry
<1>3. \A g \in Fd : openfiles'[g].handle = openfiles[g].handle
  BY DEF FilesInv, FilesTyped, Slot
<1>4. \A h \in HostHandle : host'[h].file = host[h].file /\ host'[h].uses = host[h].uses
  BY DEF FilesInv, FilesTyped, Entry
<1>5. ASSUME NEW g \in Fd, Valid(g)', host'[Handle(g)'].file \in Path
      PROVE  openfiles'[g].pos = host'[Handle(g)'].at
  <2>1. CASE g = fd
    BY <1>1, <1>3, <2>1 DEF FilesInv, FilesTyped, Slot, Entry
  <2>2. CASE g # fd
    <3>1. Handle(g) # Handle(fd)
      BY <1>1, <1>2, <2>2, FilesHaveOwnHandle
    <3>2. openfiles'[g] = openfiles[g] /\ host'[Handle(g)] = host[Handle(g)]
      BY <1>5, <2>2, <3>1 DEF FilesInv, FilesTyped, Slot
    <3> QED  BY <1>3, <1>5, <3>2 DEF PositionInv, PositionsAgree
  <2> QED  BY <2>1, <2>2
<1> QED  BY <1>4, <1>5 DEF PositionInv, PositionsAgree

LEMMA TransferKeepsPositions ==
  ASSUME FilesInv, PositionInv, NEW fd \in Fd, NEW len \in 1 .. 2,
         ReadFile(fd, len) \/ WriteFile(fd, len)
  PROVE  PositionInv'
<1>1. Handle(fd) \in HostHandle /\ OnFile(fd) /\ Valid(fd)
  <2>1. OnFile(fd)
    BY DEF ReadFile, WriteFile
  <2> QED  BY <2>1, OnFileHasFile
<1>2. host[Handle(fd)].file \in Path
  BY <1>1, OnFileHasFile
<1>3. "append" \notin host[Handle(fd)].uses /\ openfiles[fd].pos = host[Handle(fd)].at
  BY <1>1, <1>2 DEF PositionInv, PositionsAgree
<1>4. openfiles[fd].pos \in Int /\ length[host[Handle(fd)].file] \in Int /\ len \in Int
  BY <1>2 DEF FilesInv, FilesTyped, Slot
<1>5. CASE UNCHANGED <<openfiles, host>>
  BY <1>5 DEF PositionInv, PositionsAgree
<1>6. ASSUME NEW n \in Int, Transfer(fd, host[Handle(fd)].at, len, n)
      PROVE  PositionInv'
  <2> DEFINE to == host[Handle(fd)].at + n
  <2>1. to \in Int /\ openfiles[fd].pos + Advance(len, len - n) = to
    BY <1>3, <1>4 DEF Advance
  <2>2. /\ openfiles' = [openfiles EXCEPT ![fd].pos = to]
        /\ host' = [host EXCEPT ![Handle(fd)].at = to]
    BY <1>6, <2>1 DEF Transfer
  <2> HIDE DEF to
  <2> QED  BY <1>1, <2>1, <2>2, MoveKeepsPositions
<1>7. CASE ReadFile(fd, len)
  <2> DEFINE n == Min({len, Max({0, length[host[Handle(fd)].file] - host[Handle(fd)].at})})
  <2>1. n \in Int
    <3>1. Max({0, length[host[Handle(fd)].file] - host[Handle(fd)].at}) \in Int
      <4> DEFINE left == length[host[Handle(fd)].file] - host[Handle(fd)].at
      <4>1. left \in Int
        BY <1>3, <1>4
      <4> HIDE DEF left
      <4>2. Max({0, left}) \in Int
        BY <4>1, MaxIsOneOf
      <4> QED  BY <4>2 DEF left
    <3> QED  BY <1>4, <3>1, MinIsOneOf
  <2> HIDE DEF n
  <2> QED  BY <1>5, <1>6, <1>7, <2>1 DEF ReadFile, n
<1>8. CASE WriteFile(fd, len)
  <2> DEFINE place == IF "append" \in host[Handle(fd)].uses THEN length[host[Handle(fd)].file]
                      ELSE host[Handle(fd)].at
  <2>1. place = host[Handle(fd)].at
    BY <1>3
  <2>2. ASSUME NEW n \in 0 .. Min({len, MaxLength - place}), Transfer(fd, place, len, n)
        PROVE  PositionInv'
    <3>1. n \in Int
      OBVIOUS
    <3> QED  BY <1>6, <2>1, <2>2, <3>1
  <2> QED  BY <1>5, <1>8, <2>2 DEF WriteFile
<1> QED  BY <1>7, <1>8

LEMMA CloseKeepsPositions ==
  ASSUME FilesInv, PositionInv, NEW fd \in Fd, CloseFile(fd)
  PROVE  PositionInv'
<1>1. CASE UNCHANGED <<openfiles, host>>
  BY <1>1 DEF PositionInv, PositionsAgree
<1>2. CASE /\ openfiles' = [openfiles EXCEPT ![fd] = [handle |-> NoHandle, pos |-> 0]]
           /\ host' = IF Shares(fd) THEN host ELSE [host EXCEPT ![Handle(fd)] = Nobody]
  <2>1. \A h \in HostHandle : host'[h] = host[h] \/ host'[h] = Nobody
    BY <1>2 DEF FilesInv, FilesTyped
  <2>2. \A h \in HostHandle : host'[h].file \in Path => host'[h] = host[h]
    BY <2>1, HandlesAreNot DEF Nobody
  <2>3. ASSUME NEW g \in Fd, Valid(g)', host'[Handle(g)'].file \in Path
        PROVE  openfiles'[g].pos = host'[Handle(g)'].at
    <3>1. openfiles'[g] = openfiles[g] /\ Valid(g)
      BY <1>2, <2>3 DEF FilesInv, FilesTyped
    <3>2. Handle(g) \in HostHandle
      BY <3>1 DEF FilesInv, FilesTyped, Slot
    <3>3. host'[Handle(g)] = host[Handle(g)]
      BY <2>2, <2>3, <3>1, <3>2
    <3> QED  BY <2>3, <3>1, <3>3 DEF PositionInv, PositionsAgree
  <2> QED  BY <2>2, <2>3 DEF PositionInv, PositionsAgree
<1> QED  BY <1>1, <1>2 DEF CloseFile

LEMMA OpenEndsKeepsPositions ==
  ASSUME NeverAppends, FilesInv, PositionInv, NEW t \in FileCaller, OpenEnds(t)
  PROVE  PositionInv'
<1> DEFINE path == asked[t].path
           flags == asked[t].flags
<1>1. /\ asked[t].fd \in Fd /\ ~Valid(asked[t].fd)
      /\ path \in Path /\ flags \in FlagSets
  BY DEF OpenEnds, FilesInv
<1>2. CASE UNCHANGED <<openfiles, host>>
  BY <1>2 DEF PositionInv, PositionsAgree
<1>3. CASE StatLeaves(path)
  <2>1. PICK fd \in Fd, h \in FreeHandles : NewSlot(fd) /\ Opened(fd, h, path, {"r"})
    BY <1>3 DEF StatLeaves
  <2>2. ~Valid(fd) /\ "a" \notin {"r"}
    BY <2>1 DEF NewSlot, FreeSlots
  <2> QED  BY <1>1, <2>1, <2>2, OpenedKeepsPositions
<1>4. CASE \E h \in FreeHandles : Opened(asked[t].fd, h, path, AFlags(flags))
  <2>1. "a" \notin AFlags(flags)
    BY <1>1 DEF NeverAppends, AFlags
  <2> QED  BY <1>1, <1>4, <2>1, OpenedKeepsPositions
<1> QED  BY <1>2, <1>3, <1>4 DEF OpenEnds, Refuses

LEMMA StepKeepsPositions ==
  NeverAppends /\ FilesInv /\ PositionInv /\ [FilesNext]_filesVars => PositionInv'
<1> SUFFICES ASSUME NeverAppends, FilesInv, PositionInv, [FilesNext]_filesVars
             PROVE  PositionInv'
  OBVIOUS
<1>1. ASSUME NEW t \in FileCaller, OpenEnds(t) PROVE PositionInv'
  BY <1>1, OpenEndsKeepsPositions
<1>2. ASSUME NEW fd \in Fd, NEW len \in 1 .. 2, ReadFile(fd, len) \/ WriteFile(fd, len)
      PROVE  PositionInv'
  BY <1>2, TransferKeepsPositions
<1>3. ASSUME NEW fd \in Fd, NEW offset \in -1 .. 1, NEW whence, Lseek(fd, offset, whence)
      PROVE  PositionInv'
  <2> DEFINE target == SeekTarget(fd, offset, whence)
  <2>1. /\ OnFile(fd) /\ target \in Int
        /\ openfiles' = [openfiles EXCEPT ![fd].pos = target]
        /\ host' = [host EXCEPT ![Handle(fd)].at = target]
    BY <1>3 DEF Lseek
  <2> HIDE DEF target
  <2> QED  BY <2>1, MoveKeepsPositions
<1>4. ASSUME NEW fd \in Fd, CloseFile(fd) PROVE PositionInv'
  BY <1>4, CloseKeepsPositions
<1>5. ASSUME UNCHANGED <<openfiles, host>> PROVE PositionInv'
  BY <1>5 DEF PositionInv, PositionsAgree
<1>6. ASSUME NEW t \in FileCaller, NEW path \in Path, NEW flags \in FlagSets,
             UnlinkFile(path) \/ RenameTo(path) \/ OpenChoosesSlot(t, path, flags)
      PROVE  PositionInv'
  BY <1>5, <1>6 DEF UnlinkFile, RenameTo, OpenChoosesSlot
<1>7. ASSUME NEW path \in Path, UnlinkFile(path) \/ RenameTo(path) PROVE PositionInv'
  BY <1>5, <1>7 DEF UnlinkFile, RenameTo
<1>8. CASE UNCHANGED filesVars
  BY <1>5, <1>8 DEF filesVars
<1> QED  BY <1>1, <1>2, <1>3, <1>4, <1>6, <1>7, <1>8 DEF FilesNext

(* The position SEEK_CUR starts from is the host's, for any sequence of    *)
(* calls with short and failed transfers, if no file is opened to append   *)
(* (_syscalls.c:704-797, 820-851).                                         *)
THEOREM PositionsStayEqual ==
  ASSUME OneCaller, NeverAppends PROVE FilesSpec => []PositionsAgree
<1>1. FilesInit => PositionInv
  <2> SUFFICES ASSUME FilesInit PROVE PositionInv
    OBVIOUS
  <2>1. \A h \in HostHandle : host[h].file \notin Path
    BY HandlesAreNot DEF FilesInit, Terminal, Nobody
  <2>2. \A fd \in Fd : Valid(fd) => Handle(fd) \in HostHandle
    BY FilesInitInv DEF FilesInv, FilesTyped, Slot
  <2> QED  BY <2>1, <2>2 DEF PositionInv, PositionsAgree
<1>2. PositionInv => PositionsAgree
  BY DEF PositionInv
<1> QED  BY <1>1, <1>2, FilesInitInv, FilesStepKeepsInv, StepKeepsPositions, PTL DEF FilesSpec

(* When opening a file and asking for its length do not fail for nothing,  *)
(* O_CREAT with O_EXCL creates (_syscalls.c:868-878).                      *)
THEOREM ExclusiveOpensCreate ==
  ASSUME OneCaller, HostFails \cap {"open", "flen"} = {}
  PROVE  FilesSpec => []ExclusiveCreates
<1>1. FilesInit => ExclusiveCreates
  BY DEF FilesInit, NotOpened, ExclusiveCreates
<1>2. FilesInv /\ ExclusiveCreates /\ [FilesNext]_filesVars => ExclusiveCreates'
  <2> SUFFICES ASSUME FilesInv, ExclusiveCreates, [FilesNext]_filesVars
               PROVE  ExclusiveCreates'
    OBVIOUS
  <2>1. ASSUME NEW t \in FileCaller, OpenEnds(t) PROVE ExclusiveCreates'
    <3>1. FreeSlots # {}
      BY <2>1 DEF OpenEnds, FilesInv, FreeSlots
    <3>2. CASE opened'.fd = -1
      BY <3>2 DEF ExclusiveCreates
    <3>3. CASE opened'.fd # -1
      <4>1. /\ {"creat", "excl"} \subseteq asked[t].flags => ~StatSucceeds(asked[t].path)
            /\ Opens(asked[t].path, AFlags(asked[t].flags))
            /\ opened'.flags = asked[t].flags /\ opened'.existed = Exists(asked[t].path)
        BY <2>1, <3>3 DEF OpenEnds, Refuses
      <4> QED  BY <3>1, <4>1 DEF ExclusiveCreates, StatSucceeds, Opens
    <3> QED  BY <3>2, <3>3
  <2>2. CASE opened' = NotOpened \/ opened' = opened
    BY <2>2 DEF NotOpened, ExclusiveCreates
  <2> QED  BY <2>1, <2>2 DEF FilesNext, filesVars, UnlinkFile, RenameTo, OpenChoosesSlot,
             ReadFile, WriteFile, Lseek, CloseFile
<1> QED  BY <1>1, <1>2, FilesInitInv, FilesStepKeepsInv, PTL DEF FilesSpec

HIDE FilesAssumption DEF Handle, Valid, OnHost

-----------------------------------------------------------------------------
(* The heap: a priority queue, if every index of a child fits              *)
(* heap_index_t.                                                           *)

IndicesFit == 2 * MaxSize <= HalfRange /\ 2 < HalfRange

Up(i) == (i - 1) \div 2

(* A thing x may be above y.                                               *)
NoWorse(c, x, y) ==
  IF c = "max" THEN HeapKey[x] >= HeapKey[y] ELSE HeapKey[x] <= HeapKey[y]

(* The elements in use are there; none but the one that is on its way is   *)
(* out of order with its parent, and what is below that one is in order    *)
(* with what is above it.                                                  *)
HeapTyped ==
  /\ size \in 0 .. MaxSize
  /\ data \in [Slots -> HeapThing \cup {NoThing}]
  /\ cmp \in {"max", "min"}
  /\ sifting \in {"no", "up", "down"} /\ sifted \in Slots
  /\ \A i \in Slots : data[i] # NoThing <=> i < size

InOrder(i) == NoWorse(cmp, data[Up(i)], data[i])

HeapOrder ==
  /\ sifting = "no" => \A i \in 1 .. size - 1 : InOrder(i)
  /\ sifting = "up" => sifted < size /\ \A i \in 1 .. size - 1 : i # sifted => InOrder(i)
  /\ sifting = "down" =>
       /\ sifted = 0 \/ sifted < size
       /\ size < MaxSize
       /\ \A i \in 1 .. size - 1 : Up(i) # sifted => InOrder(i)
  /\ sifting # "no" =>
       \A i \in 1 .. size - 1 : Up(i) = sifted /\ sifted > 0 => NoWorse(cmp, data[Up(sifted)], data[i])

HeapInv == HeapTyped /\ HeapOrder /\ NeverStrays

(* Indices that fit are what they are.                                     *)
LEMMA IndexFits ==
  ASSUME IndicesFit, NEW i \in Int, -HalfRange <= i, i < HalfRange
  PROVE  Index8(i) = i
<1>1. HalfRange \in Nat \ {0}
  BY HeapAssumption
<1>2. i + HalfRange \in 0 .. 2 * HalfRange - 1
  BY <1>1
<1>3. \A n \in Nat \ {0} : \A k \in 0 .. n - 1 : k % n = k
  OBVIOUS
<1>4. 2 * HalfRange \in Nat \ {0}
  BY <1>1
<1>5. (i + HalfRange) % (2 * HalfRange) = i + HalfRange
  BY <1>2, <1>3, <1>4
<1> QED  BY <1>1, <1>5 DEF Index8

LEMMA Indices ==
  ASSUME IndicesFit, NEW i \in Slots
  PROVE  /\ Index8(i) = i /\ Parent(i) = Up(i)
         /\ LeftChild(i) = 2 * i + 1
         /\ 2 * i + 2 < HalfRange => RightChild(i) = 2 * i + 2
<1>1. MaxSize \in Nat \ {0} /\ HalfRange \in Nat \ {0} /\ i \in Nat /\ i < MaxSize
  BY HeapAssumption DEF Slots
<1>2. 2 * MaxSize <= HalfRange
  BY DEF IndicesFit
<1>3. Up(i) \in Int /\ -HalfRange <= Up(i) /\ Up(i) < HalfRange
  BY <1>1, <1>2 DEF Up
<1>4. Parent(i) = Up(i)
  BY <1>3, IndexFits DEF Parent, Up
<1>5. i * 2 + 1 = 2 * i + 1 /\ i * 2 + 2 = 2 * i + 2
  BY <1>1
<1>6. LeftChild(i) = 2 * i + 1
  BY <1>1, <1>2, <1>5, IndexFits DEF LeftChild
<1>7. 2 * i + 2 < HalfRange => RightChild(i) = 2 * i + 2
  BY <1>1, <1>2, <1>5, IndexFits DEF RightChild
<1>8. Index8(i) = i
  BY <1>1, <1>2, IndexFits
<1> QED  BY <1>4, <1>6, <1>7, <1>8

LEMMA UpFacts ==
  ASSUME NEW i \in Nat, i > 0
  PROVE  /\ Up(i) \in Nat /\ Up(i) < i
         /\ \A j \in Nat : Up(i) = j <=> i = 2 * j + 1 \/ i = 2 * j + 2
BY DEF Up

(* NoWorse orders things, all of them.                                     *)
LEMMA Ordered ==
  ASSUME NEW x \in HeapThing, NEW y \in HeapThing
  PROVE  /\ NoWorse(cmp, x, y) \/ NoWorse(cmp, y, x)
         /\ \A z \in HeapThing : NoWorse(cmp, x, y) /\ NoWorse(cmp, y, z) => NoWorse(cmp, x, z)
<1>1. \A z \in HeapThing : HeapKey[z] \in Nat
  BY HeapAssumption
<1> QED  BY <1>1 DEF NoWorse

LEMMA Compared ==
  ASSUME NEW a, NEW b, data[a] \in HeapThing, data[b] \in HeapThing
  PROVE  /\ Compare(a, b) => NoWorse(cmp, data[a], data[b])
         /\ ~Compare(a, b) => NoWorse(cmp, data[b], data[a])
<1>1. \A z \in HeapThing : HeapKey[z] \in Nat
  BY HeapAssumption
<1> QED  BY <1>1 DEF NoWorse, Compare

(* A thing that is swapped with its parent.                                *)
LEMMA UpKeeps ==
  ASSUME IndicesFit, HeapInv, HeapifyUp
  PROVE  HeapInv'
<1>1. /\ size \in Nat /\ MaxSize \in Nat /\ size <= MaxSize /\ Slots = 0 .. MaxSize - 1
      /\ sifted \in Nat /\ sifted < size /\ sifted \in Slots
      /\ \A i \in 0 .. size - 1 : i \in Slots /\ data[i] \in HeapThing
  BY HeapAssumption DEF HeapInv, HeapTyped, HeapOrder, HeapifyUp, Slots
<1>2. size' = size /\ cmp' = cmp /\ outside' = outside /\ sifting = "up"
  BY DEF HeapifyUp
<1>4. CASE sifted > 0 /\ ~Compare(Parent(sifted), sifted)
  <2> DEFINE s == sifted
             p == Up(sifted)
  <2>1. /\ s \in 1 .. size - 1 /\ p \in 0 .. size - 1 /\ p < s /\ p \in Slots
        /\ Parent(sifted) = p
    BY <1>1, <1>4, Indices, UpFacts
  <2>2. /\ data' = [data EXCEPT ![p] = data[s], ![s] = data[p]]
        /\ sifting' = "up" /\ sifted' = p
    BY <1>4, <2>1 DEF HeapifyUp, Swap, Sift
  <2>3. NoWorse(cmp, data[s], data[p])
    BY <1>1, <1>4, <2>1, Compared
  <2> HIDE DEF s, p
  <2>4. HeapTyped'
    BY <1>1, <1>2, <2>1, <2>2 DEF HeapInv, HeapTyped, s, Slots
  <2>5. ASSUME NEW i \in 1 .. size - 1
        PROVE  /\ i # p => NoWorse(cmp, data'[Up(i)], data'[i])
               /\ Up(i) = p /\ p > 0 => NoWorse(cmp, data'[Up(p)], data'[i])
    <3>1. /\ i \in Nat /\ i > 0 /\ Up(i) \in Nat /\ Up(i) < i /\ Up(i) \in 0 .. size - 1
          /\ i \in 0 .. size - 1 /\ i \in Slots /\ Up(i) \in Slots
      BY <1>1, UpFacts
    <3>2. p > 0 => Up(p) \in 0 .. size - 1 /\ Up(p) < p /\ Up(p) \in Slots
      BY <1>1, <2>1, UpFacts
    <3>3. /\ data'[p] = data[s] /\ data'[s] = data[p]
          /\ \A j \in Slots : j # p /\ j # s => data'[j] = data[j]
      BY <1>1, <2>1, <2>2 DEF HeapInv, HeapTyped, s
    <3>4. /\ i # s => NoWorse(cmp, data[Up(i)], data[i])
          /\ Up(i) = s => NoWorse(cmp, data[p], data[i])
          /\ p > 0 => NoWorse(cmp, data[Up(p)], data[p])
      BY <1>1, <1>2, <2>1, <3>1 DEF HeapInv, HeapOrder, InOrder, s, p
    <3>5. Up(s) = p
      BY DEF s, p
    <3>6. /\ data[i] \in HeapThing /\ data[p] \in HeapThing /\ data[s] \in HeapThing
          /\ p > 0 => data[Up(p)] \in HeapThing
      BY <1>1, <2>1, <3>1, <3>2 DEF s
    <3>7. i # p => NoWorse(cmp, data'[Up(i)], data'[i])
      <4>1. CASE i = s
        BY <2>3, <3>3, <3>5, <4>1
      <4>2. CASE i # s /\ i # p /\ Up(i) = p
        BY <2>3, <3>1, <3>3, <3>4, <3>6, <4>2, Ordered
      <4>3. CASE i # s /\ i # p /\ Up(i) = s
        BY <3>1, <3>3, <3>4, <4>3
      <4>4. CASE i # s /\ i # p /\ Up(i) # p /\ Up(i) # s
        BY <3>1, <3>3, <3>4, <4>4
      <4> QED  BY <4>1, <4>2, <4>3, <4>4
    <3>8. Up(i) = p /\ p > 0 => NoWorse(cmp, data'[Up(p)], data'[i])
      <4> SUFFICES ASSUME Up(i) = p, p > 0 PROVE NoWorse(cmp, data'[Up(p)], data'[i])
        OBVIOUS
      <4>1. data'[Up(p)] = data[Up(p)] /\ i # p
        BY <2>1, <3>1, <3>2, <3>3
      <4>2. CASE i = s
        BY <3>3, <3>4, <4>1, <4>2
      <4>3. CASE i # s
        BY <3>1, <3>3, <3>4, <3>6, <4>1, <4>3, Ordered
      <4> QED  BY <4>2, <4>3
    <3> QED  BY <3>7, <3>8
  <2>6. HeapOrder'
    <3>1. \A i \in 1 .. size' - 1 : i # sifted' => InOrder(i)'
      BY <1>2, <2>2, <2>5 DEF InOrder
    <3>2. \A i \in 1 .. size' - 1 :
            Up(i) = sifted' /\ sifted' > 0 => NoWorse(cmp', data'[Up(sifted')], data'[i])
      BY <1>2, <2>2, <2>5
    <3>3. sifted' < size'
      BY <1>1, <1>2, <2>1, <2>2
    <3> QED  BY <2>2, <3>1, <3>2, <3>3 DEF HeapOrder
  <2> QED  BY <1>2, <2>4, <2>6 DEF HeapInv, NeverStrays
<1>5. CASE ~(sifted > 0 /\ ~Compare(Parent(sifted), sifted))
  <2>1. data' = data /\ sifting' = "no" /\ sifted' = 0
    BY <1>5 DEF HeapifyUp, Sift
  <2>2. sifted > 0 => InOrder(sifted)
    <3> SUFFICES ASSUME sifted > 0 PROVE InOrder(sifted)
      OBVIOUS
    <3>1. Parent(sifted) = Up(sifted) /\ Up(sifted) \in 0 .. size - 1
      BY <1>1, Indices, UpFacts
    <3> QED  BY <1>1, <1>5, <3>1, Compared DEF InOrder
  <2>3. \A i \in 1 .. size - 1 : InOrder(i)
    BY <1>1, <1>2, <2>2 DEF HeapInv, HeapOrder
  <2>4. HeapOrder'
    BY <1>2, <2>1, <2>3 DEF HeapOrder, InOrder, NoWorse
  <2>5. 0 \in Slots
    BY <1>1
  <2> QED  BY <1>2, <2>1, <2>4, <2>5 DEF HeapInv, HeapTyped, NeverStrays, Slots
<1> QED  BY <1>4, <1>5

(* A thing that is swapped with the better of its children.                *)
LEMMA DownKeeps ==
  ASSUME IndicesFit, HeapInv, Heapify
  PROVE  HeapInv'
<1>1. /\ size \in Nat /\ MaxSize \in Nat /\ size <= MaxSize /\ Slots = 0 .. MaxSize - 1
      /\ sifted \in Nat /\ (sifted = 0 \/ sifted < size) /\ sifted \in Slots
      /\ \A i \in 0 .. size - 1 : i \in Slots /\ data[i] \in HeapThing
  BY HeapAssumption DEF HeapInv, HeapTyped, HeapOrder, Heapify, Slots
<1>2. size' = size /\ cmp' = cmp /\ sifting = "down"
  BY DEF Heapify
<1> DEFINE s == sifted
           l == 2 * s + 1
           r == 2 * s + 2
<1>3. ~Strays(s) /\ LeftChild(s) = l /\ RightChild(s) = r
  <2>1. 2 * MaxSize <= HalfRange /\ 2 < HalfRange /\ HalfRange \in Nat
    BY HeapAssumption DEF IndicesFit
  <2>2. size < MaxSize
    BY <1>2 DEF HeapInv, HeapOrder
  <2>3. r \in Nat /\ l \in Nat /\ r < HalfRange
    BY <1>1, <2>1, <2>2
  <2> QED  BY <1>1, <2>3, Indices DEF Strays
<1>4. outside' = FALSE
  BY <1>3 DEF Heapify
<1>5. PICK m \in Slots :
        /\ m = Better(r, Better(l, s))
        /\ IF m = s THEN Sift("no", 0) /\ UNCHANGED data
           ELSE Swap(s, m) /\ Sift("down", m)
  BY <1>3, <1>4 DEF Heapify
<1>6. /\ l \in Nat /\ r \in Nat /\ l > s /\ r > s /\ l # r
      /\ Up(l) = s /\ Up(r) = s /\ \A i \in Nat : i > 0 /\ Up(i) = s => i \in {l, r}
  BY <1>1, UpFacts
<1>7. s < size => data[s] \in HeapThing
  BY <1>1
<1>8. /\ m = s \/ (m \in {l, r} /\ m \in 1 .. size - 1 /\ s < size)
      /\ \A i \in 1 .. size - 1 : Up(i) = s => NoWorse(cmp, data[m], data[i])
      /\ m # s => NoWorse(cmp, data[m], data[s])
  <2>1. CASE s >= size
    BY <1>1, <1>5, <1>6, <2>1 DEF Better
  <2>2. CASE s < size
    <3> DEFINE b == Better(l, s)
    <3>1. /\ b = s \/ (b = l /\ l \in 1 .. size - 1)
          /\ l < size => NoWorse(cmp, data[b], data[l])
          /\ NoWorse(cmp, data[b], data[s])
          /\ data[b] \in HeapThing
      <4>1. CASE l < size
        <5>1. l \in 0 .. size - 1 /\ l \in 1 .. size - 1
          BY <1>1, <1>6, <4>1
        <5>2. data[l] \in HeapThing
          BY <1>1, <5>1
        <5> QED  BY <1>7, <2>2, <4>1, <5>1, <5>2, Compared, Ordered DEF Better
      <4>2. CASE ~(l < size)
        BY <1>7, <2>2, <4>2, Ordered DEF Better
      <4> QED  BY <4>1, <4>2
    <3>2. m = Better(r, b)
      BY <1>5
    <3> HIDE DEF b
    <3>3. CASE r < size
      <4>1. r \in 0 .. size - 1 /\ r \in 1 .. size - 1 /\ l \in 0 .. size - 1 /\ l < size
        BY <1>1, <1>6, <3>3
      <4>2. data[r] \in HeapThing /\ data[l] \in HeapThing
        BY <1>1, <4>1
      <4>3. CASE Compare(r, b)
        <5>1. m = r
          BY <3>2, <3>3, <4>3 DEF Better
        <5>2. NoWorse(cmp, data[r], data[b])
          BY <3>1, <4>2, <4>3, Compared
        <5>3. /\ NoWorse(cmp, data[r], data[l]) /\ NoWorse(cmp, data[r], data[s])
              /\ NoWorse(cmp, data[r], data[r])
          BY <1>7, <2>2, <3>1, <4>1, <4>2, <5>2, Ordered
        <5> QED  BY <1>6, <2>2, <4>1, <5>1, <5>3
      <4>4. CASE ~Compare(r, b)
        <5>1. m = b
          BY <3>2, <4>4 DEF Better
        <5>2. NoWorse(cmp, data[b], data[r])
          BY <3>1, <4>2, <4>4, Compared
        <5> QED  BY <1>6, <2>2, <3>1, <4>1, <5>1, <5>2
      <4> QED  BY <4>3, <4>4
    <3>4. CASE ~(r < size)
      <4>1. m = b
        BY <3>2, <3>4 DEF Better
      <4>2. \A i \in 1 .. size - 1 : Up(i) = s => i = l /\ l < size
        BY <1>1, <1>6, <3>4
      <4> QED  BY <1>6, <2>2, <3>1, <4>1, <4>2
    <3> QED  BY <3>3, <3>4
  <2> QED  BY <1>1, <2>1, <2>2
<1>9. \A i \in 1 .. size - 1 : Up(i) # s => InOrder(i)
  BY <1>2 DEF HeapInv, HeapOrder
<1>10. size < MaxSize
  BY <1>2 DEF HeapInv, HeapOrder
<1>11. CASE m = s
  <2>1. data' = data /\ sifting' = "no" /\ sifted' = 0
    BY <1>5, <1>11 DEF Sift
  <2>2. \A i \in 1 .. size - 1 : InOrder(i)
    BY <1>8, <1>9, <1>11 DEF InOrder
  <2>3. HeapOrder'
    BY <1>2, <2>1, <2>2 DEF HeapOrder, InOrder
  <2>4. 0 \in Slots
    BY <1>1
  <2> QED  BY <1>2, <1>4, <2>1, <2>3, <2>4 DEF HeapInv, HeapTyped, NeverStrays, Slots
<1>12. CASE m # s
  <2>1. /\ data' = [data EXCEPT ![s] = data[m], ![m] = data[s]]
        /\ sifting' = "down" /\ sifted' = m
    BY <1>5, <1>12 DEF Swap, Sift
  <2>2. /\ m \in {l, r} /\ m \in 1 .. size - 1 /\ m \in Slots /\ s \in Slots
        /\ s \in 0 .. size - 1 /\ s < m /\ Up(m) = s
    BY <1>1, <1>6, <1>8, <1>12
  <2> HIDE DEF s, l, r
  <2>3. HeapTyped'
    BY <1>1, <1>2, <2>1, <2>2 DEF HeapInv, HeapTyped, Slots
  <2>4. ASSUME NEW i \in 1 .. size - 1
        PROVE  /\ Up(i) # m => NoWorse(cmp, data'[Up(i)], data'[i])
               /\ Up(i) = m => NoWorse(cmp, data'[s], data'[i])
    <3>1. /\ i \in Nat /\ i > 0 /\ Up(i) \in Nat /\ Up(i) < i /\ Up(i) \in 0 .. size - 1
          /\ i \in 0 .. size - 1 /\ i \in Slots /\ Up(i) \in Slots
      BY <1>1, UpFacts
    <3>2. /\ data'[s] = data[m] /\ data'[m] = data[s]
          /\ \A j \in Slots : j # s /\ j # m => data'[j] = data[j]
      BY <2>1, <2>2 DEF HeapInv, HeapTyped
    <3>3. /\ Up(i) # s => NoWorse(cmp, data[Up(i)], data[i])
          /\ Up(i) = s => NoWorse(cmp, data[m], data[i])
          /\ i = s => NoWorse(cmp, data[Up(s)], data[m])
      <4>1. i = s => sifted > 0
        BY <3>1 DEF s
      <4>2. sifted > 0 => NoWorse(cmp, data[Up(s)], data[m])
        BY <1>2, <2>2 DEF HeapInv, HeapOrder, s
      <4> QED  BY <1>8, <1>9, <4>1, <4>2 DEF InOrder
    <3>4. Up(i) # m => NoWorse(cmp, data'[Up(i)], data'[i])
      <4>1. CASE i = m
        BY <1>8, <1>12, <2>2, <3>2, <4>1
      <4>2. CASE i # m /\ Up(i) = s
        <5>1. i # s
          BY <3>1, <4>2
        <5> QED  BY <3>1, <3>2, <3>3, <4>2, <5>1
      <4>3. CASE i = s
        <5>1. Up(i) # s /\ Up(i) # m
          BY <2>2, <3>1, <4>3
        <5> QED  BY <3>1, <3>2, <3>3, <4>3, <5>1
      <4>4. CASE i # m /\ i # s /\ Up(i) # s /\ Up(i) # m
        BY <3>1, <3>2, <3>3, <4>4
      <4> QED  BY <4>1, <4>2, <4>3, <4>4
    <3>5. Up(i) = m => NoWorse(cmp, data'[s], data'[i])
      <4> SUFFICES ASSUME Up(i) = m PROVE NoWorse(cmp, data'[s], data'[i])
        OBVIOUS
      <4>1. i # m /\ i # s /\ Up(i) # s
        BY <1>12, <2>2, <3>1
      <4> QED  BY <3>1, <3>2, <3>3, <4>1
    <3> QED  BY <3>4, <3>5
  <2>5. HeapOrder'
    <3>1. \A i \in 1 .. size' - 1 : Up(i) # sifted' => InOrder(i)'
      BY <1>2, <2>1, <2>4 DEF InOrder
    <3>2. \A i \in 1 .. size' - 1 :
            Up(i) = sifted' /\ sifted' > 0 => NoWorse(cmp', data'[Up(sifted')], data'[i])
      BY <1>2, <2>1, <2>2, <2>4
    <3>3. sifted' < size' /\ size' < MaxSize
      BY <1>1, <1>2, <1>10, <2>1, <2>2
    <3> QED  BY <2>1, <3>1, <3>2, <3>3 DEF HeapOrder
  <2> QED  BY <1>4, <2>3, <2>5 DEF HeapInv, NeverStrays
<1> QED  BY <1>11, <1>12

LEMMA InsertKeeps ==
  ASSUME IndicesFit, HeapInv, NEW x \in HeapThing, HeapInsert(x)
  PROVE  HeapInv'
<1>1. /\ size \in Nat /\ MaxSize \in Nat /\ size <= MaxSize /\ Slots = 0 .. MaxSize - 1
      /\ data \in [Slots -> HeapThing \cup {NoThing}]
      /\ \A i \in 1 .. size - 1 : InOrder(i)
  BY HeapAssumption DEF HeapInv, HeapTyped, HeapOrder, HeapInsert, Slots
<1>2. cmp' = cmp /\ outside' = outside /\ sifting = "no"
  BY DEF HeapInsert
<1>3. CASE HeapIsFull
  BY <1>2, <1>3 DEF HeapInsert, HeapInv, HeapTyped, HeapOrder, InOrder, NeverStrays, Slots
<1>4. CASE ~HeapIsFull
  <2>1. size \in Slots /\ Index8(size) = size
    BY <1>1, <1>4, Indices DEF HeapIsFull
  <2>2. /\ size' = size + 1 /\ sifting' = "up" /\ sifted' = size
        /\ data' = [data EXCEPT ![size] = x]
    BY <1>4, <2>1 DEF HeapInsert, Sift
  <2>3. HeapTyped'
    BY <1>1, <1>2, <2>1, <2>2, HeapAssumption DEF HeapInv, HeapTyped, Slots
  <2>4. ASSUME NEW i \in 1 .. size' - 1
        PROVE  Up(i) # size /\ (i # size => InOrder(i)')
    <3>1. i \in Nat /\ i > 0 /\ Up(i) \in Nat /\ Up(i) < i /\ Up(i) # size
      BY <1>1, <2>2, UpFacts
    <3>2. ASSUME i # size PROVE InOrder(i)'
      <4>1. i \in 1 .. size - 1 /\ i \in Slots /\ Up(i) \in Slots
        BY <1>1, <2>2, <3>1, <3>2
      <4> QED  BY <1>1, <1>2, <2>1, <2>2, <3>1, <3>2, <4>1 DEF InOrder
    <3> QED  BY <3>1, <3>2
  <2>5. HeapOrder'
    BY <1>1, <2>2, <2>4 DEF HeapOrder
  <2> QED  BY <1>2, <2>3, <2>5 DEF HeapInv, NeverStrays
<1> QED  BY <1>3, <1>4

LEMMA RemoveKeeps ==
  ASSUME IndicesFit, HeapInv, HeapRemoveHead
  PROVE  HeapInv'
<1>1. /\ size \in Nat /\ MaxSize \in Nat /\ size <= MaxSize /\ Slots = 0 .. MaxSize - 1
      /\ data \in [Slots -> HeapThing \cup {NoThing}]
      /\ \A i \in 1 .. size - 1 : InOrder(i)
  BY HeapAssumption DEF HeapInv, HeapTyped, HeapOrder, HeapRemoveHead, Slots
<1>2. cmp' = cmp /\ outside' = outside /\ sifting = "no"
  BY DEF HeapRemoveHead
<1>3. CASE HeapIsEmpty
  BY <1>2, <1>3 DEF HeapRemoveHead, HeapInv, HeapTyped, HeapOrder, InOrder, NeverStrays, Slots
<1>4. CASE ~HeapIsEmpty
  <2>1. /\ size > 0 /\ 0 \in Slots /\ size - 1 \in Slots
        /\ size' = size - 1 /\ sifting' = "down" /\ sifted' = 0
        /\ data' = [data EXCEPT ![0] = data[size - 1], ![size - 1] = NoThing]
    BY <1>1, <1>4 DEF HeapRemoveHead, HeapIsEmpty, Sift
  <2>2. HeapTyped'
    BY <1>1, <1>2, <2>1, HeapAssumption DEF HeapInv, HeapTyped, Slots
  <2>3. ASSUME NEW i \in 1 .. size' - 1, Up(i) # 0
        PROVE  InOrder(i)'
    <3>1. i \in Nat /\ i > 0 /\ Up(i) \in Nat /\ Up(i) < i
      BY UpFacts
    <3>2. i \in 1 .. size - 1 /\ i \in Slots /\ Up(i) \in Slots /\ i # size - 1 /\ Up(i) # size - 1
      BY <1>1, <2>1, <3>1
    <3> QED  BY <1>1, <1>2, <2>1, <2>3, <3>1, <3>2 DEF InOrder
  <2>4. size' < MaxSize
    BY <1>1, <2>1
  <2>5. HeapOrder'
    BY <2>1, <2>3, <2>4 DEF HeapOrder
  <2> QED  BY <1>2, <2>2, <2>5 DEF HeapInv, NeverStrays
<1> QED  BY <1>3, <1>4

LEMMA StepKeepsHeap ==
  ASSUME IndicesFit, HeapInv, [HeapNext]_heapVars
  PROVE  HeapInv'
<1>1. CASE UNCHANGED heapVars
  BY <1>1 DEF heapVars, HeapInv, HeapTyped, HeapOrder, InOrder, NeverStrays, Slots
<1>2. CASE HeapNext
  BY <1>2, InsertKeeps, RemoveKeeps, UpKeeps, DownKeeps DEF HeapNext
<1> QED  BY <1>1, <1>2

LEMMA HeapInitInv == HeapInit => HeapInv
<1> SUFFICES ASSUME HeapInit PROVE HeapInv
  OBVIOUS
<1>1. 0 \in Slots /\ Slots \subseteq Nat /\ 0 \in 0 .. MaxSize
  BY HeapAssumption DEF Slots
<1>2. HeapTyped
  BY <1>1 DEF HeapInit, HeapTyped
<1>3. HeapOrder
  <2>1. 1 .. size - 1 = {} /\ sifting = "no"
    BY DEF HeapInit
  <2> QED  BY <2>1 DEF HeapOrder
<1> QED  BY <1>2, <1>3 DEF HeapInv, NeverStrays, HeapInit

-----------------------------------------------------------------------------
(* How often a thing is among the first n elements of an array.            *)
Where(d, n, x) == {i \in 0 .. n - 1 : d[i] = x}

LEMMA WhereFinite ==
  ASSUME NEW d, NEW n \in Nat, NEW x
  PROVE  /\ IsFiniteSet(Where(d, n, x)) /\ Cardinality(Where(d, n, x)) \in Nat
         /\ Cardinality(Where(d, n, x)) > 0 <=> \E i \in 0 .. n - 1 : d[i] = x
<1>1. IsFiniteSet(0 .. n - 1) /\ Where(d, n, x) \subseteq 0 .. n - 1
  BY FS_Interval DEF Where
<1>2. IsFiniteSet(Where(d, n, x))
  BY <1>1, FS_Subset
<1>3. Cardinality(Where(d, n, x)) \in Nat
  BY <1>2, FS_CardinalityType
<1>4. Cardinality(Where(d, n, x)) = 0 <=> Where(d, n, x) = {}
  BY <1>2, FS_EmptySet
<1>5. Where(d, n, x) # {} <=> \E i \in 0 .. n - 1 : d[i] = x
  BY DEF Where
<1> QED  BY <1>2, <1>3, <1>4, <1>5

(* One element becomes x that was none.                                    *)
LEMMA CountsAdded ==
  ASSUME NEW A, IsFiniteSet(A), NEW B, NEW a, a \notin A, B = A \cup {a}
  PROVE  Cardinality(B) = Cardinality(A) + 1
BY FS_AddElement

(* Two elements that are swapped.                                          *)
LEMMA CountsSwapped ==
  ASSUME NEW n \in Nat, NEW D, 0 .. n - 1 \subseteq D, NEW d, d = [i \in D |-> d[i]],
         NEW a \in 0 .. n - 1, NEW b \in 0 .. n - 1, NEW x,
         NEW e, e = [d EXCEPT ![a] = d[b], ![b] = d[a]]
  PROVE  Cardinality(Where(e, n, x)) = Cardinality(Where(d, n, x))
<1>1. /\ e[a] = d[b] /\ e[b] = d[a]
      /\ \A i \in 0 .. n - 1 : i # a /\ i # b => e[i] = d[i]
  OBVIOUS
<1>2. CASE (d[a] = x) <=> (d[b] = x)
  <2>1. \A i \in 0 .. n - 1 : e[i] = x <=> d[i] = x
    BY <1>1, <1>2
  <2>2. Where(e, n, x) = Where(d, n, x)
    BY <2>1 DEF Where
  <2> QED  BY <2>2
<1>3. ASSUME NEW j \in 0 .. n - 1, NEW k \in 0 .. n - 1, {j, k} = {a, b},
             d[j] = x, d[k] # x
      PROVE  Cardinality(Where(e, n, x)) = Cardinality(Where(d, n, x))
  <2> DEFINE W == Where(d, n, x) \ {j}
  <2>1. IsFiniteSet(W)
    <3>1. IsFiniteSet(Where(d, n, x)) /\ W \subseteq Where(d, n, x)
      BY WhereFinite
    <3> QED  BY <3>1, FS_Subset
  <2>2. j \notin W /\ k \notin W /\ e[k] = x /\ e[j] # x
    BY <1>1, <1>3 DEF Where
  <2>3. Where(d, n, x) = W \cup {j}
    BY <1>3 DEF Where
  <2>4. Where(e, n, x) = W \cup {k}
    BY <1>1, <1>3, <2>2 DEF Where
  <2> HIDE DEF W
  <2>5. /\ Cardinality(Where(d, n, x)) = Cardinality(W) + 1
        /\ Cardinality(Where(e, n, x)) = Cardinality(W) + 1
    BY <2>1, <2>2, <2>3, <2>4, CountsAdded
  <2> QED  BY <2>5
<1>4. CASE d[a] = x /\ d[b] # x
  BY <1>3, <1>4
<1>5. CASE d[a] # x /\ d[b] = x
  <2>1. {b, a} = {a, b}
    OBVIOUS
  <2> QED  BY <1>3, <1>5, <2>1
<1> QED  BY <1>2, <1>4, <1>5

(* An element past the first n, then among them.                           *)
LEMMA CountsOneMore ==
  ASSUME NEW n \in Nat, NEW d, NEW x
  PROVE  Cardinality(Where(d, n + 1, x)) =
           IF d[n] = x THEN Cardinality(Where(d, n, x)) + 1 ELSE Cardinality(Where(d, n, x))
<1>1. IsFiniteSet(Where(d, n, x))
  BY WhereFinite
<1>2. n \notin Where(d, n, x)
  BY DEF Where
<1>3. \A i : i \in 0 .. (n + 1) - 1 <=> i \in 0 .. n - 1 \/ i = n
  OBVIOUS
<1>4. Where(d, n + 1, x) = IF d[n] = x THEN Where(d, n, x) \cup {n} ELSE Where(d, n, x)
  BY <1>3 DEF Where
<1> QED  BY <1>1, <1>2, <1>4, CountsAdded

(* An array that is the same up to the first n.                            *)
LEMMA CountsSame ==
  ASSUME NEW n \in Nat, NEW d, NEW e, NEW x, \A i \in 0 .. n - 1 : e[i] = d[i]
  PROVE  Where(e, n, x) = Where(d, n, x)
BY DEF Where

-----------------------------------------------------------------------------
(* The heap is a priority queue.                                           *)

Held(x) == Cardinality(Where(data, size, x))

LEMMA HeldIs == Bounded!vars = <<[x \in HeapThing |-> Held(x)], size,
                                 IF cmp = "max" THEN "largest" ELSE "smallest",
                                 heapAccepted, heapRemoved>>
BY DEF Bounded!vars, Held, Where

(* A turn moves a thing, and the queue is the same.                        *)
LEMMA SwapKeepsHeld ==
  ASSUME HeapInv, NEW a \in 0 .. size - 1, NEW b \in 0 .. size - 1, Swap(a, b), size' = size,
         NEW x \in HeapThing
  PROVE  Held(x)' = Held(x)
<1>1. size \in Nat /\ 0 .. size - 1 \subseteq Slots /\ data = [i \in Slots |-> data[i]]
  BY HeapAssumption DEF HeapInv, HeapTyped, Slots
<1>2. data' = [data EXCEPT ![a] = data[b], ![b] = data[a]]
  BY DEF Swap
<1>3. Cardinality(Where(data', size, x)) = Cardinality(Where(data, size, x))
  BY <1>1, <1>2, CountsSwapped
<1> QED  BY <1>3 DEF Held

(* No thing comes before the head.                                         *)
LEMMA HeadIsFirst ==
  ASSUME IndicesFit, HeapInv, sifting = "no", NEW i \in 0 .. size - 1
  PROVE  NoWorse(cmp, data[0], data[i])
<1>1. /\ size \in Nat /\ 0 .. size - 1 \subseteq Slots
      /\ \A j \in 0 .. size - 1 : data[j] \in HeapThing
      /\ \A j \in 1 .. size - 1 : InOrder(j)
  BY HeapAssumption DEF HeapInv, HeapTyped, HeapOrder, Slots
<1> DEFINE Worse == {j \in 0 .. size - 1 : ~NoWorse(cmp, data[0], data[j])}
<1>2. SUFFICES ASSUME Worse # {} PROVE FALSE
  OBVIOUS
<1>3. Worse \subseteq Nat
  OBVIOUS
<1> HIDE DEF Worse
<1>4. PICK j \in Worse : \A k \in Worse : j <= k
  BY <1>2, <1>3, Numbers!LeastElement
<1> USE DEF Worse
<1>5. j # 0
  BY <1>1, Ordered
<1>6. /\ j \in 1 .. size - 1 /\ Up(j) \in 0 .. size - 1 /\ Up(j) < j
  BY <1>1, <1>4, <1>5, UpFacts
<1>7. NoWorse(cmp, data[0], data[Up(j)])
  BY <1>4, <1>6
<1>8. NoWorse(cmp, data[Up(j)], data[j])
  BY <1>1, <1>6 DEF InOrder
<1>9. data[0] \in HeapThing /\ data[Up(j)] \in HeapThing /\ data[j] \in HeapThing
  BY <1>1, <1>6
<1> QED  BY <1>4, <1>7, <1>8, <1>9, Ordered

LEMMA InsertIsInsert ==
  ASSUME IndicesFit, HeapInv, NEW x \in HeapThing, HeapInsert(x)
  PROVE  Bounded!Insert(x)
<1>1. /\ size \in Nat /\ MaxSize \in Nat /\ size <= MaxSize /\ Slots = 0 .. MaxSize - 1
      /\ data \in [Slots -> HeapThing \cup {NoThing}]
  BY HeapAssumption DEF HeapInv, HeapTyped, Slots
<1>2. cmp' = cmp /\ heapRemoved' = heapRemoved /\ heapAccepted' = (size < MaxSize)
  BY <1>1 DEF HeapInsert, HeapIsFull
<1>3. CASE size = MaxSize
  <2>1. size' = size /\ data' = data /\ ~heapAccepted'
    BY <1>1, <1>2, <1>3 DEF HeapInsert, HeapIsFull
  <2> QED  BY <1>2, <2>1 DEF Bounded!Insert
<1>4. CASE size # MaxSize
  <2>1. size' = size + 1 /\ data' = [data EXCEPT ![size] = x]
    BY <1>4 DEF HeapInsert, HeapIsFull
  <2>6. size < MaxSize /\ size \in Slots
    BY <1>1, <1>4
  <2>7. heapAccepted'
    BY <1>2, <2>6
  <2>2. ASSUME NEW y \in HeapThing
        PROVE  Held(y)' = IF y = x THEN Held(y) + 1 ELSE Held(y)
    <3>1. Where(data', size, y) = Where(data, size, y)
      <4>1. \A i \in 0 .. size - 1 : data'[i] = data[i]
        BY <1>1, <2>1, <2>6
      <4> QED  BY <1>1, <4>1, CountsSame
    <3>2. data'[size] = x
      BY <1>1, <2>1, <2>6
    <3>3. Cardinality(Where(data', size + 1, y)) =
            IF data'[size] = y THEN Cardinality(Where(data', size, y)) + 1
            ELSE Cardinality(Where(data', size, y))
      BY <1>1, CountsOneMore
    <3> QED  BY <2>1, <3>1, <3>2, <3>3 DEF Held
  <2>3. [y \in HeapThing |-> Held(y)]' = [[y \in HeapThing |-> Held(y)] EXCEPT ![x] = @ + 1]
    BY <2>2
  <2> QED  BY <1>2, <2>1, <2>7, <2>3 DEF Bounded!Insert, Held, Where
<1> QED  BY <1>3, <1>4

LEMMA RemoveIsRemove ==
  ASSUME IndicesFit, HeapInv, HeapRemoveHead
  PROVE  Bounded!RemoveFirst
<1>1. /\ size \in Nat /\ MaxSize \in Nat /\ size <= MaxSize /\ Slots = 0 .. MaxSize - 1
      /\ data \in [Slots -> HeapThing \cup {NoThing}] /\ data = [i \in Slots |-> data[i]]
      /\ \A i \in 0 .. size - 1 : data[i] \in HeapThing
  BY HeapAssumption DEF HeapInv, HeapTyped, Slots
<1>2. cmp' = cmp /\ heapAccepted' = heapAccepted /\ sifting = "no"
  BY DEF HeapRemoveHead
<1>3. CASE size = 0
  BY <1>2, <1>3 DEF HeapRemoveHead, HeapIsEmpty, Bounded!RemoveFirst
<1>4. CASE size # 0
  <2> DEFINE x == data[0]
             n == size - 1
             e == [data EXCEPT ![0] = data[n], ![n] = data[0]]
  <2>1. /\ n \in Nat /\ size = n + 1 /\ 0 \in 0 .. size - 1 /\ n \in 0 .. size - 1
        /\ 0 .. size - 1 \subseteq Slots /\ x \in HeapThing
    BY <1>1, <1>4
  <2>2. heapRemoved' = x /\ size' = n /\ data' = [data EXCEPT ![0] = data[n], ![n] = NoThing]
    BY <1>4 DEF HeapRemoveHead, HeapIsEmpty
  <2>3. ASSUME NEW y \in HeapThing
        PROVE  Held(y)' = IF y = x THEN Held(y) - 1 ELSE Held(y)
    <3>1. Cardinality(Where(e, size, y)) = Cardinality(Where(data, size, y))
      <4>1. e = [data EXCEPT ![0] = data[n], ![n] = data[0]]
        OBVIOUS
      <4> HIDE DEF e, n
      <4>2. /\ size \in Nat /\ 0 .. size - 1 \subseteq Slots /\ data = [i \in Slots |-> data[i]]
            /\ 0 \in 0 .. size - 1 /\ n \in 0 .. size - 1
        BY <1>1, <2>1
      <4>3. ASSUME NEW a \in 0 .. size - 1, NEW b \in 0 .. size - 1,
                   e = [data EXCEPT ![a] = data[b], ![b] = data[a]]
            PROVE  Cardinality(Where(e, size, y)) = Cardinality(Where(data, size, y))
        BY <4>2, <4>3, CountsSwapped
      <4> QED  BY <4>1, <4>2, <4>3
    <3>2. Cardinality(Where(e, n + 1, y)) =
            IF e[n] = y THEN Cardinality(Where(e, n, y)) + 1 ELSE Cardinality(Where(e, n, y))
      <4> HIDE DEF e, n
      <4>1. n \in Nat
        BY <2>1
      <4> QED  BY <4>1, CountsOneMore
    <3>3. e[n] = x
      BY <1>1, <2>1
    <3>4. Where(data', n, y) = Where(e, n, y)
      <4>1. \A i \in 0 .. n - 1 : data'[i] = e[i]
        BY <1>1, <2>1, <2>2
      <4> HIDE DEF e, n
      <4> QED  BY <2>1, <4>1, CountsSame
    <3>5. Cardinality(Where(e, n, y)) \in Nat
      BY <2>1, WhereFinite
    <3> HIDE DEF e, n, x
    <3> QED  BY <2>1, <2>2, <3>1, <3>2, <3>3, <3>4, <3>5 DEF Held
  <2>4. [y \in HeapThing |-> Held(y)]' = [[y \in HeapThing |-> Held(y)] EXCEPT ![x] = @ - 1]
    BY <2>1, <2>3
  <2>5. x \in Bounded!Firsts
    <3>1. Held(x) > 0
      BY <1>1, <2>1, WhereFinite DEF Held
    <3>2. ASSUME NEW y \in HeapThing, Held(y) > 0
          PROVE  ~Bounded!Before(y, x)
      <4>1. PICK i \in 0 .. size - 1 : data[i] = y
        BY <1>1, <3>2, WhereFinite DEF Held
      <4>2. NoWorse(cmp, x, y)
        BY <1>2, <4>1, HeadIsFirst
      <4>3. HeapKey[x] \in Nat /\ HeapKey[y] \in Nat
        BY <2>1, HeapAssumption
      <4> QED  BY <4>2, <4>3 DEF NoWorse, Bounded!Before
    <3> QED  BY <2>1, <3>1, <3>2 DEF Bounded!Firsts, Held, Where
  <2> QED  BY <1>2, <1>4, <2>1, <2>2, <2>4, <2>5 DEF Bounded!RemoveFirst, Held, Where
<1> QED  BY <1>3, <1>4

LEMMA StepIsQueueStep ==
  ASSUME IndicesFit, HeapInv, [HeapNext]_heapVars
  PROVE  [Bounded!Next]_(Bounded!vars)
<1>1. ASSUME UNCHANGED <<size, cmp, heapAccepted, heapRemoved>>,
             \A x \in HeapThing : Held(x)' = Held(x)
      PROVE  UNCHANGED Bounded!vars
  <2>1. [x \in HeapThing |-> Held(x)]' = [x \in HeapThing |-> Held(x)]
    BY <1>1
  <2> QED  BY <1>1, <2>1 DEF Bounded!vars, Held, Where
<1>2. CASE UNCHANGED heapVars
  BY <1>1, <1>2 DEF heapVars, Held, Where
<1>3. ASSUME NEW x \in HeapThing, HeapInsert(x)
      PROVE  Bounded!Next
  BY <1>3, InsertIsInsert DEF Bounded!Next
<1>4. CASE HeapRemoveHead
  BY <1>4, RemoveIsRemove DEF Bounded!Next
<1>5. CASE HeapifyUp
  <2>1. UNCHANGED <<size, cmp, heapAccepted, heapRemoved>>
    BY <1>5 DEF HeapifyUp
  <2>2. CASE UNCHANGED data
    BY <1>1, <2>1, <2>2 DEF Held, Where
  <2>3. CASE ~UNCHANGED data
    <3>1. Swap(Parent(sifted), sifted) /\ sifted > 0 /\ sifted < size
      BY <1>5, <2>3 DEF HeapifyUp, HeapInv, HeapOrder
    <3>2. Parent(sifted) \in 0 .. size - 1 /\ sifted \in 0 .. size - 1
      <4>1. sifted \in Slots /\ sifted \in Nat /\ size \in Nat
        BY HeapAssumption DEF HeapInv, HeapTyped, Slots
      <4> QED  BY <3>1, <4>1, Indices, UpFacts
    <3> QED  BY <1>1, <2>1, <3>1, <3>2, SwapKeepsHeld
  <2> QED  BY <2>2, <2>3
<1>6. CASE Heapify
  <2>1. UNCHANGED <<size, cmp, heapAccepted, heapRemoved>>
    BY <1>6 DEF Heapify
  <2>2. CASE UNCHANGED data
    BY <1>1, <2>1, <2>2 DEF Held, Where
  <2>3. CASE ~UNCHANGED data
    <3>1. PICK m \in Slots : /\ m = Better(RightChild(sifted), Better(LeftChild(sifted), sifted))
                             /\ m # sifted /\ Swap(sifted, m) /\ Sift("down", m)
      BY <1>6, <2>3 DEF Heapify
    <3>2. m < size /\ m \in Nat /\ size \in Nat
      BY <3>1, HeapAssumption DEF Better, HeapInv, HeapTyped, Slots
    <3>3. sifted \in 0 .. size - 1
      <4>1. sifted \in Nat /\ (sifted = 0 \/ sifted < size)
        BY <1>6, HeapAssumption DEF Heapify, HeapInv, HeapTyped, HeapOrder, Slots
      <4> QED  BY <3>2, <4>1
    <3> QED  BY <1>1, <2>1, <3>1, <3>2, <3>3, SwapKeepsHeld
  <2> QED  BY <2>2, <2>3
<1> QED  BY <1>2, <1>3, <1>4, <1>5, <1>6 DEF HeapNext

LEMMA InitIsQueueInit == HeapInit => Bounded!Init
<1> SUFFICES ASSUME HeapInit PROVE Bounded!Init
  OBVIOUS
<1>1. \A x \in HeapThing : {i \in 0 .. size - 1 : data[i] = x} = {}
  BY DEF HeapInit
<1>2. \A x \in HeapThing : Cardinality({i \in 0 .. size - 1 : data[i] = x}) = 0
  BY <1>1, FS_EmptySet
<1> QED  BY <1>2 DEF HeapInit, Bounded!Init

(* A heap whose indices fit heap_index_t is a priority queue, from the     *)
(* change of the array on, however its things are moved after it           *)
(* (heap.c:97-139, 217-251).                                               *)
THEOREM HeapIsQueue == IndicesFit => (HeapSpec => ImplementsPriorityQueue)
<1> SUFFICES ASSUME IndicesFit PROVE HeapSpec => ImplementsPriorityQueue
  OBVIOUS
<1>1. HeapInit => HeapInv /\ Bounded!Init
  BY HeapInitInv, InitIsQueueInit
<1>2. HeapInv /\ [HeapNext]_heapVars => HeapInv' /\ [Bounded!Next]_(Bounded!vars)
  BY StepKeepsHeap, StepIsQueueStep
<1> QED  BY <1>1, <1>2, PTL DEF HeapSpec, ImplementsPriorityQueue, Bounded!Spec

(* The heap's own check holds whenever no operation is under way, and no   *)
(* index leaves the array (heap.c:121-139, 141-191).                       *)
THEOREM HeapStaysValid == IndicesFit => (HeapSpec => [](HeapValid /\ NeverStrays))
<1> SUFFICES ASSUME IndicesFit PROVE HeapSpec => [](HeapValid /\ NeverStrays)
  OBVIOUS
<1>1. HeapInit => HeapInv
  BY HeapInitInv
<1>2. HeapInv /\ [HeapNext]_heapVars => HeapInv'
  BY StepKeepsHeap
<1>3. HeapInv => HeapValid /\ NeverStrays
  <2> SUFFICES ASSUME HeapInv, sifting = "no"
               PROVE  /\ \A i \in Slots : data[i] # NoThing <=> i < size
                      /\ \A i \in 1 .. size - 1 : HeapProperty(i)
    BY DEF HeapInv, HeapValid
  <2>1. ASSUME NEW i \in 1 .. size - 1 PROVE HeapProperty(i)
    <3>1. i \in Slots
      BY HeapAssumption DEF HeapInv, HeapTyped, Slots
    <3> QED  BY <3>1, Indices DEF HeapInv, HeapOrder, InOrder, NoWorse, HeapProperty
  <2> QED  BY <2>1 DEF HeapInv, HeapTyped
<1> QED  BY <1>1, <1>2, <1>3, PTL DEF HeapSpec

-----------------------------------------------------------------------------
(* Printing: numbers read back, and the text fits.                         *)

(* A function that is defined by recursion on numbers is one: its value at *)
(* w is step[w][v] of its value v at prior[w], or of base where there is no *)
(* further turn.                                                           *)
Before(Z, base, prior, f, w) == IF w \in Z THEN base ELSE f[prior[w]]

ValueAt(step, Z, base, prior, f, w) == step[w][Before(Z, base, prior, f, w)]

(* f is right below m.                                                     *)
RightBelow(D, step, Z, base, prior, f, m) ==
  \A w \in D : w < m => f[w] = ValueAt(step, Z, base, prior, f, w)

IsRecursion(D, X, base, Z, prior, step) ==
  /\ D \subseteq Nat /\ base \in X /\ step \in [D -> [X -> X]]
  /\ \A w \in D : w \notin Z => prior[w] \in D /\ prior[w] < w

Solves(f, D, X, base, Z, prior, step) ==
  /\ f \in [D -> X]
  /\ \A w \in D : /\ w \in Z => f[w] = step[w][base]
                  /\ w \notin Z => f[w] = step[w][f[prior[w]]]

LEMMA RecursionDefines ==
  ASSUME NEW D, NEW X, NEW base, NEW Z, NEW prior, NEW step,
         IsRecursion(D, X, base, Z, prior, step)
  PROVE  \E f : Solves(f, D, X, base, Z, prior, step)
<1> USE DEF IsRecursion
<1> DEFINE Right(f, m) == RightBelow(D, step, Z, base, prior, f, m)
           Val(f, w)   == ValueAt(step, Z, base, prior, f, w)
<1>1. ASSUME NEW f \in [D -> X], NEW w \in D PROVE Val(f, w) \in X
  <2>1. Before(Z, base, prior, f, w) \in X
    BY DEF Before
  <2> QED  BY <2>1 DEF ValueAt
<1>2. ASSUME NEW f \in [D -> X], NEW g \in [D -> X], NEW m \in Nat, Right(f, m), Right(g, m),
             NEW w \in D, w < m
      PROVE  f[w] = g[w]
  <2> DEFINE Bad == {k \in D : k < m /\ f[k] # g[k]}
  <2>1. SUFFICES ASSUME Bad # {} PROVE FALSE
    BY <1>2
  <2>2. Bad \subseteq Nat
    OBVIOUS
  <2> HIDE DEF Bad
  <2>3. PICK k \in Bad : \A j \in Bad : k <= j
    BY <2>1, <2>2, Numbers!LeastElement
  <2> USE DEF Bad
  <2>4. Before(Z, base, prior, f, k) = Before(Z, base, prior, g, k)
    <3>1. CASE k \in Z
      BY <3>1 DEF Before
    <3>2. CASE k \notin Z
      <4>1. k \in D /\ k \in Nat /\ k < m
        BY <2>2, <2>3
      <4>2. prior[k] \in D /\ prior[k] \in Nat /\ prior[k] < k
        BY <3>2, <4>1
      <4>3. prior[k] < m /\ ~(k <= prior[k])
        BY <4>1, <4>2
      <4>4. prior[k] \notin Bad
        BY <2>3, <4>3
      <4>5. f[prior[k]] = g[prior[k]]
        BY <4>2, <4>3, <4>4
      <4> QED  BY <3>2, <4>5 DEF Before
    <3> QED  BY <3>1, <3>2
  <2>5. Val(f, k) = Val(g, k)
    BY <2>4 DEF ValueAt
  <2> QED  BY <1>2, <2>3, <2>5 DEF RightBelow
<1>3. ASSUME NEW m \in Nat PROVE \E f \in [D -> X] : Right(f, m)
  <2> DEFINE Bad == {k \in Nat : ~\E f \in [D -> X] : Right(f, k)}
  <2>1. SUFFICES ASSUME Bad # {} PROVE FALSE
    OBVIOUS
  <2> HIDE DEF Bad
  <2>2. Bad \subseteq Nat
    BY DEF Bad
  <2>3. PICK k \in Bad : \A j \in Bad : k <= j
    BY <2>1, <2>2, Numbers!LeastElement
  <2>4. k # 0
    <3>1. [w \in D |-> base] \in [D -> X] /\ Right([w \in D |-> base], 0)
      BY DEF RightBelow
    <3> QED  BY <2>3, <3>1 DEF Bad
  <2>5. k - 1 \in Nat /\ k - 1 \notin Bad
    BY <2>2, <2>3, <2>4
  <2>6. PICK f \in [D -> X] : Right(f, k - 1)
    BY <2>5 DEF Bad
  <2> DEFINE g == [w \in D |-> IF w = k - 1 THEN Val(f, w) ELSE f[w]]
  <2>7. g \in [D -> X]
    BY <1>1
  <2>8. ASSUME NEW w \in D, w < k PROVE g[w] = Val(g, w)
    <3>1. Before(Z, base, prior, g, w) = Before(Z, base, prior, f, w)
      <4>1. CASE w \in Z
        BY <4>1 DEF Before
      <4>2. CASE w \notin Z
        <5>1. prior[w] \in D /\ prior[w] < w /\ prior[w] # k - 1
          BY <2>2, <2>3, <2>8, <4>2
        <5> QED  BY <4>2, <5>1 DEF Before
      <4> QED  BY <4>1, <4>2
    <3>2. Val(g, w) = Val(f, w)
      BY <3>1 DEF ValueAt
    <3>3. CASE w = k - 1
      BY <3>2, <3>3
    <3>4. CASE w # k - 1
      <4>1. w < k - 1
        BY <2>2, <2>3, <2>8, <3>4
      <4> QED  BY <2>6, <3>2, <3>4, <4>1 DEF RightBelow
    <3> QED  BY <3>3, <3>4
  <2> HIDE DEF g
  <2>9. Right(g, k)
    BY <2>8 DEF RightBelow
  <2> QED  BY <2>2, <2>3, <2>7, <2>9 DEF Bad
<1> DEFINE G(m) == CHOOSE f \in [D -> X] : Right(f, m)
           F    == [w \in D |-> G(w + 1)[w]]
<1>4. ASSUME NEW m \in Nat PROVE G(m) \in [D -> X] /\ Right(G(m), m)
  BY <1>3
<1> HIDE DEF G
<1>5. ASSUME NEW w \in D PROVE G(w + 1)[w] \in X
  <2>1. w + 1 \in Nat
    OBVIOUS
  <2> QED  BY <1>4, <2>1
<1>6. F \in [D -> X]
  BY <1>5
<1>7. ASSUME NEW w \in D PROVE F[w] = Val(F, w)
  <2>1. w + 1 \in Nat /\ w < w + 1
    OBVIOUS
  <2>2. G(w + 1)[w] = Val(G(w + 1), w)
    BY <1>4, <2>1 DEF RightBelow
  <2>3. w \notin Z => F[prior[w]] = G(w + 1)[prior[w]]
    <3> SUFFICES ASSUME w \notin Z PROVE F[prior[w]] = G(w + 1)[prior[w]]
      OBVIOUS
    <3> DEFINE v == prior[w]
    <3>1. v \in D /\ v < w /\ v \in Nat /\ w \in Nat
      OBVIOUS
    <3> HIDE DEF v
    <3>2. v + 1 \in Nat /\ v < v + 1
      BY <3>1
    <3>3. G(v + 1) \in [D -> X] /\ Right(G(v + 1), v + 1)
      BY <1>4, <3>2
    <3>4. G(w + 1) \in [D -> X] /\ Right(G(w + 1), w + 1)
      BY <1>4, <2>1
    <3>5. Right(G(w + 1), v + 1)
      BY <3>1, <3>4 DEF RightBelow
    <3>6. G(v + 1)[v] = G(w + 1)[v]
      BY <1>2, <3>1, <3>2, <3>3, <3>4, <3>5
    <3>7. F[v] = G(v + 1)[v]
      BY <3>1
    <3> QED  BY <3>6, <3>7 DEF v
  <2>4. Before(Z, base, prior, F, w) = Before(Z, base, prior, G(w + 1), w)
    BY <2>3 DEF Before
  <2>5. Val(F, w) = Val(G(w + 1), w)
    BY <2>4 DEF ValueAt
  <2> QED  BY <2>2, <2>5
<1> HIDE DEF F
<1> QED  BY <1>6, <1>7 DEF ValueAt, Before, Solves

-----------------------------------------------------------------------------
(* Numbers: their digits, and how many there are.                          *)
Radix == {10, 16}

Places(r) == CHOOSE f : f = [w \in Nat |-> IF w = 0 THEN 0 ELSE 1 + f[w \div r]]

Digits(r) ==
  CHOOSE f : f = [w \in Nat |-> (IF w \div r = 0 THEN << >> ELSE f[w \div r]) \o <<w % r>>]

UpTo(t, r) ==
  CHOOSE f : f = [i \in 0 .. Len(t) |-> IF i = 0 THEN 0 ELSE f[i - 1] * r + t[i]]

LEMMA Divided ==
  ASSUME NEW r \in Radix, NEW w \in Nat
  PROVE  /\ w \div r \in Nat /\ w % r \in 0 .. r - 1
         /\ w = (w \div r) * r + (w % r)
         /\ w # 0 => w \div r < w
<1>1. CASE r = 10
  <2>1. /\ w \div 10 \in Nat /\ w % 10 \in 0 .. 9
        /\ w = (w \div 10) * 10 + (w % 10)
        /\ w # 0 => w \div 10 < w
    OBVIOUS
  <2> QED  BY <1>1, <2>1
<1>2. CASE r = 16
  <2>1. /\ w \div 16 \in Nat /\ w % 16 \in 0 .. 15
        /\ w = (w \div 16) * 16 + (w % 16)
        /\ w # 0 => w \div 16 < w
    OBVIOUS
  <2> QED  BY <1>2, <2>1
<1> QED  BY <1>1, <1>2 DEF Radix

LEMMA DivZero == \A r \in Radix : 0 \div r = 0
BY DEF Radix

LEMMA PlacesDefined ==
  ASSUME NEW r \in Radix
  PROVE  Places(r) = [w \in Nat |-> IF w = 0 THEN 0 ELSE 1 + Places(r)[w \div r]]
<1> DEFINE prior == [w \in Nat |-> w \div r]
           step == [w \in Nat |-> [k \in Int |-> 1 + k]]
<1>1. \A w \in Nat : w \notin {0} => prior[w] \in Nat /\ prior[w] < w
  BY Divided
<1>2. step \in [Nat -> [Int -> Int]] /\ -1 \in Int
  OBVIOUS
<1>9. PICK f : Solves(f, Nat, Int, -1, {0}, prior, step)
  <2>1. IsRecursion(Nat, Int, -1, {0}, prior, step)
    BY <1>1, <1>2 DEF IsRecursion
  <2> QED  BY <2>1, RecursionDefines
<1>3. /\ f \in [Nat -> Int]
      /\ \A w \in Nat : /\ w = 0 => f[w] = step[w][-1]
                        /\ w # 0 => f[w] = step[w][f[prior[w]]]
  <2> HIDE DEF prior, step
  <2> QED  BY <1>9 DEF Solves
<1>4. ASSUME NEW w \in Nat
      PROVE  f[w] = IF w = 0 THEN 0 ELSE 1 + f[w \div r]
  <2>1. CASE w = 0
    <3>1. step[w][-1] = 0
      OBVIOUS
    <3>2. f[w] = 0
      <4> HIDE DEF prior, step
      <4>1. f[w] = step[w][-1]
        BY <1>3, <2>1
      <4> QED  BY <3>1, <4>1
    <3> QED  BY <2>1, <3>2
  <2>2. CASE w # 0
    <3>1. prior[w] = w \div r /\ w \div r \in Nat /\ f[w \div r] \in Int
      BY <1>3, Divided
    <3> QED  BY <1>3, <2>2, <3>1
  <2> QED  BY <2>1, <2>2
<1>5. f = [w \in Nat |-> IF w = 0 THEN 0 ELSE 1 + f[w \div r]]
  <2> HIDE DEF prior, step
  <2> QED  BY <1>3, <1>4
<1> QED  BY <1>5 DEF Places

LEMMA DigitsDefined ==
  ASSUME NEW r \in Radix
  PROVE  Digits(r) = [w \in Nat |-> (IF w \div r = 0 THEN << >> ELSE Digits(r)[w \div r])
                                       \o <<w % r>>]
<1> DEFINE X    == Seq(0 .. r - 1)
           Z    == {w \in Nat : w \div r = 0}
           prior == [w \in Nat |-> w \div r]
           step == [w \in Nat |-> [q \in X |-> q \o <<w % r>>]]
<1>1. \A w \in Nat : w \notin Z => prior[w] \in Nat /\ prior[w] < w
  <2> SUFFICES ASSUME NEW w \in Nat, w \notin Z PROVE prior[w] \in Nat /\ prior[w] < w
    OBVIOUS
  <2>1. w \div r \in Nat /\ (w # 0 => w \div r < w)
    BY Divided
  <2>2. w \div r # 0
    BY <2>1
  <2>3. w # 0
    BY <2>2, DivZero
  <2> QED  BY <2>1, <2>3
<1>2. step \in [Nat -> [X -> X]] /\ << >> \in X /\ Nat \subseteq Nat
  <2>1. ASSUME NEW w \in Nat, NEW q \in X PROVE q \o <<w % r>> \in X
    <3>1. w % r \in 0 .. r - 1
      BY Divided
    <3> QED  BY <3>1
  <2> QED  BY <2>1
<1>9. PICK f : Solves(f, Nat, X, << >>, Z, prior, step)
  <2>1. IsRecursion(Nat, X, << >>, Z, prior, step)
    <3> HIDE DEF X, Z, prior, step
    <3> QED  BY <1>1, <1>2 DEF IsRecursion
  <2> QED  BY <2>1, RecursionDefines
<1>3. /\ f \in [Nat -> X]
      /\ \A w \in Nat : /\ w \in Z => f[w] = step[w][<< >>]
                        /\ w \notin Z => f[w] = step[w][f[prior[w]]]
  <2> HIDE DEF X, Z, prior, step
  <2> QED  BY <1>9 DEF Solves
<1>4. ASSUME NEW w \in Nat
      PROVE  f[w] = (IF w \div r = 0 THEN << >> ELSE f[w \div r]) \o <<w % r>>
  <2> HIDE DEF X
  <2>1. CASE w \div r = 0
    <3>1. step[w][<< >>] = << >> \o <<w % r>>
      BY <1>2
    <3>2. w \in Z
      BY <2>1
    <3>3. f[w] = << >> \o <<w % r>>
      <4> HIDE DEF Z, prior, step
      <4>1. f[w] = step[w][<< >>]
        BY <1>3, <3>2
      <4> QED  BY <3>1, <4>1
    <3> QED  BY <2>1, <3>3
  <2>2. CASE w \div r # 0
    <3>1. prior[w] = w \div r /\ w \div r \in Nat /\ f[w \div r] \in X
      BY <1>3, Divided
    <3> QED  BY <1>3, <2>2, <3>1
  <2> QED  BY <2>1, <2>2
<1>5. f = [w \in Nat |-> (IF w \div r = 0 THEN << >> ELSE f[w \div r]) \o <<w % r>>]
  <2> HIDE DEF X, Z, prior, step
  <2> QED  BY <1>3, <1>4
<1> QED  BY <1>5 DEF Digits

LEMMA UpToDefined ==
  ASSUME NEW t \in Seq(Int), NEW r \in Int
  PROVE  UpTo(t, r) = [i \in 0 .. Len(t) |-> IF i = 0 THEN 0 ELSE UpTo(t, r)[i - 1] * r + t[i]]
<1> DEFINE D    == 0 .. Len(t)
           prior == [i \in D |-> i - 1]
           step == [i \in D |-> [k \in Int |-> IF i = 0 THEN 0 ELSE k * r + t[i]]]
<1>1. \A i \in D : i \notin {0} => prior[i] \in D /\ prior[i] < i
  OBVIOUS
<1>2. step \in [D -> [Int -> Int]] /\ 0 \in Int /\ D \subseteq Nat
  <2>1. ASSUME NEW i \in D, NEW k \in Int PROVE (IF i = 0 THEN 0 ELSE k * r + t[i]) \in Int
    OBVIOUS
  <2> QED  BY <2>1
<1>9. PICK f : Solves(f, D, Int, 0, {0}, prior, step)
  <2>1. IsRecursion(D, Int, 0, {0}, prior, step)
    <3> HIDE DEF D, prior, step
    <3> QED  BY <1>1, <1>2 DEF IsRecursion
  <2> QED  BY <2>1, RecursionDefines
<1>3. /\ f \in [D -> Int]
      /\ \A i \in D : /\ i = 0 => f[i] = step[i][0]
                      /\ i # 0 => f[i] = step[i][f[prior[i]]]
  <2> HIDE DEF D, prior, step
  <2> QED  BY <1>9 DEF Solves
<1>4. ASSUME NEW i \in D
      PROVE  f[i] = IF i = 0 THEN 0 ELSE f[i - 1] * r + t[i]
  <2>1. CASE i = 0
    <3>1. step[i][0] = 0
      BY <2>1
    <3>2. f[i] = 0
      <4> HIDE DEF D, prior, step
      <4>1. f[i] = step[i][0]
        BY <1>3, <2>1
      <4>2. step[i][0] = 0
        BY <3>1
      <4> QED  BY <4>1, <4>2
    <3> QED  BY <2>1, <3>2
  <2>2. CASE i # 0
    <3>1. prior[i] = i - 1 /\ i - 1 \in D
      BY <2>2
    <3>2. f[i - 1] \in Int
      BY <1>3, <3>1
    <3> QED  BY <1>3, <2>2, <3>1, <3>2
  <2> QED  BY <2>1, <2>2
<1>5. f = [i \in D |-> IF i = 0 THEN 0 ELSE f[i - 1] * r + t[i]]
  <2> HIDE DEF D, prior, step
  <2> QED  BY <1>3, <1>4
<1> QED  BY <1>5 DEF UpTo

-----------------------------------------------------------------------------
(* What the digits of a number read as.                                    *)
LEMMA MagnitudeIs ==
  ASSUME NEW t, NEW r
  PROVE  Magnitude(t, r) = UpTo(t, r)[Len(t)]
BY DEF Magnitude, UpTo

LEMMA MagnitudeOne ==
  ASSUME NEW c \in Int, NEW r \in Int
  PROVE  Magnitude(<<c>>, r) = c
<1> DEFINE t == <<c>>
<1>1. t \in Seq(Int) /\ Len(t) = 1 /\ t[1] = c
  OBVIOUS
<1> HIDE DEF t
<1>2. UpTo(t, r) = [i \in 0 .. Len(t) |-> IF i = 0 THEN 0 ELSE UpTo(t, r)[i - 1] * r + t[i]]
  BY <1>1, UpToDefined
<1> DEFINE u == UpTo(t, r)
<1>3. u = [i \in 0 .. 1 |-> IF i = 0 THEN 0 ELSE u[i - 1] * r + t[i]]
  BY <1>1, <1>2
<1>4. Magnitude(t, r) = u[1]
  BY <1>1, MagnitudeIs
<1> HIDE DEF u
<1>5. u[0] = 0
  BY <1>3
<1>6. u[1] = u[0] * r + t[1]
  BY <1>3
<1> QED  BY <1>1, <1>4, <1>5, <1>6 DEF t

LEMMA MagnitudeAppend ==
  ASSUME NEW t \in Seq(Int), NEW c \in Int, NEW r \in Int
  PROVE  Magnitude(t \o <<c>>, r) = Magnitude(t, r) * r + c
<1> DEFINE s == t \o <<c>>
           n == Len(t)
           u == UpTo(t, r)
           v == UpTo(s, r)
<1>1. /\ s \in Seq(Int) /\ Len(s) = n + 1 /\ s[n + 1] = c /\ n \in Nat
      /\ \A i \in 1 .. n : s[i] = t[i]
  OBVIOUS
<1>2. u = [i \in 0 .. n |-> IF i = 0 THEN 0 ELSE u[i - 1] * r + t[i]]
  BY UpToDefined
<1>3. v = [i \in 0 .. n + 1 |-> IF i = 0 THEN 0 ELSE v[i - 1] * r + s[i]]
  <2> HIDE DEF s, n
  <2>1. UpTo(s, r) = [i \in 0 .. Len(s) |-> IF i = 0 THEN 0 ELSE UpTo(s, r)[i - 1] * r + s[i]]
    BY <1>1, UpToDefined
  <2> QED  BY <1>1, <2>1
<1> DEFINE Bad == {i \in 0 .. n : u[i] # v[i]}
<1>4. Bad = {}
  <2>1. SUFFICES ASSUME Bad # {} PROVE FALSE
    OBVIOUS
  <2> HIDE DEF u, v, s, n
  <2>2. Bad \subseteq Nat
    OBVIOUS
  <2> HIDE DEF Bad
  <2>3. PICK i \in Bad : \A j \in Bad : i <= j
    BY <2>1, <2>2, Numbers!LeastElement
  <2>4. i \in 0 .. n /\ u[i] # v[i] /\ i \in Nat
    BY <2>2, <2>3 DEF Bad
  <2>5. CASE i = 0
    <3>1. u[0] = 0 /\ v[0] = 0
      BY <1>1, <1>2, <1>3
    <3> QED  BY <2>4, <2>5, <3>1
  <2>6. CASE i # 0
    <3>1. i - 1 \in 0 .. n /\ i \in 1 .. n /\ i \in 0 .. n + 1 /\ ~(i <= i - 1)
      BY <1>1, <2>4, <2>6
    <3>2. u[i - 1] = v[i - 1]
      BY <2>3, <3>1 DEF Bad
    <3>3. u[i] = u[i - 1] * r + t[i]
      BY <1>2, <2>4, <2>6
    <3>4. v[i] = v[i - 1] * r + s[i]
      BY <1>3, <2>6, <3>1
    <3> QED  BY <1>1, <2>4, <3>1, <3>2, <3>3, <3>4
  <2> QED  BY <2>5, <2>6
<1>5. Magnitude(t, r) = u[n] /\ Magnitude(s, r) = v[n + 1]
  BY <1>1, MagnitudeIs
<1> HIDE DEF u, v, s, n
<1>6. u[n] = v[n]
  BY <1>1, <1>4
<1>7. v[n + 1] = v[n] * r + s[n + 1]
  <2>1. n + 1 \in 0 .. n + 1 /\ n + 1 # 0 /\ (n + 1) - 1 = n
    BY <1>1
  <2> QED  BY <1>3, <2>1
<1> QED  BY <1>1, <1>5, <1>6, <1>7 DEF s

(* The digits of a number read as it, and there are as many as its places. *)
Faithful(r, w) ==
  /\ Digits(r)[w] \in Seq(0 .. r - 1)
  /\ Len(Digits(r)[w]) = IF w = 0 THEN 1 ELSE Places(r)[w]
  /\ Len(Digits(r)[w]) > 0
  /\ Magnitude(Digits(r)[w], r) = w

LEMMA DigitsRead ==
  ASSUME NEW r \in Radix, NEW w \in Nat
  PROVE  Faithful(r, w)
<1> DEFINE Bad == {k \in Nat : ~Faithful(r, k)}
<1>1. SUFFICES ASSUME Bad # {} PROVE FALSE
  OBVIOUS
<1> HIDE DEF Bad
<1>2. PICK k \in Bad : \A j \in Bad : k <= j
  BY <1>1, Numbers!LeastElement DEF Bad
<1>3. k \in Nat /\ ~Faithful(r, k)
  BY DEF Bad
<1>4. /\ r \in Int /\ k \div r \in Nat /\ k % r \in 0 .. r - 1 /\ k % r \in Int
      /\ k = (k \div r) * r + (k % r) /\ (k # 0 => k \div r < k) /\ 0 .. r - 1 \subseteq Int
  BY <1>3, Divided DEF Radix
<1> DEFINE d == Digits(r)[k]
           e == Digits(r)[k \div r]
<1>5. d = (IF k \div r = 0 THEN << >> ELSE e) \o <<k % r>>
  BY <1>3, DigitsDefined
<1>6. k # 0 => Places(r)[k] = 1 + Places(r)[k \div r]
  BY <1>3, PlacesDefined
<1>7. CASE k \div r = 0
  <2>1. d = <<k % r>> /\ k % r = k
    BY <1>4, <1>5, <1>7
  <2>2. Places(r)[0] = 0
    BY PlacesDefined
  <2>3. Magnitude(d, r) = k
    BY <1>4, <2>1, MagnitudeOne
  <2>4. d \in Seq(0 .. r - 1) /\ Len(d) = 1
    BY <1>4, <2>1
  <2>5. k # 0 => Places(r)[k] = 1
    BY <1>6, <1>7, <2>2
  <2> HIDE DEF d
  <2> QED  BY <1>3, <2>3, <2>4, <2>5 DEF Faithful, d
<1>8. CASE k \div r # 0
  <2>1. k # 0 /\ k \div r \in Nat /\ ~(k <= k \div r)
    BY <1>3, <1>4, <1>8, DivZero
  <2>2. Faithful(r, k \div r)
    BY <1>2, <2>1 DEF Bad
  <2>3. /\ e \in Seq(0 .. r - 1) /\ Len(e) = Places(r)[k \div r] /\ Len(e) > 0
        /\ Magnitude(e, r) = k \div r
    BY <1>8, <2>2 DEF Faithful
  <2>4. d = e \o <<k % r>>
    BY <1>5, <1>8
  <2> HIDE DEF d, e
  <2>5. e \in Seq(Int)
    BY <1>4, <2>3
  <2>6. Magnitude(d, r) = k
    BY <1>4, <2>3, <2>4, <2>5, MagnitudeAppend
  <2>7. d \in Seq(0 .. r - 1) /\ Len(d) = Len(e) + 1
    <3>1. <<k % r>> \in Seq(0 .. r - 1) /\ Len(<<k % r>>) = 1
      BY <1>4
    <3> QED  BY <2>3, <2>4, <3>1
  <2>8. Len(d) = Places(r)[k] /\ Len(d) > 0
    BY <1>6, <2>1, <2>3, <2>7
  <2> QED  BY <1>3, <2>1, <2>6, <2>7, <2>8 DEF Faithful, d
<1> QED  BY <1>7, <1>8

LEMMA PlacesNamed ==
  ASSUME NEW v, NEW r
  PROVE  /\ NumDigits(v, r) = IF v >= 0 THEN Places(r)[v] ELSE 1 + Places(r)[-Quot(v, r)]
         /\ v >= 0 => DigitsOf(v, r) = Digits(r)[v]
         /\ ~(v >= 0) => DigitsOf(v, r) = <<IF Rem(v, r) < 0 THEN Garbage ELSE 0>>
BY DEF NumDigits, DigitsOf, Places, Digits

(* A number that is not negative is its digits; one that is has a '-'.     *)
LEMMA ItoaPlain ==
  ASSUME NEW a \in Nat, NEW r \in Radix, NEW u
  PROVE  Itoa(a, r, u) = Digits(r)[a]
<1> DEFINE d == Digits(r)[a]
           n == IF a = 0 THEN 1 ELSE Places(r)[a]
<1>1. /\ d \in Seq(0 .. r - 1) /\ Len(d) = n /\ Len(d) > 0
  BY DigitsRead DEF Faithful
<1>2. DigitsOf(a, r) = d /\ (IF a = 0 THEN 1 ELSE NumDigits(a, r)) = n
  BY PlacesNamed
<1>3. ~(a < 0 /\ ~u)
  OBVIOUS
<1>4. Itoa(a, r, u) = << >> \o [i \in 1 .. n - Len(d) |-> Garbage] \o d
  BY <1>2, <1>3 DEF Itoa
<1> HIDE DEF d, n
<1>5. 1 .. n - Len(d) = {}
  <2>1. n - Len(d) = 0
    BY <1>1
  <2> QED  BY <2>1
<1>6. [i \in 1 .. n - Len(d) |-> Garbage] = << >>
  BY <1>5
<1>7. << >> \o << >> \o d = d
  BY <1>1
<1> QED  BY <1>4, <1>6, <1>7 DEF d

LEMMA ItoaNegative ==
  ASSUME NEW a \in Int, a < 0, a # MinInt, NEW r \in Radix
  PROVE  Itoa(a, r, FALSE) = <<Minus>> \o Digits(r)[-a]
<1> DEFINE b == -a
           d == Digits(r)[b]
           n == Places(r)[b]
<1>1. b \in Nat /\ b # 0 /\ Negated(a) = b
  BY DEF Negated
<1>2. /\ d \in Seq(0 .. r - 1) /\ Len(d) = n /\ Len(d) > 0
  BY <1>1, DigitsRead DEF Faithful
<1>3. DigitsOf(b, r) = d /\ NumDigits(b, r) = n
  BY <1>1, PlacesNamed
<1>4. Itoa(a, r, FALSE) = <<Minus>> \o [i \in 1 .. n - Len(d) |-> Garbage] \o d
  BY <1>1, <1>3 DEF Itoa
<1> HIDE DEF d, n
<1>5. 1 .. n - Len(d) = {}
  <2>1. n - Len(d) = 0
    BY <1>2
  <2> QED  BY <2>1
<1>6. [i \in 1 .. n - Len(d) |-> Garbage] = << >>
  BY <1>5
<1>7. <<Minus>> \o << >> = <<Minus>>
  OBVIOUS
<1> QED  BY <1>4, <1>6, <1>7 DEF d

LEMMA ItoaReads ==
  ASSUME NEW a \in Int, a # MinInt, NEW r \in Radix, NEW u \in BOOLEAN, u => a >= 0
  PROVE  Reads(Itoa(a, r, u), r, a)
<1>1. CASE a >= 0
  <2> DEFINE d == Digits(r)[a]
  <2>1. d \in Seq(0 .. r - 1) /\ Len(d) > 0 /\ Magnitude(d, r) = a
    <3>1. Faithful(r, a)
      BY <1>1, DigitsRead
    <3> QED  BY <3>1 DEF Faithful
  <2>2. Itoa(a, r, u) = d
    BY <1>1, ItoaPlain
  <2> HIDE DEF d
  <2>3. d # << >>
    <3>1. Len(<< >>) = 0
      OBVIOUS
    <3> QED  BY <2>1, <3>1
  <2>4. \A i \in DOMAIN d : d[i] \in 0 .. r - 1
    <3>1. DOMAIN d = 1 .. Len(d)
      BY <2>1
    <3> QED  BY <2>1, <3>1, ElementOfSeq
  <2> QED  BY <1>1, <2>1, <2>2, <2>3, <2>4 DEF Reads
<1>2. CASE a < 0
  <2> DEFINE d == Digits(r)[-a]
  <2>1. -a \in Nat
    BY <1>2
  <2>2. d \in Seq(0 .. r - 1) /\ Len(d) > 0 /\ Magnitude(d, r) = -a
    <3>1. Faithful(r, -a)
      BY <2>1, DigitsRead
    <3> QED  BY <3>1 DEF Faithful
  <2>3. u = FALSE
    BY <1>2
  <2>4. Itoa(a, r, u) = <<Minus>> \o d
    BY <1>2, <2>3, ItoaNegative
  <2> HIDE DEF d
  <2>5. d # << >>
    <3>1. Len(<< >>) = 0
      OBVIOUS
    <3> QED  BY <2>2, <3>1
  <2>7. \A i \in DOMAIN d : d[i] \in 0 .. r - 1
    <3>1. DOMAIN d = 1 .. Len(d)
      BY <2>2
    <3> QED  BY <2>2, <3>1, ElementOfSeq
  <2>6. <<Minus>> \o d # << >> /\ Head(<<Minus>> \o d) = Minus /\ Tail(<<Minus>> \o d) = d
    BY <2>2 DEF Minus
  <2> QED  BY <1>2, <2>2, <2>4, <2>5, <2>6, <2>7 DEF Reads
<1> QED  BY <1>1, <1>2

(* How many places there are below a bound.                                *)
LEMMA MorePlaces ==
  ASSUME NEW r \in Radix, NEW b \in Nat, NEW k \in Nat,
         \A w \in Nat : w < b => Places(r)[w] \in 0 .. k
  PROVE  \A w \in Nat : w < b * r => Places(r)[w] \in 0 .. k + 1
<1> SUFFICES ASSUME NEW w \in Nat, w < b * r
             PROVE  Places(r)[w] \in 0 .. k + 1
  OBVIOUS
<1>1. w # 0 => Places(r)[w] = 1 + Places(r)[w \div r]
  BY PlacesDefined
<1>2. Places(r)[0] = 0
  BY PlacesDefined
<1>3. w \div r \in Nat /\ w \div r < b
  <2>1. CASE r = 10
    BY <2>1
  <2>2. CASE r = 16
    BY <2>2
  <2> QED  BY <2>1, <2>2 DEF Radix
<1>4. Places(r)[w \div r] \in 0 .. k
  BY <1>3
<1> QED  BY <1>1, <1>2, <1>4

Below(r, b, k) == \A w \in Nat : w < b => Places(r)[w] \in 0 .. k

LEMMA DecimalPlaces ==
  /\ Below(10, 1, 0) /\ Below(10, 10, 1) /\ Below(10, 100, 2) /\ Below(10, 1000, 3) /\ Below(10, 10000, 4)
  /\ Below(10, 100000, 5) /\ Below(10, 1000000, 6) /\ Below(10, 10000000, 7)
  /\ Below(10, 100000000, 8) /\ Below(10, 1000000000, 9) /\ Below(10, 10000000000, 10)
<1> DEFINE B(b, k) == Below(10, b, k)
<1>0. B(1, 0)
  <2>1. Places(10)[0] = 0
    BY PlacesDefined DEF Radix
  <2> QED  BY <2>1 DEF Below
<1>1. ASSUME NEW b \in Nat, NEW k \in Nat, B(b, k) PROVE B(b * 10, k + 1)
  BY <1>1, MorePlaces DEF Below, Radix
<1> HIDE DEF B
<1>2. ASSUME NEW b \in Nat, NEW k \in Nat, NEW c, NEW l, B(b, k), c = b * 10, l = k + 1
      PROVE  B(c, l)
  BY <1>1, <1>2
<1>3. B(10, 1)
  BY <1>0, <1>2
<1>4. B(100, 2)
  BY <1>2, <1>3
<1>5. B(1000, 3)
  BY <1>2, <1>4
<1>6. B(10000, 4)
  BY <1>2, <1>5
<1>7. B(100000, 5)
  BY <1>2, <1>6
<1>8. B(1000000, 6)
  BY <1>2, <1>7
<1>9. B(10000000, 7)
  BY <1>2, <1>8
<1>10. B(100000000, 8)
  BY <1>2, <1>9
<1>11. B(1000000000, 9)
  BY <1>2, <1>10
<1>12. B(10000000000, 10)
  BY <1>2, <1>11
<1> QED  BY <1>0, <1>3, <1>4, <1>5, <1>6, <1>7, <1>8, <1>9, <1>10, <1>11, <1>12 DEF B

LEMMA HexPlaces == Below(16, 268435456, 7) /\ Below(16, 4294967296, 8)
<1> DEFINE B(b, k) == Below(16, b, k)
<1>0. B(1, 0)
  <2>1. Places(16)[0] = 0
    BY PlacesDefined DEF Radix
  <2> QED  BY <2>1 DEF Below
<1>1. ASSUME NEW b \in Nat, NEW k \in Nat, B(b, k) PROVE B(b * 16, k + 1)
  BY <1>1, MorePlaces DEF Below, Radix
<1> HIDE DEF B
<1>2. ASSUME NEW b \in Nat, NEW k \in Nat, NEW c, NEW l, B(b, k), c = b * 16, l = k + 1
      PROVE  B(c, l)
  BY <1>1, <1>2
<1>3. B(16, 1)
  BY <1>0, <1>2
<1>4. B(256, 2)
  BY <1>2, <1>3
<1>5. B(4096, 3)
  BY <1>2, <1>4
<1>6. B(65536, 4)
  BY <1>2, <1>5
<1>7. B(1048576, 5)
  BY <1>2, <1>6
<1>8. B(16777216, 6)
  BY <1>2, <1>7
<1>9. B(268435456, 7)
  BY <1>2, <1>8
<1>10. B(4294967296, 8)
  BY <1>2, <1>9
<1> QED  BY <1>9, <1>10 DEF B

(* How long a number is at most.                                           *)
LEMMA Quotients ==
  ASSUME NEW a \in Int
  PROVE  /\ Quot(a, 10) \in Int /\ Quot(a, 16) \in Int /\ Quot(a, 100) \in Int
         /\ a >= 0 => Quot(a, 10) = a \div 10 /\ Quot(a, 100) = a \div 100
         /\ a < 0 => /\ -Quot(a, 10) = (-a) \div 10
                     /\ -Quot(a, 16) = (-a) \div 16
                     /\ -Quot(a, 100) = (-a) \div 100
BY DEF Quot

LEMMA ItoaLength ==
  ASSUME NEW r \in Radix, NEW b \in Nat, NEW k \in Nat, Below(r, b, k),
         NEW a \in Int, -(b * r) < a, a < b * r, NEW u \in BOOLEAN
  PROVE  /\ Itoa(a, r, u) \in Seq(Int) /\ Len(Itoa(a, r, u)) \in 0 .. k + 2
         /\ a >= 0 \/ u => Len(Itoa(a, r, u)) <= k + 1
<1>1. Below(r, b * r, k + 1)
  BY MorePlaces DEF Below
<1>5. ASSUME NEW q \in Seq(0 .. r - 1) PROVE q \in Seq(Int)
  <2>1. 0 .. r - 1 \subseteq Int
    BY DEF Radix
  <2> DEFINE n == Len(q)
  <2>2. n \in Nat /\ q \in [1 .. n -> 0 .. r - 1]
    BY LenProperties
  <2> HIDE DEF n
  <2>3. q \in [1 .. n -> Int]
    BY <2>1, <2>2
  <2> QED  BY <2>2, <2>3
<1>2. CASE a >= 0
  <2>1. Itoa(a, r, u) = Digits(r)[a] /\ Faithful(r, a)
    BY <1>2, ItoaPlain, DigitsRead
  <2>2. Places(r)[a] \in 0 .. k + 1
    BY <1>1, <1>2 DEF Below
  <2>3. Len(Itoa(a, r, u)) = IF a = 0 THEN 1 ELSE Places(r)[a]
    BY <2>1 DEF Faithful
  <2>4. Digits(r)[a] \in Seq(Int)
    BY <1>5, <2>1 DEF Faithful
  <2> QED  BY <2>1, <2>2, <2>3, <2>4
<1>3. CASE a < 0 /\ ~u /\ a # MinInt
  <2> DEFINE d == Digits(r)[-a]
  <2>1. -a \in Nat /\ -a < b * r /\ -a # 0 /\ u = FALSE
    <3>1. ASSUME NEW m \in Int, -m < a PROVE -a < m
      BY <3>1
    <3>2. b * r \in Int
      BY DEF Radix
    <3> QED  BY <1>3, <3>1, <3>2
  <2>2. Itoa(a, r, u) = <<Minus>> \o d /\ Faithful(r, -a)
    BY <1>3, <2>1, ItoaNegative, DigitsRead
  <2>3. Places(r)[-a] \in 0 .. k + 1
    BY <1>1, <2>1 DEF Below
  <2>4. Len(d) = Places(r)[-a] /\ d \in Seq(0 .. r - 1)
    BY <2>1, <2>2 DEF Faithful
  <2> HIDE DEF d
  <2>6. d \in Seq(Int) /\ <<Minus>> \in Seq(Int)
    BY <1>5, <2>4 DEF Minus
  <2>5. Itoa(a, r, u) \in Seq(Int) /\ Len(Itoa(a, r, u)) = 1 + Len(d)
    BY <2>2, <2>6
  <2> QED  BY <1>3, <2>1, <2>3, <2>4, <2>5
<1>4. CASE a < 0 /\ (u \/ a = MinInt)
  <2> DEFINE q == -Quot(a, r)
             n == NumDigits(a, r)
             c == IF Rem(a, r) < 0 THEN Garbage ELSE 0
             s == IF u THEN << >> ELSE <<Minus>>
             g == [i \in 1 .. n - 1 |-> Garbage]
             S == Int
  <2>1. q \in Nat /\ q < b
    <3>1. CASE r = 10
      <4>1. q = (-a) \div 10
        BY <1>4, <3>1, Quotients
      <4> QED  BY <1>4, <3>1, <4>1
    <3>2. CASE r = 16
      <4>1. q = (-a) \div 16
        BY <1>4, <3>2, Quotients
      <4> QED  BY <1>4, <3>2, <4>1
    <3> QED  BY <3>1, <3>2 DEF Radix
  <2>2. n = 1 + Places(r)[q] /\ DigitsOf(a, r) = <<c>>
    BY <1>4, PlacesNamed
  <2>3. n \in 1 .. k + 1
    <3> HIDE DEF q
    <3>1. Places(r)[q] \in 0 .. k
      BY <2>1 DEF Below
    <3> QED  BY <2>2, <3>1
  <2>4. (IF a < 0 /\ ~u THEN Negated(a) ELSE a) = a
    BY <1>4 DEF Negated
  <2>5. Itoa(a, r, u) = s \o [i \in 1 .. n - Len(<<c>>) |-> Garbage] \o <<c>>
    <3>1. (IF a = 0 THEN 1 ELSE NumDigits(a, r)) = n
      BY <1>4
    <3> HIDE DEF n, c
    <3> QED  BY <1>4, <2>2, <2>4, <3>1 DEF Itoa
  <2>10. <<c>> \in Seq(S) /\ Len(<<c>>) = 1
    BY DEF Garbage
  <2> HIDE DEF q, n
  <2>6. Itoa(a, r, u) = s \o g \o <<c>>
    BY <2>5
  <2>7. g \in Seq(S) /\ Len(g) = n - 1
    BY <2>3 DEF Garbage
  <2>8. s \in Seq(S) /\ Len(s) = IF u THEN 0 ELSE 1
    <3>1. CASE u
      BY <3>1
    <3>2. CASE ~u
      BY <3>2 DEF Minus
    <3> QED  BY <3>1, <3>2
  <2>9. Itoa(a, r, u) \in Seq(Int) /\ Len(Itoa(a, r, u)) = Len(s) + (n - 1) + 1
    <3> HIDE DEF g, s, c
    <3>2. s \in Seq(S) /\ g \in Seq(S)
      BY <2>7, <2>8
    <3>3. s \o g \in Seq(S) /\ Len(s \o g) = Len(s) + Len(g)
      BY <3>2, ConcatProperties
    <3>1. s \o g \in Seq(S) /\ Len(s \o g) = Len(s) + (n - 1)
      BY <2>7, <3>3
    <3> HIDE DEF S
    <3>4. (s \o g) \o <<c>> \in Seq(S) /\ Len((s \o g) \o <<c>>) = Len(s \o g) + 1
      BY <2>10, <3>1, ConcatProperties
    <3> USE DEF S
    <3> QED  BY <2>3, <2>6, <3>1, <3>4
  <2> QED  BY <1>4, <2>3, <2>8, <2>9
<1> QED  BY <1>2, <1>3, <1>4

-----------------------------------------------------------------------------
(* Floats, if what is converted to an int fits.                            *)
IntHas32Bits == MaxInt <= 2147483647

ScaledFits(f, p) == Quot(f * POW10[p + 1], 100) \in MinInt .. MaxInt

FloatsFit == \A f \in Hundredths, p \in Precisions \cup {1} : ScaledFits(f, p)

LEMMA QuotientBounds ==
  ASSUME NEW a \in Int, NEW c \in Nat
  PROVE  /\ -c <= Quot(a, 100) /\ Quot(a, 100) <= c => -100 * (c + 1) < a /\ a < 100 * (c + 1)
         /\ -100 * c < a /\ a < 100 * c => -c < Quot(a, 100) /\ Quot(a, 100) < c
<1>1. CASE a >= 0
  BY <1>1, Quotients
<1>2. CASE a < 0
  <2> DEFINE b == -a
  <2>1. b \in Nat /\ b > 0 /\ a = -b
    BY <1>2
  <2>2. -Quot(a, 100) = b \div 100 /\ Quot(a, 100) \in Int
    BY <1>2, Quotients
  <2> HIDE DEF b
  <2>3. /\ b \div 100 <= c => b < 100 * (c + 1)
        /\ b < 100 * c => b \div 100 < c
        /\ b \div 100 >= 0
    BY <2>1
  <2> QED  BY <2>1, <2>2, <2>3
<1> QED  BY <1>1, <1>2

(* The remainder of a division by a power of ten.                          *)
LEMMA Remainders ==
  ASSUME NEW a \in Int, NEW p \in 0 .. 8
  PROVE  /\ Rem(a, POW10[p + 1]) \in Int
         /\ -POW10[p + 1] < Rem(a, POW10[p + 1]) /\ Rem(a, POW10[p + 1]) < POW10[p + 1]
<1>1. ASSUME NEW m \in {1, 10, 100, 1000, 10000, 100000, 1000000, 10000000, 100000000}
      PROVE  Rem(a, m) \in Int /\ -m < Rem(a, m) /\ Rem(a, m) < m
  <2>1. CASE m = 1
    BY <2>1 DEF Rem, Quot
  <2>2. CASE m = 10
    BY <2>2 DEF Rem, Quot
  <2>3. CASE m = 100
    BY <2>3 DEF Rem, Quot
  <2>4. CASE m = 1000
    BY <2>4 DEF Rem, Quot
  <2>5. CASE m = 10000
    BY <2>5 DEF Rem, Quot
  <2>6. CASE m = 100000
    BY <2>6 DEF Rem, Quot
  <2>7. CASE m = 1000000
    BY <2>7 DEF Rem, Quot
  <2>8. CASE m = 10000000
    BY <2>8 DEF Rem, Quot
  <2>9. CASE m = 100000000
    BY <2>9 DEF Rem, Quot
  <2> QED  BY <2>1, <2>2, <2>3, <2>4, <2>5, <2>6, <2>7, <2>8, <2>9
<1>2. POW10[p + 1] \in {1, 10, 100, 1000, 10000, 100000, 1000000, 10000000, 100000000}
  BY DEF POW10
<1> QED  BY <1>1, <1>2

LEMMA FloatLength ==
  ASSUME IntHas32Bits, NEW f \in Int, NEW p \in 0 .. 8, ScaledFits(f, p)
  PROVE  Len(Ftoa(f, p)) \in 0 .. 16
<1> DEFINE m == POW10[p + 1]
           x == Quot(f * m, 100)
           q == Quot(f, 100)
           n == Rem(x, m)
           whole == Itoa(q, 10, FALSE)
           part  == IF n # 0 THEN Itoa(n, 10, FALSE) ELSE [i \in 1 .. p |-> 0]
<1>1. Ftoa(f, p) = whole \o (IF p = 0 THEN << >> ELSE <<Point>> \o part)
  BY DEF Ftoa
<1>2. MaxInt \in Nat /\ -2147483648 <= x /\ x <= 2147483648 /\ q \in Int /\ x \in Int
  <2>1. q \in Int /\ x \in Int /\ MaxInt \in Nat
    <3>1. f * m \in Int
      BY SMT DEF POW10
    <3> HIDE DEF m
    <3> QED  BY <3>1, PrintAssumption, Quotients, SMT
  <2> HIDE DEF x, q
  <2>2. x \in MinInt .. MaxInt
    BY SMT DEF x, m, ScaledFits
  <2> QED  BY <2>1, <2>2, SMT DEF MinInt, IntHas32Bits
<1>3. m \in Nat
  BY SMT DEF POW10
<1>4. -214748364900 < f * m /\ f * m < 214748364900
  <2>1. f * m \in Int
    BY <1>3
  <2>2. -2147483648 <= Quot(f * m, 100) /\ Quot(f * m, 100) <= 2147483648
    BY <1>2, SMT
  <2> HIDE DEF m
  <2>3. -100 * (2147483648 + 1) < f * m /\ f * m < 100 * (2147483648 + 1)
    BY <2>1, <2>2, QuotientBounds, SMT
  <2> QED  BY <2>3, SMT
<1>5. 10 \in Radix /\ FALSE \in BOOLEAN
  BY DEF Radix
<1> DEFINE Small(b)   == -1000 * b < f /\ f < 1000 * b
           AtMost(k) == whole \in Seq(Int) /\ Len(whole) \in 0 .. k + 2
<1>6. ASSUME NEW b \in Nat, NEW k \in Nat, Below(10, b, k), Small(b)
      PROVE  AtMost(k)
  <2> DEFINE c == b * 10
  <2>1. c \in Nat /\ -100 * c < f /\ f < 100 * c
    BY <1>6
  <2> HIDE DEF c
  <2>2. -c < q /\ q < c
    BY <2>1, QuotientBounds
  <2> USE DEF c
  <2>3. q \in Int /\ -(b * 10) < q /\ q < b * 10
    BY <1>2, <2>2
  <2> HIDE DEF q
  <2> QED  BY <1>5, <1>6, <2>3, ItoaLength
<1>7. whole \in Seq(Int) /\ Len(whole) \in 0 .. 11 - p
  <2> HIDE DEF m, x, q, n, whole, part
  <2>1. CASE p = 0
    <3>1. Small(1000000000)
      BY <1>4, <2>1, SMT DEF m, POW10
    <3>2. Below(10, 1000000000, 9)
      BY DecimalPlaces, SMT
    <3>3. AtMost(9)
      <4> HIDE DEF Small, AtMost
      <4> QED  BY <1>6, <3>1, <3>2, SMT
    <3> QED  BY <2>1, <3>3
  <2>2. CASE p = 1
    <3>1. Small(100000000)
      BY <1>4, <2>2, SMT DEF m, POW10
    <3>2. Below(10, 100000000, 8)
      BY DecimalPlaces, SMT
    <3>3. AtMost(8)
      <4> HIDE DEF Small, AtMost
      <4> QED  BY <1>6, <3>1, <3>2, SMT
    <3> QED  BY <2>2, <3>3
  <2>3. CASE p = 2
    <3>1. Small(10000000)
      BY <1>4, <2>3, SMT DEF m, POW10
    <3>2. Below(10, 10000000, 7)
      BY DecimalPlaces, SMT
    <3>3. AtMost(7)
      <4> HIDE DEF Small, AtMost
      <4> QED  BY <1>6, <3>1, <3>2, SMT
    <3> QED  BY <2>3, <3>3
  <2>4. CASE p = 3
    <3>1. Small(1000000)
      BY <1>4, <2>4, SMT DEF m, POW10
    <3>2. Below(10, 1000000, 6)
      BY DecimalPlaces, SMT
    <3>3. AtMost(6)
      <4> HIDE DEF Small, AtMost
      <4> QED  BY <1>6, <3>1, <3>2, SMT
    <3> QED  BY <2>4, <3>3
  <2>5. CASE p = 4
    <3>1. Small(100000)
      BY <1>4, <2>5, SMT DEF m, POW10
    <3>2. Below(10, 100000, 5)
      BY DecimalPlaces, SMT
    <3>3. AtMost(5)
      <4> HIDE DEF Small, AtMost
      <4> QED  BY <1>6, <3>1, <3>2, SMT
    <3> QED  BY <2>5, <3>3
  <2>6. CASE p = 5
    <3>1. Small(10000)
      BY <1>4, <2>6, SMT DEF m, POW10
    <3>2. Below(10, 10000, 4)
      BY DecimalPlaces, SMT
    <3>3. AtMost(4)
      <4> HIDE DEF Small, AtMost
      <4> QED  BY <1>6, <3>1, <3>2, SMT
    <3> QED  BY <2>6, <3>3
  <2>7. CASE p = 6
    <3>1. Small(1000)
      BY <1>4, <2>7, SMT DEF m, POW10
    <3>2. Below(10, 1000, 3)
      BY DecimalPlaces, SMT
    <3>3. AtMost(3)
      <4> HIDE DEF Small, AtMost
      <4> QED  BY <1>6, <3>1, <3>2, SMT
    <3> QED  BY <2>7, <3>3
  <2>8. CASE p = 7
    <3>1. Small(100)
      BY <1>4, <2>8, SMT DEF m, POW10
    <3>2. Below(10, 100, 2)
      BY DecimalPlaces, SMT
    <3>3. AtMost(2)
      <4> HIDE DEF Small, AtMost
      <4> QED  BY <1>6, <3>1, <3>2, SMT
    <3> QED  BY <2>8, <3>3
  <2>9. CASE p = 8
    <3>1. Small(10)
      BY <1>4, <2>9, SMT DEF m, POW10
    <3>2. Below(10, 10, 1)
      BY DecimalPlaces, SMT
    <3>3. AtMost(1)
      <4> HIDE DEF Small, AtMost
      <4> QED  BY <1>6, <3>1, <3>2, SMT
    <3> QED  BY <2>9, <3>3
  <2> QED  BY <2>1, <2>2, <2>3, <2>4, <2>5, <2>6, <2>7, <2>8, <2>9
<1> HIDE DEF Small, AtMost
<1>8. p # 0 => part \in Seq(Int) /\ Len(part) \in 0 .. p + 1
  <2> SUFFICES ASSUME p # 0 PROVE part \in Seq(Int) /\ Len(part) \in 0 .. p + 1
    OBVIOUS
  <2>1. n \in Int /\ -m < n /\ n < m
    <3>1. x \in Int
      BY <1>2
    <3> HIDE DEF x
    <3>2. Rem(x, m) \in Int /\ -m < Rem(x, m) /\ Rem(x, m) < m
      BY <3>1, Remainders
    <3> QED  BY <3>2
  <2>2. PICK b \in Nat : m = b * 10 /\ Below(10, b, p - 1)
    <3>1. PICK i \in 1 .. 8 : i = p
      OBVIOUS
    <3>2. \E b \in Nat : POW10[i + 1] = b * 10 /\ Below(10, b, i - 1)
      <4>1. POW10[i + 1] = POW10[i] * 10 /\ POW10[i] \in Nat
        BY SMT DEF POW10
      <4>2. Below(10, POW10[i], i - 1)
        BY DecimalPlaces, SMT DEF POW10
      <4> QED  BY <4>1, <4>2
    <3> QED  BY <3>1, <3>2
  <2> HIDE DEF n, m
  <2>3. Itoa(n, 10, FALSE) \in Seq(Int) /\ Len(Itoa(n, 10, FALSE)) \in 0 .. (p - 1) + 2
    <3>1. p - 1 \in Nat
      OBVIOUS
    <3>2. n \in Int /\ -(b * 10) < n /\ n < b * 10
      BY <2>1, <2>2
    <3> DEFINE k == p - 1
    <3> HIDE DEF k
    <3>3. k \in Nat /\ Below(10, b, k)
      BY <2>2, <3>1 DEF k
    <3>4. Itoa(n, 10, FALSE) \in Seq(Int) /\ Len(Itoa(n, 10, FALSE)) \in 0 .. k + 2
      BY <1>5, <3>2, <3>3, ItoaLength
    <3> QED  BY <3>4 DEF k
  <2>4. [i \in 1 .. p |-> 0] \in Seq(Int) /\ Len([i \in 1 .. p |-> 0]) = p
    OBVIOUS
  <2>5. CASE n # 0
    <3>1. part = Itoa(n, 10, FALSE)
      BY <2>5
    <3>2. (p - 1) + 2 = p + 1
      OBVIOUS
    <3> HIDE DEF part
    <3> QED  BY <2>3, <3>1, <3>2
  <2>6. CASE n = 0
    <3>1. part = [i \in 1 .. p |-> 0]
      BY <2>6
    <3> HIDE DEF part
    <3> QED  BY <2>4, <3>1
  <2> QED  BY <2>5, <2>6
<1> HIDE DEF whole, part
<1>9. CASE p = 0
  <2>1. Ftoa(f, p) = whole \o << >>
    BY <1>1, <1>9
  <2> QED  BY <1>7, <1>9, <2>1
<1>10. CASE p # 0
  <2>1. Ftoa(f, p) = whole \o (<<Point>> \o part)
    BY <1>1, <1>10
  <2>2. <<Point>> \o part \in Seq(Int) /\ Len(<<Point>> \o part) = 1 + Len(part)
    BY <1>8, <1>10 DEF Point
  <2>3. Len(Ftoa(f, p)) = Len(whole) + (1 + Len(part))
    <3> DEFINE s == <<Point>> \o part
    <3>1. s \in Seq(Int)
      BY <2>2
    <3> HIDE DEF s
    <3>2. Len(whole \o s) = Len(whole) + Len(s)
      BY <1>7, <3>1, ConcatProperties
    <3> USE DEF s
    <3> QED  BY <2>1, <2>2, <3>2
  <2>4. Len(whole) \in 0 .. 11 - p /\ Len(part) \in 0 .. p + 1
    BY <1>7, <1>8, <1>10
  <2>5. ASSUME NEW i \in 0 .. 11 - p, NEW j \in 0 .. p + 1 PROVE i + (1 + j) \in 0 .. 16
    OBVIOUS
  <2>6. Len(whole) + (1 + Len(part)) \in 0 .. 16
    BY <2>4, <2>5
  <2> QED  BY <2>3, <2>6
<1> QED  BY <1>9, <1>10

LEMMA IntLength ==
  ASSUME IntHas32Bits, NEW a \in MinInt .. MaxInt, NEW u \in BOOLEAN
  PROVE  Len(Itoa(a, 10, u)) \in 0 .. 11 /\ Len(Itoa(a, 16, TRUE)) \in 0 .. 8
<1>1. a \in Int /\ -2147483648 <= a /\ a <= 2147483648
  BY PrintAssumption, SMT DEF MinInt, IntHas32Bits
<1>0. a \in Int
  BY <1>1, SMT
<1>2. 10 \in Radix /\ 16 \in Radix /\ TRUE \in BOOLEAN
  BY DEF Radix
<1> DEFINE Around(r, b)  == -(b * r) < a /\ a < b * r
           AtMost(r, k) == Len(Itoa(a, r, u)) \in 0 .. k + 2
           Short(r, k)   == Len(Itoa(a, r, TRUE)) \in 0 .. k + 1
<1>3. ASSUME NEW b \in Nat, NEW k \in Nat, NEW r \in Radix, Below(r, b, k), Around(r, b)
      PROVE  AtMost(r, k) /\ Short(r, k)
  <2>1. AtMost(r, k)
    BY <1>0, <1>2, <1>3, ItoaLength
  <2>2. Len(Itoa(a, r, TRUE)) \in 0 .. k + 2 /\ Len(Itoa(a, r, TRUE)) <= k + 1
    BY <1>0, <1>2, <1>3, ItoaLength
  <2> DEFINE n == Len(Itoa(a, r, TRUE))
  <2>3. n \in 0 .. k + 1
    <3> HIDE DEF n
    <3>1. n \in 0 .. k + 2 /\ n <= k + 1
      BY <2>2 DEF n
    <3> QED  BY <3>1
  <2> QED  BY <2>1, <2>3
<1>4. Around(10, 1000000000) /\ Around(16, 268435456)
  BY <1>1, SMT
<1>5. Below(10, 1000000000, 9) /\ Below(16, 268435456, 7)
  BY DecimalPlaces, HexPlaces, SMT
<1>6. AtMost(10, 9) /\ Short(16, 7)
  <2> HIDE DEF Around, AtMost, Short
  <2> QED  BY <1>2, <1>3, <1>4, <1>5, SMT
<1>7. 9 + 2 = 11 /\ 7 + 1 = 8
  OBVIOUS
<1> QED  BY <1>6, <1>7

(* What a float with one digit after the point is printed as.              *)
LEMMA OneDigit ==
  ASSUME NEW n \in 0 .. 9
  PROVE  (IF n # 0 THEN Itoa(n, 10, FALSE) ELSE [i \in 1 .. 1 |-> 0]) = <<n>>
<1>1. CASE n # 0
  <2>1. 10 \in Radix /\ n \in Nat /\ n \div 10 = 0 /\ n % 10 = n
    BY DEF Radix
  <2> DEFINE D == Digits(10)
  <2>5. D = [w \in Nat |-> (IF w \div 10 = 0 THEN << >> ELSE D[w \div 10]) \o <<w % 10>>]
    BY <2>1, DigitsDefined
  <2> HIDE DEF D
  <2>6. D[n] = (IF n \div 10 = 0 THEN << >> ELSE D[n \div 10]) \o <<n % 10>>
    BY <2>1, <2>5
  <2>2. Digits(10)[n] = << >> \o <<n>>
    BY <2>1, <2>6 DEF D
  <2>3. Itoa(n, 10, FALSE) = Digits(10)[n]
    BY <2>1, ItoaPlain
  <2>4. << >> \o <<n>> = <<n>>
    OBVIOUS
  <2> QED  BY <1>1, <2>2, <2>3, <2>4
<1>2. CASE n = 0
  <2>1. [i \in 1 .. 1 |-> 0] = <<0>>
    OBVIOUS
  <2> QED  BY <1>2, <2>1
<1> QED  BY <1>1, <1>2

LEMMA FloatText ==
  ASSUME NEW f \in Nat
  PROVE  /\ Ftoa(f, 1) = Digits(10)[f \div 100] \o (<<Point>> \o <<(f \div 10) % 10>>)
         /\ f \div 10 = (f \div 100) * 10 + ((f \div 10) % 10)
         /\ f \div 100 \in Nat /\ f \div 10 \in Nat /\ (f \div 10) % 10 \in 0 .. 9
<1> DEFINE x == Quot(f * 10, 100)
           n == Rem(x, 10)
<1>1. POW10[1 + 1] = 10
  BY SMT DEF POW10
<1>2. /\ f \div 10 = (f \div 100) * 10 + ((f \div 10) % 10)
      /\ f \div 100 \in Nat /\ f \div 10 \in Nat /\ (f \div 10) % 10 \in 0 .. 9
  OBVIOUS
<1>3. x = f \div 10
  BY DEF Quot
<1> HIDE DEF x
<1>4. n = (f \div 10) % 10
  <2> DEFINE y == f \div 10
  <2> HIDE DEF y
  <2>1. y \in Nat /\ x = y
    BY <1>2, <1>3 DEF y
  <2>2. Rem(y, 10) = y % 10
    BY <2>1 DEF Rem, Quot
  <2> QED  BY <2>1, <2>2 DEF y
<1>5. Quot(f, 100) = f \div 100
  BY DEF Quot
<1> DEFINE w == Itoa(f \div 100, 10, FALSE)
           z == IF n # 0 THEN Itoa(n, 10, FALSE) ELSE [i \in 1 .. 1 |-> 0]
<1>6. Ftoa(f, 1) = w \o (<<Point>> \o z)
  <2> DEFINE mult == POW10[1 + 1]
             m == Rem(Quot(f * mult, 100), mult)
  <2>1. Ftoa(f, 1) = Itoa(Quot(f, 100), 10, FALSE)
          \o (<<Point>> \o IF m # 0 THEN Itoa(m, 10, FALSE) ELSE [i \in 1 .. 1 |-> 0])
    BY DEF Ftoa
  <2>2. m = n
    BY <1>1 DEF x
  <2> HIDE DEF m, n
  <2> QED  BY <1>5, <2>1, <2>2
<1>7. z = <<(f \div 10) % 10>>
  <2>1. n \in 0 .. 9
    BY <1>2, <1>4
  <2> HIDE DEF n
  <2> QED  BY <1>4, <2>1, OneDigit
<1>8. w = Digits(10)[f \div 100]
  BY <1>2, ItoaPlain DEF Radix
<1> HIDE DEF w, z, n
<1> QED  BY <1>2, <1>6, <1>7, <1>8

LEMMA TwoMore ==
  ASSUME NEW S, NEW d \in Seq(S), NEW s \in Seq(S)
  PROVE  Len(s) = 2 =>
           /\ Len(d \o s) = Len(d) + 2
           /\ (d \o s)[Len(d) + 1] = s[1] /\ (d \o s)[Len(d) + 2] = s[2]
           /\ SubSeq(d \o s, 1, Len(d)) = d
<1>1. Len(d) \in Nat
  OBVIOUS
<1>2. Len(d \o s) = Len(d) + Len(s)
  BY ConcatProperties
<1>3. \A i \in 1 .. Len(d) + Len(s) : (d \o s)[i] = IF i <= Len(d) THEN d[i] ELSE s[i - Len(d)]
  BY ConcatProperties
<1> DEFINE c == d \o s
           n == Len(d)
<1> HIDE DEF c, n
<1>9. SUFFICES ASSUME Len(s) = 2
                PROVE  /\ Len(d \o s) = n + 2
                       /\ c[n + 1] = s[1] /\ c[n + 2] = s[2]
                       /\ SubSeq(d \o s, 1, Len(d)) = d
  BY DEF c, n
<1>4. \A i \in 1 .. n + 2 : c[i] = IF i <= n THEN d[i] ELSE s[i - n]
  BY <1>3, <1>9 DEF c, n
<1>5. n \in Nat
  BY <1>1 DEF n
<1>6. c[n + 1] = s[1] /\ c[n + 2] = s[2]
  <2>1. /\ n + 1 \in 1 .. n + 2 /\ ~(n + 1 <= n) /\ (n + 1) - n = 1
        /\ n + 2 \in 1 .. n + 2 /\ ~(n + 2 <= n) /\ (n + 2) - n = 2
    BY <1>5
  <2>2. c[n + 1] = s[1]
    BY <1>4, <2>1
  <2>3. c[n + 2] = s[2]
    BY <1>4, <2>1
  <2> QED  BY <2>2, <2>3
<1>7. SubSeq(d \o s, 1, Len(d)) = d
  BY ConcatProperties, ConcatSimplifications, SubSeqProperties
<1>8. Len(d \o s) = n + 2
  BY <1>2, <1>9 DEF n
<1> QED  BY <1>6, <1>7, <1>8

LEMMA FloatReads ==
  ASSUME NEW f \in Nat
  PROVE  \E i \in 1 .. Len(Ftoa(f, 1)) :
           /\ Ftoa(f, 1)[i] = Point /\ i = Len(Ftoa(f, 1)) - 1
           /\ Reads(SubSeq(Ftoa(f, 1), 1, i - 1) \o <<Ftoa(f, 1)[i + 1]>>, 10, f \div 10)
<1> DEFINE t == Ftoa(f, 1)
           d == Digits(10)[f \div 100]
           n == (f \div 10) % 10
           i == Len(d) + 1
           s == <<Point>> \o <<n>>
<1>1. /\ t = d \o s /\ f \div 10 = (f \div 100) * 10 + n
      /\ f \div 100 \in Nat /\ f \div 10 \in Nat /\ n \in 0 .. 9
  BY FloatText
<1>2. Faithful(10, f \div 100)
  BY <1>1, DigitsRead DEF Radix
<1>3. d \in Seq(0 .. 9) /\ Len(d) > 0 /\ Magnitude(d, 10) = f \div 100 /\ Len(d) \in Nat
  <2>1. 10 - 1 = 9
    OBVIOUS
  <2>2. d \in Seq(0 .. 9) /\ Len(d) > 0 /\ Magnitude(d, 10) = f \div 100
    BY <1>2, <2>1 DEF Faithful
  <2> HIDE DEF d
  <2> QED  BY <2>2
<1> HIDE DEF d, n
<1>4. s \in Seq(Int) /\ Len(s) = 2 /\ s[1] = Point /\ s[2] = n
  BY <1>1 DEF Point
<1>5. d \in Seq(Int)
  BY <1>3
<1> HIDE DEF t, s
<1>6. Len(t) = Len(d) + 2 /\ t[i] = Point /\ t[i + 1] = n
  <2>0. d \in Seq(Int) /\ s \in Seq(Int) /\ Len(s) = 2 /\ Len(d) \in Nat
    BY <1>3, <1>4, <1>5
  <2> HIDE DEF i
  <2>1. Len(d \o s) = Len(d) + 2
    BY <2>0, TwoMore
  <2>2. (d \o s)[Len(d) + 1] = s[1] /\ (d \o s)[Len(d) + 2] = s[2]
    BY <2>0, TwoMore
  <2> USE DEF i
  <2>3. i + 1 = Len(d) + 2
    BY <1>3
  <2> QED  BY <1>1, <1>4, <2>1, <2>2, <2>3
<1>7. SubSeq(t, 1, i - 1) = d
  <2>1. i - 1 = Len(d)
    BY <1>3
  <2>2. SubSeq(t, 1, Len(d)) = d
    BY <1>1, <1>4, <1>5, TwoMore
  <2> QED  BY <2>1, <2>2
<1>8. Magnitude(d \o <<n>>, 10) = f \div 10
  <2>1. n \in Int /\ 10 \in Int
    BY <1>1
  <2>2. Magnitude(d \o <<n>>, 10) = Magnitude(d, 10) * 10 + n
    BY <1>5, <2>1, MagnitudeAppend
  <2> QED  BY <1>1, <1>3, <2>2
<1>9. d \o <<n>> \in Seq(0 .. 9) /\ Len(d \o <<n>>) > 0
  BY <1>1, <1>3
<1>10. Reads(d \o <<n>>, 10, f \div 10)
  <2> DEFINE e == d \o <<n>>
             v == f \div 10
  <2>1. v \in Nat /\ e \in Seq(0 .. 9) /\ Len(e) > 0 /\ Magnitude(e, 10) = v
    BY <1>1, <1>8, <1>9
  <2> HIDE DEF e, v
  <2>2. ~(v < 0) /\ e # << >>
    BY <2>1
  <2>3. \A j \in DOMAIN e : e[j] \in 0 .. 10 - 1
    <3>1. DOMAIN e = 1 .. Len(e) /\ 10 - 1 = 9
      BY <2>1
    <3> QED  BY <2>1, <3>1, ElementOfSeq
  <2>4. Reads(e, 10, v)
    BY <2>1, <2>2, <2>3 DEF Reads
  <2> QED  BY <2>4 DEF e, v
<1>11. i \in 1 .. Len(t) /\ i = Len(t) - 1
  BY <1>3, <1>6
<1>12. Reads(SubSeq(t, 1, i - 1) \o <<t[i + 1]>>, 10, f \div 10)
  BY <1>6, <1>7, <1>10
<1> HIDE DEF i
<1> QED  BY <1>6, <1>11, <1>12 DEF t

(* The last conversion wrote what os_itoa or os_ftoa make of its argument, *)
(* and while more may follow there is room for a character and the '\0'.   *)
TextIs(k, a, m, t) ==
  /\ k \in {"d", "u"} => a \in Values /\ m \in {0, 1} /\ t = Itoa(a, 10, m = 1)
  /\ k = "x" => a \in Values /\ t = Itoa(a, 16, TRUE)
  /\ k = "f" => a \in Hundredths /\ t = Ftoa(a, m)

PrintInv ==
  /\ used \in Nat /\ used <= BufferSize
  /\ ~stopped => used < BufferSize - 1
  /\ stopped \in BOOLEAN
  /\ precision \in Precisions \cup {1}
  /\ TextIs(item.kind, item.arg, item.mode, text)

LEMMA TextReads ==
  ASSUME TextIs(item.kind, item.arg, item.mode, text)
  PROVE  NumbersRead
<1> DEFINE a == item.arg
           m == item.mode
<1>1. ASSUME item.kind \in {"d", "u"} PROVE a \in Int /\ m \in {0, 1} /\ text = Itoa(a, 10, m = 1)
  <2>1. Values \subseteq Int
    BY PrintAssumption DEF MinInt
  <2> QED  BY <1>1, <2>1 DEF TextIs
<1>2. ASSUME item.kind = "x" PROVE a \in Int /\ text = Itoa(a, 16, TRUE)
  <2>1. Values \subseteq Int
    BY PrintAssumption DEF MinInt
  <2> QED  BY <1>2, <2>1 DEF TextIs
<1>3. ASSUME item.kind = "f", a >= 0, m = 1 PROVE a \in Nat /\ text = Ftoa(a, 1)
  <2>1. Hundredths \subseteq Int
    BY PrintAssumption
  <2>2. a \in Hundredths /\ text = Ftoa(a, m)
    BY <1>3 DEF TextIs
  <2> HIDE DEF a, m
  <2>3. text = Ftoa(a, 1)
    BY <1>3, <2>2
  <2> QED  BY <1>3, <2>1, <2>2, <2>3
<1>4. 10 \in Radix /\ 16 \in Radix
  BY DEF Radix
<1>5. \A b \in Int : b >= 0 => b # MinInt
  BY PrintAssumption DEF MinInt
<1> HIDE DEF a, m
<1>6. ASSUME item.kind = "d", a # MinInt, m = 1 => a >= 0 PROVE Reads(text, 10, a)
  <2> DEFINE u == (m = 1)
  <2>1. u \in BOOLEAN /\ (u => a >= 0)
    BY <1>6
  <2>2. a \in Int /\ text = Itoa(a, 10, u)
    BY <1>1, <1>6
  <2> HIDE DEF u
  <2> QED  BY <1>4, <1>6, <2>1, <2>2, ItoaReads
<1>7. ASSUME item.kind = "u", a >= 0 PROVE Reads(text, 10, a)
  <2> DEFINE u == (m = 1)
  <2>1. u \in BOOLEAN
    OBVIOUS
  <2>2. a \in Int /\ text = Itoa(a, 10, u)
    BY <1>1, <1>7
  <2> HIDE DEF u
  <2> QED  BY <1>4, <1>5, <1>7, <2>1, <2>2, ItoaReads
<1>8. ASSUME item.kind = "x", a >= 0 PROVE Reads(text, 16, a)
  <2>1. a \in Int /\ text = Itoa(a, 16, TRUE)
    BY <1>2, <1>8
  <2> QED  BY <1>4, <1>5, <1>8, <2>1, ItoaReads
<1>9. ASSUME item.kind = "f", a >= 0, m = 1
      PROVE  \E i \in 1 .. Len(text) :
               /\ text[i] = Point /\ i = Len(text) - 1
               /\ Reads(SubSeq(text, 1, i - 1) \o <<text[i + 1]>>, 10, a \div 10)
  <2>1. a \in Nat /\ text = Ftoa(a, 1)
    BY <1>3, <1>9
  <2> QED  BY <2>1, FloatReads
<1> QED  BY <1>6, <1>7, <1>8, <1>9 DEF NumbersRead, a, m

(* A conversion that is made where its reserve fits leaves room.           *)
LEMMA Converts ==
  ASSUME PrintInv, ~stopped, NEW k, NEW a, NEW m, NEW t, NEW reserve \in Nat,
         Convert(k, a, m, t, reserve), TextIs(k, a, m, t), Len(t) \in 0 .. reserve,
         precision' \in Precisions \cup {1}
  PROVE  PrintInv'
<1> USE DEF PrintInv
<1>0. BufferSize \in Nat
  BY PrintAssumption
<1>1. CASE Fits(reserve)
  <2>1. /\ item' = [kind |-> k, arg |-> a, mode |-> m] /\ text' = t
        /\ used' = used + Len(t) /\ stopped' = stopped
    BY <1>1 DEF Convert, Written
  <2>2. TextIs(item.kind, item.arg, item.mode, text)'
    BY <2>1 DEF TextIs
  <2> DEFINE n == Len(t)
  <2> HIDE DEF n
  <2>3. n \in 0 .. reserve /\ used' = used + n /\ used + reserve < BufferSize - 1
    BY <1>1, <2>1 DEF Fits, n
  <2>4. used' \in Nat /\ used' < BufferSize - 1
    BY <1>0, <2>3
  <2> QED  BY <1>0, <2>1, <2>2, <2>4
<1>2. CASE ~Fits(reserve)
  <2>1. used' = used + 1 /\ stopped' = TRUE /\ UNCHANGED <<item, text>>
    BY <1>2 DEF Convert, Done
  <2>2. TextIs(item.kind, item.arg, item.mode, text)'
    BY <2>1 DEF TextIs
  <2> QED  BY <1>0, <2>1, <2>2
<1> QED  BY <1>1, <1>2

LEMMA PrintSteps ==
  ASSUME Plain, BufferSize > 1, IntHas32Bits, FloatsFit, PrintInv, [PrintNext]_printVars
  PROVE  PrintInv'
<1>0. /\ BufferSize \in Nat /\ Values \subseteq MinInt .. MaxInt /\ Hundredths \subseteq Int
      /\ Precisions \subseteq 0 .. 8 /\ Lengths \subseteq Nat
  BY PrintAssumption
<1>1. CASE UNCHANGED printVars
  BY <1>1 DEF PrintInv, TextIs, printVars
<1>2. ASSUME ~stopped, NEW n \in Nat, PutChars(n) PROVE PrintInv'
  <2>1. /\ item' = NoItem /\ n > 0 /\ precision' = precision
        /\ used \in Nat /\ used < BufferSize - 1 /\ stopped = FALSE
    BY <1>2 DEF PutChars, PrintInv
  <2>2. TextIs(item.kind, item.arg, item.mode, text)'
    BY <2>1 DEF TextIs, NoItem
  <2>3. CASE used + n >= BufferSize - 1
    <3>1. used' = (IF used + 1 >= BufferSize - 1 THEN used + 1 ELSE BufferSize - 1) + 1
          /\ stopped' = TRUE
      BY <1>2, <2>3 DEF PutChars, Done
    <3>2. used' \in Nat /\ used' <= BufferSize
      BY <1>0, <2>1, <3>1
    <3> QED  BY <1>2, <2>1, <2>2, <3>1, <3>2 DEF PrintInv
  <2>4. CASE ~(used + n >= BufferSize - 1)
    <3>1. used' = used + n /\ stopped' = stopped
      BY <1>2, <2>4 DEF PutChars
    <3>2. used' \in Nat /\ used' < BufferSize - 1
      BY <1>0, <2>1, <2>4, <3>1
    <3> QED  BY <1>0, <1>2, <2>1, <2>2, <3>1, <3>2 DEF PrintInv
  <2> QED  BY <2>3, <2>4
<1>3. ASSUME ~stopped, NEW k \in {"d", "u"}, NEW a \in Values, NEW u \in BOOLEAN, PutDecimal(k, a, u)
      PROVE  PrintInv'
  <2> DEFINE t == Itoa(a, 10, u)
             m == IF u THEN 1 ELSE 0
  <2>1. Len(t) \in 0 .. 11
    BY <1>0, IntLength
  <2>2. m \in {0, 1} /\ (m = 1) = u
    OBVIOUS
  <2> HIDE DEF m
  <2>3. TextIs(k, a, m, t)
    BY <1>3, <2>2 DEF TextIs
  <2> HIDE DEF t
  <2>4. Convert(k, a, m, t, 11) /\ precision' = precision
    BY <1>3 DEF PutDecimal, m, t
  <2>5. precision' \in Precisions \cup {1}
    BY <2>4 DEF PrintInv
  <2> QED  BY <1>3, <2>1, <2>3, <2>4, <2>5, Converts
<1>4. ASSUME ~stopped, NEW a \in Values, PutHex(a) PROVE PrintInv'
  <2> DEFINE t == Itoa(a, 16, TRUE)
  <2>1. Len(t) \in 0 .. 8
    BY <1>0, IntLength
  <2>2. TextIs("x", a, 1, t)
    BY DEF TextIs
  <2> HIDE DEF t
  <2>3. Convert("x", a, 1, t, 8) /\ precision' = precision
    BY <1>4 DEF PutHex, t
  <2>4. precision' \in Precisions \cup {1}
    BY <2>3 DEF PrintInv
  <2> QED  BY <1>4, <2>1, <2>2, <2>3, <2>4, Converts
<1>5. ASSUME ~stopped, NEW p \in Precisions, SetPrecision(p) PROVE PrintInv'
  <2>1. precision' = p /\ UNCHANGED <<used, item, text, stopped>>
    BY <1>5 DEF SetPrecision
  <2> QED  BY <2>1 DEF PrintInv, TextIs
<1>6. ASSUME ~stopped, NEW f \in Hundredths, PutFloat(f) PROVE PrintInv'
  <2> DEFINE t == Ftoa(f, precision)
  <2>1. precision \in Precisions \cup {1} /\ precision \in 0 .. 8 /\ f \in Int
    BY <1>0 DEF PrintInv
  <2>2. Len(t) \in 0 .. 16
    BY <2>1, FloatLength DEF FloatsFit
  <2>3. TextIs("f", f, precision, t)
    BY DEF TextIs
  <2> HIDE DEF t
  <2>4. Convert("f", f, precision, t, 16) /\ precision' = IF stopped' THEN precision ELSE 1
    BY <1>6 DEF PutFloat, t
  <2>5. precision' \in Precisions \cup {1}
    BY <2>1, <2>4
  <2> QED  BY <1>6, <2>2, <2>3, <2>4, <2>5, Converts
<1>7. ASSUME ~stopped, EndOfFormat PROVE PrintInv'
  <2>1. used' = used + 1 /\ stopped' = TRUE /\ UNCHANGED <<precision, item, text>>
    BY <1>7 DEF EndOfFormat, Done
  <2>2. used < BufferSize - 1 /\ used \in Nat
    BY <1>7 DEF PrintInv
  <2>3. used' \in Nat /\ used' <= BufferSize
    BY <1>0, <2>1, <2>2
  <2> QED  BY <2>1, <2>3 DEF PrintInv, TextIs
<1>8. CASE PrintNext
  <2>1. ~stopped
    BY <1>8 DEF PrintNext
  <2>2. \/ PutChars(1)
        \/ \E n \in Lengths : PutChars(n)
        \/ \E a \in Values, u \in BOOLEAN : PutDecimal("d", a, u) \/ PutDecimal("u", a, u)
        \/ \E a \in Values : PutHex(a)
        \/ \E p \in Precisions : SetPrecision(p)
        \/ \E f \in Hundredths : PutFloat(f)
        \/ EndOfFormat
    BY <1>8 DEF PrintNext, PutUnknown
  <2> QED  BY <1>0, <1>2, <1>3, <1>4, <1>5, <1>6, <1>7, <2>1, <2>2
<1> QED  BY <1>1, <1>8

(* Numbers are printed as what reads back as them, and the text fits the   *)
(* buffer (PrintsAsAsked, os_printf.c:29-146), for a buffer of any size    *)
(* above 1, of a format without "%%" and unknown conversions, if no float  *)
(* is too large for the int it is converted to.                            *)
THEOREM NumbersPrinted ==
  ASSUME Plain, BufferSize > 1, IntHas32Bits, FloatsFit
  PROVE  PrintSpec => []PrintsAsAsked
<1>1. PrintInit => PrintInv
  <2> SUFFICES ASSUME PrintInit PROVE PrintInv
    OBVIOUS
  <2>1. used = 0 /\ precision = 1 /\ item = NoItem /\ stopped = FALSE
    BY DEF PrintInit
  <2>2. BufferSize \in Nat
    BY PrintAssumption
  <2>3. TextIs(item.kind, item.arg, item.mode, text)
    BY <2>1 DEF TextIs, NoItem
  <2>4. used \in Nat /\ used <= BufferSize /\ used < BufferSize - 1
    BY <2>1, <2>2
  <2>5. stopped \in BOOLEAN /\ precision \in Precisions \cup {1}
    BY <2>1
  <2> QED  BY <2>3, <2>4, <2>5 DEF PrintInv
<1>2. PrintInv /\ [PrintNext]_printVars => PrintInv'
  BY PrintSteps
<1>3. PrintInv => PrintsAsAsked
  <2> SUFFICES ASSUME PrintInv PROVE PrintsAsAsked
    OBVIOUS
  <2>1. NumbersRead
    BY TextReads DEF PrintInv
  <2>2. FitsBuffer
    BY DEF PrintInv, FitsBuffer
  <2> QED  BY <2>1, <2>2 DEF PrintsAsAsked
<1> QED  BY <1>1, <1>2, <1>3, PTL DEF PrintSpec

-----------------------------------------------------------------------------
(* Backtrace: the listing begins with the calls that were made.            *)

(* What gcc generates with a frame pointer: a function pushes r7, r14 if it *)
(* calls others, and any of the other registers to keep, in their order;   *)
(* makes some room; and its instructions start from r7.  They pop the      *)
(* registers under a mask, or r4 and those that follow it with r14.        *)
Pushes(f, regs) ==
  /\ f.saves \in Seq(regs)
  /\ \A r \in regs : LET i == Cardinality({s \in regs : s < r}) + 1 IN
                      i <= Len(f.saves) /\ f.saves[i] = r

Masked(b, c) == {i + 4 : i \in Bits((b % 16) * 256 + c, 12)}

PopsUnder(f, regs) ==
  \E b \in 128 .. 143, c \in 0 .. 255 :
    /\ regs = Masked(b, c)
    /\ \/ f.room = 0 /\ f.insn = <<128, 151, b, c>>
       \/ \E n \in 0 .. 63 : f.room = 4 * n + 4 /\ f.insn = <<129, 1, 151, n, b, c, 176, 176>>

PopsThrough(f, regs) ==
  \E k \in 3 .. 7 :
    /\ regs = (4 .. 4 + k) \cup {14}
    /\ \/ f.room = 0 /\ f.insn = <<128, 151, 168 + k, 176>>
       \/ \E n \in 0 .. 63 :
            f.room = 4 * n + 4 /\ f.insn = <<129, 1, 151, n, 168 + k, 176, 176, 176>>

KeepsFrame(f) ==
  \E regs \in SUBSET ((4 .. 11) \cup {14}) :
    /\ {7, 14} \subseteq regs /\ Pushes(f, regs)
    /\ PopsUnder(f, regs) \/ PopsThrough(f, regs)

IsLeaf(f) == \E regs \in SUBSET (4 .. 11) : 7 \in regs /\ Pushes(f, regs) /\ PopsUnder(f, regs)

(* The index is that of a program: functions are in order, have room for a *)
(* call, and begin at even addresses; and the calls are of functions of    *)
(* these kinds.                                                            *)
IndexOrdered ==
  /\ Len(Index) \in Nat \ {0}
  /\ \A i \in Functions : Index[i].start \in Nat /\ Index[i].start > 0 /\ Index[i].start % 2 = 0
  /\ \A i, j \in Functions : i < j => Index[i].start + 3 < Index[j].start

IsChain(chain) ==
  /\ chain \in Seq(Functions) /\ Len(chain) > 0
  /\ \A i \in 1 .. Len(chain) :
       KeepsFrame(Index[chain[i]]) \/ (i = 1 /\ IsLeaf(Index[chain[i]]))

Compiled ==
  /\ IndexOrdered
  /\ \A chain \in Chains : IsChain(chain)
  /\ Top \in Int /\ Frames \in Nat \ {0}

-----------------------------------------------------------------------------
(* The loops, as functions of the number of turns.                         *)
Spans(ip) ==
  CHOOSE f : f = [n \in 0 .. Len(Index) |->
                    IF n = 0 THEN <<1, Len(Index) + 1>> ELSE Halved(f[n - 1], ip)]

Turns(vrs, code) ==
  CHOOSE f : f = [n \in 0 .. Len(code) |->
                    IF n = 0 THEN Unwinding(vrs, 1, "goes on")
                    ELSE Turn(f[n - 1], code)]

LEMMA SpansDefined ==
  ASSUME NEW ip, Len(Index) \in Nat
  PROVE  Spans(ip) = [n \in 0 .. Len(Index) |->
                        IF n = 0 THEN <<1, Len(Index) + 1>> ELSE Halved(Spans(ip)[n - 1], ip)]
<1> DEFINE First   == <<1, Len(Index) + 1>>
           Is(f, m) == f = [n \in 0 .. m |-> IF n = 0 THEN First ELSE Halved(f[n - 1], ip)]
           Bad     == {m \in Nat : ~\E f : Is(f, m)}
<1> HIDE DEF First
<1>1. Bad = {}
  <2>1. SUFFICES ASSUME Bad # {} PROVE FALSE
    OBVIOUS
  <2>2. PICK m \in Bad : \A j \in Bad : m <= j
    <3>1. Bad \subseteq Nat
      OBVIOUS
    <3> HIDE DEF Bad
    <3> QED  BY <2>1, <3>1, Numbers!LeastElement
  <2>3. CASE m = 0
    <3>1. Is([n \in 0 .. 0 |-> First], 0)
      OBVIOUS
    <3> QED  BY <2>2, <2>3, <3>1
  <2>4. CASE m # 0
    <3>1. m - 1 \in Nat /\ m \in Nat /\ m - 1 \notin Bad
      <4>1. m \in Nat
        OBVIOUS
      <4> HIDE DEF Bad
      <4>2. m - 1 \in Nat /\ ~(m <= m - 1)
        BY <2>4, <4>1
      <4> QED  BY <2>2, <4>1, <4>2
    <3>2. PICK f : Is(f, m - 1)
      BY <3>1
    <3> DEFINE g == [n \in 0 .. m |-> IF n = m THEN Halved(f[m - 1], ip) ELSE f[n]]
    <3>3. ASSUME NEW n \in 0 .. m
          PROVE  g[n] = IF n = 0 THEN First ELSE Halved(g[n - 1], ip)
      <4>1. CASE n = m
        <5>1. m - 1 \in 0 .. m /\ m - 1 # m
          BY <3>1
        <5> QED  BY <2>4, <4>1, <5>1
      <4>2. CASE n # m
        <5>1. n \in 0 .. m - 1 /\ (n # 0 => n - 1 \in 0 .. m /\ n - 1 # m)
          BY <3>1, <4>2
        <5>2. g[n] = f[n] /\ (n # 0 => g[n - 1] = f[n - 1])
          BY <4>2, <5>1
        <5> HIDE DEF g
        <5> QED  BY <3>2, <5>1, <5>2
      <4> QED  BY <4>1, <4>2
    <3>4. Is(g, m)
      BY <3>3
    <3> QED  BY <2>2, <3>4
  <2> QED  BY <2>3, <2>4
<1>2. \E f : Is(f, Len(Index))
  BY <1>1
<1> QED  BY <1>2 DEF Spans, First

LEMMA TurnsDefined ==
  ASSUME NEW vrs, NEW code, Len(code) \in Nat
  PROVE  Turns(vrs, code) = [n \in 0 .. Len(code) |->
                               IF n = 0 THEN Unwinding(vrs, 1, "goes on")
                               ELSE Turn(Turns(vrs, code)[n - 1], code)]
<1> DEFINE First   == Unwinding(vrs, 1, "goes on")
           Is(f, m) == f = [n \in 0 .. m |-> IF n = 0 THEN First ELSE Turn(f[n - 1], code)]
           Bad     == {m \in Nat : ~\E f : Is(f, m)}
<1> HIDE DEF First
<1>1. Bad = {}
  <2>1. SUFFICES ASSUME Bad # {} PROVE FALSE
    OBVIOUS
  <2>2. PICK m \in Bad : \A j \in Bad : m <= j
    <3>1. Bad \subseteq Nat
      OBVIOUS
    <3> HIDE DEF Bad
    <3> QED  BY <2>1, <3>1, Numbers!LeastElement
  <2>3. CASE m = 0
    <3>1. Is([n \in 0 .. 0 |-> First], 0)
      OBVIOUS
    <3> QED  BY <2>2, <2>3, <3>1
  <2>4. CASE m # 0
    <3>1. m - 1 \in Nat /\ m \in Nat /\ m - 1 \notin Bad
      <4>1. m \in Nat
        OBVIOUS
      <4> HIDE DEF Bad
      <4>2. m - 1 \in Nat /\ ~(m <= m - 1)
        BY <2>4, <4>1
      <4> QED  BY <2>2, <4>1, <4>2
    <3>2. PICK f : Is(f, m - 1)
      BY <3>1
    <3> DEFINE g == [n \in 0 .. m |-> IF n = m THEN Turn(f[m - 1], code) ELSE f[n]]
    <3>3. ASSUME NEW n \in 0 .. m
          PROVE  g[n] = IF n = 0 THEN First ELSE Turn(g[n - 1], code)
      <4>1. CASE n = m
        <5>1. m - 1 \in 0 .. m /\ m - 1 # m
          BY <3>1
        <5> QED  BY <2>4, <4>1, <5>1
      <4>2. CASE n # m
        <5>1. n \in 0 .. m - 1 /\ (n # 0 => n - 1 \in 0 .. m /\ n - 1 # m)
          BY <3>1, <4>2
        <5>2. g[n] = f[n] /\ (n # 0 => g[n - 1] = f[n - 1])
          BY <4>2, <5>1
        <5> HIDE DEF g
        <5> QED  BY <3>2, <5>1, <5>2
      <4> QED  BY <4>1, <4>2
    <3>4. Is(g, m)
      BY <3>3
    <3> QED  BY <2>2, <3>4
  <2> QED  BY <2>3, <2>4
<1>2. \E f : Is(f, Len(code))
  BY <1>1
<1> QED  BY <1>2 DEF Turns, First

Outmost(chain) ==
  [words |-> << >>, sp |-> Top, r7 |-> 0, lr |-> ReturnsTo(chain, Len(chain))]

After(chain, k, outer) ==
  Pushed(Index[chain[Len(chain) - k + 1]], outer, ReturnsTo(chain, Len(chain) - k + 1))

LEMMA LevelsDefined ==
  ASSUME NEW chain, Len(chain) \in Nat
  PROVE  AfterCalls(chain) = [k \in 0 .. Len(chain) |->
           IF k = 0 THEN Outmost(chain) ELSE After(chain, k, AfterCalls(chain)[k - 1])]
<1> DEFINE First   == Outmost(chain)
           Is(f, m) == f = [n \in 0 .. m |-> IF n = 0 THEN First ELSE After(chain, n, f[n - 1])]
           Bad     == {m \in Nat : ~\E f : Is(f, m)}
<1> HIDE DEF First
<1>1. Bad = {}
  <2>1. SUFFICES ASSUME Bad # {} PROVE FALSE
    OBVIOUS
  <2>2. PICK m \in Bad : \A j \in Bad : m <= j
    <3>1. Bad \subseteq Nat
      OBVIOUS
    <3> HIDE DEF Bad
    <3> QED  BY <2>1, <3>1, Numbers!LeastElement
  <2>3. CASE m = 0
    <3>1. Is([n \in 0 .. 0 |-> First], 0)
      OBVIOUS
    <3> QED  BY <2>2, <2>3, <3>1
  <2>4. CASE m # 0
    <3>1. m - 1 \in Nat /\ m \in Nat /\ m - 1 \notin Bad
      <4>1. m \in Nat
        OBVIOUS
      <4> HIDE DEF Bad
      <4>2. m - 1 \in Nat /\ ~(m <= m - 1)
        BY <2>4, <4>1
      <4> QED  BY <2>2, <4>1, <4>2
    <3>2. PICK f : Is(f, m - 1)
      BY <3>1
    <3> DEFINE g == [n \in 0 .. m |-> IF n = m THEN After(chain, m, f[m - 1]) ELSE f[n]]
    <3>3. ASSUME NEW n \in 0 .. m
          PROVE  g[n] = IF n = 0 THEN First ELSE After(chain, n, g[n - 1])
      <4>1. CASE n = m
        <5>1. m - 1 \in 0 .. m /\ m - 1 # m
          BY <3>1
        <5> QED  BY <2>4, <4>1, <5>1
      <4>2. CASE n # m
        <5>1. n \in 0 .. m - 1 /\ (n # 0 => n - 1 \in 0 .. m /\ n - 1 # m)
          BY <3>1, <4>2
        <5>2. g[n] = f[n] /\ (n # 0 => g[n - 1] = f[n - 1])
          BY <4>2, <5>1
        <5> HIDE DEF g
        <5> QED  BY <3>2, <5>1, <5>2
      <4> QED  BY <4>1, <4>2
    <3>4. Is(g, m)
      BY <3>3
    <3> QED  BY <2>2, <3>4
  <2> QED  BY <2>3, <2>4
<1>2. \E f : Is(f, Len(chain))
  BY <1>1
<1> QED  BY <1>2 DEF AfterCalls, After, Outmost, First

(* The search finds the function an address is in.                         *)
Between(span, i) ==
  span[1] \in 1 .. i /\ span[2] \in i + 1 .. Len(Index) + 1

InFunction(ip, i) ==
  /\ i \in Functions /\ ip \in Int /\ Index[i].start <= ip
  /\ i < Len(Index) => ip < Index[i + 1].start

LEMMA HalvedKeeps ==
  ASSUME IndexOrdered, NEW ip, NEW i, InFunction(ip, i), NEW span, Between(span, i)
  PROVE  /\ Between(Halved(span, ip), i)
         /\ LET s == Halved(span, ip) IN
              s[2] - s[1] <= 1 \/ s[2] - s[1] < span[2] - span[1]
<1> DEFINE from   == span[1]
           to     == span[2]
           middle == from + ((to - from + 1) \div 2)
           s      == Halved(span, ip)
<1>1. /\ from \in Int /\ to \in Int /\ i \in Int /\ Len(Index) \in Nat
      /\ 1 <= from /\ from <= i /\ i < to /\ to <= Len(Index) + 1
  BY DEF Between, InFunction, Functions, IndexOrdered
<1>2. CASE from >= to - 1
  <2>1. s = span
    BY <1>2 DEF Halved
  <2> QED  BY <1>1, <1>2, <2>1
<1>3. CASE ~(from >= to - 1)
  <2>1. middle \in Int /\ from < middle /\ middle < to
    BY <1>1, <1>3
  <2> HIDE DEF middle
  <2>2. middle \in Functions
    BY <1>1, <2>1 DEF Functions
  <2>3. CASE ip < Index[middle].start
    <3>1. s = <<from, middle>>
      BY <1>3, <2>3 DEF Halved, middle
    <3>2. i < middle
      <4>1. SUFFICES ASSUME middle <= i PROVE FALSE
        BY <1>1, <2>1
      <4>2. Index[middle].start <= Index[i].start
        <5>1. i \in Functions /\ Index[i].start \in Int /\ Index[middle].start \in Int
          BY <2>2 DEF InFunction, IndexOrdered
        <5>2. CASE middle = i
          BY <5>1, <5>2
        <5>3. CASE middle < i
          BY <2>2, <5>1, <5>3 DEF IndexOrdered
        <5> QED  BY <1>1, <2>1, <4>1, <5>2, <5>3
      <4>3. Index[i].start \in Int /\ Index[middle].start \in Int /\ ip \in Int
        BY <2>2 DEF InFunction, IndexOrdered
      <4> QED  BY <2>3, <4>2, <4>3 DEF InFunction
    <3>3. s[1] = from /\ s[2] = middle
      BY <3>1
    <3> HIDE DEF s
    <3>4. Between(s, i)
      BY <1>1, <2>1, <3>2, <3>3 DEF Between
    <3> QED  BY <1>1, <2>1, <3>3, <3>4 DEF s
  <2>4. CASE ~(ip < Index[middle].start)
    <3>1. s = <<middle, to>>
      BY <1>3, <2>4 DEF Halved, middle
    <3>2. middle <= i
      <4>1. SUFFICES ASSUME i < middle PROVE FALSE
        BY <1>1, <2>1
      <4>2. i < Len(Index) /\ i + 1 \in Functions
        BY <1>1, <2>1, <4>1 DEF Functions
      <4>3. ip < Index[i + 1].start
        BY <4>2 DEF InFunction
      <4>4. Index[i + 1].start <= Index[middle].start
        <5>1. Index[i + 1].start \in Int /\ Index[middle].start \in Int
          BY <2>2, <4>2 DEF IndexOrdered
        <5>2. CASE middle = i + 1
          BY <5>1, <5>2
        <5>3. CASE i + 1 < middle
          BY <2>2, <4>2, <5>1, <5>3 DEF IndexOrdered
        <5> QED  BY <1>1, <2>1, <4>1, <5>2, <5>3
      <4>5. Index[i + 1].start \in Int /\ Index[middle].start \in Int /\ ip \in Int
        BY <2>2, <4>2 DEF InFunction, IndexOrdered
      <4> QED  BY <2>4, <4>3, <4>4, <4>5
    <3>3. s[1] = middle /\ s[2] = to
      BY <3>1
    <3> HIDE DEF s
    <3>4. Between(s, i)
      BY <1>1, <2>1, <3>2, <3>3 DEF Between
    <3> QED  BY <1>1, <2>1, <3>3, <3>4 DEF s
  <2> QED  BY <2>3, <2>4
<1> QED  BY <1>2, <1>3

LEMMA SearchFinds ==
  ASSUME IndexOrdered, NEW ip, NEW i, InFunction(ip, i)
  PROVE  SearchIndex(ip) = i
<1> DEFINE N == Len(Index)
           t == Spans(ip)
           Near(n) == Between(t[n], i) /\ (t[n][2] - t[n][1] <= 1 \/ t[n][2] - t[n][1] <= N - n)
           Bad == {n \in 0 .. N : ~Near(n)}
<1>1. N \in Nat /\ N > 0 /\ i \in 1 .. N
  BY DEF IndexOrdered, InFunction, Functions
<1>2. t = [n \in 0 .. N |-> IF n = 0 THEN <<1, N + 1>> ELSE Halved(t[n - 1], ip)]
  BY <1>1, SpansDefined
<1>3. SearchIndex(ip) = t[N][1]
  BY DEF SearchIndex, Spans
<1> HIDE DEF t, N
<1>4. Near(0)
  <2>1. t[0] = <<1, N + 1>>
    BY <1>1, <1>2
  <2> QED  BY <1>1, <2>1 DEF Between, N
<1>5. ASSUME NEW n \in 1 .. N, Near(n - 1) PROVE Near(n)
  <2>1. t[n] = Halved(t[n - 1], ip)
    BY <1>1, <1>2
  <2> DEFINE a == t[n - 1]
             b == t[n]
  <2> HIDE DEF a, b
  <2>2. b = Halved(a, ip) /\ Between(a, i)
    BY <1>5, <2>1 DEF a, b
  <2>3. /\ Between(b, i)
        /\ b[2] - b[1] <= 1 \/ b[2] - b[1] < a[2] - a[1]
    BY <2>2, HalvedKeeps
  <2>4. a[1] \in Int /\ a[2] \in Int /\ b[1] \in Int /\ b[2] \in Int
    BY <1>1, <2>2, <2>3 DEF Between, N
  <2>5. a[2] - a[1] <= 1 \/ a[2] - a[1] <= N - (n - 1)
    BY <1>5 DEF a
  <2>6. b[2] - b[1] <= 1 \/ b[2] - b[1] <= N - n
    BY <1>1, <2>3, <2>4, <2>5
  <2> QED  BY <2>3, <2>6 DEF b
<1> HIDE DEF Near
<1>6. Near(N)
  <2>1. SUFFICES ASSUME Bad # {} PROVE FALSE
    BY <1>1
  <2>2. Bad \subseteq Nat
    BY <1>1
  <2> HIDE DEF Bad
  <2>3. PICK n \in Bad : \A j \in Bad : n <= j
    BY <2>1, <2>2, Numbers!LeastElement
  <2>4. n \in 0 .. N /\ ~Near(n)
    BY <2>3 DEF Bad
  <2>5. n # 0 /\ n \in 1 .. N /\ n - 1 \in 0 .. N /\ ~(n <= n - 1)
    BY <1>1, <1>4, <2>4
  <2>6. Near(n - 1)
    BY <2>3, <2>5 DEF Bad
  <2> QED  BY <1>5, <2>4, <2>5, <2>6
<1>7. t[N][1] = i
  <2> DEFINE b == t[N]
  <2> HIDE DEF b
  <2>1. Between(b, i) /\ (b[2] - b[1] <= 1 \/ b[2] - b[1] <= N - N)
    BY <1>6 DEF Near, b
  <2>2. b[1] \in Int /\ b[2] \in Int /\ b[1] <= i /\ i + 1 <= b[2]
    BY <1>1, <2>1 DEF Between, N
  <2> QED  BY <1>1, <2>1, <2>2 DEF b
<1> QED  BY <1>3, <1>7

-----------------------------------------------------------------------------
(* What the calls leave on the stack.                                      *)
Saves(f) == f.saves \in Seq(0 .. 15) /\ f.room \in Nat

(* The words of a level are at its stack pointer or above.                 *)
LevelTyped(level) ==
  /\ level.sp \in Int
  /\ \A a \in DOMAIN level.words : a \in Int /\ a >= level.sp

(* A register's value when a function is entered.                          *)
ValueOf(r, r7, lr) == CASE r = 7 -> r7 [] r = 14 -> lr [] OTHER -> 0

LEMMA KindsSave ==
  ASSUME NEW f, KeepsFrame(f) \/ IsLeaf(f)
  PROVE  Saves(f)
<1>1. PICK regs \in SUBSET (0 .. 15) :
             Pushes(f, regs) /\ (PopsUnder(f, regs) \/ PopsThrough(f, regs))
  <2>1. (4 .. 11) \cup {14} \subseteq 0 .. 15
    OBVIOUS
  <2> QED  BY <2>1 DEF KeepsFrame, IsLeaf
<1>2. f.saves \in Seq(0 .. 15)
  <2>1. f.saves \in Seq(regs) /\ regs \subseteq 0 .. 15
    BY <1>1 DEF Pushes
  <2> QED  BY <2>1, SeqMonotonic
<1>3. f.room \in Nat
  <2>1. f.room = 0 \/ \E n \in 0 .. 63 : f.room = 4 * n + 4
    BY <1>1 DEF PopsUnder, PopsThrough
  <2> QED  BY <2>1
<1> QED  BY <1>2, <1>3 DEF Saves

LEMMA PushedIs ==
  ASSUME NEW f, Saves(f), NEW outer, LevelTyped(outer), NEW lr
  PROVE  LET new  == Pushed(f, outer, lr)
             base == new.r7 + f.room IN
         /\ LevelTyped(new) /\ new.lr = lr /\ new.r7 = new.sp /\ base \in Int
         /\ \A a \in DOMAIN outer.words : a \in DOMAIN new.words /\ new.words[a] = outer.words[a]
         /\ \A i \in 1 .. Len(f.saves) :
              /\ base + 4 * (i - 1) \in DOMAIN new.words
              /\ new.words[base + 4 * (i - 1)] = ValueOf(f.saves[i], outer.r7, lr)
<1> DEFINE new   == Pushed(f, outer, lr)
           m     == Len(f.saves)
           b     == outer.sp - 4 * m
           value == [r \in 0 .. 15 |-> CASE r = 7 -> outer.r7 [] r = 14 -> lr [] OTHER -> 0]
           saved == [i \in DOMAIN f.saves |-> b + 4 * (i - 1)]
           D     == DOMAIN outer.words \cup {saved[i] : i \in DOMAIN saved}
           W     == [a \in D |-> IF a < outer.sp THEN value[f.saves[(a - b) \div 4 + 1]]
                                 ELSE outer.words[a]]
<1>1. new = [words |-> W, sp |-> b - f.room, r7 |-> b - f.room, lr |-> lr]
  BY DEF Pushed
<1>2. /\ m \in Nat /\ DOMAIN f.saves = 1 .. m /\ \A i \in 1 .. m : f.saves[i] \in 0 .. 15
      /\ b \in Int /\ outer.sp \in Int /\ f.room \in Nat
  <2>1. m \in Nat /\ DOMAIN f.saves = 1 .. m
    BY DEF Saves
  <2>2. \A i \in 1 .. m : f.saves[i] \in 0 .. 15
    BY ElementOfSeq DEF Saves
  <2> HIDE DEF m
  <2> QED  BY <2>1, <2>2 DEF LevelTyped, Saves, m
<1>3. new.words = W /\ new.sp = b - f.room /\ new.r7 = b - f.room /\ new.lr = lr
  BY <1>1
<1>4. new.r7 + f.room = b
  BY <1>2, <1>3
<1>5. \A i \in 1 .. m : saved[i] = b + 4 * (i - 1)
  BY <1>2
<1>6. DOMAIN W = D
  OBVIOUS
<1> HIDE DEF new, m
<1>7. b = outer.sp - 4 * m
  OBVIOUS
<1> HIDE DEF b
<1>8. \A i \in 1 .. m : saved[i] \in Int /\ saved[i] >= b /\ saved[i] < outer.sp
  <2> SUFFICES ASSUME NEW i \in 1 .. m
               PROVE  saved[i] \in Int /\ saved[i] >= b /\ saved[i] < outer.sp
    OBVIOUS
  <2>1. saved[i] = b + 4 * (i - 1)
    BY <1>5
  <2> HIDE DEF saved
  <2> QED  BY <1>2, <1>7, <2>1
<1>9. DOMAIN saved = 1 .. m
  BY <1>2
<1>10. ASSUME NEW a \in D PROVE a \in Int /\ a >= b - f.room
  <2>1. CASE a \in DOMAIN outer.words
    <3>1. a \in Int /\ a >= outer.sp
      BY <2>1 DEF LevelTyped
    <3> QED  BY <1>2, <1>7, <3>1
  <2>2. CASE \E i \in 1 .. m : a = saved[i]
    <3>1. PICK i \in 1 .. m : a = saved[i]
      BY <2>2
    <3>2. a \in Int /\ a >= b
      BY <1>8, <3>1
    <3> QED  BY <1>2, <3>2
  <2> QED  BY <1>9, <2>1, <2>2
<1>11. LevelTyped(new)
  <2> HIDE DEF W, D
  <2> QED  BY <1>2, <1>3, <1>6, <1>10 DEF LevelTyped
<1>12. ASSUME NEW a \in DOMAIN outer.words PROVE a \in D /\ W[a] = outer.words[a]
  <2>1. a \in Int /\ a >= outer.sp /\ a \in D
    BY DEF LevelTyped
  <2>2. ~(a < outer.sp)
    BY <1>2, <2>1
  <2> QED  BY <2>1, <2>2
<1>13. ASSUME NEW i \in 1 .. m
       PROVE  b + 4 * (i - 1) \in D /\ W[b + 4 * (i - 1)] = ValueOf(f.saves[i], outer.r7, lr)
  <2> DEFINE a == b + 4 * (i - 1)
  <2>1. a = saved[i] /\ a \in D
    BY <1>5, <1>9
  <2>2. a < outer.sp
    BY <1>8, <2>1
  <2>3. (a - b) \div 4 + 1 = i
    BY <1>2
  <2> HIDE DEF a
  <2>4. W[a] = value[f.saves[(a - b) \div 4 + 1]]
    BY <2>1, <2>2
  <2>5. W[a] = value[f.saves[i]]
    BY <2>3, <2>4
  <2>6. value[f.saves[i]] = ValueOf(f.saves[i], outer.r7, lr)
    BY <1>2 DEF ValueOf
  <2> QED  BY <2>1, <2>5, <2>6 DEF a
<1> HIDE DEF W, D
<1> QED  BY <1>2, <1>3, <1>4, <1>6, <1>11, <1>12, <1>13 DEF new, m

(* The levels of a chain: each is what its call adds to the one outside it.*)
LEMMA Levels ==
  ASSUME Compiled, NEW chain, IsChain(chain)
  PROVE  /\ Len(chain) \in Nat /\ Len(chain) > 0
         /\ AfterCalls(chain)[0] = Outmost(chain)
         /\ \A k \in 1 .. Len(chain) : AfterCalls(chain)[k] = After(chain, k, AfterCalls(chain)[k - 1])
         /\ \A k \in 0 .. Len(chain) : LevelTyped(AfterCalls(chain)[k])
<1> DEFINE n == Len(chain)
           L == AfterCalls(chain)
           Bad == {k \in 0 .. n : ~LevelTyped(L[k])}
<1>1. n \in Nat /\ n > 0
  BY DEF IsChain
<1>2. L = [k \in 0 .. n |-> IF k = 0 THEN Outmost(chain) ELSE After(chain, k, L[k - 1])]
  BY <1>1, LevelsDefined
<1> HIDE DEF n, L
<1>3. L[0] = Outmost(chain)
  BY <1>1, <1>2
<1>4. \A k \in 1 .. n : L[k] = After(chain, k, L[k - 1])
  BY <1>1, <1>2
<1>5. Bad = {}
  <2>1. SUFFICES ASSUME Bad # {} PROVE FALSE
    OBVIOUS
  <2>2. Bad \subseteq Nat
    BY <1>1
  <2> HIDE DEF Bad
  <2>3. PICK k \in Bad : \A j \in Bad : k <= j
    BY <2>1, <2>2, Numbers!LeastElement
  <2>4. k \in 0 .. n /\ ~LevelTyped(L[k])
    BY <2>3 DEF Bad
  <2>5. CASE k = 0
    <3>1. LevelTyped(Outmost(chain))
      BY DEF Outmost, LevelTyped, Compiled
    <3> QED  BY <1>3, <2>4, <2>5, <3>1
  <2>6. CASE k # 0
    <3>1. k \in 1 .. n /\ k - 1 \in 0 .. n /\ ~(k <= k - 1)
      BY <1>1, <2>4, <2>6
    <3>2. LevelTyped(L[k - 1])
      BY <2>3, <3>1 DEF Bad
    <3>3. n - k + 1 \in 1 .. n
      BY <1>1, <3>1
    <3>4. Saves(Index[chain[n - k + 1]])
      BY <3>3, KindsSave DEF IsChain, n
    <3>5. L[k] = Pushed(Index[chain[n - k + 1]], L[k - 1], ReturnsTo(chain, n - k + 1))
      BY <1>4, <3>1 DEF After, n
    <3> QED  BY <2>4, <3>2, <3>4, <3>5, PushedIs
  <2> QED  BY <2>5, <2>6
<1> QED  BY <1>1, <1>3, <1>4, <1>5 DEF n, L

(* What a call saved is on the stack as long as it lasts.                  *)
LEMMA StackKeeps ==
  ASSUME Compiled, NEW chain, IsChain(chain), NEW k \in 0 .. Len(chain),
         NEW a \in DOMAIN AfterCalls(chain)[k].words
  PROVE  /\ a \in DOMAIN Entered(chain).words
         /\ Entered(chain).words[a] = AfterCalls(chain)[k].words[a]
<1> DEFINE n == Len(chain)
           L == AfterCalls(chain)
           Kept(j) == a \in DOMAIN L[j].words /\ L[j].words[a] = L[k].words[a]
           Bad == {j \in k .. n : ~Kept(j)}
<1>1. /\ n \in Nat /\ n > 0
      /\ \A j \in 1 .. n : L[j] = After(chain, j, L[j - 1])
      /\ \A j \in 0 .. n : LevelTyped(L[j])
  BY Levels
<1> HIDE DEF n, L
<1>2. Kept(k)
  BY DEF L
<1>3. Bad = {}
  <2>1. SUFFICES ASSUME Bad # {} PROVE FALSE
    OBVIOUS
  <2>2. Bad \subseteq Nat
    BY <1>1 DEF n
  <2> HIDE DEF Bad
  <2>3. PICK j \in Bad : \A i \in Bad : j <= i
    BY <2>1, <2>2, Numbers!LeastElement
  <2>4. j \in k .. n /\ ~Kept(j) /\ j # k /\ k \in Nat
    BY <1>2, <2>3 DEF Bad
  <2>5. j \in 1 .. n /\ j - 1 \in k .. n /\ j - 1 \in 0 .. n /\ ~(j <= j - 1)
    BY <1>1, <2>4
  <2>6. Kept(j - 1)
    BY <2>3, <2>5 DEF Bad
  <2>7. n - j + 1 \in 1 .. n
    BY <1>1, <2>5
  <2>8. Saves(Index[chain[n - j + 1]])
    BY <2>7, KindsSave DEF IsChain, n
  <2>9. L[j] = Pushed(Index[chain[n - j + 1]], L[j - 1], ReturnsTo(chain, n - j + 1))
    BY <1>1, <2>5 DEF After, n
  <2>10. LevelTyped(L[j - 1])
    BY <1>1, <2>5
  <2>11. \A b \in DOMAIN L[j - 1].words : b \in DOMAIN L[j].words /\ L[j].words[b] = L[j - 1].words[b]
    BY <2>8, <2>9, <2>10, PushedIs
  <2> QED  BY <2>4, <2>6, <2>11
<1>4. Kept(n)
  <2>1. n \in k .. n
    BY <1>1 DEF n
  <2> QED  BY <1>3, <2>1
<1> QED  BY <1>4 DEF Entered, n, L

-----------------------------------------------------------------------------
(* What the instructions of each kind of function do.                      *)
LEMMA SomeBits ==
  ASSUME NEW b \in 128 .. 143, NEW c \in 0 .. 255, 7 \in Masked(b, c)
  PROVE  ~(b = 128 /\ c = 0)
<1>1. SUFFICES ASSUME b = 128, c = 0 PROVE FALSE
  OBVIOUS
<1>2. (b % 16) * 256 + c = 0
  BY <1>1
<1>3. ASSUME NEW i \in 0 .. 11 PROVE (0 \div PowersOf2[i + 1]) % 2 = 0
  <2>1. \/ i = 0 \/ i = 1 \/ i = 2 \/ i = 3 \/ i = 4 \/ i = 5
        \/ i = 6 \/ i = 7 \/ i = 8 \/ i = 9 \/ i = 10 \/ i = 11
    OBVIOUS
  <2> QED  BY <2>1, SMT DEF PowersOf2
<1>4. Bits(0, 12) = {}
  BY <1>3 DEF Bits
<1>5. Masked(b, c) = {i + 4 : i \in Bits(0, 12)}
  BY <1>2 DEF Masked
<1> QED  BY <1>4, <1>5

Registers(vrs) == DOMAIN vrs = 0 .. 15 /\ vrs[PC] = 0

LEMMA PopMaskIs ==
  ASSUME NEW vrs, NEW b, NEW c, 13 \notin Masked(b, c)
  PROVE  PopMask(vrs, b, c) = Popped(vrs, Masked(b, c))
<1>1. SP \notin Masked(b, c)
  BY DEF SP
<1> QED  BY <1>1 DEF PopMask, Masked

LEMMA PopRangeIs ==
  ASSUME NEW vrs, NEW k \in 3 .. 7, NEW regs, regs = (4 .. 4 + k) \cup {14}, NEW b, b = 168 + k
  PROVE  PopRange(vrs, b) = [Popped(vrs, regs) EXCEPT ![SP] = Above(vrs, regs)]
<1>1. b % 8 = k
  OBVIOUS
<1> QED  BY <1>1 DEF PopRange, LR

(* The registers a function may push: r7, and r14 unless it is a leaf.     *)
RegsSaved(regs) == regs \subseteq (4 .. 11) \cup {14} /\ 7 \in regs

LEMMA FewRegisters ==
  ASSUME NEW regs, regs \subseteq (4 .. 11) \cup {14}
  PROVE  IsFiniteSet(regs)
<1> DEFINE x == 4
           y == 11
           z == 14
<1>1. x \in Int /\ y \in Int
  OBVIOUS
<1>2. regs \subseteq (x .. y) \cup {z}
  OBVIOUS
<1> HIDE DEF x, y, z
<1>3. IsFiniteSet(x .. y) /\ IsFiniteSet({z})
  BY <1>1, FS_Interval, FS_Singleton
<1>4. IsFiniteSet((x .. y) \cup {z})
  BY <1>3, FS_Union
<1> QED  BY <1>2, <1>4, FS_Subset

(* Words are on the stack for the registers f saved.                       *)
SavedAt(f, x, r7, ret) ==
  \A i \in 1 .. Len(f.saves) : Read(x + 4 * (i - 1)) = ValueOf(f.saves[i], r7, ret)

(* Popping what was pushed brings it back; the others are what they were.  *)
LEMMA PopsBack ==
  ASSUME NEW regs, RegsSaved(regs), NEW f, Pushes(f, regs), NEW vrs, Registers(vrs), NEW x \in Int,
         vrs[SP] = x, NEW r7, NEW ret, SavedAt(f, x, r7, ret),
         NEW p, p = Popped(vrs, regs)
  PROVE  /\ Registers(p) /\ p[7] = r7
         /\ 14 \in regs => p[LR] = ret
         /\ 14 \notin regs => p[LR] = vrs[LR]
<1>1. ASSUME NEW r \in regs PROVE r \in 0 .. 15 /\ p[r] = ValueOf(r, r7, ret)
  <2> DEFINE below == {s \in regs : s < r}
             n == Cardinality(below)
  <2>1. r \in 0 .. 15 /\ 15 \notin regs
    BY DEF RegsSaved
  <2>2. n \in Nat
    <3>1. IsFiniteSet(regs)
      BY FewRegisters DEF RegsSaved
    <3>2. below \subseteq regs
      OBVIOUS
    <3> HIDE DEF below
    <3> QED  BY <3>1, <3>2, FS_Subset, FS_CardinalityType
  <2>3. p[r] = Read(x + 4 * n)
    BY <2>1 DEF Popped, Registers
  <2>4. n + 1 <= Len(f.saves) /\ f.saves[n + 1] = r /\ Len(f.saves) \in Nat
    BY DEF Pushes
  <2> HIDE DEF n
  <2>5. n + 1 \in 1 .. Len(f.saves) /\ x + 4 * ((n + 1) - 1) = x + 4 * n
    BY <2>2, <2>4
  <2>6. Read(x + 4 * ((n + 1) - 1)) = ValueOf(f.saves[n + 1], r7, ret)
    BY <2>5 DEF SavedAt
  <2> QED  BY <2>1, <2>3, <2>4, <2>5, <2>6
<1>2. DOMAIN p = 0 .. 15 /\ \A r \in 0 .. 15 : r \notin regs => p[r] = vrs[r]
  BY DEF Popped, Registers
<1>3. 7 \in regs /\ 15 \notin regs /\ 15 \in 0 .. 15 /\ 14 \in 0 .. 15
  BY DEF RegsSaved
<1>4. ValueOf(7, r7, ret) = r7 /\ ValueOf(14, r7, ret) = ret
  BY DEF ValueOf
<1> QED  BY <1>1, <1>2, <1>3, <1>4 DEF Registers, PC, LR

(* After the stack pointer is set from r7.                                 *)
AtFrame(vrs) == [vrs EXCEPT ![SP] = vrs[7]]
Raised(vrs, n) == [vrs EXCEPT ![SP] = @ + 4 * n + 4]

(* What a turn does with the instructions these functions have.            *)
TurnsSo(v, i, code) ==
  /\ \A h : h # "goes on" => Turn(Unwinding(v, i, h), code) = Unwinding(v, i, h)
  /\ i > Len(code) => Turn(Unwinding(v, i, "goes on"), code) = Unwinding(v, i, "goes on")
  /\ i <= Len(code) =>
       /\ code[i] = 151 =>
            Turn(Unwinding(v, i, "goes on"), code)
              = Unwinding(AtFrame(v), i + 1, "goes on")
       /\ code[i] \in 0 .. 63 =>
            Turn(Unwinding(v, i, "goes on"), code)
              = Unwinding(Raised(v, code[i]), i + 1, "goes on")
       /\ code[i] \in 128 .. 143 /\ i < Len(code) /\ ~(code[i] = 128 /\ code[i + 1] = 0) =>
            Turn(Unwinding(v, i, "goes on"), code)
              = Unwinding(PopMask(v, code[i], code[i + 1]), i + 2, "goes on")
       /\ code[i] \in 168 .. 175 =>
            Turn(Unwinding(v, i, "goes on"), code)
              = Unwinding(PopRange(v, code[i]), i + 1, "goes on")
       /\ code[i] = 176 =>
            Turn(Unwinding(v, i, "goes on"), code) = Unwinding(Finish(v), i, "done")

LEMMA TurnIs ==
  ASSUME NEW code, Len(code) \in Nat, NEW i \in Nat, NEW v
  PROVE  TurnsSo(v, i, code)
<1> DEFINE s == Unwinding(v, i, "goes on")
           b == code[s.at]
           c == IF s.at < Len(code) THEN code[s.at + 1] ELSE -1
           u == s.vrs
           one(w)  == Unwinding(w, s.at + 1, "goes on")
           two(w)  == Unwinding(w, s.at + 2, "goes on")
           done(w) == Unwinding(w, s.at, "done")
<1>1. s.vrs = v /\ s.at = i /\ s.how = "goes on"
  BY DEF Unwinding
<1>2. ASSUME NEW w
      PROVE  /\ one(w) = Unwinding(w, i + 1, "goes on") /\ two(w) = Unwinding(w, i + 2, "goes on")
             /\ done(w) = Unwinding(w, i, "done")
  <2> HIDE DEF s
  <2> QED  BY <1>1
<1>3. \A h : h # "goes on" => Turn(Unwinding(v, i, h), code) = Unwinding(v, i, h)
  BY DEF Turn, Unwinding
<1>4. i > Len(code) => Turn(s, code) = s
  <2>1. i > Len(code) => s.at > Len(code)
    BY <1>1
  <2> HIDE DEF s
  <2> QED  BY <2>1, Zenon DEF Turn
<1> DEFINE low  == b < 64
           down == b \in 64 .. 127
           mask == b \in 128 .. 143
           mov  == b \in 144 .. 159 /\ b \notin {157, 159}
           rng  == b \in 160 .. 175
           vfp  == b \in {179, 200, 201} \cup (184 .. 191) \cup (208 .. 215)
           a1 == one([u EXCEPT ![SP] = @ + 4 * b + 4])
           a2 == one([u EXCEPT ![SP] = @ - (4 * (b - 64) - 4)])
           a3 == IF b = 128 /\ c = 0 THEN done(u) ELSE two(PopMask(u, b, c))
           a4 == one([u EXCEPT ![SP] = u[b % 16]])
           a5 == one(PopRange(u, b))
           a6 == done(Finish(u))
           a7 == two(PopLow(u, c))
           a8 == two([u EXCEPT ![SP] = @ + 516 + 4 * c])
           a9 == one(PopVfp(u, b))
           a0 == Unwinding(u, s.at, "refused")
<1>5. ASSUME i <= Len(code)
      PROVE  Turn(s, code) =
               CASE low -> a1 [] down -> a2 [] mask -> a3 [] mov -> a4 [] rng -> a5
                 [] b = 176 -> a6
                 [] b = 177 -> a7
                 [] b = 178 -> a8
                 [] vfp -> a9
                 [] OTHER -> a0
  <2>1. ~(s.at > Len(code)) /\ ~(s.how # "goes on")
    <3>1. ~(i > Len(code))
      BY <1>5
    <3> HIDE DEF s
    <3> QED  BY <1>1, <3>1
  <2> HIDE DEF s
  <2> QED  BY <2>1 DEF Turn
<1>6. u = v /\ b = code[i] /\ c = IF i < Len(code) THEN code[i + 1] ELSE -1
  <2> HIDE DEF s
  <2> QED  BY <1>1
<1> HIDE DEF s, u, b, c, one, two, done
<1>7. ASSUME i <= Len(code), b = 151 PROVE Turn(s, code) = one(AtFrame(v))
  <2>1. mov /\ ~low /\ ~down /\ ~mask /\ b % 16 = 7
    BY <1>7
  <2>2. Turn(s, code) = a4
    <3> HIDE DEF a1, a2, a3, a4, a5, a6, a7, a8, a9, a0
    <3> QED  BY <1>5, <1>7
  <2> QED  BY <1>6, <2>1, <2>2 DEF AtFrame
<1>8. ASSUME i <= Len(code), b \in 0 .. 63 PROVE Turn(s, code) = one(Raised(v, b))
  <2>1. Turn(s, code) = a1
    <3>1. low /\ ~down /\ ~mask /\ ~mov /\ ~rng /\ ~vfp /\ b # 176 /\ b # 177 /\ b # 178
      BY <1>8
    <3> HIDE DEF a1, a2, a3, a4, a5, a6, a7, a8, a9, a0, low, down, mask, mov, rng, vfp
    <3> QED  BY <1>5, <1>8, <3>1
  <2> QED  BY <1>6, <2>1 DEF Raised
<1>9. ASSUME i < Len(code), b \in 128 .. 143, ~(b = 128 /\ code[i + 1] = 0)
      PROVE  Turn(s, code) = two(PopMask(v, b, code[i + 1]))
  <2>1. c = code[i + 1] /\ i <= Len(code)
    BY <1>6, <1>9
  <2>2. Turn(s, code) = a3
    <3>1. ~low /\ ~down /\ mask /\ ~mov /\ ~rng /\ ~vfp /\ b # 176 /\ b # 177 /\ b # 178
      BY <1>9
    <3> HIDE DEF a1, a2, a3, a4, a5, a6, a7, a8, a9, a0, low, down, mask, mov, rng, vfp
    <3> QED  BY <1>5, <2>1, <3>1
  <2> QED  BY <1>6, <1>9, <2>1, <2>2
<1>10. ASSUME i <= Len(code), b \in 168 .. 175 PROVE Turn(s, code) = one(PopRange(v, b))
  <2>1. Turn(s, code) = a5
    <3>1. ~low /\ ~down /\ ~mask /\ ~mov /\ rng /\ ~vfp /\ b # 176 /\ b # 177 /\ b # 178
      BY <1>10
    <3> HIDE DEF a1, a2, a3, a4, a5, a6, a7, a8, a9, a0, low, down, mask, mov, rng, vfp
    <3> QED  BY <1>5, <1>10, <3>1
  <2> QED  BY <1>6, <2>1
<1>11. ASSUME i <= Len(code), b = 176 PROVE Turn(s, code) = done(Finish(v))
  <2>1. Turn(s, code) = a6
    <3> HIDE DEF a1, a2, a3, a4, a5, a6, a7, a8, a9, a0
    <3> QED  BY <1>5, <1>11
  <2> QED  BY <1>6, <2>1
<1> HIDE DEF low, down, mask, mov, rng, vfp, a1, a2, a3, a4, a5, a6, a7, a8, a9, a0
<1> QED  BY <1>2, <1>3, <1>4, <1>6, <1>7, <1>8, <1>9, <1>10, <1>11 DEF s, TurnsSo

LEMMA ExecuteIs ==
  ASSUME NEW v, NEW code, Len(code) \in Nat
  PROVE  LET t(s) == Turn(s, code)
             s0   == Unwinding(v, 1, "goes on") IN
         /\ Len(code) = 3 => Execute(v, code) = t(t(t(s0)))
         /\ Len(code) = 6 => Execute(v, code) = t(t(t(t(t(t(s0))))))
<1> DEFINE f == Turns(v, code)
           t(s) == Turn(s, code)
           s0   == Unwinding(v, 1, "goes on")
           m    == Len(code)
<1>1. f = [n \in 0 .. m |-> IF n = 0 THEN s0 ELSE t(f[n - 1])]
  BY TurnsDefined DEF Unwinding
<1>2. Execute(v, code) = f[m]
  BY DEF Execute, Turns
<1> HIDE DEF f, t, s0
<1>3. f[0] = s0
  BY <1>1
<1>4. \A n \in 1 .. m : f[n] = t(f[n - 1])
  <2> HIDE DEF m
  <2> SUFFICES ASSUME NEW n \in 1 .. m PROVE f[n] = t(f[n - 1])
    OBVIOUS
  <2>1. n \in 0 .. m /\ n # 0
    OBVIOUS
  <2> QED  BY <1>1, <2>1
<1>5. m >= 3 => f[1] = t(s0) /\ f[2] = t(t(s0)) /\ f[3] = t(t(t(s0)))
  <2> SUFFICES ASSUME m >= 3 PROVE f[1] = t(s0) /\ f[2] = t(t(s0)) /\ f[3] = t(t(t(s0)))
    OBVIOUS
  <2>1. f[1] = t(f[0]) /\ f[2] = t(f[1]) /\ f[3] = t(f[2])
    BY <1>4
  <2> QED  BY <1>3, <2>1
<1>6. m >= 6 => f[4] = t(f[3]) /\ f[5] = t(f[4]) /\ f[6] = t(f[5])
  BY <1>4
<1>7. m = 3 => f[m] = t(t(t(s0)))
  BY <1>5
<1>8. m = 6 => f[m] = t(t(t(t(t(t(s0))))))
  BY <1>5, <1>6
<1> QED  BY <1>2, <1>7, <1>8 DEF t, s0

LEMMA BytesAre ==
  ASSUME NEW f
  PROVE  /\ \A a, b, c : f.insn = <<128, a, b, c>> => Bytes(f) = <<a, b, c>>
         /\ \A a, b, c, d, e, g :
              f.insn = <<129, 1, a, b, c, d, e, g>> => Bytes(f) = <<a, b, c, d, e, g>>
<1>1. ASSUME NEW a, NEW b, NEW c, f.insn = <<128, a, b, c>> PROVE Bytes(f) = <<a, b, c>>
  <2>1. Bytes(f) = SubSeq(f.insn, 2, 4)
    BY <1>1 DEF Bytes, ShortForm, LongForm
  <2> DEFINE S == {128, a, b, c}
             s == <<128, a, b, c>>
             t == SubSeq(s, 2, 4)
  <2>2. s \in Seq(S) /\ Len(s) = 4 /\ s[2] = a /\ s[3] = b /\ s[4] = c
    OBVIOUS
  <2>3. 2 \in 1 .. 4 + 1 /\ 4 \in 2 - 1 .. 4 /\ 4 - 2 + 1 = 3
    OBVIOUS
  <2> HIDE DEF S, s
  <2>4. t \in Seq(S) /\ Len(t) = 3 /\ \A i \in 1 .. 3 : t[i] = s[2 + i - 1]
    BY <2>2, <2>3, SubSeqProperties
  <2>5. t[1] = a /\ t[2] = b /\ t[3] = c
    BY <2>2, <2>4
  <2> HIDE DEF t
  <2>6. t = <<a, b, c>>
    BY <2>4, <2>5
  <2> QED  BY <1>1, <2>1, <2>6 DEF s, t
<1>2. ASSUME NEW a, NEW b, NEW c, NEW d, NEW e, NEW g, f.insn = <<129, 1, a, b, c, d, e, g>>
      PROVE  Bytes(f) = <<a, b, c, d, e, g>>
  <2>1. Bytes(f) = SubSeq(f.insn, 3, 4 + 4 * 1)
    BY <1>2 DEF Bytes, ShortForm, LongForm
  <2>2. 4 + 4 * 1 = 8
    OBVIOUS
  <2> DEFINE S == {129, 1, a, b, c, d, e, g}
             s == <<129, 1, a, b, c, d, e, g>>
             t == SubSeq(s, 3, 8)
  <2>3. /\ s \in Seq(S) /\ Len(s) = 8 /\ s[3] = a /\ s[4] = b /\ s[5] = c /\ s[6] = d
        /\ s[7] = e /\ s[8] = g
    OBVIOUS
  <2>4. 3 \in 1 .. 8 + 1 /\ 8 \in 3 - 1 .. 8 /\ 8 - 3 + 1 = 6
    OBVIOUS
  <2> HIDE DEF S, s
  <2>5. t \in Seq(S) /\ Len(t) = 6 /\ \A i \in 1 .. 6 : t[i] = s[3 + i - 1]
    <3>1. \A i \in 3 .. 8 : s[i] \in S
      <4> SUFFICES ASSUME NEW i \in 3 .. 8 PROVE s[i] \in S
        OBVIOUS
      <4>1. i = 3 \/ i = 4 \/ i = 5 \/ i = 6 \/ i = 7 \/ i = 8
        OBVIOUS
      <4> USE DEF S
      <4> QED  BY <2>3, <4>1
    <3> HIDE DEF t
    <3> DEFINE x == 3
               y == 8
    <3>2. x \in Int /\ y \in Int /\ (\A i \in x .. y : s[i] \in S) /\ x <= y /\ y - x + 1 = 6
      BY <3>1
    <3> HIDE DEF x, y
    <3>3. LET r == SubSeq(s, x, y) IN
            r \in Seq(S) /\ Len(r) = 6 /\ \A i \in 1 .. 6 : r[i] = s[x + i - 1]
      BY <3>2, SubSeqProperties
    <3> QED  BY <3>3 DEF x, y, t
  <2>6. t[1] = a /\ t[2] = b /\ t[3] = c /\ t[4] = d /\ t[5] = e /\ t[6] = g
    BY <2>3, <2>5
  <2> HIDE DEF t
  <2>7. t = <<a, b, c, d, e, g>>
    BY <2>5, <2>6
  <2> QED  BY <1>2, <2>1, <2>2, <2>7 DEF s, t
<1> QED  BY <1>1, <1>2

LEMMA Mov ==
  ASSUME NEW code, Len(code) \in Nat, NEW i \in Nat, i <= Len(code), code[i] = 151, NEW v
  PROVE  Turn(Unwinding(v, i, "goes on"), code) = Unwinding(AtFrame(v), i + 1, "goes on")
<1>1. TurnsSo(v, i, code)
  BY TurnIs
<1> QED  BY <1>1 DEF TurnsSo

LEMMA Enlarge ==
  ASSUME NEW code, Len(code) \in Nat, NEW i \in Nat, i <= Len(code), code[i] \in 0 .. 63, NEW v
  PROVE  Turn(Unwinding(v, i, "goes on"), code)
           = Unwinding(Raised(v, code[i]), i + 1, "goes on")
<1>1. TurnsSo(v, i, code)
  BY TurnIs
<1> QED  BY <1>1 DEF TurnsSo

LEMMA PopsMask ==
  ASSUME NEW code, Len(code) \in Nat, NEW i \in Nat, i < Len(code), code[i] \in 128 .. 143,
         ~(code[i] = 128 /\ code[i + 1] = 0), NEW v
  PROVE  Turn(Unwinding(v, i, "goes on"), code)
           = Unwinding(PopMask(v, code[i], code[i + 1]), i + 2, "goes on")
<1>1. TurnsSo(v, i, code) /\ i <= Len(code)
  BY TurnIs
<1> QED  BY <1>1 DEF TurnsSo

LEMMA PopsRange ==
  ASSUME NEW code, Len(code) \in Nat, NEW i \in Nat, i <= Len(code), code[i] \in 168 .. 175, NEW v
  PROVE  Turn(Unwinding(v, i, "goes on"), code) = Unwinding(PopRange(v, code[i]), i + 1, "goes on")
<1>1. TurnsSo(v, i, code)
  BY TurnIs
<1> QED  BY <1>1 DEF TurnsSo

LEMMA Finishes ==
  ASSUME NEW code, Len(code) \in Nat, NEW i \in Nat, i <= Len(code), code[i] = 176, NEW v
  PROVE  /\ Turn(Unwinding(v, i, "goes on"), code) = Unwinding(Finish(v), i, "done")
         /\ Turn(Unwinding(Finish(v), i, "done"), code) = Unwinding(Finish(v), i, "done")
<1>1. TurnsSo(v, i, code) /\ TurnsSo(Finish(v), i, code)
  BY TurnIs
<1> QED  BY <1>1 DEF TurnsSo

LEMMA Ends ==
  ASSUME NEW code, Len(code) \in Nat, NEW i \in Nat, i > Len(code), NEW v
  PROVE  Turn(Unwinding(v, i, "goes on"), code) = Unwinding(v, i, "goes on")
<1>1. TurnsSo(v, i, code)
  BY TurnIs
<1> QED  BY <1>1 DEF TurnsSo

LEMMA ExecuteThree ==
  ASSUME NEW v, NEW code, Len(code) \in Nat, Len(code) = 3, NEW a, NEW b,
         Turn(Unwinding(v, 1, "goes on"), code) = a, Turn(a, code) = b
  PROVE  Execute(v, code) = Turn(b, code)
BY ExecuteIs

LEMMA ExecuteSix ==
  ASSUME NEW v, NEW code, Len(code) \in Nat, Len(code) = 6, NEW a, NEW b, NEW c, NEW d,
         Turn(Unwinding(v, 1, "goes on"), code) = a, Turn(a, code) = b, Turn(b, code) = c,
         Turn(c, code) = d, Turn(d, code) = d
  PROVE  Execute(v, code) = d
<1>1. Execute(v, code)
        = Turn(Turn(Turn(Turn(Turn(Turn(Unwinding(v, 1, "goes on"), code), code), code), code), code), code)
  BY ExecuteIs
<1> QED  BY <1>1

LEMMA ExecutedMask ==
  ASSUME NEW v, NEW b \in 128 .. 143, NEW c \in 0 .. 255, ~(b = 128 /\ c = 0)
  PROVE  Execute(v, <<151, b, c>>) = Unwinding(PopMask(AtFrame(v), b, c), 4, "goes on")
<1> DEFINE code == <<151, b, c>>
           w == AtFrame(v)
           p == PopMask(w, b, c)
<1>1. Len(code) = 3 /\ code[1] = 151 /\ code[2] = b /\ code[3] = c
  OBVIOUS
<1> HIDE DEF code
<1>2. Turn(Unwinding(v, 1, "goes on"), code) = Unwinding(w, 2, "goes on")
  <2> DEFINE x == 1
  <2>1. Len(code) \in Nat /\ x \in Nat /\ x <= Len(code) /\ code[x] = 151
    BY <1>1
  <2>2. x + 1 = 2
    OBVIOUS
  <2> HIDE DEF x, code, p
  <2>3. Turn(Unwinding(v, x, "goes on"), code) = Unwinding(w, x + 1, "goes on")
    BY <2>1, Mov
  <2> QED  BY <2>1, <2>2, <2>3 DEF x
<1> HIDE DEF w
<1>3. Turn(Unwinding(w, 2, "goes on"), code) = Unwinding(p, 4, "goes on")
  <2> DEFINE x == 2
  <2>1. /\ Len(code) \in Nat /\ x \in Nat /\ x < Len(code) /\ code[x] = b /\ code[x + 1] = c
        /\ code[x] \in 128 .. 143
    BY <1>1
  <2>2. x + 2 = 4
    OBVIOUS
  <2> HIDE DEF x, code, p
  <2>3. Turn(Unwinding(w, x, "goes on"), code)
          = Unwinding(PopMask(w, code[x], code[x + 1]), x + 2, "goes on")
    BY <2>1, PopsMask
  <2>4. Turn(Unwinding(w, x, "goes on"), code) = Unwinding(p, x + 2, "goes on")
    BY <2>1, <2>3 DEF p
  <2> QED  BY <2>1, <2>2, <2>4 DEF x
<1>4. Turn(Unwinding(p, 4, "goes on"), code) = Unwinding(p, 4, "goes on")
  <2> DEFINE x == 4
  <2>1. Len(code) \in Nat /\ x \in Nat /\ x > Len(code)
    BY <1>1
  <2> HIDE DEF x, code, p
  <2>2. Turn(Unwinding(p, x, "goes on"), code) = Unwinding(p, x, "goes on")
    BY <2>1, Ends
  <2> QED  BY <2>1, <2>2 DEF x
<1>5. Execute(v, code) = Unwinding(p, 4, "goes on")
  <2> HIDE DEF p
  <2>1. Len(code) \in Nat /\ Len(code) = 3
    BY <1>1
  <2>2. Execute(v, code) = Turn(Unwinding(p, 4, "goes on"), code)
    <3> DEFINE q == Unwinding(p, 4, "goes on")
               o == Unwinding(w, 2, "goes on")
    <3>1. Turn(Unwinding(v, 1, "goes on"), code) = o /\ Turn(o, code) = q
      BY <1>2, <1>3
    <3> HIDE DEF o, q
    <3>2. Execute(v, code) = Turn(q, code)
      BY <2>1, <3>1, ExecuteThree, Zenon
    <3> QED  BY <3>2 DEF q
  <2> QED  BY <2>2, <1>4
<1> QED  BY <1>5 DEF code, w

LEMMA ExecutedRange ==
  ASSUME NEW v, NEW b \in 168 .. 175
  PROVE  Execute(v, <<151, b, 176>>) = Unwinding(Finish(PopRange(AtFrame(v), b)), 3, "done")
<1> DEFINE code == <<151, b, 176>>
           w == AtFrame(v)
           p == PopRange(w, b)
<1>1. Len(code) = 3 /\ code[1] = 151 /\ code[2] = b /\ code[3] = 176
  OBVIOUS
<1> HIDE DEF code
<1>2. Turn(Unwinding(v, 1, "goes on"), code) = Unwinding(w, 2, "goes on")
  <2> DEFINE x == 1
  <2>1. Len(code) \in Nat /\ x \in Nat /\ x <= Len(code) /\ code[x] = 151
    BY <1>1
  <2>2. x + 1 = 2
    OBVIOUS
  <2> HIDE DEF x, code, p
  <2>3. Turn(Unwinding(v, x, "goes on"), code) = Unwinding(w, x + 1, "goes on")
    BY <2>1, Mov
  <2> QED  BY <2>1, <2>2, <2>3 DEF x
<1> HIDE DEF w
<1>3. Turn(Unwinding(w, 2, "goes on"), code) = Unwinding(p, 3, "goes on")
  <2> DEFINE x == 2
  <2>1. Len(code) \in Nat /\ x \in Nat /\ x <= Len(code) /\ code[x] = b /\ code[x] \in 168 .. 175
    BY <1>1
  <2>2. x + 1 = 3
    OBVIOUS
  <2> HIDE DEF x, code, p
  <2>3. Turn(Unwinding(w, x, "goes on"), code)
          = Unwinding(PopRange(w, code[x]), x + 1, "goes on")
    BY <2>1, PopsRange
  <2>4. Turn(Unwinding(w, x, "goes on"), code) = Unwinding(p, x + 1, "goes on")
    BY <2>1, <2>3 DEF p
  <2> QED  BY <2>1, <2>2, <2>4 DEF x
<1>4. Turn(Unwinding(p, 3, "goes on"), code) = Unwinding(Finish(p), 3, "done")
  <2> DEFINE x == 3
  <2>1. Len(code) \in Nat /\ x \in Nat /\ x <= Len(code) /\ code[x] = 176
    BY <1>1
  <2> HIDE DEF x, code, p
  <2>2. Turn(Unwinding(p, x, "goes on"), code) = Unwinding(Finish(p), x, "done")
    BY <2>1, Finishes
  <2> QED  BY <2>1, <2>2 DEF x
<1>5. Execute(v, code) = Unwinding(Finish(p), 3, "done")
  <2> HIDE DEF p
  <2>1. Len(code) \in Nat /\ Len(code) = 3
    BY <1>1
  <2> QED  BY <2>1, <1>2, <1>3, <1>4, ExecuteThree, Zenon
<1> QED  BY <1>5 DEF code, w

LEMMA ExecutedLongMask ==
  ASSUME NEW v, NEW n \in 0 .. 63, NEW b \in 128 .. 143, NEW c \in 0 .. 255, ~(b = 128 /\ c = 0)
  PROVE  Execute(v, <<151, n, b, c, 176, 176>>)
           = Unwinding(Finish(PopMask(Raised(AtFrame(v), n), b, c)), 5, "done")
<1> DEFINE code == <<151, n, b, c, 176, 176>>
           w == AtFrame(v)
           p == PopMask(Raised(w, n), b, c)
<1>1. /\ Len(code) = 6 /\ code[1] = 151 /\ code[2] = n /\ code[3] = b /\ code[4] = c
      /\ code[5] = 176 /\ code[6] = 176
  OBVIOUS
<1> HIDE DEF code
<1>2. Turn(Unwinding(v, 1, "goes on"), code) = Unwinding(w, 2, "goes on")
  <2> DEFINE x == 1
  <2>1. Len(code) \in Nat /\ x \in Nat /\ x <= Len(code) /\ code[x] = 151
    BY <1>1
  <2>2. x + 1 = 2
    OBVIOUS
  <2> HIDE DEF x, code, p
  <2>3. Turn(Unwinding(v, x, "goes on"), code) = Unwinding(w, x + 1, "goes on")
    BY <2>1, Mov
  <2> QED  BY <2>1, <2>2, <2>3 DEF x
<1> HIDE DEF w
<1>3. Turn(Unwinding(w, 2, "goes on"), code) = Unwinding(Raised(w, n), 3, "goes on")
  <2> DEFINE x == 2
  <2>1. Len(code) \in Nat /\ x \in Nat /\ x <= Len(code) /\ code[x] = n
    BY <1>1
  <2>2. x + 1 = 3
    OBVIOUS
  <2> HIDE DEF x, code
  <2>3. Turn(Unwinding(w, x, "goes on"), code) = Unwinding(Raised(w, code[x]), x + 1, "goes on")
    BY <2>1, Enlarge
  <2> QED  BY <2>1, <2>2, <2>3 DEF x
<1>4. Turn(Unwinding(Raised(w, n), 3, "goes on"), code) = Unwinding(p, 5, "goes on")
  <2> DEFINE x == 3
  <2>1. /\ Len(code) \in Nat /\ x \in Nat /\ x < Len(code) /\ code[x] = b /\ code[x + 1] = c
        /\ code[x] \in 128 .. 143
    BY <1>1
  <2>2. x + 2 = 5
    OBVIOUS
  <2> HIDE DEF x, code, p
  <2>3. Turn(Unwinding(Raised(w, n), x, "goes on"), code)
          = Unwinding(PopMask(Raised(w, n), code[x], code[x + 1]), x + 2, "goes on")
    BY <2>1, PopsMask
  <2>4. Turn(Unwinding(Raised(w, n), x, "goes on"), code) = Unwinding(p, x + 2, "goes on")
    BY <2>1, <2>3 DEF p
  <2> QED  BY <2>1, <2>2, <2>4 DEF x
<1>5. Turn(Unwinding(p, 5, "goes on"), code) = Unwinding(Finish(p), 5, "done")
  <2> DEFINE x == 5
  <2>1. Len(code) \in Nat /\ x \in Nat /\ x <= Len(code) /\ code[x] = 176
    BY <1>1
  <2> HIDE DEF x, code, p
  <2>2. Turn(Unwinding(p, x, "goes on"), code) = Unwinding(Finish(p), x, "done")
    BY <2>1, Finishes
  <2> QED  BY <2>1, <2>2 DEF x
<1>6. Turn(Unwinding(Finish(p), 5, "done"), code) = Unwinding(Finish(p), 5, "done")
  <2> DEFINE x == 5
  <2>1. Len(code) \in Nat /\ x \in Nat /\ x <= Len(code) /\ code[x] = 176
    BY <1>1
  <2> HIDE DEF x, code, p
  <2>2. Turn(Unwinding(Finish(p), x, "done"), code) = Unwinding(Finish(p), x, "done")
    BY <2>1, Finishes
  <2> QED  BY <2>1, <2>2 DEF x
<1>7. Execute(v, code) = Unwinding(Finish(p), 5, "done")
  <2> HIDE DEF p
  <2>1. Len(code) \in Nat /\ Len(code) = 6
    BY <1>1
  <2> QED  BY <2>1, <1>2, <1>3, <1>4, <1>5, <1>6, ExecuteSix, Zenon
<1> QED  BY <1>7 DEF code, w

(* r4 and its followers popped after the room is given back.              *)
LongRange(n, b) == <<151, n, b, 176, 176, 176>>

LEMMA ExecutedLongRange ==
  ASSUME NEW v, NEW n \in 0 .. 63, NEW b \in 168 .. 175
  PROVE  Execute(v, LongRange(n, b))
           = Unwinding(Finish(PopRange(Raised(AtFrame(v), n), b)), 4, "done")
<1> DEFINE code == LongRange(n, b)
           w == AtFrame(v)
           p == PopRange(Raised(w, n), b)
<1>1. /\ Len(code) = 6 /\ code[1] = 151 /\ code[2] = n /\ code[3] = b /\ code[4] = 176
      /\ code[5] = 176 /\ code[6] = 176
  BY DEF LongRange
<1> HIDE DEF code
<1>2. Turn(Unwinding(v, 1, "goes on"), code) = Unwinding(w, 2, "goes on")
  <2> DEFINE x == 1
  <2>1. Len(code) \in Nat /\ x \in Nat /\ x <= Len(code) /\ code[x] = 151
    BY <1>1
  <2>2. x + 1 = 2
    OBVIOUS
  <2> HIDE DEF x, code, p
  <2>3. Turn(Unwinding(v, x, "goes on"), code) = Unwinding(w, x + 1, "goes on")
    BY <2>1, Mov
  <2> QED  BY <2>1, <2>2, <2>3 DEF x
<1> HIDE DEF w
<1>3. Turn(Unwinding(w, 2, "goes on"), code) = Unwinding(Raised(w, n), 3, "goes on")
  <2> DEFINE x == 2
  <2>1. Len(code) \in Nat /\ x \in Nat /\ x <= Len(code) /\ code[x] = n
    BY <1>1
  <2>2. x + 1 = 3
    OBVIOUS
  <2> HIDE DEF x, code
  <2>3. Turn(Unwinding(w, x, "goes on"), code) = Unwinding(Raised(w, code[x]), x + 1, "goes on")
    BY <2>1, Enlarge
  <2> QED  BY <2>1, <2>2, <2>3 DEF x
<1>4. Turn(Unwinding(Raised(w, n), 3, "goes on"), code) = Unwinding(p, 4, "goes on")
  <2> DEFINE x == 3
  <2>1. Len(code) \in Nat /\ x \in Nat /\ x <= Len(code) /\ code[x] = b /\ code[x] \in 168 .. 175
    BY <1>1
  <2>2. x + 1 = 4
    OBVIOUS
  <2> HIDE DEF x, code, p
  <2>3. Turn(Unwinding(Raised(w, n), x, "goes on"), code)
          = Unwinding(PopRange(Raised(w, n), code[x]), x + 1, "goes on")
    BY <2>1, PopsRange
  <2>4. Turn(Unwinding(Raised(w, n), x, "goes on"), code) = Unwinding(p, x + 1, "goes on")
    BY <2>1, <2>3 DEF p
  <2> QED  BY <2>1, <2>2, <2>4 DEF x
<1>5. Turn(Unwinding(p, 4, "goes on"), code) = Unwinding(Finish(p), 4, "done")
  <2> DEFINE x == 4
  <2>1. Len(code) \in Nat /\ x \in Nat /\ x <= Len(code) /\ code[x] = 176
    BY <1>1
  <2> HIDE DEF x, code, p
  <2>2. Turn(Unwinding(p, x, "goes on"), code) = Unwinding(Finish(p), x, "done")
    BY <2>1, Finishes
  <2> QED  BY <2>1, <2>2 DEF x
<1>6. Turn(Unwinding(Finish(p), 4, "done"), code) = Unwinding(Finish(p), 4, "done")
  <2> DEFINE x == 4
  <2>1. Len(code) \in Nat /\ x \in Nat /\ x <= Len(code) /\ code[x] = 176
    BY <1>1
  <2> HIDE DEF x, code, p
  <2>2. Turn(Unwinding(Finish(p), x, "done"), code) = Unwinding(Finish(p), x, "done")
    BY <2>1, Finishes
  <2> QED  BY <2>1, <2>2 DEF x
<1>7. Execute(v, code) = Unwinding(Finish(p), 4, "done")
  <2> HIDE DEF p
  <2>1. Len(code) \in Nat /\ Len(code) = 6
    BY <1>1
  <2> QED  BY <2>1, <1>2, <1>3, <1>4, <1>5, <1>6, ExecuteSix, Zenon
<1> QED  BY <1>7 DEF code, w

LEMMA Frames7 ==
  ASSUME NEW v, Registers(v), v[7] \in Int
  PROVE  /\ Registers(AtFrame(v)) /\ AtFrame(v)[SP] = v[7] /\ AtFrame(v)[LR] = v[LR]
         /\ \A n \in Nat : LET w == Raised(AtFrame(v), n) IN
              Registers(w) /\ w[SP] = v[7] + (4 * n + 4) /\ w[LR] = v[LR]
<1>1. Registers(AtFrame(v)) /\ AtFrame(v)[SP] = v[7] /\ AtFrame(v)[LR] = v[LR]
  BY DEF Registers, AtFrame, SP, LR, PC
<1>2. ASSUME NEW w, Registers(w), w[SP] \in Int, NEW n \in Nat
      PROVE  /\ Registers(Raised(w, n)) /\ Raised(w, n)[SP] = w[SP] + (4 * n + 4)
             /\ Raised(w, n)[LR] = w[LR]
  <2> DEFINE y == w[SP] + 4 * n + 4
  <2>1. y = w[SP] + (4 * n + 4)
    BY <1>2
  <2>2. Raised(w, n) = [w EXCEPT ![SP] = y]
    BY DEF Raised
  <2> HIDE DEF y
  <2>3. [w EXCEPT ![13] = y][13] = y /\ [w EXCEPT ![13] = y][15] = w[15]
        /\ DOMAIN [w EXCEPT ![13] = y] = DOMAIN w /\ [w EXCEPT ![13] = y][14] = w[14]
    BY <1>2 DEF Registers
  <2> QED  BY <1>2, <2>1, <2>2, <2>3 DEF Registers, SP, PC, LR
<1> QED  BY <1>1, <1>2

LEMMA Finished ==
  ASSUME NEW v, Registers(v), NEW ret, v[LR] = ret
  PROVE  LET w == Finish(v) IN
         DOMAIN w = 0 .. 15 /\ w[7] = v[7] /\ w[LR] = ret /\ w[PC] = ret
BY DEF Registers, Finish, LR, PC

(* The instructions of a function undo what its call did: r7 is again that *)
(* of the caller and r14 the address to return to.                         *)
LEMMA Unwinds ==
  ASSUME NEW f, KeepsFrame(f) \/ IsLeaf(f), NEW outer, LevelTyped(outer), NEW ret,
         NEW new, new = Pushed(f, outer, ret),
         \A a \in DOMAIN new.words : Read(a) = new.words[a],
         NEW v, Registers(v), v[7] = new.r7, IsLeaf(f) => v[LR] = ret
  PROVE  LET r == Execute(v, Bytes(f)) IN
         /\ Bytes(f) # << >> /\ f.insn # << >> /\ r.how # "refused"
         /\ DOMAIN r.vrs = 0 .. 15 /\ r.vrs[7] = outer.r7 /\ r.vrs[LR] = ret
         /\ r.vrs[PC] \in {0, ret}
<1> DEFINE x == v[7]
           w == AtFrame(v)
           Good(u) == DOMAIN u = 0 .. 15 /\ u[7] = outer.r7 /\ u[LR] = ret /\ u[PC] \in {0, ret}
<1>1. Saves(f)
  BY KindsSave
<1>2. /\ LevelTyped(new) /\ new.r7 = new.sp
      /\ \A i \in 1 .. Len(f.saves) :
           /\ new.r7 + f.room + 4 * (i - 1) \in DOMAIN new.words
           /\ new.words[new.r7 + f.room + 4 * (i - 1)] = ValueOf(f.saves[i], outer.r7, ret)
  BY <1>1, PushedIs
<1>3. x \in Int
  BY <1>2 DEF LevelTyped
<1>4. /\ Registers(w) /\ w[SP] = x /\ w[LR] = v[LR]
      /\ \A n \in Nat : LET t == Raised(w, n) IN
           Registers(t) /\ t[SP] = x + (4 * n + 4) /\ t[LR] = v[LR]
  BY <1>3, Frames7
<1>5. PICK regs : /\ RegsSaved(regs) /\ Pushes(f, regs)
                  /\ 14 \in regs \/ v[LR] = ret
                  /\ PopsUnder(f, regs) \/ (14 \in regs /\ PopsThrough(f, regs))
  <2>1. CASE KeepsFrame(f)
    <3>1. PICK regs \in SUBSET ((4 .. 11) \cup {14}) :
                 /\ {7, 14} \subseteq regs /\ Pushes(f, regs)
                 /\ PopsUnder(f, regs) \/ PopsThrough(f, regs)
      BY <2>1 DEF KeepsFrame
    <3> QED  BY <3>1 DEF RegsSaved
  <2>2. CASE IsLeaf(f)
    <3>1. PICK regs \in SUBSET (4 .. 11) : 7 \in regs /\ Pushes(f, regs) /\ PopsUnder(f, regs)
      BY <2>2 DEF IsLeaf
    <3>2. RegsSaved(regs)
      BY <3>1 DEF RegsSaved
    <3> QED  BY <2>2, <3>1, <3>2
  <2> QED  BY <2>1, <2>2
<1>6. ASSUME NEW t, Registers(t), t[SP] = x + f.room, t[LR] = v[LR]
      PROVE  LET p == Popped(t, regs) IN Registers(p) /\ p[7] = outer.r7 /\ p[LR] = ret
  <2> DEFINE y == x + f.room
             p == Popped(t, regs)
  <2>1. y \in Int /\ SavedAt(f, y, outer.r7, ret)
    BY <1>1, <1>2, <1>3 DEF Saves, SavedAt
  <2> HIDE DEF y, p
  <2>2. t[SP] = y
    BY <1>6 DEF y
  <2>3. /\ Registers(p) /\ p[7] = outer.r7
        /\ 14 \in regs => p[LR] = ret
        /\ 14 \notin regs => p[LR] = t[LR]
    BY <1>5, <1>6, <2>1, <2>2, PopsBack DEF p
  <2> QED  BY <1>5, <1>6, <2>3 DEF p
<1> HIDE DEF x, w
<1>7. ASSUME NEW u, NEW k, NEW h, h # "refused", Execute(v, Bytes(f)) = Unwinding(u, k, h), Good(u),
             Len(Bytes(f)) > 0, Len(f.insn) > 0
      PROVE  LET r == Execute(v, Bytes(f)) IN
             /\ Bytes(f) # << >> /\ f.insn # << >> /\ r.how # "refused" /\ Good(r.vrs)
  <2>1. LET r == Execute(v, Bytes(f)) IN r.how = h /\ r.vrs = u
    BY <1>7 DEF Unwinding
  <2>2. Bytes(f) # << >> /\ f.insn # << >>
    BY <1>7
  <2> HIDE DEF Good
  <2> QED  BY <1>7, <2>1, <2>2
<1>8. ASSUME NEW p, Registers(p), p[7] = outer.r7, p[LR] = ret
      PROVE  Good(p) /\ Good(Finish(p))
  BY <1>8, Finished DEF Registers
<1>9. ASSUME NEW p, Registers(p), p[7] = outer.r7, p[LR] = ret, NEW y
      PROVE  LET q == [p EXCEPT ![SP] = y] IN Registers(q) /\ q[7] = outer.r7 /\ q[LR] = ret
  <2> DEFINE q == [p EXCEPT ![13] = y]
  <2>1. DOMAIN q = DOMAIN p /\ q[7] = p[7] /\ q[14] = p[14] /\ q[15] = p[15]
    BY <1>9 DEF Registers
  <2> HIDE DEF q
  <2>2. Registers(q) /\ q[7] = outer.r7 /\ q[LR] = ret
    BY <1>9, <2>1 DEF Registers, LR, PC
  <2> QED  BY <2>2 DEF q, SP
<1>10. "done" # "refused" /\ "goes on" # "refused"
  OBVIOUS
<1> SUFFICES LET r == Execute(v, Bytes(f)) IN
             /\ Bytes(f) # << >> /\ f.insn # << >> /\ r.how # "refused" /\ Good(r.vrs)
  OBVIOUS
<1>11. CASE PopsUnder(f, regs)
  <2>1. PICK b \in 128 .. 143, c \in 0 .. 255 :
          /\ regs = Masked(b, c)
          /\ \/ f.room = 0 /\ f.insn = <<128, 151, b, c>>
             \/ \E n \in 0 .. 63 :
                  f.room = 4 * n + 4 /\ f.insn = <<129, 1, 151, n, b, c, 176, 176>>
    BY <1>11 DEF PopsUnder
  <2>2. ~(b = 128 /\ c = 0) /\ \A t : PopMask(t, b, c) = Popped(t, regs)
    <3>1. 7 \in Masked(b, c) /\ 13 \notin Masked(b, c)
      BY <1>5, <2>1 DEF RegsSaved
    <3> QED  BY <2>1, <3>1, SomeBits, PopMaskIs
  <2>3. CASE f.room = 0 /\ f.insn = <<128, 151, b, c>>
    <3> DEFINE p == PopMask(w, b, c)
    <3>1. Bytes(f) = <<151, b, c>> /\ Len(f.insn) > 0
      BY <2>3, BytesAre
    <3>2. Len(Bytes(f)) > 0
      BY <3>1
    <3>3. Execute(v, Bytes(f)) = Unwinding(p, 4, "goes on")
      <4> DEFINE code == <<151, b, c>>
      <4>1. Execute(v, code) = Unwinding(PopMask(AtFrame(v), b, c), 4, "goes on")
        BY <2>2, ExecutedMask
      <4>2. Bytes(f) = code
        BY <3>1
      <4> HIDE DEF code
      <4> QED  BY <4>1, <4>2 DEF w
    <3>4. w[SP] = x + f.room
      BY <1>3, <1>4, <2>3
    <3>5. Registers(p) /\ p[7] = outer.r7 /\ p[LR] = ret
      BY <1>4, <1>6, <2>2, <3>4
    <3> HIDE DEF p, Good
    <3>6. Good(p)
      BY <1>8, <3>5
    <3> QED  BY <1>7, <1>10, <3>1, <3>2, <3>3, <3>6
  <2>4. CASE \E n \in 0 .. 63 : f.room = 4 * n + 4 /\ f.insn = <<129, 1, 151, n, b, c, 176, 176>>
    <3>1. PICK n \in 0 .. 63 : f.room = 4 * n + 4 /\ f.insn = <<129, 1, 151, n, b, c, 176, 176>>
      BY <2>4
    <3> DEFINE t == Raised(w, n)
               p == PopMask(t, b, c)
    <3>2. Bytes(f) = <<151, n, b, c, 176, 176>> /\ Len(f.insn) > 0
      BY <3>1, BytesAre
    <3>3. Len(Bytes(f)) > 0
      BY <3>2
    <3>4. Execute(v, Bytes(f)) = Unwinding(Finish(p), 5, "done")
      <4> DEFINE code == <<151, n, b, c, 176, 176>>
      <4>1. Execute(v, code) = Unwinding(Finish(PopMask(Raised(AtFrame(v), n), b, c)), 5, "done")
        BY <2>2, ExecutedLongMask
      <4>2. Bytes(f) = code
        BY <3>2
      <4> HIDE DEF code
      <4> QED  BY <4>1, <4>2 DEF w
    <3>5. Registers(t) /\ t[SP] = x + f.room /\ t[LR] = v[LR]
      BY <1>4, <3>1
    <3> HIDE DEF t
    <3>6. Registers(p) /\ p[7] = outer.r7 /\ p[LR] = ret
      BY <1>6, <2>2, <3>5
    <3> HIDE DEF p, Good
    <3>7. Good(Finish(p))
      BY <1>8, <3>6
    <3> QED  BY <1>7, <1>10, <3>2, <3>3, <3>4, <3>7 DEF t
  <2> QED  BY <2>1, <2>3, <2>4
<1>12. CASE PopsThrough(f, regs)
  <2>1. PICK k \in 3 .. 7 :
          /\ regs = (4 .. 4 + k) \cup {14}
          /\ \/ f.room = 0 /\ f.insn = <<128, 151, 168 + k, 176>>
             \/ \E n \in 0 .. 63 :
                  f.room = 4 * n + 4 /\ f.insn = <<129, 1, 151, n, 168 + k, 176, 176, 176>>
    BY <1>12 DEF PopsThrough
  <2> DEFINE b == 168 + k
  <2>2. b \in 168 .. 175
    BY <2>1
  <2>3. /\ \/ f.room = 0 /\ f.insn = <<128, 151, b, 176>>
           \/ \E n \in 0 .. 63 :
                f.room = 4 * n + 4 /\ f.insn = <<129, 1, 151, n, b, 176, 176, 176>>
    BY <2>1
  <2>7. b = 168 + k
    OBVIOUS
  <2> HIDE DEF b
  <2>8. \A t : PopRange(t, b) = [Popped(t, regs) EXCEPT ![SP] = Above(t, regs)]
    BY <2>1, <2>7, PopRangeIs
  <2>4. ASSUME NEW t, Registers(t), t[SP] = x + f.room, t[LR] = v[LR]
        PROVE  LET p == PopRange(t, b) IN Registers(p) /\ p[7] = outer.r7 /\ p[LR] = ret
    <3> DEFINE q == Popped(t, regs)
               y == Above(t, regs)
               p == [q EXCEPT ![SP] = y]
    <3>1. Registers(q) /\ q[7] = outer.r7 /\ q[LR] = ret
      BY <1>6, <2>4
    <3>2. PopRange(t, b) = p
      BY <2>8
    <3> HIDE DEF q, y
    <3>3. Registers(p) /\ p[7] = outer.r7 /\ p[LR] = ret
      BY <1>9, <3>1
    <3> HIDE DEF p
    <3> QED  BY <3>2, <3>3
  <2>5. CASE f.room = 0 /\ f.insn = <<128, 151, b, 176>>
    <3> DEFINE p == PopRange(w, b)
    <3>1. Bytes(f) = <<151, b, 176>> /\ Len(f.insn) > 0
      BY <2>5, BytesAre
    <3>2. Len(Bytes(f)) > 0
      BY <3>1
    <3>3. Execute(v, Bytes(f)) = Unwinding(Finish(p), 3, "done")
      <4> DEFINE code == <<151, b, 176>>
      <4>1. Execute(v, code) = Unwinding(Finish(PopRange(AtFrame(v), b)), 3, "done")
        BY <2>2, ExecutedRange
      <4>2. Bytes(f) = code
        BY <3>1
      <4> HIDE DEF code
      <4> QED  BY <4>1, <4>2 DEF w
    <3>4. w[SP] = x + f.room
      BY <1>3, <1>4, <2>5
    <3>5. Registers(p) /\ p[7] = outer.r7 /\ p[LR] = ret
      BY <1>4, <2>4, <3>4
    <3> HIDE DEF p, Good
    <3>6. Good(Finish(p))
      BY <1>8, <3>5
    <3> QED  BY <1>7, <1>10, <3>1, <3>2, <3>3, <3>6
  <2>6. CASE \E n \in 0 .. 63 : f.room = 4 * n + 4 /\ f.insn = <<129, 1, 151, n, b, 176, 176, 176>>
    <3>1. PICK n \in 0 .. 63 : f.room = 4 * n + 4 /\ f.insn = <<129, 1, 151, n, b, 176, 176, 176>>
      BY <2>6
    <3> DEFINE t == Raised(w, n)
               p == PopRange(t, b)
    <3>2. Bytes(f) = <<151, n, b, 176, 176, 176>> /\ Len(f.insn) > 0
      BY <3>1, BytesAre
    <3>3. Len(Bytes(f)) > 0
      BY <3>2
    <3>4. Execute(v, Bytes(f)) = Unwinding(Finish(p), 4, "done")
      <4>1. Bytes(f) = LongRange(n, b)
        BY <3>2 DEF LongRange
      <4>2. Execute(v, LongRange(n, b)) = Unwinding(Finish(PopRange(Raised(AtFrame(v), n), b)), 4, "done")
        BY <2>2, ExecutedLongRange
      <4> QED  BY <4>1, <4>2 DEF w
    <3>5. Registers(t) /\ t[SP] = x + f.room /\ t[LR] = v[LR]
      BY <1>4, <3>1
    <3> HIDE DEF t
    <3>6. Registers(p) /\ p[7] = outer.r7 /\ p[LR] = ret
      BY <2>4, <3>5
    <3> HIDE DEF p, Good
    <3>7. Good(Finish(p))
      BY <1>8, <3>6
    <3> QED  BY <1>7, <1>10, <3>2, <3>3, <3>4, <3>7 DEF t
  <2> QED  BY <2>3, <2>5, <2>6
<1> QED  BY <1>5, <1>11, <1>12

-----------------------------------------------------------------------------
(* A turn of the listing takes the frame of a call to that of its caller.  *)
LEMMA KindsDiffer ==
  ASSUME NEW f, KeepsFrame(f)
  PROVE  ~IsLeaf(f)
<1>1. PICK i \in 1 .. Len(f.saves) : f.saves[i] = 14
  <2>1. PICK regs \in SUBSET ((4 .. 11) \cup {14}) : 14 \in regs /\ Pushes(f, regs)
    BY DEF KeepsFrame
  <2> DEFINE n == Cardinality({s \in regs : s < 14})
  <2>2. n + 1 <= Len(f.saves) /\ f.saves[n + 1] = 14 /\ Len(f.saves) \in Nat
    BY <2>1 DEF Pushes
  <2>3. n \in Nat
    <3> DEFINE below == {s \in regs : s < 14}
    <3>1. IsFiniteSet(regs)
      BY FewRegisters
    <3>2. below \subseteq regs
      OBVIOUS
    <3> HIDE DEF below
    <3>3. Cardinality(below) \in Nat
      BY <3>1, <3>2, FS_Subset, FS_CardinalityType
    <3> QED  BY <3>3 DEF below
  <2> HIDE DEF n
  <2>4. n + 1 \in 1 .. Len(f.saves)
    BY <2>2, <2>3
  <2> QED  BY <2>2, <2>4
<1>2. SUFFICES ASSUME IsLeaf(f) PROVE FALSE
  OBVIOUS
<1>3. PICK regs \in SUBSET (4 .. 11) : f.saves \in Seq(regs)
  BY <1>2 DEF IsLeaf, Pushes
<1>4. f.saves[i] \in regs
  BY <1>1, <1>3, ElementOfSeq
<1> QED  BY <1>1, <1>3, <1>4

LEMMA Addresses ==
  ASSUME Compiled, NEW chain, IsChain(chain), NEW j \in 1 .. Len(chain)
  PROVE  /\ chain[j] \in Functions /\ InFunction(Inside(chain[j]), chain[j])
         /\ Inside(chain[j]) \in Nat /\ Inside(chain[j]) > 1 /\ Inside(chain[j]) % 2 = 0
         /\ ReturnsTo(chain, j) \in Nat /\ ReturnsTo(chain, j) > 1 /\ ReturnsTo(chain, j) % 2 = 1
         /\ j < Len(chain) => ReturnsTo(chain, j) = Inside(chain[j + 1]) + 1
         /\ j = Len(chain) => ReturnsTo(chain, j) = Index[TaskEnd].start + 1
<1>1. chain \in Seq(Functions) /\ Len(chain) \in Nat
  BY DEF IsChain
<1>2. \A i \in 1 .. Len(chain) : chain[i] \in Functions
  BY <1>1, ElementOfSeq
<1>3. \A f \in Functions : f \in Nat /\ Index[f].start \in Nat /\ Index[f].start > 0 /\ Index[f].start % 2 = 0
  BY DEF Compiled, IndexOrdered, Functions
<1>4. TaskEnd \in Functions
  BY DEF Compiled, IndexOrdered, Functions, TaskEnd
<1>5. ASSUME NEW f \in Functions
      PROVE  /\ InFunction(Inside(f), f) /\ Inside(f) \in Nat /\ Inside(f) > 1 /\ Inside(f) % 2 = 0
             /\ (Inside(f) + 1) % 2 = 1 /\ (Index[f].start + 1) % 2 = 1 /\ Index[f].start + 1 > 1
  <2>1. \A g \in Functions : f < g => Index[f].start + 3 < Index[g].start
    BY DEF Compiled, IndexOrdered
  <2>2. \A g \in Functions : f < g => Inside(f) < Index[g].start
    BY <1>3, <2>1 DEF Inside
  <2>3. Index[f].start \in Nat /\ Index[f].start > 0 /\ Index[f].start % 2 = 0
    BY <1>3
  <2> DEFINE s == Index[f].start
             q == Inside(f)
  <2>4. q = s + 2
    BY DEF Inside
  <2>5. f < Len(Index) => q < Index[f + 1].start
    <3>1. f < Len(Index) => f + 1 \in Functions /\ f < f + 1
      BY <1>3 DEF Functions, Compiled, IndexOrdered
    <3> HIDE DEF q, s
    <3> QED  BY <2>2, <3>1 DEF q
  <2>6. s \in Nat /\ s > 0 /\ s % 2 = 0
    BY <2>3
  <2> HIDE DEF q, s
  <2>7. q \in Nat /\ q > 1 /\ q % 2 = 0 /\ (q + 1) % 2 = 1 /\ (s + 1) % 2 = 1 /\ s + 1 > 1 /\ s <= q
    BY <2>4, <2>6
  <2>8. InFunction(q, f)
    BY <2>5, <2>7 DEF InFunction, s
  <2> QED  BY <2>7, <2>8 DEF q, s
<1>6. CASE j < Len(chain)
  <2>1. j + 1 \in 1 .. Len(chain) /\ j # Len(chain)
    BY <1>1, <1>6
  <2>2. ReturnsTo(chain, j) = Inside(chain[j + 1]) + 1
    BY <2>1 DEF ReturnsTo
  <2> QED  BY <1>2, <1>5, <1>6, <2>1, <2>2
<1>7. CASE j = Len(chain)
  <2>1. ReturnsTo(chain, j) = Index[TaskEnd].start + 1
    BY <1>7 DEF ReturnsTo
  <2>2. ~(j < Len(chain))
    BY <1>1, <1>7
  <2>3. LET r == Index[TaskEnd].start + 1 IN r \in Nat /\ r > 1 /\ r % 2 = 1
    <3> DEFINE s == Index[TaskEnd].start
    <3>1. s \in Nat /\ (s + 1) % 2 = 1 /\ s + 1 > 1
      BY <1>3, <1>4, <1>5
    <3> HIDE DEF s
    <3>2. s + 1 \in Nat
      BY <3>1
    <3> QED  BY <3>1, <3>2 DEF s
  <2>4. LET p == Inside(chain[j]) IN
        /\ chain[j] \in Functions /\ InFunction(p, chain[j]) /\ p \in Nat /\ p > 1 /\ p % 2 = 0
    BY <1>2, <1>5
  <2> QED  BY <1>7, <2>1, <2>2, <2>3, <2>4
<1> QED  BY <1>1, <1>6, <1>7

LEMMA UnwindsTo ==
  ASSUME Compiled, IsChain(calls), stack = Entered(calls).words, NEW j \in 1 .. Len(calls),
         NEW f, f.fp = AfterCalls(calls)[Len(calls) - j + 1].r7, f.pc = Inside(calls[j]),
         j = 1 => f.lr = ReturnsTo(calls, 1)
  PROVE  LET u == UnwindFrame(f) IN
         /\ u.more = TRUE /\ u.frame.fp = AfterCalls(calls)[Len(calls) - j].r7
         /\ u.frame.pc = ReturnsTo(calls, j)
         /\ u.frame = [fp |-> u.frame.fp, sp |-> u.frame.sp, lr |-> u.frame.lr, pc |-> u.frame.pc]
<1> DEFINE n     == Len(calls)
           L     == AfterCalls(calls)
           F     == Index[calls[j]]
           outer == L[n - j]
           new   == L[n - j + 1]
           ret   == ReturnsTo(calls, j)
           v     == [r \in 0 .. 15 |->
                       CASE r = 7 -> f.fp [] r = SP -> f.sp [] r = LR -> f.lr [] OTHER -> 0]
           res   == Execute(v, Bytes(F))
           w     == Finish(res.vrs)
           after == ExceptionReturn(w)
<1>1. n \in Nat /\ n - j + 1 \in 1 .. n /\ n - j \in 0 .. n /\ n - j + 1 \in 0 .. n
      /\ n - (n - j + 1) + 1 = j /\ (n - j + 1) - 1 = n - j
  BY DEF IsChain
<1>2. LevelTyped(outer) /\ new = Pushed(F, outer, ret)
  <2>1. /\ \A k \in 1 .. n : L[k] = After(calls, k, L[k - 1])
        /\ \A k \in 0 .. n : LevelTyped(L[k])
    BY Levels
  <2> HIDE DEF L, n
  <2>2. new = After(calls, n - j + 1, L[(n - j + 1) - 1]) /\ LevelTyped(outer)
    BY <1>1, <2>1
  <2>3. After(calls, n - j + 1, outer) = Pushed(F, outer, ret)
    BY <1>1 DEF After, n
  <2> QED  BY <1>1, <2>2, <2>3
<1>3. \A a \in DOMAIN new.words : Read(a) = new.words[a]
  <2> SUFFICES ASSUME NEW a \in DOMAIN new.words PROVE Read(a) = new.words[a]
    OBVIOUS
  <2> DEFINE k == n - j + 1
  <2>1. k \in 0 .. Len(calls) /\ new = L[k]
    BY <1>1
  <2> HIDE DEF k, new
  <2>2. a \in DOMAIN Entered(calls).words /\ Entered(calls).words[a] = L[k].words[a]
    BY <2>1, StackKeeps
  <2> QED  BY <2>1, <2>2 DEF Read
<1>4. SearchIndex(f.pc) = calls[j]
  BY Addresses, SearchFinds DEF Compiled
<1>5. Registers(v) /\ v[7] = new.r7 /\ (IsLeaf(F) => v[LR] = ret)
  <2>1. DOMAIN v = 0 .. 15 /\ v[7] = f.fp /\ v[LR] = f.lr /\ v[PC] = 0
    BY DEF SP, LR, PC
  <2>2. IsLeaf(F) => j = 1
    BY KindsDiffer DEF IsChain
  <2> HIDE DEF v
  <2> QED  BY <2>1, <2>2 DEF Registers
<1>6. KeepsFrame(F) \/ IsLeaf(F)
  BY DEF IsChain
<1> HIDE DEF n, L, F, outer, new, ret, v
<1>7. /\ Bytes(F) # << >> /\ F.insn # << >> /\ res.how # "refused"
      /\ DOMAIN res.vrs = 0 .. 15 /\ res.vrs[7] = outer.r7 /\ res.vrs[LR] = ret
      /\ res.vrs[PC] \in {0, ret}
  BY <1>2, <1>3, <1>5, <1>6, Unwinds
<1> HIDE DEF res
<1>8. DOMAIN w = 0 .. 15 /\ w[7] = outer.r7 /\ w[PC] = ret
  BY <1>7 DEF Finish, LR, PC
<1> HIDE DEF w
<1>9. ret \in Nat /\ ret % 2 = 1 /\ f.pc \in Nat /\ f.pc % 2 = 0
  BY Addresses DEF ret
<1>10. after = w
  <2>1. w[PC] >= 0
    BY <1>8, <1>9
  <2> QED  BY <2>1 DEF ExceptionReturn
<1> HIDE DEF after
<1>11. ~Same(f.pc, after[PC])
  BY <1>8, <1>9, <1>10 DEF Same
<1>12. UnwindFrame(f) = [more  |-> TRUE,
                         frame |-> [fp |-> after[7], sp |-> after[SP], lr |-> after[LR], pc |-> after[PC]]]
  <2> DEFINE entry == Index[SearchIndex(f.pc)]
  <2>1. entry = F
    BY <1>4 DEF F
  <2>2. UnwindFrame(f) =
          CASE entry.insn = << >>  -> [more |-> FALSE, frame |-> f]
            [] Bytes(entry) = << >> \/ res.how = "refused" -> [more |-> TRUE, frame |-> f]
            [] Same(f.pc, after[PC]) -> [more |-> FALSE, frame |-> f]
            [] OTHER -> [more  |-> TRUE,
                         frame |-> [fp |-> after[7], sp |-> after[SP], lr |-> after[LR], pc |-> after[PC]]]
    BY <2>1 DEF UnwindFrame, after, w, res, v
  <2> HIDE DEF entry
  <2> QED  BY <1>7, <1>11, <2>1, <2>2
<1> QED  BY <1>8, <1>10, <1>12 DEF outer, L, n, ret

(* Where the program counter of a frame is searched: in the function that  *)
(* was called, or in task_end after the last.                              *)
Caller(chain, n) == IF n < Len(chain) THEN chain[n + 1] ELSE TaskEnd
At(chain, n)     == IF n = 0 THEN Inside(chain[1]) ELSE ReturnsTo(chain, n)

LEMMA EntryIs ==
  ASSUME Compiled, NEW chain, IsChain(chain), NEW n \in 0 .. Len(chain)
  PROVE  LET pc == At(chain, n)
             addr == pc - (pc % 2) IN
         /\ pc \in Nat /\ pc > 1
         /\ n < Len(chain) => addr = Inside(chain[n + 1])
         /\ [address |-> addr, function |-> Index[SearchIndex(pc)].start] = Expected(chain)[n + 1]
<1> DEFINE m == Len(chain)
           pc == At(chain, n)
           addr == pc - (pc % 2)
           c == Caller(chain, n)
<1>1. m \in Nat /\ m > 0 /\ n \in Nat /\ n <= m /\ n + 1 \in 1 .. m + 1
  BY DEF IsChain
<1>2. CASE n < m
  <2>1. n + 1 \in 1 .. m /\ n + 1 <= m /\ c = chain[n + 1] /\ 1 \in 1 .. m
    BY <1>1, <1>2 DEF Caller
  <2>2. /\ c \in Functions /\ InFunction(Inside(c), c)
        /\ Inside(c) \in Nat /\ Inside(c) > 1 /\ Inside(c) % 2 = 0
    BY <2>1, Addresses
  <2>3. pc = Inside(c) \/ pc = Inside(c) + 1
    <3>1. CASE n = 0
      BY <2>1, <3>1 DEF At
    <3>2. CASE n # 0
      <4>1. n \in 1 .. m
        BY <1>1, <3>2
      <4>2. ReturnsTo(chain, n) = Inside(chain[n + 1]) + 1
        BY <1>2, <4>1, Addresses
      <4> QED  BY <2>1, <3>2, <4>2 DEF At
    <3> QED  BY <3>1, <3>2
  <2>4. addr = Inside(c) /\ pc \in Nat /\ pc > 1
    <3> HIDE DEF pc, c
    <3> DEFINE i == Inside(c)
    <3>1. (i + 1) % 2 = 1 /\ i \in Nat /\ i > 1 /\ i % 2 = 0 /\ (pc = i \/ pc = i + 1)
      BY <2>2, <2>3
    <3> HIDE DEF i
    <3>2. pc - (pc % 2) = i /\ pc \in Nat /\ pc > 1
      BY <3>1
    <3> QED  BY <3>2 DEF i
  <2>5. InFunction(pc, c)
    <3> HIDE DEF pc, c
    <3> DEFINE s == Index[c].start
    <3>1. s \in Nat /\ c \in Int /\ c >= 1 /\ Len(Index) \in Nat
      BY <2>2 DEF Compiled, IndexOrdered, Functions
    <3>2. c < Len(Index) => c + 1 \in Functions /\ c < c + 1
      BY <3>1 DEF Functions
    <3>3. c < Len(Index) => s + 3 < Index[c + 1].start /\ Index[c + 1].start \in Nat
      BY <2>2, <3>2 DEF Compiled, IndexOrdered
    <3>4. pc = s + 2 \/ pc = (s + 2) + 1
      BY <2>3 DEF Inside
    <3> HIDE DEF s
    <3>5. pc \in Int /\ s <= pc /\ (c < Len(Index) => pc < Index[c + 1].start)
      BY <3>1, <3>3, <3>4
    <3> QED  BY <2>2, <3>5 DEF InFunction, s
  <2>6. SearchIndex(pc) = c
    BY <2>5, SearchFinds DEF Compiled
  <2>7. Expected(chain)[n + 1] = [address |-> Inside(c), function |-> Index[c].start]
    BY <1>1, <2>1 DEF Expected
  <2> HIDE DEF addr
  <2>8. [address |-> addr, function |-> Index[SearchIndex(pc)].start] = Expected(chain)[n + 1]
    BY <2>4, <2>6, <2>7
  <2>9. n < Len(chain) => addr = Inside(chain[n + 1])
    BY <2>1, <2>4
  <2> HIDE DEF pc
  <2> QED  BY <2>4, <2>8, <2>9 DEF addr, pc
<1>3. CASE n = m
  <2>1. m \in 1 .. m /\ ~(n < m) /\ n # 0 /\ c = TaskEnd
    BY <1>1, <1>3 DEF Caller
  <2>2. pc = ReturnsTo(chain, m)
    BY <1>3, <2>1 DEF At
  <2> DEFINE s == Index[TaskEnd].start
  <2>3. pc = s + 1 /\ pc \in Nat /\ pc > 1
    BY <2>1, <2>2, Addresses
  <2>4. TaskEnd \in Functions /\ TaskEnd = Len(Index) /\ Len(Index) \in Nat
    BY DEF TaskEnd, Functions, Compiled, IndexOrdered
  <2>5. s \in Nat /\ s % 2 = 0
    BY <2>4 DEF Compiled, IndexOrdered
  <2> HIDE DEF pc, s
  <2>6. addr = s /\ pc \in Int /\ s <= pc
    BY <2>3, <2>5
  <2>7. InFunction(pc, TaskEnd)
    BY <2>4, <2>6 DEF InFunction, s
  <2>8. SearchIndex(pc) = TaskEnd
    BY <2>7, SearchFinds DEF Compiled
  <2>9. Expected(chain)[n + 1] = [address |-> s, function |-> s]
    <3>1. ~(n + 1 <= Len(chain)) /\ n + 1 \in 1 .. Len(chain) + 1
      BY <1>1, <1>3
    <3> QED  BY <3>1 DEF Expected, s
  <2> HIDE DEF addr
  <2>10. [address |-> addr, function |-> Index[SearchIndex(pc)].start] = Expected(chain)[n + 1]
    BY <2>6, <2>8, <2>9 DEF s
  <2>11. ~(n < Len(chain))
    BY <2>1
  <2> QED  BY <2>3, <2>10, <2>11 DEF addr, pc
<1> QED  BY <1>1, <1>2, <1>3

(* After n turns the entries are the first n expected, and the frame is    *)
(* that of the next call: its r7, and where it goes on.                    *)
TraceInv ==
  LET n == Len(entries)
      m == Len(calls)
  IN  /\ calls \in Chains /\ stack = Entered(calls).words
      /\ \E S : entries \in Seq(S)
      /\ n <= Frames
      /\ \A i \in 1 .. n : i <= m + 1 => entries[i] = Expected(calls)[i]
      /\ finished => n >= m + 1 \/ n = Frames
      /\ ~finished =>
           /\ n < Frames
           /\ n <= m => frame.pc = At(calls, n)
           /\ n < m => /\ frame = [fp |-> frame.fp, sp |-> frame.sp, lr |-> frame.lr, pc |-> frame.pc]
                       /\ frame.fp = AfterCalls(calls)[m - n].r7
           /\ n = 0 => frame.lr = ReturnsTo(calls, 1)

LEMMA TraceStarts == Compiled /\ TraceInit => TraceInv
<1> SUFFICES ASSUME Compiled, TraceInit PROVE TraceInv
  OBVIOUS
<1> DEFINE now == Entered(calls)
           m   == Len(calls)
           L   == AfterCalls(calls)
<1>1. /\ calls \in Chains /\ stack = now.words /\ entries = << >> /\ finished = FALSE
      /\ frame = [fp |-> now.r7, sp |-> now.sp - 32, lr |-> now.lr, pc |-> Inside(Head(calls))]
  BY DEF TraceInit
<1>2. IsChain(calls) /\ m \in Nat /\ m > 0
  BY <1>1 DEF Compiled, IsChain
<1>3. Head(calls) = calls[1]
  OBVIOUS
<1>4. now.lr = ReturnsTo(calls, 1)
  <2>1. /\ \A k \in 1 .. m : L[k] = After(calls, k, L[k - 1])
        /\ \A k \in 0 .. m : LevelTyped(L[k])
    BY <1>2, Levels
  <2>2. m \in 1 .. m /\ m - 1 \in 0 .. m /\ m - m + 1 = 1
    BY <1>2
  <2>3. now = L[m]
    BY DEF Entered
  <2> HIDE DEF now, L, m
  <2>4. now = After(calls, m, L[m - 1]) /\ LevelTyped(L[m - 1])
    BY <2>1, <2>2, <2>3
  <2>5. After(calls, m, L[m - 1]) = Pushed(Index[calls[1]], L[m - 1], ReturnsTo(calls, 1))
    BY <2>2 DEF After, m
  <2>6. Saves(Index[calls[1]])
    BY <1>2, KindsSave DEF IsChain, m
  <2> QED  BY <2>4, <2>5, <2>6, PushedIs
<1>5. now.r7 = L[m - 0].r7
  BY <1>2 DEF Entered
<1>6. Len(entries) = 0 /\ entries \in Seq({})
  BY <1>1
<1>7. Frames \in Nat /\ Frames > 0
  BY DEF Compiled
<1>8. /\ frame.fp = now.r7 /\ frame.lr = now.lr /\ frame.pc = Inside(calls[1])
      /\ frame = [fp |-> frame.fp, sp |-> frame.sp, lr |-> frame.lr, pc |-> frame.pc]
  BY <1>1, <1>3
<1>9. At(calls, 0) = Inside(calls[1])
  BY DEF At
<1> HIDE DEF now, L, m
<1>10. /\ Len(entries) <= Frames /\ Len(entries) < Frames
       /\ \A i \in 1 .. Len(entries) : i <= Len(calls) + 1 => entries[i] = Expected(calls)[i]
  BY <1>6, <1>7
<1>11. frame.pc = At(calls, Len(entries)) /\ frame.lr = ReturnsTo(calls, 1)
  BY <1>4, <1>6, <1>8, <1>9
<1>12. frame.fp = AfterCalls(calls)[Len(calls) - Len(entries)].r7
  BY <1>5, <1>6, <1>8 DEF L, m
<1> QED  BY <1>1, <1>6, <1>8, <1>10, <1>11, <1>12 DEF now, TraceInv

LEMMA TraceStep == Compiled /\ TraceInv /\ [TraceNext]_traceVars => TraceInv'
<1> SUFFICES ASSUME Compiled, TraceInv, [TraceNext]_traceVars PROVE TraceInv'
  OBVIOUS
<1> DEFINE n == Len(entries)
           m == Len(calls)
<1>1. CASE UNCHANGED traceVars
  BY <1>1 DEF TraceInv, traceVars
<1>2. CASE TraceNext
  <2>1. calls' = calls /\ stack' = stack /\ ~finished
    BY <1>2 DEF TraceNext
  <2>2. IsChain(calls) /\ m \in Nat /\ m > 0
    BY DEF TraceInv, Compiled, IsChain
  <2>3. PICK S : entries \in Seq(S)
    BY DEF TraceInv
  <2>4. n \in Nat /\ n < Frames /\ Frames \in Nat
    BY <2>1, <2>3 DEF TraceInv, Compiled
  <2>5. ASSUME NEW e, entries' = Append(entries, e),
               n <= m => e = Expected(calls)[n + 1]
        PROVE  /\ \E T : entries' \in Seq(T)
               /\ Len(entries') = n + 1 /\ n + 1 <= Frames
               /\ \A i \in 1 .. n + 1 : i <= m + 1 => entries'[i] = Expected(calls)[i]
    <3>1. entries \in Seq(S \cup {e}) /\ e \in S \cup {e}
      BY <2>3
    <3>2. /\ entries' \in Seq(S \cup {e}) /\ Len(entries') = n + 1
          /\ \A i \in 1 .. n : entries'[i] = entries[i]
          /\ entries'[n + 1] = e
      BY <2>5, <3>1, AppendProperties
    <3>3. \A i \in 1 .. n : i <= m + 1 => entries[i] = Expected(calls)[i]
      BY DEF TraceInv
    <3> HIDE DEF n, m
    <3>4. ASSUME NEW i \in 1 .. n + 1, i <= m + 1 PROVE entries'[i] = Expected(calls)[i]
      <4>1. CASE i = n + 1
        <5>1. n <= m
          BY <2>2, <2>4, <3>4, <4>1
        <5> QED  BY <2>5, <3>2, <4>1, <5>1
      <4>2. CASE i # n + 1
        <5>1. i \in 1 .. n
          BY <2>4, <4>2
        <5> QED  BY <3>2, <3>3, <3>4, <5>1
      <4> QED  BY <4>1, <4>2
    <3>5. n + 1 <= Frames
      BY <2>4
    <3> QED  BY <3>2, <3>4, <3>5
  <2>6. n <= m => frame.pc = At(calls, n) /\ n \in 0 .. m
    BY <2>1, <2>2, <2>4 DEF TraceInv
  <2>7. CASE frame.pc \in {0, 1}
    <3>1. ~(n <= m)
      <4> SUFFICES ASSUME n <= m PROVE FALSE
        OBVIOUS
      <4>1. frame.pc \in Nat /\ frame.pc > 1
        BY <2>2, <2>6, EntryIs
      <4> QED  BY <2>7, <4>1
    <3>2. entries' = Append(entries, NoCaller) /\ finished' = TRUE
      BY <1>2, <2>7 DEF TraceNext
    <3>3. /\ \E T : entries' \in Seq(T)
          /\ Len(entries') = n + 1 /\ n + 1 <= Frames
          /\ \A i \in 1 .. n + 1 : i <= m + 1 => entries'[i] = Expected(calls)[i]
      BY <2>5, <3>1, <3>2
    <3>4. n + 1 >= m + 1
      BY <2>2, <2>4, <3>1
    <3>5. calls \in Chains /\ stack = Entered(calls).words
      BY DEF TraceInv
    <3> HIDE DEF n
    <3> QED  BY <2>1, <3>2, <3>3, <3>4, <3>5 DEF TraceInv
  <2>8. CASE frame.pc \notin {0, 1}
    <3> DEFINE pc   == frame.pc - (frame.pc % 2)
               f    == [frame EXCEPT !.pc = pc]
               later == UnwindFrame(f)
               e    == [address |-> pc, function |-> Index[SearchIndex(frame.pc)].start]
    <3>1. /\ entries' = Append(entries, e) /\ frame' = later.frame
          /\ finished' = (~later.more \/ Len(entries') >= Frames)
      BY <1>2, <2>8 DEF TraceNext
    <3>2. n <= m => e = Expected(calls)[n + 1]
      BY <2>2, <2>6, EntryIs
    <3> HIDE DEF e
    <3>3. /\ \E T : entries' \in Seq(T)
          /\ Len(entries') = n + 1 /\ n + 1 <= Frames
          /\ \A i \in 1 .. n + 1 : i <= m + 1 => entries'[i] = Expected(calls)[i]
      BY <2>5, <3>1, <3>2
    <3>4. calls \in Chains /\ stack = Entered(calls).words
      BY DEF TraceInv
    <3>7. finished' <=> (~later.more \/ n + 1 >= Frames)
      <4> HIDE DEF later, n
      <4>1. finished' = (~later.more \/ n + 1 >= Frames)
        BY <3>1, <3>3
      <4> QED  BY <4>1, Zenon
    <3>5. CASE n < m
      <4>1. n + 1 \in 1 .. m /\ m - (n + 1) + 1 = m - n /\ n <= m /\ (n + 1 = 1 => n = 0)
        BY <2>2, <2>4, <3>5
      <4>2. /\ frame = [fp |-> frame.fp, sp |-> frame.sp, lr |-> frame.lr, pc |-> frame.pc]
            /\ frame.fp = AfterCalls(calls)[m - n].r7
            /\ n = 0 => frame.lr = ReturnsTo(calls, 1)
        BY <2>1, <3>5 DEF TraceInv
      <4>3. pc = Inside(calls[n + 1])
        BY <2>2, <2>6, <3>5, <4>1, EntryIs
      <4> HIDE DEF pc
      <4>4. f = [fp |-> frame.fp, sp |-> frame.sp, lr |-> frame.lr, pc |-> pc]
        BY <4>2
      <4> HIDE DEF f
      <4>5. f.fp = frame.fp /\ f.lr = frame.lr /\ f.pc = pc
        BY <4>4
      <4> DEFINE j == n + 1
      <4>6. /\ j \in 1 .. Len(calls) /\ f.fp = AfterCalls(calls)[Len(calls) - j + 1].r7
            /\ f.pc = Inside(calls[j]) /\ (j = 1 => f.lr = ReturnsTo(calls, 1))
        BY <4>1, <4>2, <4>3, <4>5
      <4> HIDE DEF j, later
      <4>7. LET u == UnwindFrame(f) IN
            /\ u.more = TRUE /\ u.frame.fp = AfterCalls(calls)[Len(calls) - j].r7
            /\ u.frame.pc = ReturnsTo(calls, j)
            /\ u.frame = [fp |-> u.frame.fp, sp |-> u.frame.sp, lr |-> u.frame.lr, pc |-> u.frame.pc]
        BY <2>2, <3>4, <4>6, UnwindsTo
      <4>8. /\ later.more = TRUE /\ frame'.fp = AfterCalls(calls)[m - (n + 1)].r7
            /\ frame'.pc = ReturnsTo(calls, n + 1)
            /\ frame' = [fp |-> frame'.fp, sp |-> frame'.sp, lr |-> frame'.lr, pc |-> frame'.pc]
        BY <3>1, <4>7 DEF later, j
      <4>9. At(calls, n + 1) = ReturnsTo(calls, n + 1) /\ n + 1 # 0
        BY <2>4 DEF At
      <4>10. finished' => n + 1 = Frames
        BY <2>4, <3>7, <4>8
      <4>11. ~finished' => n + 1 < Frames
        BY <2>4, <3>7, <4>8
      <4> HIDE DEF n
      <4> QED  BY <2>1, <3>3, <3>4, <4>8, <4>9, <4>10, <4>11 DEF TraceInv
    <3>6. CASE ~(n < m)
      <4>1. n + 1 >= m + 1 /\ ~(n + 1 <= m) /\ ~(n + 1 < m) /\ n + 1 # 0
        BY <2>2, <2>4, <3>6
      <4>2. ~finished' => n + 1 < Frames
        BY <2>4, <3>7
      <4> HIDE DEF n
      <4> QED  BY <2>1, <3>3, <3>4, <4>1, <4>2 DEF TraceInv
    <3> QED  BY <3>5, <3>6
  <2> QED  BY <2>7, <2>8
<1> QED  BY <1>1, <1>2

LEMMA TraceInvShows == Compiled /\ TraceInv => CallersListed
<1> SUFFICES ASSUME Compiled, TraceInv PROVE CallersListed
  OBVIOUS
<1>1. PICK S : entries \in Seq(S)
  BY DEF TraceInv
<1>2. Len(entries) \in Nat /\ DOMAIN entries = 1 .. Len(entries)
  BY <1>1
<1>3. Len(calls) \in Nat
  BY DEF TraceInv, Compiled, IsChain
<1>4. Len(Expected(calls)) = Len(calls) + 1
  BY <1>3 DEF Expected
<1> QED  BY <1>2, <1>4 DEF TraceInv, CallersListed

(* For every program compiled as gcc compiles, every depth of calls and    *)
(* every size of the buffer: the listing begins with the calls that were   *)
(* made, in order, and holds them all if they fit (diag/backtrace.c).      *)
THEOREM CallersFound ==
  ASSUME Compiled
  PROVE  TraceSpec => []CallersListed
<1>1. TraceInit => TraceInv
  BY TraceStarts
<1>2. TraceInv /\ [TraceNext]_traceVars => TraceInv'
  BY TraceStep
<1>3. TraceInv => CallersListed
  BY TraceInvShows
<1> QED  BY <1>1, <1>2, <1>3, PTL DEF TraceSpec

=============================================================================
