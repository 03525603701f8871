--------------------------- MODULE TaskListsProofs ---------------------------
(***************************************************************************)
(* What the list operations of TaskLists return, preserve and bound.       *)
(***************************************************************************)
EXTENDS TaskLists, SequenceTheorems, WellFoundedInduction, TLAPS

(* The least-number principle, in a form the provers can apply.            *)
LEMMA LeastElement ==
  ASSUME NEW S, S \subseteq Nat, S # {}
  PROVE  \E n \in S : \A k \in S : n <= k
<1> DEFINE LT == {ss \in Nat \X Nat : ss[1] < ss[2]}
<1>1. IsWellFoundedOn(LT, Nat)
  BY NatLessThanWellFounded DEF OpToRel
<1>2. ASSUME NEW k \in Nat, NEW n \in Nat, k < n
      PROVE  <<k, n>> \in LT
  BY <1>2
<1> HIDE DEF LT
<1>3. PICK n \in S : \A k \in S : ~(<<k, n>> \in LT)
  BY <1>1, WFMin, Zenon
<1>4. \A k \in S : ~(k < n)
  BY <1>2, <1>3
<1> QED
  BY <1>4

(* InsertAt, position by position.                                         *)
LEMMA InsertAtProperties ==
  ASSUME NEW S, NEW q \in Seq(S), NEW t \in S, NEW p \in 1 .. Len(q) + 1
  PROVE  /\ InsertAt(q, p, t) \in Seq(S)
         /\ Len(InsertAt(q, p, t)) = Len(q) + 1
         /\ \A k \in 1 .. p - 1 : InsertAt(q, p, t)[k] = q[k]
         /\ InsertAt(q, p, t)[p] = t
         /\ \A k \in p + 1 .. Len(q) + 1 : InsertAt(q, p, t)[k] = q[k - 1]
<1> DEFINE before == SubSeq(q, 1, p - 1)
           after  == SubSeq(q, p, Len(q))
           front  == before \o <<t>>
<1>1. /\ before \in Seq(S) /\ Len(before) = p - 1
      /\ \A i \in 1 .. p - 1 : before[i] = q[i]
  BY SubSeqProperties
<1>2. /\ after \in Seq(S) /\ Len(after) = Len(q) - p + 1
      /\ \A i \in 1 .. Len(q) - p + 1 : after[i] = q[p + i - 1]
  BY SubSeqProperties
<1>3. <<t>> \in Seq(S) /\ Len(<<t>>) = 1 /\ <<t>>[1] = t
  OBVIOUS
<1> HIDE DEF before, after
<1>4. /\ front \in Seq(S) /\ Len(front) = p
      /\ \A i \in 1 .. p : front[i] = IF i < p THEN q[i] ELSE t
  BY <1>1, <1>3, ConcatProperties
<1> HIDE DEF front
<1>5. /\ front \o after \in Seq(S)
      /\ Len(front \o after) = Len(front) + Len(after)
      /\ \A i \in 1 .. Len(front) + Len(after) :
           (front \o after)[i] = IF i <= Len(front) THEN front[i]
                                 ELSE after[i - Len(front)]
  BY <1>2, <1>4, ConcatProperties
<1>6. InsertAt(q, p, t) = front \o after
  BY DEF InsertAt, front, before, after
<1>7. Len(q) \in Nat
  BY LenProperties
<1>8. ASSUME NEW k \in 1 .. p - 1
      PROVE  (front \o after)[k] = q[k]
  <2>1. k \in 1 .. Len(front) + Len(after) /\ k <= Len(front) /\ k < p
    BY <1>2, <1>4, <1>7
  <2>2. (front \o after)[k] = front[k]
    BY <1>5, <2>1
  <2>3. front[k] = q[k]
    BY <1>4, <2>1
  <2> QED
    BY <2>2, <2>3
<1>9. (front \o after)[p] = t
  <2>1. p \in 1 .. Len(front) + Len(after) /\ p <= Len(front) /\ ~(p < p)
    BY <1>2, <1>4, <1>7
  <2>2. (front \o after)[p] = front[p]
    BY <1>5, <2>1
  <2>3. front[p] = t
    BY <1>4, <2>1
  <2> QED
    BY <2>2, <2>3
<1>10. ASSUME NEW k \in p + 1 .. Len(q) + 1
       PROVE  (front \o after)[k] = q[k - 1]
  <2>1. k - p \in 1 .. Len(q) - p + 1 /\ p + (k - p) - 1 = k - 1
    BY <1>7
  <2>2. after[k - p] = q[k - 1]
    BY <1>2, <2>1
  <2>3. k \in 1 .. Len(front) + Len(after) /\ ~(k <= Len(front))
    BY <1>2, <1>4, <1>7
  <2>4. (front \o after)[k] = after[k - Len(front)]
    BY <1>5, <2>3
  <2>5. Len(front) = p
    BY <1>4
  <2> QED
    BY <2>2, <2>4, <2>5
<1> QED
  BY <1>2, <1>4, <1>5, <1>6, <1>7, <1>8, <1>9, <1>10

(* RemoveAt, position by position.                                         *)
LEMMA RemoveAtProperties ==
  ASSUME NEW S, NEW q \in Seq(S), NEW p \in 1 .. Len(q)
  PROVE  /\ RemoveAt(q, p) \in Seq(S)
         /\ Len(RemoveAt(q, p)) = Len(q) - 1
         /\ \A k \in 1 .. p - 1 : RemoveAt(q, p)[k] = q[k]
         /\ \A k \in p .. Len(q) - 1 : RemoveAt(q, p)[k] = q[k + 1]
<1> DEFINE before == SubSeq(q, 1, p - 1)
           after  == SubSeq(q, p + 1, Len(q))
<1>1. /\ before \in Seq(S) /\ Len(before) = p - 1
      /\ \A i \in 1 .. p - 1 : before[i] = q[i]
  BY SubSeqProperties
<1>2. /\ after \in Seq(S) /\ Len(after) = Len(q) - p
      /\ \A i \in 1 .. Len(q) - p : after[i] = q[(p + 1) + i - 1]
  BY SubSeqProperties
<1> HIDE DEF before, after
<1>3. /\ before \o after \in Seq(S)
      /\ Len(before \o after) = Len(before) + Len(after)
      /\ \A i \in 1 .. Len(before) + Len(after) :
           (before \o after)[i] = IF i <= Len(before) THEN before[i]
                                  ELSE after[i - Len(before)]
  BY <1>1, <1>2, ConcatProperties
<1>4. RemoveAt(q, p) = before \o after
  BY DEF RemoveAt, before, after
<1>5. Len(q) \in Nat
  BY LenProperties
<1>6. Len(before) + Len(after) = Len(q) - 1
  BY <1>1, <1>2, <1>5
<1>7. ASSUME NEW k \in 1 .. p - 1
      PROVE  (before \o after)[k] = q[k]
  <2>1. k \in 1 .. Len(before) + Len(after) /\ k <= Len(before)
    BY <1>1, <1>2, <1>5
  <2>2. (before \o after)[k] = before[k]
    BY <1>3, <2>1
  <2>3. before[k] = q[k]
    BY <1>1
  <2> QED
    BY <2>2, <2>3
<1>8. ASSUME NEW k \in p .. Len(q) - 1
      PROVE  (before \o after)[k] = q[k + 1]
  <2>1. /\ k - (p - 1) \in 1 .. Len(q) - p
        /\ (p + 1) + (k - (p - 1)) - 1 = k + 1
    BY <1>5
  <2>2. after[k - (p - 1)] = q[k + 1]
    BY <1>2, <2>1
  <2>3. k \in 1 .. Len(before) + Len(after) /\ ~(k <= Len(before))
    BY <1>1, <1>2, <1>5
  <2>4. (before \o after)[k] = after[k - Len(before)]
    BY <1>3, <2>3
  <2>5. Len(before) = p - 1
    BY <1>1
  <2> QED
    BY <2>2, <2>4, <2>5
<1> QED
  BY <1>3, <1>4, <1>6, <1>7, <1>8

(* scheduler_insert_condition: where list_insert_condition stops.          *)
LEMMA InsertionPointProperties ==
  ASSUME NEW S, NEW q \in Seq(S), NEW t \in S
  PROVE  /\ InsertionPoint(q, t) \in 1 .. Len(q) + 1
         /\ \A i \in 1 .. InsertionPoint(q, t) - 1 : ~Outranks(t, q[i])
         /\ InsertionPoint(q, t) <= Len(q) =>
              Outranks(t, q[InsertionPoint(q, t)])
<1> DEFINE lower == {i \in DOMAIN q : Outranks(t, q[i])}
<1>1. Len(q) \in Nat /\ DOMAIN q = 1 .. Len(q)
  BY LenProperties
<1>2. CASE lower = {}
  <2>1. InsertionPoint(q, t) = Len(q) + 1
    BY <1>2 DEF InsertionPoint
  <2> QED
    BY <1>1, <1>2, <2>1
<1>3. CASE lower # {}
  <2>1. lower \subseteq Nat
    BY <1>1
  <2>2. \E i \in lower : \A j \in lower : i <= j
    BY <1>3, <2>1, LeastElement
  <2>3. InsertionPoint(q, t) = CHOOSE i \in lower : \A j \in lower : i <= j
    BY <1>3 DEF InsertionPoint
  <2>4. /\ InsertionPoint(q, t) \in lower
        /\ \A j \in lower : InsertionPoint(q, t) <= j
    BY <2>2, <2>3
  <2>5. ASSUME NEW i \in 1 .. InsertionPoint(q, t) - 1
        PROVE  ~Outranks(t, q[i])
    BY <1>1, <2>4
  <2> QED
    BY <1>1, <2>4, <2>5
<1> QED
  BY <1>2, <1>3

(***************************************************************************)
(* scheduler_reschedule_task's insertion keeps the ready list a list of    *)
(* its tasks and the new one, each once, in the order of priorities.       *)
(***************************************************************************)
LEMMA ScheduledProperties ==
  ASSUME NEW S, NEW q \in Seq(S), NEW t \in S, \A u \in S : Prio[u] \in Int
  PROVE  /\ Scheduled(q, t) \in Seq(S)
         /\ Members(Scheduled(q, t)) = Members(q) \cup {t}
         /\ NoDuplicates(q) /\ t \notin Members(q) =>
              NoDuplicates(Scheduled(q, t))
         /\ Sorted(q) => Sorted(Scheduled(q, t))
<1> DEFINE p == InsertionPoint(q, t)
           r == Scheduled(q, t)
<1>1. /\ Len(q) \in Nat /\ DOMAIN q = 1 .. Len(q)
      /\ \A i \in 1 .. Len(q) : q[i] \in S
  BY LenProperties, ElementOfSeq
<1>2. /\ p \in 1 .. Len(q) + 1
      /\ \A i \in 1 .. p - 1 : ~Outranks(t, q[i])
      /\ p <= Len(q) => Outranks(t, q[p])
  BY InsertionPointProperties
<1> HIDE DEF p
<1>3. /\ r \in Seq(S) /\ Len(r) = Len(q) + 1
      /\ \A k \in 1 .. p - 1 : r[k] = q[k]
      /\ r[p] = t
      /\ \A k \in p + 1 .. Len(q) + 1 : r[k] = q[k - 1]
  <2>1. r = InsertAt(q, p, t)
    BY DEF Scheduled, p
  <2>2. p \in 1 .. Len(q) + 1
    BY <1>2
  <2> HIDE DEF r
  <2>3. /\ InsertAt(q, p, t) \in Seq(S)
        /\ Len(InsertAt(q, p, t)) = Len(q) + 1
        /\ \A k \in 1 .. p - 1 : InsertAt(q, p, t)[k] = q[k]
        /\ InsertAt(q, p, t)[p] = t
        /\ \A k \in p + 1 .. Len(q) + 1 : InsertAt(q, p, t)[k] = q[k - 1]
    BY <2>2, InsertAtProperties
  <2> QED
    BY <2>1, <2>3, Zenon
<1>4. DOMAIN r = 1 .. Len(q) + 1
  BY <1>3, LenProperties
<1> HIDE DEF r
<1>5. Members(r) = Members(q) \cup {t}
  <2>1. ASSUME NEW k \in 1 .. Len(q) + 1
        PROVE  r[k] \in Members(q) \cup {t}
    <3>1. CASE k < p
      BY <1>1, <1>2, <1>3, <3>1 DEF Members
    <3>2. CASE k = p
      BY <1>1, <1>2, <1>3, <3>2
    <3>3. CASE k > p
      <4>1. k - 1 \in 1 .. Len(q) /\ r[k] = q[k - 1]
        BY <1>1, <1>2, <1>3, <3>3
      <4> QED
        BY <1>1, <4>1 DEF Members
    <3> QED
      BY <1>1, <1>2, <3>1, <3>2, <3>3
  <2>2. ASSUME NEW i \in 1 .. Len(q)
        PROVE  q[i] \in Members(r)
    <3>1. CASE i < p
      BY <1>1, <1>2, <1>3, <1>4, <3>1 DEF Members
    <3>2. CASE i >= p
      <4>1. i + 1 \in 1 .. Len(q) + 1 /\ r[i + 1] = q[i]
        BY <1>1, <1>2, <1>3, <3>2
      <4> QED
        BY <1>4, <4>1 DEF Members
    <3> QED
      BY <1>1, <1>2, <3>1, <3>2
  <2>3. t \in Members(r)
    BY <1>1, <1>2, <1>3, <1>4 DEF Members
  <2> QED
    BY <1>1, <1>4, <2>1, <2>2, <2>3 DEF Members
<1>6. ASSUME NoDuplicates(q), t \notin Members(q)
      PROVE  NoDuplicates(r)
  <2>1. \A i \in 1 .. Len(q) : q[i] # t
    BY <1>1, <1>6 DEF Members
  <2>2. \A i, j \in 1 .. Len(q) : q[i] = q[j] => i = j
    BY <1>1, <1>6 DEF NoDuplicates
  <2>3. ASSUME NEW i \in 1 .. Len(q) + 1, NEW j \in 1 .. Len(q) + 1, r[i] = r[j]
        PROVE  i = j
    <3>1. /\ i < p => i \in 1 .. Len(q)
          /\ i > p => i - 1 \in 1 .. Len(q)
          /\ j < p => j \in 1 .. Len(q)
          /\ j > p => j - 1 \in 1 .. Len(q)
      BY <1>1, <1>2
    <3>2. /\ i < p => r[i] = q[i]
          /\ i = p => r[i] = t
          /\ i > p => r[i] = q[i - 1]
          /\ j < p => r[j] = q[j]
          /\ j = p => r[j] = t
          /\ j > p => r[j] = q[j - 1]
      BY <1>1, <1>2, <1>3
    <3>3. CASE i = p
      BY <1>1, <1>2, <2>1, <2>3, <3>1, <3>2, <3>3
    <3>4. CASE j = p
      BY <1>1, <1>2, <2>1, <2>3, <3>1, <3>2, <3>4
    <3>5. CASE i < p /\ j < p
      BY <2>2, <2>3, <3>1, <3>2, <3>5
    <3>6. CASE i < p /\ j > p
      <4>1. q[i] = q[j - 1] /\ i # j - 1
        BY <1>1, <1>2, <2>3, <3>2, <3>6
      <4> QED
        BY <2>2, <3>1, <3>6, <4>1
    <3>7. CASE i > p /\ j < p
      <4>1. q[i - 1] = q[j] /\ i - 1 # j
        BY <1>1, <1>2, <2>3, <3>2, <3>7
      <4> QED
        BY <2>2, <3>1, <3>7, <4>1
    <3>8. CASE i > p /\ j > p
      <4>1. q[i - 1] = q[j - 1]
        BY <1>1, <1>2, <2>3, <3>2, <3>8
      <4>2. i - 1 = j - 1
        BY <2>2, <3>1, <3>8, <4>1
      <4> QED
        BY <1>1, <4>2
    <3> QED
      BY <1>1, <1>2, <3>3, <3>4, <3>5, <3>6, <3>7, <3>8
  <2> QED
    BY <1>4, <2>3 DEF NoDuplicates
<1>7. ASSUME Sorted(q)
      PROVE  Sorted(r)
  <2>1. \A i, j \in 1 .. Len(q) : i < j => Prio[q[i]] >= Prio[q[j]]
    BY <1>1, <1>7 DEF Sorted
  <2>2. \A i \in 1 .. p - 1 : Prio[q[i]] >= Prio[t]
    BY <1>1, <1>2 DEF Outranks
  <2>3. \A i \in p .. Len(q) : Prio[t] >= Prio[q[i]]
    <3> SUFFICES ASSUME NEW i \in p .. Len(q)
                 PROVE  Prio[t] >= Prio[q[i]]
      OBVIOUS
    <3>1. p \in 1 .. Len(q) /\ i \in 1 .. Len(q) /\ p <= i
      BY <1>1, <1>2
    <3>2. Prio[t] > Prio[q[p]]
      BY <1>2, <3>1 DEF Outranks
    <3>3. Prio[q[p]] >= Prio[q[i]]
      BY <1>1, <2>1, <3>1
    <3> QED
      BY <1>1, <3>1, <3>2, <3>3
  <2>4. ASSUME NEW i \in 1 .. Len(q) + 1, NEW j \in 1 .. Len(q) + 1, i < j
        PROVE  Prio[r[i]] >= Prio[r[j]]
    <3>1. /\ i < p => i \in 1 .. p - 1 /\ i \in 1 .. Len(q)
          /\ i > p => i - 1 \in p .. Len(q) /\ i - 1 \in 1 .. Len(q)
          /\ j < p => j \in 1 .. p - 1 /\ j \in 1 .. Len(q)
          /\ j > p => j - 1 \in p .. Len(q) /\ j - 1 \in 1 .. Len(q)
      BY <1>1, <1>2
    <3>2. /\ i < p => r[i] = q[i]
          /\ i = p => r[i] = t
          /\ i > p => r[i] = q[i - 1]
          /\ j < p => r[j] = q[j]
          /\ j = p => r[j] = t
          /\ j > p => r[j] = q[j - 1]
      BY <1>1, <1>2, <1>3
    <3>3. CASE j < p
      BY <1>1, <1>2, <2>1, <2>4, <3>1, <3>2, <3>3
    <3>4. CASE j = p
      BY <1>1, <1>2, <2>2, <2>4, <3>1, <3>2, <3>4
    <3>5. CASE j > p /\ i < p
      <4>1. i < j - 1 \/ i = j - 1
        BY <1>1, <1>2, <3>5
      <4>2. r[i] = q[i] /\ r[j] = q[j - 1]
        BY <1>1, <1>2, <3>2, <3>5
      <4>3. Prio[q[i]] >= Prio[q[j - 1]]
        BY <1>1, <1>2, <2>1, <3>1, <3>5, <4>1
      <4> QED
        BY <4>2, <4>3
    <3>6. CASE j > p /\ i = p
      BY <1>1, <1>2, <2>3, <3>1, <3>2, <3>6
    <3>7. CASE j > p /\ i > p
      <4>1. r[i] = q[i - 1] /\ r[j] = q[j - 1] /\ i - 1 < j - 1
        BY <1>1, <1>2, <2>4, <3>2, <3>7
      <4> QED
        BY <2>1, <3>1, <3>7, <4>1
    <3> QED
      BY <1>1, <1>2, <3>3, <3>4, <3>5, <3>6, <3>7
  <2> QED
    BY <1>4, <2>4 DEF Sorted
<1> QED
  BY <1>3, <1>5, <1>6, <1>7 DEF r

(* What is left when the entry at a position is taken out.                 *)
LEMMA RemovalProperties ==
  ASSUME NEW S, NEW q \in Seq(S), NEW p \in 1 .. Len(q)
  PROVE  /\ RemoveAt(q, p) \in Seq(S)
         /\ Members(RemoveAt(q, p)) \subseteq Members(q)
         /\ Members(q) \subseteq Members(RemoveAt(q, p)) \cup {q[p]}
         /\ NoDuplicates(q) =>
              /\ NoDuplicates(RemoveAt(q, p))
              /\ q[p] \notin Members(RemoveAt(q, p))
         /\ Sorted(q) => Sorted(RemoveAt(q, p))
<1> DEFINE r == RemoveAt(q, p)
<1>1. Len(q) \in Nat /\ DOMAIN q = 1 .. Len(q) /\ p \in 1 .. Len(q)
  BY LenProperties
<1> HIDE DEF r
<1>2. /\ RemoveAt(q, p) \in Seq(S)
      /\ Len(RemoveAt(q, p)) = Len(q) - 1
      /\ \A k \in 1 .. p - 1 : RemoveAt(q, p)[k] = q[k]
      /\ \A k \in p .. Len(q) - 1 : RemoveAt(q, p)[k] = q[k + 1]
  BY RemoveAtProperties, Zenon
<1>3. /\ r \in Seq(S) /\ Len(r) = Len(q) - 1
      /\ \A k \in 1 .. p - 1 : r[k] = q[k]
      /\ \A k \in p .. Len(q) - 1 : r[k] = q[k + 1]
  BY <1>2, Zenon DEF r
<1>4. DOMAIN r = 1 .. Len(q) - 1
  BY <1>3, LenProperties
<1>5. ASSUME NEW k \in 1 .. Len(q) - 1
      PROVE  /\ k < p => k \in 1 .. Len(q) /\ r[k] = q[k]
             /\ k >= p => k + 1 \in 1 .. Len(q) /\ r[k] = q[k + 1]
  BY <1>1, <1>3
<1>6. Members(r) \subseteq Members(q)
  BY <1>1, <1>4, <1>5 DEF Members
<1>7. Members(q) \subseteq Members(r) \cup {q[p]}
  <2> SUFFICES ASSUME NEW i \in 1 .. Len(q), i # p
               PROVE  q[i] \in Members(r)
    BY <1>1 DEF Members
  <2>1. CASE i < p
    <3>1. i \in 1 .. p - 1 /\ i \in 1 .. Len(q) - 1
      BY <1>1, <2>1
    <3>2. r[i] = q[i]
      BY <1>3, <3>1
    <3> QED
      BY <1>4, <3>1, <3>2 DEF Members
  <2>2. CASE i > p
    <3>1. i - 1 \in p .. Len(q) - 1 /\ i - 1 \in 1 .. Len(q) - 1
      BY <1>1, <2>2
    <3>2. r[i - 1] = q[i]
      BY <1>1, <1>3, <3>1
    <3> QED
      BY <1>4, <3>1, <3>2 DEF Members
  <2> QED
    BY <1>1, <2>1, <2>2
<1>8. ASSUME NoDuplicates(q)
      PROVE  NoDuplicates(r) /\ q[p] \notin Members(r)
  <2>1. \A i, j \in 1 .. Len(q) : q[i] = q[j] => i = j
    BY <1>1, <1>8 DEF NoDuplicates
  <2>2. ASSUME NEW i \in 1 .. Len(q) - 1, NEW j \in 1 .. Len(q) - 1,
               r[i] = r[j]
        PROVE  i = j
    <3>1. CASE i < p /\ j < p
      BY <1>5, <2>1, <2>2, <3>1
    <3>2. CASE i < p /\ j >= p
      <4>1. q[i] = q[j + 1] /\ i # j + 1
        BY <1>1, <1>5, <2>2, <3>2
      <4> QED
        BY <1>5, <2>1, <3>2, <4>1
    <3>3. CASE i >= p /\ j < p
      <4>1. q[i + 1] = q[j] /\ i + 1 # j
        BY <1>1, <1>5, <2>2, <3>3
      <4> QED
        BY <1>5, <2>1, <3>3, <4>1
    <3>4. CASE i >= p /\ j >= p
      <4>1. i + 1 = j + 1
        BY <1>5, <2>1, <2>2, <3>4
      <4> QED
        BY <1>1, <4>1
    <3> QED
      BY <1>1, <3>1, <3>2, <3>3, <3>4
  <2>3. ASSUME NEW k \in 1 .. Len(q) - 1
        PROVE  r[k] # q[p]
    <3>1. CASE k < p
      BY <1>1, <1>5, <2>1, <3>1
    <3>2. CASE k >= p
      <4>1. k + 1 # p
        BY <1>1, <3>2
      <4> QED
        BY <1>1, <1>5, <2>1, <3>2, <4>1
    <3> QED
      BY <1>1, <3>1, <3>2
  <2> QED
    BY <1>4, <2>2, <2>3 DEF NoDuplicates, Members
<1>9. ASSUME Sorted(q)
       PROVE  Sorted(r)
  <2>1. \A i, j \in 1 .. Len(q) : i < j => Prio[q[i]] >= Prio[q[j]]
    BY <1>1, <1>9 DEF Sorted
  <2>2. ASSUME NEW i \in 1 .. Len(q) - 1, NEW j \in 1 .. Len(q) - 1, i < j
        PROVE  Prio[r[i]] >= Prio[r[j]]
    <3>1. CASE j < p
      BY <1>1, <1>5, <2>1, <2>2, <3>1
    <3>2. CASE i < p /\ j >= p
      <4>1. i < j + 1
        BY <1>1, <2>2
      <4> QED
        BY <1>5, <2>1, <3>2, <4>1
    <3>3. CASE i >= p
      <4>1. i + 1 < j + 1 /\ j >= p
        BY <1>1, <2>2, <3>3
      <4> QED
        BY <1>5, <2>1, <3>3, <4>1
    <3> QED
      BY <1>1, <3>1, <3>2, <3>3
  <2> QED
    BY <1>4, <2>2 DEF Sorted
<1> QED
  BY <1>3, <1>6, <1>7, <1>8, <1>9 DEF r

(***************************************************************************)
(* list_remove takes the task out of the list, and nothing else.           *)
(***************************************************************************)
LEMMA UnlinkedProperties ==
  ASSUME NEW S, NEW q \in Seq(S), NEW t
  PROVE  /\ Unlinked(q, t) \in Seq(S)
         /\ Members(Unlinked(q, t)) \subseteq Members(q)
         /\ Members(q) \subseteq Members(Unlinked(q, t)) \cup {t}
         /\ NoDuplicates(q) =>
              NoDuplicates(Unlinked(q, t)) /\ t \notin Members(Unlinked(q, t))
         /\ Sorted(q) => Sorted(Unlinked(q, t))
<1> DEFINE p == CHOOSE i \in DOMAIN q : q[i] = t
           r == Unlinked(q, t)
<1>1. Len(q) \in Nat /\ DOMAIN q = 1 .. Len(q)
  BY LenProperties
<1>2. CASE ~ \E i \in DOMAIN q : q[i] = t
  <2>1. r = q
    BY <1>2 DEF Unlinked
  <2> QED
    BY <1>2, <2>1 DEF Members
<1>3. CASE \E i \in DOMAIN q : q[i] = t
  <2>1. p \in 1 .. Len(q) /\ q[p] = t
    BY <1>1, <1>3
  <2>2. r = RemoveAt(q, p)
    BY <1>3 DEF Unlinked
  <2> HIDE DEF p, r
  <2> QED
    BY <2>1, <2>2, RemovalProperties DEF r
<1> QED
  BY <1>2, <1>3

(* list_removeFront.                                                       *)
LEMMA TailListProperties ==
  ASSUME NEW S, NEW q \in Seq(S), q # << >>
  PROVE  /\ Head(q) \in S /\ Head(q) \in Members(q)
         /\ Tail(q) \in Seq(S)
         /\ Members(q) = Members(Tail(q)) \cup {Head(q)}
         /\ NoDuplicates(q) =>
              NoDuplicates(Tail(q)) /\ Head(q) \notin Members(Tail(q))
         /\ Sorted(q) =>
              /\ Sorted(Tail(q))
              /\ \A t \in Members(Tail(q)) : Prio[Head(q)] >= Prio[t]
<1>1. Len(q) \in Nat \ {0} /\ DOMAIN q = 1 .. Len(q)
  BY EmptySeq, LenProperties
<1>2. Head(q) \in S /\ Head(q) = q[1]
  BY HeadTailProperties
<1>3. /\ Tail(q) \in Seq(S) /\ Len(Tail(q)) = Len(q) - 1
      /\ \A i \in 1 .. Len(q) - 1 : Tail(q)[i] = q[i + 1]
  BY HeadTailProperties
<1>4. DOMAIN Tail(q) = 1 .. Len(q) - 1
  BY <1>3, LenProperties
<1>5. \A i \in 1 .. Len(q) : i = 1 \/ (i - 1 \in 1 .. Len(q) - 1
                                         /\ Tail(q)[i - 1] = q[i])
  BY <1>1, <1>3
<1>6. \A i \in 1 .. Len(q) - 1 : i + 1 \in 1 .. Len(q) /\ i + 1 # 1
  BY <1>1
<1>7. Members(q) = Members(Tail(q)) \cup {Head(q)}
  <2>1. Members(q) \subseteq Members(Tail(q)) \cup {Head(q)}
    BY <1>1, <1>2, <1>4, <1>5 DEF Members
  <2>2. Members(Tail(q)) \subseteq Members(q)
    BY <1>1, <1>3, <1>4, <1>6 DEF Members
  <2>3. Head(q) \in Members(q)
    BY <1>1, <1>2 DEF Members
  <2> QED
    BY <2>1, <2>2, <2>3
<1>8. ASSUME NoDuplicates(q)
      PROVE  NoDuplicates(Tail(q)) /\ Head(q) \notin Members(Tail(q))
  <2>1. \A i, j \in 1 .. Len(q) : q[i] = q[j] => i = j
    BY <1>1, <1>8 DEF NoDuplicates
  <2>2. ASSUME NEW i \in 1 .. Len(q) - 1, NEW j \in 1 .. Len(q) - 1,
               Tail(q)[i] = Tail(q)[j]
        PROVE  i = j
    <3>1. i + 1 = j + 1
      BY <1>3, <1>6, <2>1, <2>2
    <3> QED
      BY <1>1, <3>1
  <2>3. \A i \in 1 .. Len(q) - 1 : Tail(q)[i] # q[1]
    BY <1>1, <1>3, <1>6, <2>1
  <2> QED
    BY <1>2, <1>4, <2>2, <2>3 DEF NoDuplicates, Members
<1>9. ASSUME Sorted(q)
      PROVE  /\ Sorted(Tail(q))
             /\ \A t \in Members(Tail(q)) : Prio[Head(q)] >= Prio[t]
  <2>1. \A i, j \in 1 .. Len(q) : i < j => Prio[q[i]] >= Prio[q[j]]
    BY <1>1, <1>9 DEF Sorted
  <2>2. \A i, j \in 1 .. Len(q) - 1 : i < j => i + 1 < j + 1
    BY <1>1
  <2>3. \A i \in 1 .. Len(q) - 1 : 1 < i + 1 /\ 1 \in 1 .. Len(q)
    BY <1>1
  <2> QED
    BY <1>2, <1>3, <1>4, <1>6, <2>1, <2>2, <2>3 DEF Sorted, Members
<1> QED
  BY <1>1, <1>2, <1>3, <1>7, <1>8, <1>9 DEF Members

(* list_addAtRear.                                                         *)
LEMMA AppendListProperties ==
  ASSUME NEW S, NEW q \in Seq(S), NEW t \in S
  PROVE  /\ Append(q, t) \in Seq(S)
         /\ Members(Append(q, t)) = Members(q) \cup {t}
         /\ NoDuplicates(q) /\ t \notin Members(q) =>
              NoDuplicates(Append(q, t))
<1>1. Len(q) \in Nat /\ DOMAIN q = 1 .. Len(q)
  BY LenProperties
<1>2. /\ Append(q, t) \in Seq(S) /\ Len(Append(q, t)) = Len(q) + 1
      /\ \A i \in 1 .. Len(q) : Append(q, t)[i] = q[i]
      /\ Append(q, t)[Len(q) + 1] = t
  BY AppendProperties
<1>3. DOMAIN Append(q, t) = 1 .. Len(q) + 1
  BY <1>2, LenProperties
<1>4. \A i \in 1 .. Len(q) + 1 : i \in 1 .. Len(q) \/ i = Len(q) + 1
  BY <1>1
<1>5. 1 .. Len(q) \subseteq 1 .. Len(q) + 1 /\ Len(q) + 1 \in 1 .. Len(q) + 1
  BY <1>1
<1> QED
  BY <1>1, <1>2, <1>3, <1>4, <1>5 DEF Members, NoDuplicates

(* Inserting after the last task is list_addAtRear.                        *)
LEMMA InsertAtEnd ==
  ASSUME NEW S, NEW q \in Seq(S), NEW t \in S
  PROVE  InsertAt(q, Len(q) + 1, t) = Append(q, t)
<1>1. Len(q) \in Nat /\ Len(q) + 1 \in 1 .. Len(q) + 1
  BY LenProperties
<1>2. /\ InsertAt(q, Len(q) + 1, t) \in Seq(S)
      /\ Len(InsertAt(q, Len(q) + 1, t)) = Len(q) + 1
      /\ \A k \in 1 .. Len(q) : InsertAt(q, Len(q) + 1, t)[k] = q[k]
      /\ InsertAt(q, Len(q) + 1, t)[Len(q) + 1] = t
  BY <1>1, InsertAtProperties
<1>3. /\ Append(q, t) \in Seq(S) /\ Len(Append(q, t)) = Len(q) + 1
      /\ \A i \in 1 .. Len(q) : Append(q, t)[i] = q[i]
      /\ Append(q, t)[Len(q) + 1] = t
  BY AppendProperties
<1>4. \A i \in 1 .. Len(q) + 1 : i \in 1 .. Len(q) \/ i = Len(q) + 1
  BY <1>1
<1> QED
  BY <1>2, <1>3, <1>4, SeqEqual

=============================================================================
