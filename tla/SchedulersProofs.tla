-------------------------- MODULE SchedulersProofs --------------------------
(***************************************************************************)
(* The two other schedulers, for any number of tasks and any table that    *)
(* has room for them: a ready task waits for every other one at most once, *)
(* the search never ends on an empty slot, and the processor stops by the  *)
(* known races only.                                                       *)
(***************************************************************************)
EXTENDS Schedulers, FiniteSetTheorems, TLAPS

(* For the least-number principle.                                         *)
Numbers == INSTANCE TaskListsProofs WITH Prio <- [t \in Task |-> 0]

Tasks == Cardinality(Task)

Linked == Thread \cup {Ready}

LEMMA Facts ==
  ASSUME SchedulersAssumption
  PROVE  /\ Tasks \in Nat /\ MaxTasks \in Nat /\ Tasks <= MaxTasks
         /\ IsFiniteSet(Task) /\ Main \in Task /\ Idle \notin Task
         /\ Thread = Task \cup {Idle} /\ Linked = Thread \cup {Ready}
         /\ Ready \notin Thread /\ NoTask \notin Thread
BY FS_CardinalityType DEF SchedulersAssumption, Tasks, Thread, Linked

(* As many different tasks as are counted are no more than there are.      *)
LEMMA Pigeons ==
  ASSUME SchedulersAssumption, NEW n \in Nat, NEW f \in [1 .. n -> Task],
         \A i, j \in 1 .. n : f[i] = f[j] => i = j
  PROVE  n <= Tasks
<1> SUFFICES ASSUME Tasks < n  PROVE FALSE
  BY Facts
<1>1. IsFiniteSet(1 .. n) /\ Cardinality(1 .. n) = n
  BY FS_Interval
<1>2. \E i, j \in 1 .. n : i # j /\ f[i] = f[j]
  BY <1>1, Facts, FS_PigeonHole DEF Tasks
<1> QED  BY <1>2

-----------------------------------------------------------------------------
(* The ready list is a ring: its head and, in order, the tasks linked from *)
(* it, each once; every other task is in no list.                          *)

Ring(nx, pv, n, r) ==
  /\ n \in Nat /\ r \in [0 .. n + 1 -> Linked]
  /\ r[0] = Ready /\ r[n + 1] = Ready
  /\ \A i \in 1 .. n : r[i] \in Task
  /\ \A i, j \in 1 .. n : r[i] = r[j] => i = j
  /\ \A i \in 0 .. n : nx[r[i]] = r[i + 1] /\ pv[r[i + 1]] = r[i]
  /\ \A t \in Task : (\A i \in 1 .. n : r[i] # t) => nx[t] = t /\ pv[t] = t

Links == [Linked -> Linked]

Added(r, n, t) ==
  [i \in 0 .. n + 2 |-> IF i <= n THEN r[i] ELSE IF i = n + 1 THEN t ELSE Ready]

Dropped(r, n, k) == [i \in 0 .. n |-> IF i < k THEN r[i] ELSE r[i + 1]]

LEMMA InRing ==
  ASSUME SchedulersAssumption, NEW nx, NEW pv, NEW n, NEW r, Ring(nx, pv, n, r),
         NEW t \in Task
  PROVE  nx[t] # t <=> \E i \in 1 .. n : r[i] = t
<1>1. ASSUME NEW i \in 1 .. n, r[i] = t
      PROVE  nx[t] # t
  <2>1. i \in 0 .. n /\ nx[t] = r[i + 1] /\ n \in Nat
    BY <1>1 DEF Ring
  <2>2. CASE i = n
    BY <2>1, <2>2, Facts DEF Ring
  <2>3. CASE i # n
    <3>1. i + 1 \in 1 .. n /\ i + 1 # i
      BY <2>1, <2>3
    <3>2. r[i + 1] # r[i]
      BY <3>1 DEF Ring
    <3> QED  BY <1>1, <2>1, <3>2
  <2> QED  BY <2>2, <2>3
<1> QED  BY <1>1 DEF Ring

LEMMA RingAdds ==
  ASSUME SchedulersAssumption, readyNext \in Links, readyPrev \in Links,
         NEW n, NEW r, Ring(readyNext, readyPrev, n, r),
         NEW t \in Task, \A i \in 1 .. n : r[i] # t
  PROVE  /\ AtRear(t).next \in Links /\ AtRear(t).prev \in Links
         /\ Ring(AtRear(t).next, AtRear(t).prev, n + 1, Added(r, n, t))
<1> DEFINE nx == AtRear(t).next
           pv == AtRear(t).prev
           s == Added(r, n, t)
<1>1. n \in Nat /\ t \in Linked /\ Ready \in Linked /\ t # Ready
  BY Facts DEF Ring
<1>2. /\ readyPrev[Ready] = r[n] /\ r[n] \in Linked
      /\ nx = [readyNext EXCEPT ![t] = Ready, ![r[n]] = t]
      /\ pv = [readyPrev EXCEPT ![Ready] = t, ![t] = r[n]]
  <2>1. n \in 0 .. n /\ n \in 0 .. n + 1
    BY <1>1
  <2>2. readyPrev[Ready] = r[n] /\ r[n] \in Linked
    BY <2>1 DEF Ring
  <2> QED  BY <2>2 DEF AtRear
<1>3. nx \in Links /\ pv \in Links
  BY <1>1, <1>2 DEF Links
<1>4. r[n] # t
  BY <1>1 DEF Ring
<1>5. /\ nx[t] = Ready /\ nx[r[n]] = t
      /\ \A u \in Linked : u # t /\ u # r[n] => nx[u] = readyNext[u]
      /\ pv[Ready] = t /\ pv[t] = r[n]
      /\ \A u \in Linked : u # t /\ u # Ready => pv[u] = readyPrev[u]
  BY <1>1, <1>2, <1>4 DEF Links
<1>6. /\ s \in [0 .. n + 2 -> Linked] /\ s[n + 1] = t /\ s[n + 2] = Ready
      /\ \A i \in 0 .. n : s[i] = r[i]
  BY <1>1 DEF Added, Ring
<1> HIDE DEF nx, pv, s
<1>7. \A i \in 1 .. n + 1 : s[i] \in Task
  BY <1>1, <1>6 DEF Ring
<1>8. ASSUME NEW i \in 1 .. n + 1, NEW j \in 1 .. n + 1, s[i] = s[j]
      PROVE  i = j
  <2>1. (i = n + 1 \/ i \in 1 .. n) /\ (j = n + 1 \/ j \in 1 .. n)
    BY <1>1
  <2> QED  BY <1>1, <1>6, <1>8, <2>1 DEF Ring
<1>9. ASSUME NEW i \in 0 .. n - 1
      PROVE  /\ nx[s[i]] = s[i + 1] /\ pv[s[i + 1]] = s[i]
  <2>1. i \in 0 .. n /\ i + 1 \in 1 .. n /\ i + 1 \in 0 .. n
    BY <1>1
  <2>2. s[i] = r[i] /\ s[i + 1] = r[i + 1] /\ r[i] \in Linked /\ r[i + 1] \in Linked
    BY <1>1, <1>6, <2>1 DEF Ring
  <2>3. r[i + 1] # t /\ r[i + 1] # Ready
    BY <2>1, Facts DEF Ring
  <2>4. r[i] # t
    BY <1>1, <2>1 DEF Ring
  <2>5. r[i] # r[n]
    <3>1. CASE i = 0
      BY <1>1, <3>1, Facts DEF Ring
    <3>2. CASE i # 0
      <4>1. i \in 1 .. n /\ n \in 1 .. n /\ i # n
        BY <1>1, <3>2
      <4> QED  BY <4>1 DEF Ring
    <3> QED  BY <3>1, <3>2
  <2>6. readyNext[r[i]] = r[i + 1] /\ readyPrev[r[i + 1]] = r[i]
    BY <2>1 DEF Ring
  <2> QED  BY <1>5, <2>2, <2>3, <2>4, <2>5, <2>6
<1>10. nx[s[n]] = s[n + 1] /\ pv[s[n + 1]] = s[n]
  BY <1>1, <1>5, <1>6
<1>11. nx[s[n + 1]] = s[n + 2] /\ pv[s[n + 2]] = s[n + 1]
  BY <1>1, <1>5, <1>6
<1>12. \A i \in 0 .. n + 1 : nx[s[i]] = s[i + 1] /\ pv[s[i + 1]] = s[i]
  <2> TAKE i \in 0 .. n + 1
  <2>1. i \in 0 .. n - 1 \/ i = n \/ i = n + 1
    BY <1>1
  <2>2. (n + 1) + 1 = n + 2
    BY <1>1
  <2> QED  BY <1>9, <1>10, <1>11, <2>1, <2>2
<1>13. ASSUME NEW u \in Task, \A i \in 1 .. n + 1 : s[i] # u
       PROVE  nx[u] = u /\ pv[u] = u
  <2>1. u # t /\ \A i \in 1 .. n : r[i] # u
    <3>1. n + 1 \in 1 .. n + 1 /\ \A i \in 1 .. n : i \in 1 .. n + 1 /\ i \in 0 .. n
      BY <1>1
    <3> QED  BY <1>6, <1>13, <3>1
  <2>2. u \in Linked /\ u # Ready
    BY Facts
  <2>3. u # r[n]
    <3>1. n = 0 \/ n \in 1 .. n
      BY <1>1
    <3> QED  BY <2>1, <2>2, <3>1 DEF Ring
  <2> QED  BY <1>5, <2>1, <2>2, <2>3 DEF Ring
<1>14. s[0] = Ready /\ (n + 1) + 1 = n + 2 /\ n + 1 \in Nat
  BY <1>1, <1>6 DEF Ring
<1>15. Ring(nx, pv, n + 1, s)
  BY <1>6, <1>7, <1>8, <1>12, <1>13, <1>14 DEF Ring
<1> QED  BY <1>3, <1>15 DEF nx, pv, s

LEMMA RingDrops ==
  ASSUME SchedulersAssumption, NEW nx \in Links, NEW pv \in Links,
         NEW n, NEW r, Ring(nx, pv, n, r), NEW k \in 1 .. n, NEW ny, NEW py,
         ny = [nx EXCEPT ![pv[r[k]]] = nx[r[k]], ![r[k]] = r[k]],
         py = [pv EXCEPT ![nx[r[k]]] = pv[r[k]], ![r[k]] = r[k]]
  PROVE  ny \in Links /\ py \in Links /\ Ring(ny, py, n - 1, Dropped(r, n, k))
<1> DEFINE s == Dropped(r, n, k)
           t == r[k]
           a == r[k - 1]
           b == r[k + 1]
<1>1. /\ n \in Nat /\ n - 1 \in Nat /\ k - 1 \in 0 .. n /\ k \in 0 .. n
      /\ k + 1 \in 0 .. n + 1 /\ (k - 1) + 1 = k
  BY DEF Ring
<1>2. a \in Linked /\ b \in Linked /\ t \in Linked /\ t \in Task
  BY <1>1, Facts DEF Ring
<1>3. nx[t] = b /\ pv[t] = a
  <2>1. nx[r[k]] = r[k + 1]
    BY <1>1 DEF Ring
  <2>2. pv[r[(k - 1) + 1]] = r[k - 1]
    BY <1>1 DEF Ring
  <2> QED  BY <1>1, <2>1, <2>2
<1>4. a # t /\ b # t
  <2>1. k - 1 = 0 \/ k - 1 \in 1 .. n
    BY <1>1
  <2>2. k + 1 = n + 1 \/ k + 1 \in 1 .. n
    BY <1>1
  <2>3. k - 1 # k /\ k + 1 # k /\ Ready \notin Task
    BY <1>1, Facts
  <2> QED  BY <1>2, <2>1, <2>2, <2>3 DEF Ring
<1>5. ny \in Links /\ py \in Links
  BY <1>2, <1>3 DEF Links
<1>6. /\ ny[t] = t /\ ny[a] = b /\ py[t] = t /\ py[b] = a
      /\ \A u \in Linked : u # t /\ u # a => ny[u] = nx[u]
      /\ \A u \in Linked : u # t /\ u # b => py[u] = pv[u]
  BY <1>2, <1>3, <1>4 DEF Links
<1>7. /\ s \in [0 .. n -> Linked]
      /\ \A i \in 0 .. k - 1 : s[i] = r[i]
      /\ \A i \in k .. n : s[i] = r[i + 1]
  BY <1>1 DEF Dropped, Ring
<1>8. s[0] = Ready /\ s[n] = Ready /\ (n - 1) + 1 = n
  <2>1. 0 \in 0 .. k - 1 /\ n \in k .. n /\ (n - 1) + 1 = n
    BY <1>1
  <2> QED  BY <1>7, <2>1 DEF Ring
<1>9. \A i \in 1 .. n - 1 : s[i] \in Task /\ s[i] # t
  <2> TAKE i \in 1 .. n - 1
  <2>1. i \in 1 .. n /\ i + 1 \in 1 .. n /\ (i \in 0 .. k - 1 \/ i \in k .. n)
        /\ (i \in k .. n => i + 1 # k) /\ (i \in 0 .. k - 1 => i # k)
    BY <1>1
  <2> QED  BY <1>7, <2>1 DEF Ring
<1>10. \A i, j \in 1 .. n - 1 : s[i] = s[j] => i = j
  <2> TAKE i, j \in 1 .. n - 1
  <2>1. /\ i \in 1 .. n /\ i + 1 \in 1 .. n /\ (i \in 0 .. k - 1 \/ i \in k .. n)
        /\ j \in 1 .. n /\ j + 1 \in 1 .. n /\ (j \in 0 .. k - 1 \/ j \in k .. n)
        /\ (i + 1 = j + 1 => i = j)
        /\ (i \in k .. n /\ j \in 0 .. k - 1 => i + 1 # j)
        /\ (j \in k .. n /\ i \in 0 .. k - 1 => j + 1 # i)
    BY <1>1
  <2> QED  BY <1>7, <2>1 DEF Ring
<1> HIDE DEF s, t, a, b
<1>11. ASSUME NEW i \in 0 .. n - 1
       PROVE  ny[s[i]] = s[i + 1] /\ py[s[i + 1]] = s[i]
  <2>1. CASE i < k - 1
    <3>1. /\ i \in 0 .. k - 1 /\ i + 1 \in 0 .. k - 1 /\ i + 1 \in 1 .. n
          /\ i \in 0 .. n /\ i + 1 \in 0 .. n + 1 /\ i \in 0 .. n + 1
      BY <1>1, <2>1
    <3>2. s[i] = r[i] /\ s[i + 1] = r[i + 1]
      BY <1>7, <3>1
    <3>3. nx[r[i]] = r[i + 1] /\ pv[r[i + 1]] = r[i]
      BY <3>1 DEF Ring
    <3>4. r[i] # t /\ r[i] # a
      <4>1. /\ i = 0 \/ i \in 1 .. n
            /\ k - 1 = 0 \/ k - 1 \in 1 .. n
            /\ i # k /\ i # k - 1 /\ Ready \notin Task
            /\ (i = 0 => k - 1 \in 1 .. n)
        BY <1>1, <2>1, Facts
      <4> QED  BY <4>1 DEF Ring, t, a
    <3>5. r[i + 1] # t /\ r[i + 1] # b
      <4>1. /\ k + 1 = n + 1 \/ k + 1 \in 1 .. n
            /\ i + 1 # k /\ i + 1 # k + 1 /\ Ready \notin Task
        BY <1>1, <2>1, Facts
      <4> QED  BY <3>1, <4>1 DEF Ring, t, b
    <3>6. r[i] \in Linked /\ r[i + 1] \in Linked
      BY <3>1 DEF Ring
    <3> QED  BY <1>6, <3>2, <3>3, <3>4, <3>5, <3>6
  <2>2. CASE i = k - 1
    <3>1. i \in 0 .. k - 1 /\ i + 1 \in k .. n /\ i + 1 = k
      BY <1>1, <2>2
    <3>2. s[i] = r[k - 1] /\ s[i + 1] = r[k + 1]
      BY <1>7, <2>2, <3>1
    <3> QED  BY <1>6, <3>2 DEF a, b
  <2>3. CASE i > k - 1
    <3>1. /\ i \in k .. n /\ i + 1 \in k .. n /\ i + 1 \in 1 .. n
          /\ i + 1 \in 0 .. n /\ (i + 1) + 1 \in 0 .. n + 1 /\ i + 1 \in 0 .. n + 1
      BY <1>1, <2>3
    <3>2. s[i] = r[i + 1] /\ s[i + 1] = r[(i + 1) + 1]
      BY <1>7, <3>1
    <3>3. nx[r[i + 1]] = r[(i + 1) + 1] /\ pv[r[(i + 1) + 1]] = r[i + 1]
      BY <3>1 DEF Ring
    <3>4. r[i + 1] # t /\ r[i + 1] # a
      <4>1. /\ k - 1 = 0 \/ k - 1 \in 1 .. n
            /\ i + 1 # k /\ i + 1 # k - 1 /\ Ready \notin Task
        BY <1>1, <2>3, Facts
      <4> QED  BY <3>1, <4>1 DEF Ring, t, a
    <3>5. r[(i + 1) + 1] # t /\ r[(i + 1) + 1] # b
      <4>1. /\ (i + 1) + 1 = n + 1 \/ (i + 1) + 1 \in 1 .. n
            /\ k + 1 \in 1 .. n
            /\ (i + 1) + 1 # k /\ (i + 1) + 1 # k + 1 /\ Ready \notin Task
        BY <1>1, <2>3, Facts
      <4> QED  BY <3>1, <4>1 DEF Ring, t, b
    <3>6. r[i + 1] \in Linked /\ r[(i + 1) + 1] \in Linked
      BY <3>1 DEF Ring
    <3> QED  BY <1>6, <3>2, <3>3, <3>4, <3>5, <3>6
  <2> QED  BY <1>1, <2>1, <2>2, <2>3
<1>12. ASSUME NEW u \in Task, \A i \in 1 .. n - 1 : s[i] # u
       PROVE  ny[u] = u /\ py[u] = u
  <2>1. CASE u = t
    BY <1>6, <2>1
  <2>2. CASE u # t
    <3>1. ASSUME NEW i \in 1 .. n  PROVE r[i] # u
      <4>1. CASE i < k
        <5>1. i \in 0 .. k - 1 /\ i \in 1 .. n - 1
          BY <1>1, <4>1
        <5> QED  BY <1>7, <1>12, <5>1
      <4>2. CASE i = k
        BY <2>2, <4>2 DEF t
      <4>3. CASE i > k
        <5>1. i - 1 \in k .. n /\ i - 1 \in 1 .. n - 1 /\ (i - 1) + 1 = i
          BY <1>1, <4>3
        <5> QED  BY <1>7, <1>12, <5>1
      <4> QED  BY <1>1, <4>1, <4>2, <4>3
    <3>2. nx[u] = u /\ pv[u] = u
      BY <3>1 DEF Ring
    <3>3. u # a /\ u # b
      <4>1. /\ k - 1 = 0 \/ k - 1 \in 1 .. n
            /\ k + 1 = n + 1 \/ k + 1 \in 1 .. n
            /\ Ready \notin Task
        BY <1>1, Facts
      <4> QED  BY <3>1, <4>1 DEF Ring, a, b
    <3>4. u \in Linked
      BY Facts
    <3> QED  BY <1>6, <2>2, <3>2, <3>3, <3>4
  <2> QED  BY <2>1, <2>2
<1>13. n - 1 \in Nat /\ s \in [0 .. (n - 1) + 1 -> Linked]
  BY <1>1, <1>7, <1>8
<1>14. s[0] = Ready /\ s[(n - 1) + 1] = Ready
  BY <1>8
<1>15. Ring(ny, py, n - 1, s)
  BY <1>9, <1>10, <1>11, <1>12, <1>13, <1>14 DEF Ring
<1> QED  BY <1>5, <1>15 DEF s

-----------------------------------------------------------------------------
(* The inductive invariant.                                                *)

Typed ==
  /\ scheduler \in {"round_robin", "trivial"}
  /\ current \in Thread
  /\ state \in [Thread -> TaskState \cup {"FREE"}]
  /\ TCB \in [Ids -> Task \cup {NoTask}]
  /\ creating \in [Task -> Task \cup {NoTask}]
  /\ currentId \in Ids
  /\ passed \in [Task -> Nat]

(* A control block that is allocated has one slot of the table; the slots  *)
(* are filled from the first.                                              *)
TableInv ==
  /\ \A i, j \in Ids : TCB[i] = TCB[j] /\ TCB[i] # NoTask => i = j
  /\ \A u \in Task : state[u] # "FREE" <=> \E i \in Ids : TCB[i] = u
  /\ \A i \in Ids : TCB[i] # NoTask => i < Tasks

(* No task but the current one is active; it is, unless a switch is due.   *)
CurrentInv ==
  /\ \A t \in Thread : state[t] = "ACTIVE" => t = current
  /\ ~pendSV => state[current] = "ACTIVE"
  /\ state[current] \notin {"FREE", "INACTIVE"}
  /\ state[Idle] = IF current = Idle THEN "ACTIVE" ELSE "READY"
  /\ state[Main] \notin {"FREE", "END"}
  /\ \A t \in Task : state[t] # "READY" => passed[t] = 0

(* How many slots the search goes on to come from one to another.          *)
Ahead(from, to) == IF to > from THEN to - from ELSE to - from + Tasks

(* The search stands at the task it chose last, and a ready task has let   *)
(* no more tasks pass than there are slots it came nearer by.              *)
SearchInv ==
  /\ TCB[currentId] # NoTask
  /\ scheduler = "round_robin" => currentId = 0 /\ TCB[0] = Main
  /\ scheduler = "trivial" =>
       /\ current \in Task => TCB[currentId] = current
       /\ \A i \in Ids : TCB[i] # NoTask /\ state[TCB[i]] = "READY" =>
            passed[TCB[i]] + Ahead(currentId, i) <= Tasks

(* The tasks the list is to hold.                                          *)
Listed(st) == {u \in Task : st[u] = "READY" /\ \A v \in Task : creating[v] # u}

(* It holds who it is to, and a task has let no more pass than have left   *)
(* it since it was added.                                                  *)
Queue(nx, pv, n, r, who) ==
  /\ nx \in Links /\ pv \in Links
  /\ Ring(nx, pv, n, r)
  /\ \A u \in Task : u \in who <=> \E i \in 1 .. n : r[i] = u
  /\ \A i \in 1 .. n : passed[r[i]] + i <= Tasks

ListInv ==
  scheduler = "round_robin" =>
    /\ \E n, r : Queue(readyNext, readyPrev, n, r, Listed(state))
    /\ \A v \in Task : creating[v] # NoTask =>
         /\ state[creating[v]] = "READY" /\ passed[creating[v]] = 0
         /\ \A w \in Task : creating[w] = creating[v] => w = v

SchedInv == Typed /\ TableInv /\ CurrentInv /\ SearchInv /\ ListInv

LEMMA IdFacts ==
  ASSUME SchedulersAssumption, Typed, TableInv, SearchInv
  PROVE  /\ Ids = 0 .. MaxTasks - 1 /\ currentId \in Nat /\ currentId < Tasks
         /\ \A i \in Ids : i \in Nat /\ i < MaxTasks
         /\ Tasks \in Nat /\ 1 <= Tasks
BY Facts DEF Typed, TableInv, SearchInv, Ids

LEMMA InitInv ==
  ASSUME SchedulersAssumption, SchedInit
  PROVE  SchedInv
<1>1. 1 <= Tasks
  <2>1. [i \in 1 .. 1 |-> Main] \in [1 .. 1 -> Task]
    BY Facts
  <2>2. \A i, j \in 1 .. 1 : i = j
    OBVIOUS
  <2> QED  BY <2>1, <2>2, Pigeons
<1>2. 0 \in Ids /\ Main \in Thread /\ Main # NoTask /\ Main # Idle
  BY <1>1, Facts DEF Ids
<1>3. Typed
  BY <1>2, Facts DEF SchedInit, Typed, TaskState
<1>4. /\ TCB[0] = Main /\ \A i \in Ids : i # 0 => TCB[i] = NoTask
      /\ state[Main] = "ACTIVE" /\ state[Idle] = "READY"
      /\ \A u \in Task : u # Main => state[u] = "FREE"
      /\ \A u \in Task : passed[u] = 0 /\ creating[u] = NoTask
      /\ current = Main /\ pendSV = TRUE /\ currentId = 0
      /\ \A u \in Linked : readyNext[u] = u /\ readyPrev[u] = u
  BY <1>2, Facts DEF SchedInit
<1>5. TableInv
  BY <1>1, <1>2, <1>4, Facts DEF TableInv
<1>6. CurrentInv
  BY <1>2, <1>4, Facts DEF CurrentInv
<1>7. SearchInv
  BY <1>2, <1>4, Facts DEF SearchInv
<1>8. ListInv
  <2> DEFINE r == [i \in 0 .. 0 + 1 |-> Ready]
  <2>1. Ring(readyNext, readyPrev, 0, r)
    BY <1>4, Facts DEF Ring
  <2>2. readyNext \in Links /\ readyPrev \in Links
    BY Facts DEF SchedInit, Links
  <2>3. \A u \in Task : u \notin Listed(state)
    BY <1>4 DEF Listed
  <2>4. Queue(readyNext, readyPrev, 0, r, Listed(state))
    BY <2>1, <2>2, <2>3 DEF Queue
  <2> QED  BY <1>4, <2>4 DEF ListInv
<1> QED  BY <1>3, <1>5, <1>6, <1>7, <1>8 DEF SchedInv

LEMMA HaltKeepsInv ==
  ASSUME SchedInv, Halt
  PROVE  SchedInv'
BY DEF SchedInv, Halt, readyLinks, Typed, TableInv, CurrentInv, SearchInv, Ahead, ListInv,
       Queue, Listed, Ids

(* A new member's place is within the number of tasks.                     *)
LEMMA QueueAdds ==
  ASSUME SchedulersAssumption, NEW n, NEW r, NEW u \in Task, NEW who,
         Queue(readyNext, readyPrev, n, r, who), u \notin who, passed[u] = 0
  PROVE  /\ Queue(AtRear(u).next, AtRear(u).prev, n + 1, Added(r, n, u), who \cup {u})
         /\ ~InList(u)
<1> DEFINE s == Added(r, n, u)
<1>1. \A i \in 1 .. n : r[i] # u
  BY DEF Queue
<1>2. Ring(AtRear(u).next, AtRear(u).prev, n + 1, s)
      /\ AtRear(u).next \in Links /\ AtRear(u).prev \in Links
  BY <1>1, RingAdds DEF Queue
<1>3. n \in Nat /\ s[n + 1] = u /\ \A i \in 1 .. n : s[i] = r[i]
  <2>1. n \in Nat
    BY DEF Queue, Ring
  <2> QED  BY <2>1 DEF Added
<1> HIDE DEF s
<1>4. n + 1 <= Tasks
  <2> DEFINE f == [i \in 1 .. n + 1 |-> s[i]]
  <2>1. f \in [1 .. n + 1 -> Task]
    BY <1>2 DEF Ring
  <2>2. \A i, j \in 1 .. n + 1 : f[i] = f[j] => i = j
    BY <1>2 DEF Ring
  <2>3. n + 1 \in Nat
    BY <1>3
  <2> HIDE DEF f
  <2> QED  BY <2>1, <2>2, <2>3, Pigeons
<1>5. \A i \in 1 .. n + 1 : passed[s[i]] + i <= Tasks
  <2> TAKE i \in 1 .. n + 1
  <2>1. CASE i \in 1 .. n
    BY <1>3, <2>1 DEF Queue
  <2>2. CASE i = n + 1
    BY <1>3, <1>4, <2>2
  <2> QED  BY <1>3, <2>1, <2>2
<1>6. \A v \in Task : v \in who \cup {u} <=> \E i \in 1 .. n + 1 : s[i] = v
  <2>1. n + 1 \in 1 .. n + 1 /\ \A i \in 1 .. n + 1 : i = n + 1 \/ i \in 1 .. n
    BY <1>3
  <2>2. \A i \in 1 .. n : i \in 1 .. n + 1
    BY <1>3
  <2> QED  BY <1>3, <2>1, <2>2 DEF Queue
<1>7. ~InList(u)
  BY <1>1, InRing DEF Queue, InList
<1> QED  BY <1>2, <1>5, <1>6, <1>7 DEF Queue, s

-----------------------------------------------------------------------------
(* What the tasks do.                                                      *)

LEMMA RunningTask ==
  ASSUME SchedulersAssumption, SchedInv, NEW t \in Task, Runs(t)
  PROVE  /\ current = t /\ ~pendSV /\ state[t] = "ACTIVE" /\ t \in Thread
         /\ \A u \in Thread : u # t => state[u] # "ACTIVE"
         /\ state[Idle] = "READY" /\ t # Idle
BY Facts DEF SchedInv, CurrentInv, Runs

LEMMA NewTaskKeepsInv ==
  ASSUME SchedulersAssumption, SchedInv, NEW t \in Task, NewTask(t)
  PROVE  SchedInv'
<1>1. PICK u \in Task, i \in Ids :
        /\ state[u] = "FREE" /\ TCB[i] = NoTask
        /\ \A j \in 0 .. i - 1 : TCB[j] # NoTask
        /\ TCB' = [TCB EXCEPT ![i] = u]
        /\ state' = [state EXCEPT ![u] = "READY"]
        /\ creating' = [creating EXCEPT ![t] = u]
  BY DEF NewTask
<1>2. /\ creating[t] = NoTask /\ Runs(t)
      /\ scheduler' = scheduler /\ current' = current
      /\ readyNext' = readyNext /\ readyPrev' = readyPrev
      /\ currentId' = currentId /\ pendSV' = pendSV /\ passed' = passed
  BY DEF NewTask, readyLinks
<1>3. /\ u # NoTask /\ u \in Thread /\ u # Idle /\ u # Main /\ u # current
      /\ \A j \in Ids : TCB[j] # u
  BY <1>1, Facts DEF SchedInv, TableInv, CurrentInv
<1>4. Typed'
  BY <1>1, <1>2, <1>3, Facts DEF SchedInv, Typed, Ids, TaskState
<1>5. /\ \A j \in Ids : TCB'[j] = IF j = i THEN u ELSE TCB[j]
      /\ \A v \in Thread : state'[v] = IF v = u THEN "READY" ELSE state[v]
      /\ \A v \in Task : creating'[v] = IF v = t THEN u ELSE creating[v]
      /\ Ids' = Ids
  BY <1>1, <1>3 DEF SchedInv, Typed, Ids
<1>6. i < Tasks
  <2>1. i \in Nat /\ \A j \in 1 .. i : j - 1 \in Ids /\ j - 1 \in 0 .. i - 1
    BY Facts DEF Ids
  <2> DEFINE f == [j \in 1 .. i + 1 |-> IF j = i + 1 THEN u ELSE TCB[j - 1]]
  <2>2. \A j \in 1 .. i + 1 : j # i + 1 => j \in 1 .. i
    BY <2>1
  <2>3. f \in [1 .. i + 1 -> Task]
    <3> SUFFICES ASSUME NEW j \in 1 .. i, j # i + 1  PROVE TCB[j - 1] \in Task
      BY <2>2
    <3> QED  BY <1>1, <2>1 DEF SchedInv, Typed
  <2>4. \A j, k \in 1 .. i + 1 : f[j] = f[k] => j = k
    <3> TAKE j, k \in 1 .. i + 1
    <3>1. CASE j = i + 1 \/ k = i + 1
      BY <1>3, <2>1, <2>2, <3>1
    <3>2. CASE j # i + 1 /\ k # i + 1
      <4>1. f[j] = TCB[j - 1] /\ f[k] = TCB[k - 1]
        BY <3>2
      <4>2. j - 1 \in Ids /\ k - 1 \in Ids /\ TCB[j - 1] # NoTask
            /\ (j - 1 = k - 1 => j = k)
        BY <1>1, <2>1, <2>2, <3>2
      <4> QED  BY <4>1, <4>2 DEF SchedInv, TableInv
    <3> QED  BY <3>1, <3>2
  <2>5. i + 1 \in Nat
    BY <2>1
  <2> HIDE DEF f
  <2>6. i + 1 <= Tasks
    BY <2>3, <2>4, <2>5, Pigeons
  <2> QED  BY <2>1, <2>6, Facts
<1>7. TableInv'
  BY <1>1, <1>3, <1>5, <1>6, Facts DEF SchedInv, TableInv
<1>8. CurrentInv'
  BY <1>1, <1>2, <1>3, <1>5, Facts DEF SchedInv, CurrentInv, Typed
<1>9. SearchInv'
  <2>1. passed[u] = 0
    BY <1>1 DEF SchedInv, CurrentInv
  <2>2. i # currentId
    BY <1>1 DEF SchedInv, SearchInv
  <2>3. 0 + Ahead(currentId, i) <= Tasks
    BY <1>6, IdFacts DEF Ahead, SchedInv
  <2>4. scheduler = "round_robin" => i # 0
    BY <2>2 DEF SchedInv, SearchInv
  <2>5. currentId \in Ids /\ 0 \in Ids
    <3>1. Ids = 0 .. MaxTasks - 1 /\ 1 <= Tasks /\ Tasks <= MaxTasks
          /\ Tasks \in Nat /\ MaxTasks \in Nat
      BY IdFacts, Facts DEF SchedInv
    <3> QED  BY <3>1 DEF SchedInv, Typed
  <2>6. Ahead(currentId, i)' = Ahead(currentId, i)
        /\ \A j \in Ids : Ahead(currentId, j)' = Ahead(currentId, j)
    BY <1>2 DEF Ahead
  <2>7. ASSUME NEW j \in Ids, scheduler = "trivial", TCB'[j] # NoTask,
               state'[TCB'[j]] = "READY"
        PROVE  passed[TCB'[j]] + Ahead(currentId, j) <= Tasks
    <3>1. CASE j = i
      BY <1>5, <2>1, <2>3, <3>1
    <3>2. CASE j # i
      <4>1. TCB'[j] = TCB[j] /\ TCB[j] \in Task /\ TCB[j] # u
        BY <1>3, <1>5, <2>7, <3>2 DEF SchedInv, Typed
      <4>2. state[TCB[j]] = "READY"
        BY <1>5, <2>7, <4>1, Facts
      <4> QED  BY <2>7, <4>1, <4>2 DEF SchedInv, SearchInv
    <3> QED  BY <3>1, <3>2
  <2> QED  BY <1>2, <1>5, <2>2, <2>4, <2>5, <2>6, <2>7 DEF SchedInv, SearchInv
<1>10. ListInv'
  <2> SUFFICES ASSUME scheduler = "round_robin"  PROVE ListInv'
    BY <1>2 DEF ListInv
  <2>1. PICK n, r : Queue(readyNext, readyPrev, n, r, Listed(state))
    BY DEF SchedInv, ListInv
  <2>2. \A v \in Task : v \in Listed(state)' <=> v \in Listed(state)
    BY <1>1, <1>2, <1>3, <1>5, Facts DEF Listed
  <2>3. Queue(readyNext, readyPrev, n, r, Listed(state))'
    BY <1>2, <2>1, <2>2 DEF Queue
  <2>4. \A v \in Task : creating[v] # NoTask => creating[v] \in Task /\ creating[v] # u
    BY <1>1 DEF SchedInv, ListInv, Typed
  <2>5. passed[u] = 0
    BY <1>1 DEF SchedInv, CurrentInv
  <2>6. \A v \in Task : creating'[v] # NoTask =>
          /\ state'[creating'[v]] = "READY" /\ passed'[creating'[v]] = 0
          /\ \A w \in Task : creating'[w] = creating'[v] => w = v
    <3> SUFFICES ASSUME NEW v \in Task, creating'[v] # NoTask
                 PROVE  /\ state'[creating'[v]] = "READY" /\ passed[creating'[v]] = 0
                        /\ \A w \in Task : creating'[w] = creating'[v] => w = v
      BY <1>2
    <3>1. CASE v = t
      BY <1>3, <1>5, <2>4, <2>5, <3>1
    <3>2. CASE v # t
      BY <1>3, <1>5, <2>4, <3>2, Facts DEF SchedInv, ListInv
    <3> QED  BY <3>1, <3>2
  <2> QED  BY <2>3, <2>6 DEF ListInv
<1> QED  BY <1>4, <1>7, <1>8, <1>9, <1>10 DEF SchedInv

LEMMA ScheduleNewKeepsInv ==
  ASSUME SchedulersAssumption, SchedInv, NEW t \in Task, ScheduleNew(t)
  PROVE  SchedInv'
<1>1. PICK u \in Task : u = creating[t] /\ u # NoTask
  BY Facts DEF ScheduleNew, SchedInv, Typed
<1>2. CASE InsertFails(u, state)
  BY <1>1, <1>2, HaltKeepsInv DEF ScheduleNew
<1>3. CASE ~InsertFails(u, state)
  <2>1. /\ u = creating[t] /\ u # NoTask /\ u # Idle
        /\ Reschedule(u, state)
        /\ creating' = [creating EXCEPT ![t] = NoTask]
        /\ scheduler' = scheduler /\ current' = current /\ state' = state /\ TCB' = TCB
        /\ currentId' = currentId /\ pendSV' = pendSV /\ passed' = passed
    BY <1>1, <1>3, Facts DEF ScheduleNew
  <2>2. Typed' /\ TableInv' /\ CurrentInv' /\ SearchInv'
    BY <2>1, Facts DEF SchedInv, Typed, TableInv, CurrentInv, SearchInv, Ahead, Ids
  <2>3. ListInv'
    <3> SUFFICES ASSUME scheduler = "round_robin"  PROVE ListInv'
      BY <2>1 DEF ListInv
    <3>1. PICK n, r : Queue(readyNext, readyPrev, n, r, Listed(state))
      BY DEF SchedInv, ListInv
    <3>2. /\ state[u] = "READY" /\ passed[u] = 0
          /\ \A w \in Task : creating[w] = u => w = t
      BY <2>1 DEF SchedInv, ListInv
    <3>3. \A v \in Task : creating'[v] = IF v = t THEN NoTask ELSE creating[v]
      BY <2>1 DEF SchedInv, Typed
    <3>4. u \notin Listed(state)
      BY <2>1 DEF Listed
    <3>5. \A v \in Task : v \in Listed(state)' <=> v \in Listed(state) \cup {u}
      BY <2>1, <3>2, <3>3, Facts DEF Listed
    <3>6. readyNext' = AtRear(u).next /\ readyPrev' = AtRear(u).prev
      BY <2>1, <3>2 DEF Reschedule, Insertable
    <3>7. Queue(readyNext, readyPrev, n + 1, Added(r, n, u), Listed(state))'
      <4>1. Queue(AtRear(u).next, AtRear(u).prev, n + 1, Added(r, n, u),
                  Listed(state) \cup {u})
        BY <2>1, <3>1, <3>2, <3>4, QueueAdds
      <4> QED  BY <2>1, <3>5, <3>6, <4>1 DEF Queue, Added
    <3>8. \A v \in Task : creating'[v] # NoTask =>
            /\ state'[creating'[v]] = "READY" /\ passed'[creating'[v]] = 0
            /\ \A w \in Task : creating'[w] = creating'[v] => w = v
      BY <2>1, <3>3 DEF SchedInv, ListInv
    <3> QED  BY <3>7, <3>8 DEF ListInv
  <2> QED  BY <2>2, <2>3 DEF SchedInv
<1> QED  BY <1>2, <1>3

LEMMA LeavesKeepsInv ==
  ASSUME SchedulersAssumption, SchedInv, NEW t \in Task,
         BlockTask(t) \/ EndTask(t)
  PROVE  SchedInv'
<1>1. PICK st \in {"WAIT", "END"} :
        /\ state' = [state EXCEPT ![t] = st]
        /\ st = "END" => t # Main
        /\ Runs(t) /\ pendSV' = TRUE
        /\ UNCHANGED <<scheduler, current, TCB, creating, readyNext, readyPrev, currentId, passed>>
  BY DEF BlockTask, EndTask, Leaves, Transition, readyLinks
<1>2. current = t /\ state[t] = "ACTIVE" /\ t \in Thread /\ t # Idle
  BY <1>1, RunningTask
<1>3. \A u \in Thread : state'[u] = IF u = t THEN st ELSE state[u]
  BY <1>1, <1>2 DEF SchedInv, Typed
<1>4. Typed'
  BY <1>1, <1>2 DEF SchedInv, Typed, TaskState, Ids
<1>5. TableInv'
  BY <1>1, <1>2, <1>3, Facts DEF SchedInv, TableInv, Ids
<1>6. CurrentInv'
  <2>1. \A u \in Task : state[u] # "READY" => passed[u] = 0
    BY DEF SchedInv, CurrentInv
  <2> QED  BY <1>1, <1>2, <1>3, <2>1, Facts DEF SchedInv, CurrentInv
<1>7. SearchInv'
  <2>1. \A i \in Ids : TCB[i] # NoTask /\ state'[TCB[i]] = "READY" =>
          state[TCB[i]] = "READY"
    BY <1>1, <1>3, Facts DEF SchedInv, Typed
  <2> QED  BY <1>1, <2>1 DEF SchedInv, SearchInv, Ahead, Ids
<1>8. ListInv'
  <2> SUFFICES ASSUME scheduler = "round_robin"  PROVE ListInv'
    BY <1>1 DEF ListInv
  <2>1. PICK n, r : Queue(readyNext, readyPrev, n, r, Listed(state))
    BY DEF SchedInv, ListInv
  <2>2. \A v \in Task : v \in Listed(state)' <=> v \in Listed(state)
    BY <1>1, <1>2, <1>3, Facts DEF Listed
  <2>3. Queue(readyNext, readyPrev, n, r, Listed(state))'
    BY <1>1, <2>1, <2>2 DEF Queue
  <2>4. \A v \in Task : creating[v] # NoTask =>
          state'[creating[v]] = state[creating[v]]
    BY <1>2, <1>3, Facts DEF SchedInv, ListInv, Typed
  <2> QED  BY <1>1, <2>3, <2>4 DEF SchedInv, ListInv
<1> QED  BY <1>4, <1>5, <1>6, <1>7, <1>8 DEF SchedInv

LEMMA RequestKeepsInv ==
  ASSUME SchedInv, pendSV' = TRUE,
         UNCHANGED <<scheduler, current, state, TCB, creating, readyLinks, currentId, passed>>
  PROVE  SchedInv'
BY DEF SchedInv, readyLinks, Typed, TableInv, CurrentInv, SearchInv, Ahead, ListInv, Queue,
       Listed, Ids

(* A task that waits or was stopped becomes ready.                         *)
LEMMA ReadyKeepsInv ==
  ASSUME SchedulersAssumption, SchedInv, NEW u \in Task,
         state[u] \in {"WAIT", "INACTIVE"},
         state' = [state EXCEPT ![u] = "READY"], Reschedule(u, state'),
         UNCHANGED <<scheduler, current, TCB, creating, currentId, pendSV, halted, passed>>
  PROVE  SchedInv'
<1>1. u \in Thread /\ u # Idle /\ passed[u] = 0
  BY Facts DEF SchedInv, CurrentInv
<1>2. \A v \in Thread : state'[v] = IF v = u THEN "READY" ELSE state[v]
  BY <1>1 DEF SchedInv, Typed
<1>3. Typed'
  BY <1>1 DEF SchedInv, Typed, TaskState, Ids
<1>4. TableInv'
  BY <1>1, <1>2, Facts DEF SchedInv, TableInv, Ids
<1>5. CurrentInv'
  BY <1>1, <1>2, Facts DEF SchedInv, CurrentInv, Typed
<1>6. SearchInv'
  <2>1. ASSUME NEW i \in Ids, scheduler = "trivial", TCB[i] # NoTask,
               state'[TCB[i]] = "READY"
        PROVE  passed[TCB[i]] + Ahead(currentId, i) <= Tasks
    <3>1. TCB[i] \in Task /\ i \in Nat /\ i < Tasks /\ currentId \in Nat
          /\ currentId < Tasks /\ Tasks \in Nat
      BY <2>1, IdFacts DEF SchedInv, TableInv, Typed
    <3>2. CASE TCB[i] = u
      BY <1>1, <3>1, <3>2 DEF Ahead
    <3>3. CASE TCB[i] # u
      BY <1>2, <2>1, <3>1, <3>3, Facts DEF SchedInv, SearchInv
    <3> QED  BY <3>2, <3>3
  <2> QED  BY <2>1 DEF SchedInv, SearchInv, Ahead, Ids
<1>7. ListInv'
  <2> SUFFICES ASSUME scheduler = "round_robin"  PROVE ListInv'
    BY DEF ListInv
  <2>1. PICK n, r : Queue(readyNext, readyPrev, n, r, Listed(state))
    BY DEF SchedInv, ListInv
  <2>2. u \notin Listed(state) /\ \A v \in Task : creating[v] # u
    BY Facts DEF Listed, SchedInv, ListInv
  <2>3. \A v \in Task : v \in Listed(state)' <=> v \in Listed(state) \cup {u}
    BY <1>2, <2>2, Facts DEF Listed
  <2>4. readyNext' = AtRear(u).next /\ readyPrev' = AtRear(u).prev
    BY <1>1, <1>2 DEF Reschedule, Insertable
  <2>5. Queue(AtRear(u).next, AtRear(u).prev, n + 1, Added(r, n, u),
              Listed(state) \cup {u})
    BY <1>1, <2>1, <2>2, QueueAdds
  <2>6. Queue(readyNext, readyPrev, n + 1, Added(r, n, u), Listed(state))'
    BY <2>3, <2>4, <2>5 DEF Queue, Added
  <2>7. \A v \in Task : creating[v] # NoTask =>
          state'[creating[v]] = state[creating[v]]
    BY <1>2, <2>2, Facts DEF SchedInv, Typed
  <2> QED  BY <2>6, <2>7 DEF SchedInv, ListInv
<1> QED  BY <1>3, <1>4, <1>5, <1>6, <1>7 DEF SchedInv

LEMMA WakeKeepsInv ==
  ASSUME SchedulersAssumption, SchedInv, NEW u \in Task, Wake(u)
  PROVE  SchedInv'
<1> DEFINE st == [state EXCEPT ![u] = "READY"]
<1>1. CASE InsertFails(u, st)
  BY <1>1, HaltKeepsInv DEF Wake
<1>2. CASE ~InsertFails(u, st)
  <2>1. /\ state' = st /\ Reschedule(u, st) /\ state[u] = "WAIT"
        /\ UNCHANGED <<scheduler, current, TCB, creating, currentId, pendSV, halted,
                       passed>>
    BY <1>2 DEF Wake
  <2> QED  BY <2>1, ReadyKeepsInv
<1> QED  BY <1>1, <1>2

LEMMA StartTaskKeepsInv ==
  ASSUME SchedulersAssumption, SchedInv, NEW t \in Task, NEW u \in Task, StartTask(t, u)
  PROVE  SchedInv'
<1> DEFINE st == [state EXCEPT ![u] = "READY"]
<1>1. state[u] = "INACTIVE" /\ [state EXCEPT ![u] = Transition(@, "START")] = st
  BY DEF StartTask, Transition
<1>2. CASE InsertFails(u, st)
  BY <1>1, <1>2, HaltKeepsInv DEF StartTask
<1>3. CASE ~InsertFails(u, st)
  <2>1. /\ state' = st /\ Reschedule(u, st)
        /\ UNCHANGED <<scheduler, current, TCB, creating, currentId, pendSV, halted,
                       passed>>
    BY <1>1, <1>3 DEF StartTask
  <2> QED  BY <1>1, <2>1, ReadyKeepsInv
<1> QED  BY <1>2, <1>3

(* A task leaves the list, or was in none: the others stay in order.       *)
LEMMA QueueDrops ==
  ASSUME SchedulersAssumption, NEW n, NEW r, NEW who, Queue(readyNext, readyPrev, n, r, who),
         NEW u \in Task, List!Unlink(u), passed \in [Task -> Nat]
  PROVE  \E m, s : /\ readyNext' \in Links /\ readyPrev' \in Links
                   /\ Ring(readyNext', readyPrev', m, s)
                   /\ \A v \in Task : v \in who \ {u} <=> \E i \in 1 .. m : s[i] = v
                   /\ \A i \in 1 .. m : passed[s[i]] + i <= Tasks
<1>1. /\ readyPrev' = [readyPrev EXCEPT ![readyNext[u]] = readyPrev[u], ![u] = u]
      /\ readyNext' = [readyNext EXCEPT ![readyPrev[u]] = readyNext[u], ![u] = u]
      /\ readyNext \in Links /\ readyPrev \in Links /\ Ring(readyNext, readyPrev, n, r)
  BY DEF List!Unlink, Queue
<1>2. CASE \E k \in 1 .. n : r[k] = u
  <2>1. PICK k \in 1 .. n : r[k] = u
    BY <1>2
  <2> DEFINE s == Dropped(r, n, k)
  <2>2. readyNext' \in Links /\ readyPrev' \in Links /\ Ring(readyNext', readyPrev', n - 1, s)
    BY <1>1, <2>1, RingDrops
  <2>3. /\ n \in Nat
        /\ \A i \in 1 .. n - 1 : s[i] = IF i < k THEN r[i] ELSE r[i + 1]
    <3>1. n \in Nat
      BY <1>1 DEF Ring
    <3> QED  BY <3>1 DEF Dropped
  <2> HIDE DEF s
  <2>4. ASSUME NEW v \in Task
        PROVE  v \in who \ {u} <=> \E i \in 1 .. n - 1 : s[i] = v
    <3>1. ASSUME v \in who, v # u
          PROVE  \E i \in 1 .. n - 1 : s[i] = v
      <4>1. PICK j \in 1 .. n : r[j] = v
        BY <3>1 DEF Queue
      <4>2. CASE j < k
        <5>1. j \in 1 .. n - 1
          BY <2>3, <4>2
        <5> QED  BY <2>3, <4>1, <4>2, <5>1
      <4>3. CASE j > k
        <5>1. j - 1 \in 1 .. n - 1 /\ ~(j - 1 < k) /\ (j - 1) + 1 = j
          BY <2>3, <4>3
        <5> QED  BY <2>3, <4>1, <5>1
      <4>4. j # k
        BY <2>1, <3>1, <4>1
      <4> QED  BY <4>2, <4>3, <4>4
    <3>2. ASSUME NEW i \in 1 .. n - 1, s[i] = v
          PROVE  v \in who /\ v # u
      <4>1. PICK j \in 1 .. n : j # k /\ r[j] = v
        <5>1. CASE i < k
          BY <2>3, <3>2, <5>1
        <5>2. CASE ~(i < k)
          <6>1. i + 1 \in 1 .. n /\ i + 1 # k
            BY <2>3, <5>2
          <6> QED  BY <2>3, <3>2, <5>2, <6>1
        <5> QED  BY <5>1, <5>2
      <4>2. v # u
        BY <1>1, <2>1, <4>1 DEF Ring
      <4> QED  BY <4>1, <4>2 DEF Queue
    <3> QED  BY <3>1, <3>2
  <2>5. ASSUME NEW i \in 1 .. n - 1
        PROVE  passed[s[i]] + i <= Tasks
    <3>1. CASE i < k
      BY <2>3, <3>1 DEF Queue
    <3>2. CASE ~(i < k)
      <4>1. i + 1 \in 1 .. n /\ s[i] = r[i + 1]
        BY <2>3, <3>2
      <4>2. r[i + 1] \in Task
        BY <1>1, <4>1 DEF Ring
      <4> QED  BY <4>1, <4>2, Facts DEF Queue
    <3> QED  BY <3>1, <3>2
  <2> QED  BY <2>2, <2>4, <2>5
<1>3. CASE ~\E k \in 1 .. n : r[k] = u
  <2>1. readyNext[u] = u /\ readyPrev[u] = u /\ u \in Linked
    BY <1>1, <1>3, Facts DEF Ring
  <2>2. readyNext' = readyNext /\ readyPrev' = readyPrev
    BY <1>1, <2>1 DEF Links
  <2>3. \A v \in Task : v \in who \ {u} <=> \E i \in 1 .. n : r[i] = v
    BY <1>3 DEF Queue
  <2> QED  BY <1>1, <2>2, <2>3 DEF Queue
<1> QED  BY <1>2, <1>3

LEMMA StopTaskKeepsInv ==
  ASSUME SchedulersAssumption, SchedInv, NEW t \in Task, NEW u \in Task, StopTask(t, u)
  PROVE  SchedInv'
<1>1. /\ Runs(t) /\ u # t /\ \A v \in Task : creating[v] # u
      /\ state[u] \in {"READY", "WAIT"} /\ List!Unlink(u)
      /\ state' = [state EXCEPT ![u] = "INACTIVE"] /\ passed' = [passed EXCEPT ![u] = 0]
      /\ UNCHANGED <<scheduler, current, TCB, creating, currentId, pendSV>>
  BY DEF StopTask, Transition
<1>2. current = t /\ ~pendSV /\ state[t] = "ACTIVE" /\ u \in Thread /\ u # Idle
  BY <1>1, RunningTask, Facts
<1>3. /\ \A v \in Thread : state'[v] = IF v = u THEN "INACTIVE" ELSE state[v]
      /\ \A v \in Task : passed'[v] = IF v = u THEN 0 ELSE passed[v]
  BY <1>1, <1>2 DEF SchedInv, Typed
<1>4. Typed'
  BY <1>1, <1>2 DEF SchedInv, Typed, TaskState, Ids
<1>5. TableInv'
  BY <1>1, <1>3, Facts DEF SchedInv, TableInv, Ids
<1>6. CurrentInv'
  BY <1>1, <1>2, <1>3, Facts DEF SchedInv, CurrentInv
<1>7. SearchInv'
  <2>1. ASSUME NEW i \in Ids, TCB[i] # NoTask, state'[TCB[i]] = "READY"
        PROVE  state[TCB[i]] = "READY" /\ passed'[TCB[i]] = passed[TCB[i]]
    BY <1>3, <2>1, Facts DEF SchedInv, Typed
  <2> QED  BY <1>1, <2>1 DEF SchedInv, SearchInv, Ahead, Ids
<1>8. ListInv'
  <2> SUFFICES ASSUME scheduler = "round_robin"  PROVE ListInv'
    BY <1>1 DEF ListInv
  <2>1. PICK n, r : Queue(readyNext, readyPrev, n, r, Listed(state))
    BY DEF SchedInv, ListInv
  <2>2. passed \in [Task -> Nat]
    BY DEF SchedInv, Typed
  <2>3. PICK m, s :
          /\ readyNext' \in Links /\ readyPrev' \in Links /\ Ring(readyNext', readyPrev', m, s)
          /\ \A v \in Task : v \in Listed(state) \ {u} <=> \E i \in 1 .. m : s[i] = v
          /\ \A i \in 1 .. m : passed[s[i]] + i <= Tasks
    BY <1>1, <2>1, <2>2, QueueDrops
  <2>4. \A v \in Task : v \in Listed(state)' <=> v \in Listed(state) \ {u}
    BY <1>1, <1>3, Facts DEF Listed
  <2>5. \A i \in 1 .. m : passed'[s[i]] = passed[s[i]]
    <3>1. \A i \in 1 .. m : s[i] \in Task
      BY <2>3 DEF Ring
    <3> QED  BY <1>3, <2>3, <3>1
  <2>6. Queue(readyNext, readyPrev, m, s, Listed(state))'
    BY <2>3, <2>4, <2>5 DEF Queue, Ring, Links, Linked
  <2>7. \A v \in Task : creating[v] # NoTask =>
          /\ state'[creating[v]] = state[creating[v]]
          /\ passed'[creating[v]] = passed[creating[v]]
    BY <1>1, <1>3, Facts DEF SchedInv, Typed
  <2> QED  BY <1>1, <2>6, <2>7 DEF SchedInv, ListInv
<1> QED  BY <1>4, <1>5, <1>6, <1>7, <1>8 DEF SchedInv

LEMMA FreeTaskKeepsInv ==
  ASSUME SchedulersAssumption, SchedInv, NEW t \in Task, NEW u \in Task, FreeTask(t, u)
  PROVE  SchedInv'
<1>1. /\ Runs(t) /\ state[u] = "END" /\ List!Unlink(u)
      /\ TCB' = [i \in Ids |-> IF TCB[i] = u THEN NoTask ELSE TCB[i]]
      /\ state' = [state EXCEPT ![u] = "FREE"]
      /\ UNCHANGED <<scheduler, current, creating, currentId, pendSV, passed>>
  BY DEF FreeTask
<1>2. /\ current = t /\ ~pendSV /\ state[t] = "ACTIVE" /\ u \in Thread
      /\ u # Idle /\ u # t /\ u # Main /\ u # NoTask
  BY <1>1, RunningTask, Facts DEF SchedInv, CurrentInv
<1>3. /\ \A v \in Thread : state'[v] = IF v = u THEN "FREE" ELSE state[v]
      /\ \A i \in Ids : TCB'[i] = IF TCB[i] = u THEN NoTask ELSE TCB[i]
      /\ Ids' = Ids
  BY <1>1, <1>2 DEF SchedInv, Typed, Ids
<1>4. Typed'
  BY <1>1, <1>2 DEF SchedInv, Typed, Ids
<1>5. TableInv'
  <2>1. \A i \in Ids : TCB'[i] # NoTask => TCB'[i] = TCB[i]
    BY <1>3
  <2>2. \A v \in Task : (\E i \in Ids : TCB'[i] = v)
                        <=> v # u /\ \E i \in Ids : TCB[i] = v
    BY <1>3, Facts
  <2>3. \A v \in Task : state'[v] # "FREE" <=> v # u /\ state[v] # "FREE"
    BY <1>3, Facts
  <2> QED  BY <1>3, <2>1, <2>2, <2>3 DEF SchedInv, TableInv
<1>6. CurrentInv'
  BY <1>1, <1>2, <1>3, Facts DEF SchedInv, CurrentInv
<1>7. SearchInv'
  <2>1. TCB[currentId] # u /\ (scheduler = "round_robin" => TCB[0] # u)
    BY <1>2 DEF SchedInv, SearchInv, Typed
  <2>2. currentId \in Ids /\ (scheduler = "round_robin" => 0 \in Ids)
    BY DEF SchedInv, SearchInv, Typed
  <2>3. TCB'[currentId] = TCB[currentId]
        /\ (scheduler = "round_robin" => TCB'[0] = TCB[0])
    BY <1>3, <2>1, <2>2
  <2>4. ASSUME NEW i \in Ids, TCB'[i] # NoTask, state'[TCB'[i]] = "READY"
        PROVE  TCB'[i] = TCB[i] /\ state[TCB[i]] = "READY"
    BY <1>3, <2>4, Facts DEF SchedInv, Typed
  <2>5. Ids' = Ids /\ \A i \in Ids : Ahead(currentId, i)' = Ahead(currentId, i)
    BY <1>1 DEF Ids, Ahead
  <2> QED  BY <1>1, <2>3, <2>4, <2>5 DEF SchedInv, SearchInv
<1>8. ListInv'
  <2> SUFFICES ASSUME scheduler = "round_robin"  PROVE ListInv'
    BY <1>1 DEF ListInv
  <2>1. PICK n, r : Queue(readyNext, readyPrev, n, r, Listed(state))
    BY DEF SchedInv, ListInv
  <2>2. passed \in [Task -> Nat]
    BY DEF SchedInv, Typed
  <2>3. PICK m, s :
          /\ readyNext' \in Links /\ readyPrev' \in Links /\ Ring(readyNext', readyPrev', m, s)
          /\ \A v \in Task : v \in Listed(state) \ {u} <=> \E i \in 1 .. m : s[i] = v
          /\ \A i \in 1 .. m : passed[s[i]] + i <= Tasks
    BY <1>1, <2>1, <2>2, QueueDrops
  <2>4. \A v \in Task : v \in Listed(state)' <=> v \in Listed(state) \ {u}
    BY <1>1, <1>3, Facts DEF Listed
  <2>5. Queue(readyNext, readyPrev, m, s, Listed(state))'
    BY <1>1, <2>3, <2>4 DEF Queue, Ring, Links, Linked
  <2>6. \A v \in Task : creating[v] # NoTask =>
          state'[creating[v]] = state[creating[v]]
    BY <1>1, <1>3, Facts DEF SchedInv, ListInv, Typed
  <2> QED  BY <1>1, <2>5, <2>6 DEF SchedInv, ListInv
<1> QED  BY <1>4, <1>5, <1>6, <1>7, <1>8 DEF SchedInv

-----------------------------------------------------------------------------
(* The context switch.                                                     *)

(* The states after the first transition, that of the task that leaves.    *)
Left == [state EXCEPT ![current] = Transition(@, "CONTEXT_SWITCH")]

LEMMA LeftFacts ==
  ASSUME SchedulersAssumption, SchedInv
  PROVE  /\ \A t \in Thread : t # current => Left[t] = state[t]
         /\ state[current] \in {"ACTIVE", "READY", "WAIT", "END"}
         /\ Left[current] = CASE state[current] = "ACTIVE" -> "READY"
                              [] state[current] = "READY"  -> "ACTIVE"
                              [] OTHER                     -> state[current]
         /\ state[current] # "READY" =>
              /\ Left[Idle] = "READY" /\ \A t \in Thread : Left[t] # "ACTIVE"
         /\ Left \in [Thread -> TaskState \cup {"FREE"}]
         /\ Left[current] # Invalid
<1>1. current \in Thread /\ Idle \in Thread /\ state \in [Thread -> TaskState \cup {"FREE"}]
  BY Facts DEF SchedInv, Typed
<1>2. state[current] \in {"ACTIVE", "READY", "WAIT", "END"}
  BY <1>1 DEF SchedInv, CurrentInv, TaskState
<1>3. Left[current] = CASE state[current] = "ACTIVE" -> "READY"
                        [] state[current] = "READY"  -> "ACTIVE"
                        [] OTHER                     -> state[current]
  BY <1>1, <1>2 DEF Left, Transition
<1>4. \A t \in Thread : t # current => Left[t] = state[t]
  BY <1>1 DEF Left
<1>5. Left[current] \in TaskState
  BY <1>2, <1>3 DEF TaskState
<1>6. Left \in [Thread -> TaskState \cup {"FREE"}]
  BY <1>1, <1>4, <1>5 DEF Left
<1>7. state[current] # "READY" =>
        /\ Left[Idle] = "READY" /\ \A t \in Thread : Left[t] # "ACTIVE"
  BY <1>1, <1>2, <1>3, <1>4 DEF SchedInv, CurrentInv
<1>8. Left[current] # Invalid
  BY <1>5 DEF TaskState, Invalid
<1> QED  BY <1>2, <1>3, <1>4, <1>6, <1>7, <1>8

Now(c) == [Left EXCEPT ![c] = "ACTIVE"]

(* A task that was woken between the service that blocked it and the       *)
(* switch would be active beside the one chosen, or current and ready.     *)
LEMMA WokenStops ==
  ASSUME SchedulersAssumption, SchedInv, state[current] = "READY",
         NEW c \in Thread, NEW n, NEW p, NEW id, SwitchTo(c, Left, n, p, id)
  PROVE  Halt
<1> DEFINE now == [Left EXCEPT ![c] = Transition(@, "CONTEXT_SWITCH")]
<1>1. current \in Task /\ current \in Thread
  BY Facts DEF SchedInv, Typed, CurrentInv
<1>2. current \in InTable
  BY <1>1, Facts DEF SchedInv, TableInv, InTable
<1>3. Left[current] = "ACTIVE" /\ Left \in [Thread -> TaskState \cup {"FREE"}]
  BY LeftFacts
<1>4. ~TaskValid(current, c, now, n)
  <2>1. CASE c = current
    <3>1. now[current] = "READY"
      BY <1>1, <1>3, <2>1 DEF Transition
    <3> HIDE DEF now
    <3> QED  BY <2>1, <3>1 DEF TaskValid
  <2>2. CASE c # current
    <3>1. now[current] = "ACTIVE"
      BY <1>1, <1>3, <2>2
    <3> HIDE DEF now
    <3> QED  BY <2>2, <3>1 DEF TaskValid
  <2> QED  BY <2>1, <2>2
<1> QED  BY <1>2, <1>4 DEF SwitchTo

Chosen(c, n, p, id) ==
  /\ current' = c /\ state' = Now(c) /\ readyNext' = n /\ readyPrev' = p
  /\ currentId' = id /\ pendSV' = FALSE
  /\ passed' = [t \in Task |-> IF Now(c)[t] # "READY" THEN 0
                               ELSE IF c = Idle \/ passed[t] = MaxTasks THEN passed[t]
                               ELSE passed[t] + 1]
  /\ UNCHANGED <<scheduler, TCB, creating, halted>>

(* Otherwise the switch is made, but for a ready task that is in no list.  *)
LEMMA SwitchMakes ==
  ASSUME SchedulersAssumption, SchedInv, state[current] # "READY",
         NEW c \in Thread, Left[c] = "READY", NEW n, NEW p, NEW id,
         SwitchTo(c, Left, n, p, id)
  PROVE  \/ /\ Halt
            /\ \E t \in InTable : t # c /\ Left[t] = "READY" /\ ~TaskReady(t, Now(c), n)
         \/ /\ Chosen(c, n, p, id)
            /\ \A t \in InTable : t # c /\ Left[t] = "READY" => TaskReady(t, Now(c), n)
<1> DEFINE now == [Left EXCEPT ![c] = Transition(@, "CONTEXT_SWITCH")]
<1>1. Left \in [Thread -> TaskState \cup {"FREE"}]
  BY LeftFacts
<1>2. now = Now(c)
  BY <1>1 DEF Now, Transition
<1>3. /\ Now(c)[c] = "ACTIVE" /\ "ACTIVE" # Invalid
      /\ \A t \in Thread : t # c => Now(c)[t] = Left[t] /\ Left[t] # "ACTIVE"
  BY <1>1, LeftFacts DEF Now, Invalid
<1>4. \A t \in InTable : t \in Thread
  BY Facts DEF SchedInv, Typed, InTable
<1>5. \A t \in InTable :
        TaskValid(t, c, Now(c), n) <=>
          (t # c /\ Left[t] = "READY" => TaskReady(t, Now(c), n))
  <2> SUFFICES ASSUME NEW t \in InTable
               PROVE  TaskValid(t, c, Now(c), n) <=>
                        (t # c /\ Left[t] = "READY" => TaskReady(t, Now(c), n))
    OBVIOUS
  <2>1. CASE t = c
    BY <1>3, <2>1 DEF TaskValid
  <2>2. CASE t # c
    BY <1>3, <1>4, <2>2 DEF TaskValid
  <2> QED  BY <2>1, <2>2
<1>6. IF \E t \in InTable : ~TaskValid(t, c, Now(c), n) THEN Halt ELSE Chosen(c, n, p, id)
  <2>1. now[c] # Invalid
    BY <1>2, <1>3
  <2>2. CASE \E t \in InTable : ~TaskValid(t, c, now, n)
    BY <1>2, <2>2 DEF SwitchTo
  <2>3. CASE ~\E t \in InTable : ~TaskValid(t, c, now, n)
    <3>1. /\ current' = c /\ state' = now /\ readyNext' = n /\ readyPrev' = p
          /\ currentId' = id /\ pendSV' = FALSE
          /\ passed' = [t \in Task |->
                          IF now[t] # "READY" THEN 0
                          ELSE IF c = Idle \/ passed[t] = MaxTasks THEN passed[t]
                          ELSE passed[t] + 1]
          /\ UNCHANGED <<scheduler, TCB, creating, halted>>
      BY <2>1, <2>3 DEF SwitchTo
    <3> HIDE DEF now
    <3> QED  BY <1>2, <2>3, <3>1 DEF Chosen
  <2> QED  BY <2>2, <2>3
<1> QED  BY <1>5, <1>6

LEMMA ChosenKeeps ==
  ASSUME SchedulersAssumption, SchedInv, state[current] # "READY",
         NEW c \in Thread, Left[c] = "READY", NEW n, NEW p, NEW id \in Ids,
         Chosen(c, n, p, id)
  PROVE  /\ Typed' /\ TableInv' /\ CurrentInv'
         /\ \A t \in Thread : state'[t] = IF t = c THEN "ACTIVE" ELSE Left[t]
         /\ \A t \in Task : passed'[t] <= passed[t] + 1
         /\ c = Idle => \A t \in Task : passed'[t] <= passed[t]
<1>1. /\ Left \in [Thread -> TaskState \cup {"FREE"}]
      /\ \A t \in Thread : t # current => Left[t] = state[t]
      /\ Left[Idle] = "READY" /\ \A t \in Thread : Left[t] # "ACTIVE"
      /\ state[current] \in {"ACTIVE", "WAIT", "END"}
      /\ Left[current] = IF state[current] = "ACTIVE" THEN "READY" ELSE state[current]
  BY LeftFacts
<1>2. \A t \in Thread : state'[t] = IF t = c THEN "ACTIVE" ELSE Left[t]
  BY <1>1 DEF Chosen, Now
<1>3. \A t \in Task : /\ passed[t] \in Nat
                      /\ passed'[t] = IF state'[t] # "READY" THEN 0
                                      ELSE IF c = Idle \/ passed[t] = MaxTasks THEN passed[t]
                                      ELSE passed[t] + 1
  BY DEF Chosen, SchedInv, Typed
<1>4. state' \in [Thread -> TaskState \cup {"FREE"}]
  BY <1>1 DEF Chosen, Now, TaskState
<1>5. passed' \in [Task -> Nat]
  BY <1>3 DEF Chosen
<1>6. Typed'
  BY <1>4, <1>5 DEF Chosen, SchedInv, Typed, Ids
<1>7. TableInv'
  <2>1. current \in Thread
    BY DEF SchedInv, Typed
  <2>2. \A t \in Task : state'[t] = "FREE" <=> state[t] = "FREE"
    BY <1>1, <1>2, <2>1, Facts
  <2> QED  BY <2>2 DEF Chosen, SchedInv, TableInv, Ids
<1>8. CurrentInv'
  <2>1. current' = c /\ pendSV' = FALSE
    BY DEF Chosen
  <2>2. state'[Main] \notin {"FREE", "END"}
    <3>1. state[Main] \notin {"FREE", "END"} /\ Main \in Thread
      BY Facts DEF SchedInv, CurrentInv
    <3> QED  BY <1>1, <1>2, <3>1
  <2> QED  BY <1>1, <1>2, <1>3, <2>1, <2>2, Facts DEF CurrentInv
<1> QED  BY <1>2, <1>3, <1>6, <1>7, <1>8

(* The search of the trivial scheduler.                                    *)
Distance(i) == IF i > currentId THEN i - currentId ELSE i - currentId + MaxTasks

LEMMA IdAfterFacts ==
  ASSUME SchedulersAssumption, SchedInv
  PROVE  /\ \A k \in 1 .. MaxTasks :
              /\ IdAfter(k) \in Ids
              /\ IdAfter(k) = IF currentId + k < MaxTasks THEN currentId + k
                              ELSE currentId + k - MaxTasks
         /\ \A i \in Ids : Distance(i) \in 1 .. MaxTasks /\ IdAfter(Distance(i)) = i
<1>1. Ids = 0 .. MaxTasks - 1 /\ MaxTasks \in Nat \ {0} /\ currentId \in Ids
  BY IdFacts, Facts DEF SchedInv, Typed
<1>2. ASSUME NEW k \in 1 .. MaxTasks
      PROVE  /\ IdAfter(k) \in Ids
             /\ IdAfter(k) = IF currentId + k < MaxTasks THEN currentId + k
                             ELSE currentId + k - MaxTasks
  BY <1>1 DEF IdAfter
<1>3. ASSUME NEW i \in Ids
      PROVE  Distance(i) \in 1 .. MaxTasks /\ IdAfter(Distance(i)) = i
  <2>1. Distance(i) \in 1 .. MaxTasks
    BY <1>1 DEF Distance
  <2> QED  BY <1>1, <1>2, <2>1 DEF Distance
<1> QED  BY <1>2, <1>3

LEMMA SearchFinds ==
  ASSUME SchedulersAssumption, SchedInv
  PROVE  /\ Found(Left) \in Ids
         /\ ~ReadyAt(Found(Left), Left) =>
              /\ Found(Left) = currentId
              /\ \A i \in Ids : ~ReadyAt(i, Left)
         /\ \A i \in Ids : ReadyAt(i, Left) =>
              /\ ReadyAt(Found(Left), Left)
              /\ \E k \in 1 .. Distance(i) : Found(Left) = IdAfter(k)
<1> DEFINE after == {k \in 1 .. MaxTasks : ReadyAt(IdAfter(k), Left)}
           first == CHOOSE k \in after : \A j \in after : k <= j
<1>1. \A i \in Ids : ReadyAt(i, Left) => Distance(i) \in after
  BY IdAfterFacts
<1>2. CASE after = {}
  <2>1. Found(Left) = currentId /\ currentId \in Ids
    BY <1>2 DEF Found, SchedInv, Typed
  <2> QED  BY <1>1, <1>2, <2>1
<1>3. CASE after # {}
  <2>1. after \subseteq Nat
    OBVIOUS
  <2>2. first \in after /\ \A j \in after : first <= j
    BY <1>3, <2>1, Numbers!LeastElement
  <2>3. Found(Left) = IdAfter(first)
    BY <1>3 DEF Found
  <2>4. first \in 1 .. MaxTasks /\ ReadyAt(IdAfter(first), Left)
    BY <2>2
  <2>5. ASSUME NEW i \in Ids, ReadyAt(i, Left)
        PROVE  first \in 1 .. Distance(i)
    <3>1. Distance(i) \in after /\ Distance(i) \in 1 .. MaxTasks
      BY <1>1, <2>5
    <3>2. first <= Distance(i)
      BY <2>2, <3>1
    <3> HIDE DEF first
    <3> QED  BY <2>4, <3>1, <3>2
  <2> HIDE DEF first, after
  <2> QED  BY <2>3, <2>4, <2>5, IdAfterFacts
<1> QED  BY <1>2, <1>3

LEMMA TrivialSwitch ==
  ASSUME SchedulersAssumption, SchedInv, scheduler = "trivial", Switch
  PROVE  /\ SchedInv'
         /\ halted' # halted => state[current] = "READY"
<1> DEFINE id == Found(Left)
           c  == IF ReadyAt(id, Left) THEN TCB[id] ELSE Idle
<1>1. id \in Ids
  BY SearchFinds
<1>2. c \in Thread /\ (c \in Task <=> ReadyAt(id, Left)) /\ c # NoTask
  BY <1>1, Facts DEF SchedInv, Typed, ReadyAt
<1>3. SwitchTo(c, Left, readyNext, readyPrev, id)
  <2>1. ~InsertFails(current, Left) /\ Left[current] # Invalid
    BY LeftFacts DEF InsertFails, Insertable
  <2>2. OrIdle(IF ReadyAt(id, Left) THEN TCB[id] ELSE NoTask) = c
    BY <1>1, Facts DEF OrIdle, ReadyAt, SchedInv, Typed
  <2> QED  BY <2>1, <2>2 DEF Switch, Left
<1>4. CASE state[current] = "READY"
  BY <1>2, <1>3, <1>4, WokenStops, HaltKeepsInv
<1>5. CASE state[current] # "READY"
  <2>1. Left[c] = "READY"
    BY <1>5, LeftFacts DEF ReadyAt
  <2>2. \A t, n : Left[t] = "READY" /\ t # c /\ t \in Thread => TaskReady(t, Now(c), n)
    BY <1>5, LeftFacts DEF TaskReady, Now
  <2>3. \A t \in InTable : t \in Thread
    BY Facts DEF SchedInv, Typed, InTable
  <2> HIDE DEF id, c
  <2>4. Chosen(c, readyNext, readyPrev, id)
    BY <1>2, <1>3, <1>5, <2>1, <2>2, <2>3, SwitchMakes
  <2>5. /\ Typed' /\ TableInv' /\ CurrentInv'
        /\ \A t \in Thread : state'[t] = IF t = c THEN "ACTIVE" ELSE Left[t]
        /\ \A t \in Task : passed'[t] <= passed[t] + 1
        /\ c = Idle => \A t \in Task : passed'[t] <= passed[t]
    BY <1>1, <1>2, <1>5, <2>1, <2>4, ChosenKeeps
  <2>6. current' = c /\ currentId' = id /\ TCB' = TCB /\ scheduler' = scheduler
        /\ halted' = halted /\ Ids' = Ids
    BY <2>4 DEF Chosen, Ids
  <2>7. TCB[id] # NoTask /\ (c \in Task => TCB[id] = c)
    <3>1. CASE ReadyAt(id, Left)
      BY <3>1 DEF ReadyAt, c
    <3>2. CASE ~ReadyAt(id, Left)
      BY <1>2, <3>2, SearchFinds DEF id, SchedInv, SearchInv
    <3> QED  BY <3>1, <3>2
  <2>8. ASSUME NEW i \in Ids, TCB[i] # NoTask, state'[TCB[i]] = "READY"
        PROVE  passed'[TCB[i]] + Ahead(id, i) <= Tasks
    <3> DEFINE t == TCB[i]
    <3>1. t \in Task /\ t \in Thread /\ t # c /\ Left[t] = "READY"
      BY <2>5, <2>8, Facts DEF SchedInv, Typed
    <3>2. ReadyAt(i, Left)
      BY <2>8, <3>1 DEF ReadyAt
    <3>3. PICK k \in 1 .. Distance(i) : id = IdAfter(k)
      BY <3>2, SearchFinds DEF id
    <3>4. c \in Task /\ i # id
      BY <1>2, <2>7, <3>1, <3>2, SearchFinds DEF id
    <3>5. /\ currentId \in Nat /\ currentId < Tasks /\ Tasks \in Nat /\ MaxTasks \in Nat
          /\ i \in 0 .. MaxTasks - 1 /\ id \in 0 .. MaxTasks - 1 /\ i < Tasks /\ id < Tasks
      BY <1>1, <2>7, <2>8, IdFacts, Facts DEF SchedInv, TableInv
    <3>6. Distance(i) \in 1 .. MaxTasks /\ k \in 1 .. MaxTasks
      BY <3>5, IdAfterFacts DEF Ids
    <3>7. id = IF currentId + k < MaxTasks THEN currentId + k
               ELSE currentId + k - MaxTasks
      BY <3>3, <3>6, IdAfterFacts
    <3>8. Ahead(id, i) + 1 <= Ahead(currentId, i)
      BY <3>4, <3>5, <3>6, <3>7 DEF Ahead, Distance
    <3>9. passed[t] + Ahead(currentId, i) <= Tasks
      <4>1. CASE t = current
        <5>1. passed[t] = 0
          BY <1>5, <3>1, <4>1 DEF SchedInv, CurrentInv
        <5> QED  BY <3>5, <5>1 DEF Ahead
      <4>2. CASE t # current
        <5>1. state[t] = "READY"
          BY <3>1, <4>2, LeftFacts
        <5> QED  BY <2>8, <5>1 DEF SchedInv, SearchInv
      <4> QED  BY <4>1, <4>2
    <3>10. passed'[t] <= passed[t] + 1 /\ passed[t] \in Nat /\ passed'[t] \in Nat
      BY <2>5, <3>1 DEF SchedInv, Typed
    <3>11. Ahead(id, i) \in Int /\ Ahead(currentId, i) \in Int
      BY <3>5 DEF Ahead
    <3> HIDE DEF t
    <3>12. passed'[t] + Ahead(id, i) <= Tasks
      BY <3>5, <3>8, <3>9, <3>10, <3>11
    <3> QED  BY <3>12 DEF t
  <2>9. SearchInv'
    <3>1. \A i \in Ids : Ahead(currentId, i)' = Ahead(id, i)
      BY <2>6 DEF Ahead
    <3> QED  BY <2>6, <2>7, <2>8, <3>1 DEF SearchInv
  <2>10. ListInv'
    BY <2>6 DEF ListInv
  <2> QED  BY <2>5, <2>6, <2>9, <2>10 DEF SchedInv
<1> QED  BY <1>4, <1>5

(* The round-robin scheduler: the task that leaves goes to the rear, if it *)
(* is still ready, and the next one is the first.                          *)
LEMMA RearOfQueue ==
  ASSUME SchedulersAssumption, SchedInv, scheduler = "round_robin", state[current] # "READY",
         NEW nx, NEW pv,
         IF Insertable(current, Left) THEN nx = AtRear(current).next /\ pv = AtRear(current).prev
         ELSE nx = readyNext /\ pv = readyPrev
  PROVE  /\ \E n, r : Queue(nx, pv, n, r, Listed(Left))
         /\ ~InsertFails(current, Left)
<1>1. PICK n, r : Queue(readyNext, readyPrev, n, r, Listed(state))
  BY DEF SchedInv, ListInv
<1>2. \A v \in Task : creating[v] # current
  <2>1. current # NoTask
    BY Facts DEF SchedInv, Typed
  <2> QED  BY <2>1 DEF SchedInv, ListInv
<1>3. /\ \A t \in Thread : t # current => Left[t] = state[t]
      /\ current \in Thread
  BY LeftFacts DEF SchedInv, Typed
<1>4. CASE Insertable(current, Left)
  <2>1. current \in Task /\ Left[current] = "READY" /\ passed[current] = 0
    BY <1>3, <1>4, Facts DEF Insertable, SchedInv, CurrentInv
  <2>2. current \notin Listed(state)
    BY DEF Listed
  <2>3. /\ Queue(nx, pv, n + 1, Added(r, n, current), Listed(state) \cup {current})
        /\ ~InList(current)
    BY <1>1, <1>4, <2>1, <2>2, QueueAdds
  <2>4. \A v \in Task : v \in Listed(Left) <=> v \in Listed(state) \cup {current}
    BY <1>2, <1>3, <2>1, Facts DEF Listed
  <2>5. Queue(nx, pv, n + 1, Added(r, n, current), Listed(Left))
    BY <2>3, <2>4 DEF Queue
  <2> QED  BY <2>3, <2>5 DEF InsertFails
<1>5. CASE ~Insertable(current, Left)
  <2>1. current = Idle \/ Left[current] # "READY"
    BY <1>5 DEF Insertable
  <2>2. \A v \in Task : v \in Listed(Left) <=> v \in Listed(state)
    BY <1>3, <2>1, Facts DEF Listed
  <2>3. Queue(nx, pv, n, r, Listed(Left))
    BY <1>1, <1>5, <2>2 DEF Queue
  <2> QED  BY <1>5, <2>3 DEF InsertFails
<1> QED  BY <1>4, <1>5

(* The switch to c, when m and r are what is left of the queue.            *)
LEMMA RoundRobinChosen ==
  ASSUME SchedulersAssumption, SchedInv, scheduler = "round_robin", ~halted,
         state[current] # "READY", NEW c \in Thread, Left[c] = "READY",
         c \in Listed(Left) \/ c = Idle,
         NEW nx \in Links, NEW pv \in Links, NEW m, NEW s, Ring(nx, pv, m, s),
         \A u \in Task : u \in Listed(Left) \ {c} <=> \E i \in 1 .. m : s[i] = u,
         \A i \in 1 .. m : passed[s[i]] + i + (IF c = Idle THEN 0 ELSE 1) <= Tasks,
         SwitchTo(c, Left, nx, pv, currentId)
  PROVE  /\ SchedInv'
         /\ halted' # halted => \E t \in Task : creating[t] # NoTask
<1>1. /\ \A t \in Thread : t # current => Left[t] = state[t]
      /\ currentId \in Ids
  BY LeftFacts DEF SchedInv, Typed
<1>2. ASSUME NEW t \in Task, t # c, nx[t] = t, Left[t] = "READY"
      PROVE  \E v \in Task : creating[v] = t
  <2>1. t \notin Listed(Left)
    BY <1>2, InRing
  <2> QED  BY <1>2, <2>1 DEF Listed
<1>3. \A t : t \in InTable => t \in Task
  BY DEF SchedInv, Typed, InTable
<1>4. CASE /\ Halt
           /\ \E t \in InTable : t # c /\ Left[t] = "READY" /\ ~TaskReady(t, Now(c), nx)
  <2>1. PICK t \in InTable : t # c /\ Left[t] = "READY" /\ ~TaskReady(t, Now(c), nx)
    BY <1>4
  <2>2. t \in Task /\ t \in Thread /\ t # NoTask
    BY <1>3, <2>1, Facts
  <2>3. Now(c)[t] = "READY"
    BY <2>1, <2>2, LeftFacts DEF Now
  <2>4. nx[t] = t
    BY <2>1, <2>3 DEF TaskReady
  <2>5. \E v \in Task : creating[v] # NoTask
    BY <1>2, <2>1, <2>2, <2>4
  <2> QED  BY <1>4, <2>5, HaltKeepsInv
<1>5. CASE /\ Chosen(c, nx, pv, currentId)
           /\ \A t \in InTable : t # c /\ Left[t] = "READY" => TaskReady(t, Now(c), nx)
  <2>1. /\ Typed' /\ TableInv' /\ CurrentInv'
        /\ \A t \in Thread : state'[t] = IF t = c THEN "ACTIVE" ELSE Left[t]
        /\ \A t \in Task : passed'[t] <= passed[t] + 1
        /\ c = Idle => \A t \in Task : passed'[t] <= passed[t]
    BY <1>1, <1>5, ChosenKeeps
  <2>2. /\ scheduler' = scheduler /\ TCB' = TCB /\ creating' = creating
        /\ currentId' = currentId /\ halted' = halted /\ readyNext' = nx /\ readyPrev' = pv
    BY <1>5 DEF Chosen
  <2>3. ASSUME NEW v \in Task, creating[v] # NoTask
        PROVE  FALSE
    <3> DEFINE u == creating[v]
    <3>1. u \in Task /\ u \in Thread /\ state[u] = "READY"
      BY <2>3, Facts DEF SchedInv, Typed, ListInv
    <3>2. u \in InTable /\ Left[u] = "READY"
      <4>1. u # current
        BY <3>1
      <4>2. \E i \in Ids : TCB[i] = u
        BY <3>1 DEF SchedInv, TableInv
      <4>3. u # NoTask
        BY <2>3
      <4> HIDE DEF u
      <4> QED  BY <1>1, <3>1, <4>1, <4>2, <4>3 DEF InTable
    <3>3. u \notin Listed(Left)
      BY DEF Listed
    <3>4. u # c
      BY <3>1, <3>3, Facts
    <3> HIDE DEF u
    <3>5. nx[u] # u
      BY <1>5, <3>2, <3>4 DEF TaskReady
    <3> QED  BY <3>1, <3>3, <3>5, InRing
  <2>4. \A t \in Task : t \in Listed(state)' <=> t \in Listed(Left) \ {c}
    BY <2>1, <2>2, Facts DEF Listed
  <2>5. ASSUME NEW i \in 1 .. m
        PROVE  passed'[s[i]] + i <= Tasks
    <3>1. s[i] \in Task /\ i \in Nat
      BY DEF Ring
    <3>2. passed[s[i]] \in Nat /\ passed'[s[i]] \in Nat /\ Tasks \in Nat
      BY <2>1, <3>1, Facts DEF SchedInv, Typed
    <3>3. passed[s[i]] + i + (IF c = Idle THEN 0 ELSE 1) <= Tasks
      OBVIOUS
    <3>4. passed'[s[i]] <= passed[s[i]] + (IF c = Idle THEN 0 ELSE 1)
      BY <2>1, <3>1, <3>2
    <3> QED  BY <3>1, <3>2, <3>3, <3>4
  <2>6. Queue(readyNext, readyPrev, m, s, Listed(state))'
    BY <2>2, <2>4, <2>5 DEF Queue, Ring, Links, Linked
  <2>7. ListInv'
    BY <2>2, <2>3, <2>6 DEF ListInv
  <2>8. SearchInv'
    BY <2>2 DEF SchedInv, SearchInv
  <2> QED  BY <2>1, <2>2, <2>7, <2>8 DEF SchedInv
<1> QED  BY <1>4, <1>5, SwitchMakes

LEMMA RoundRobinSwitch ==
  ASSUME SchedulersAssumption, SchedInv, scheduler = "round_robin", Switch
  PROVE  /\ SchedInv'
         /\ halted' # halted =>
              state[current] = "READY" \/ \E t \in Task : creating[t] # NoTask
<1> DEFINE nx == IF Insertable(current, Left) THEN AtRear(current).next ELSE readyNext
           pv == IF Insertable(current, Left) THEN AtRear(current).prev ELSE readyPrev
           c  == nx[Ready]
           ny == [nx EXCEPT ![Ready] = nx[c], ![c] = c]
           py == [pv EXCEPT ![nx[c]] = Ready, ![c] = c]
<1>1. \/ InsertFails(current, Left) /\ Halt
      \/ c = Ready /\ SwitchTo(Idle, Left, nx, pv, currentId)
      \/ c # Ready /\ SwitchTo(c, Left, ny, py, currentId)
  <2>1. Left[current] # Invalid
    BY LeftFacts
  <2> DEFINE l == IF Insertable(current, Left) THEN AtRear(current)
                  ELSE [next |-> readyNext, prev |-> readyPrev]
  <2>2. l.next = nx /\ l.prev = pv
    OBVIOUS
  <2>3. IF InsertFails(current, Left) THEN Halt
        ELSE IF l.next[Ready] = Ready THEN SwitchTo(Idle, Left, l.next, l.prev, currentId)
        ELSE SwitchTo(l.next[Ready], Left,
                      [l.next EXCEPT ![Ready] = l.next[l.next[Ready]],
                                     ![l.next[Ready]] = l.next[Ready]],
                      [l.prev EXCEPT ![l.next[l.next[Ready]]] = Ready,
                                     ![l.next[Ready]] = l.next[Ready]], currentId)
    BY <2>1 DEF Switch, Left
  <2> HIDE DEF l
  <2> QED  BY <2>2, <2>3
<1>2. IF Insertable(current, Left) THEN nx = AtRear(current).next /\ pv = AtRear(current).prev
      ELSE nx = readyNext /\ pv = readyPrev
  OBVIOUS
<1> HIDE DEF nx, pv
<1>3. ~halted
  BY DEF Switch
<1>4. CASE state[current] = "READY"
  <2>1. current \in Thread /\ Left[current] = "ACTIVE"
    BY <1>4, LeftFacts DEF SchedInv, Typed
  <2>2. nx = readyNext /\ readyNext \in Links
    BY <1>2, <2>1 DEF Insertable, SchedInv, ListInv, Queue
  <2>3. c # Ready => c \in Thread
    BY <2>2, Facts DEF Links
  <2>4. Halt
    BY <1>1, <1>4, <2>3, Facts, WokenStops
  <2> QED  BY <1>4, <2>4, HaltKeepsInv
<1>5. CASE state[current] # "READY"
  <2>1. (\E n, r : Queue(nx, pv, n, r, Listed(Left))) /\ ~InsertFails(current, Left)
    BY <1>2, <1>5, RearOfQueue
  <2>2. PICK n, r : Queue(nx, pv, n, r, Listed(Left))
    BY <2>1
  <2>3. /\ nx \in Links /\ pv \in Links /\ Ring(nx, pv, n, r) /\ n \in Nat
        /\ r[0] = Ready /\ c = r[1]
    BY <2>2 DEF Queue, Ring
  <2>4. CASE n = 0
    <3>1. c = Ready
      BY <2>3, <2>4 DEF Ring
    <3>2. \A u \in Task : u \in Listed(Left) \ {Idle} <=> \E i \in 1 .. n : r[i] = u
      BY <2>2, Facts DEF Queue
    <3>3. \A i \in 1 .. n : passed[r[i]] + i + (IF Idle = Idle THEN 0 ELSE 1) <= Tasks
      BY <2>4
    <3>4. Left[Idle] = "READY" /\ Idle \in Thread
      BY <1>5, LeftFacts, Facts
    <3>5. SwitchTo(Idle, Left, nx, pv, currentId)
      BY <1>1, <2>1, <3>1
    <3> QED  BY <1>3, <1>5, <2>3, <3>2, <3>3, <3>4, <3>5, RoundRobinChosen
  <2>5. CASE n # 0
    <3> DEFINE s == Dropped(r, n, 1)
    <3>1. 1 \in 1 .. n /\ 0 \in 0 .. n /\ n - 1 \in Nat /\ \A i \in 1 .. n - 1 : i + 1 \in 1 .. n
      BY <2>3, <2>5
    <3>2. c \in Task /\ c # Ready /\ c \in Thread /\ c \in Listed(Left) /\ c # Idle
      BY <2>2, <2>3, <3>1, Facts DEF Queue, Ring
    <3>3. pv[c] = Ready
      <4>1. pv[r[0 + 1]] = r[0]
        BY <2>3, <3>1 DEF Ring
      <4> QED  BY <2>3, <4>1
    <3>4. ny \in Links /\ py \in Links /\ Ring(ny, py, n - 1, s)
      <4>1. /\ ny = [nx EXCEPT ![pv[r[1]]] = nx[r[1]], ![r[1]] = r[1]]
            /\ py = [pv EXCEPT ![nx[r[1]]] = pv[r[1]], ![r[1]] = r[1]]
        BY <2>3, <3>3
      <4> HIDE DEF ny, py
      <4> QED  BY <2>3, <3>1, <4>1, RingDrops
    <3>5. \A i \in 1 .. n - 1 : s[i] = r[i + 1]
      <4>1. \A i \in 1 .. n - 1 : i \in 0 .. n /\ ~(i < 1)
        BY <2>3
      <4> QED  BY <4>1 DEF Dropped
    <3>6. Left[c] = "READY"
      BY <3>2 DEF Listed
    <3>7. SwitchTo(c, Left, ny, py, currentId)
      BY <1>1, <2>1, <3>2
    <3> HIDE DEF s, ny, py
    <3>8. ASSUME NEW u \in Task
          PROVE  u \in Listed(Left) \ {c} <=> \E i \in 1 .. n - 1 : s[i] = u
      <4>1. ASSUME u \in Listed(Left), u # c
            PROVE  \E i \in 1 .. n - 1 : s[i] = u
        <5>1. PICK j \in 1 .. n : r[j] = u
          BY <2>2, <4>1 DEF Queue
        <5>2. j # 1
          BY <2>3, <4>1, <5>1
        <5>3. j - 1 \in 1 .. n - 1 /\ (j - 1) + 1 = j
          BY <2>3, <5>2
        <5> QED  BY <3>5, <5>1, <5>3
      <4>2. ASSUME NEW i \in 1 .. n - 1, s[i] = u
            PROVE  u \in Listed(Left) /\ u # c
        <5>1. i + 1 \in 1 .. n /\ r[i + 1] = u /\ i + 1 # 1
          BY <3>1, <3>5, <4>2
        <5>2. r[i + 1] # r[1]
          BY <2>3, <3>1, <5>1 DEF Ring
        <5> QED  BY <2>2, <2>3, <5>1, <5>2 DEF Queue
      <4> QED  BY <4>1, <4>2
    <3>9. ASSUME NEW i \in 1 .. n - 1
          PROVE  passed[s[i]] + i + (IF c = Idle THEN 0 ELSE 1) <= Tasks
      <4>1. i + 1 \in 1 .. n /\ s[i] = r[i + 1] /\ i \in Nat
        BY <3>1, <3>5
      <4>2. r[i + 1] \in Task
        BY <2>3, <4>1 DEF Ring
      <4>3. passed[r[i + 1]] + (i + 1) <= Tasks /\ passed[r[i + 1]] \in Nat /\ Tasks \in Nat
        BY <2>2, <4>1, <4>2, Facts DEF Queue, SchedInv, Typed
      <4> QED  BY <3>2, <4>1, <4>3
    <3> HIDE DEF c
    <3> QED  BY <1>3, <1>5, <3>2, <3>4, <3>6, <3>7, <3>8, <3>9, RoundRobinChosen
  <2> QED  BY <2>4, <2>5
<1> QED  BY <1>4, <1>5

-----------------------------------------------------------------------------
LEMMA StepKeepsInv ==
  ASSUME SchedulersAssumption
  PROVE  SchedInv /\ [SchedNext]_schedVars => SchedInv'
<1> SUFFICES ASSUME SchedInv, [SchedNext]_schedVars  PROVE SchedInv'
  OBVIOUS
<1>1. ASSUME NEW t \in Task,
             NewTask(t) \/ ScheduleNew(t) \/ BlockTask(t) \/ EndTask(t) \/ Yield(t) \/ Wake(t)
      PROVE  SchedInv'
  <2>1. CASE Yield(t)
    BY <2>1, RequestKeepsInv DEF Yield
  <2> QED  BY <1>1, <2>1, NewTaskKeepsInv, ScheduleNewKeepsInv, LeavesKeepsInv, WakeKeepsInv
<1>2. ASSUME NEW t \in Task, NEW u \in Task,
             StopTask(t, u) \/ StartTask(t, u) \/ FreeTask(t, u)
      PROVE  SchedInv'
  BY <1>2, StopTaskKeepsInv, StartTaskKeepsInv, FreeTaskKeepsInv
<1>3. CASE SliceExpires
  BY <1>3, RequestKeepsInv DEF SliceExpires
<1>4. CASE Switch
  <2>1. scheduler = "trivial" \/ scheduler = "round_robin"
    BY DEF SchedInv, Typed
  <2> QED  BY <1>4, <2>1, TrivialSwitch, RoundRobinSwitch
<1>5. CASE UNCHANGED schedVars
  BY <1>5 DEF schedVars, readyLinks, SchedInv, Typed, TableInv, CurrentInv, SearchInv, Ahead, ListInv,
              Queue, Listed, Ids
<1> QED  BY <1>1, <1>2, <1>3, <1>4, <1>5 DEF SchedNext

LEMMA InvAlways ==
  ASSUME SchedulersAssumption
  PROVE  SchedSpec => []SchedInv
<1>1. SchedInit => SchedInv
  BY InitInv
<1>2. SchedInv /\ [SchedNext]_schedVars => SchedInv'
  BY StepKeepsInv
<1> QED  BY <1>1, <1>2, PTL DEF SchedSpec

(***************************************************************************)
(* With any number of tasks and either scheduler, a ready task waits for   *)
(* every other task to be chosen once at most, whatever the tasks create,  *)
(* block on, stop, start and free meanwhile                                *)
(* (scheduler_round_robin.c:33-46, scheduler_trivial.c:40-55).             *)
(***************************************************************************)
THEOREM TurnsCome ==
  ASSUME SchedulersAssumption
  PROVE  SchedSpec => []TurnComes
<1>1. SchedInv => TurnComes
  <2> SUFFICES ASSUME SchedInv, NEW t \in Task  PROVE passed[t] <= Tasks - 1
    BY DEF TurnComes, Tasks
  <2>1. Tasks \in Nat /\ 1 <= Tasks /\ passed[t] \in Nat
    BY IdFacts DEF SchedInv, Typed
  <2>2. CASE state[t] # "READY"
    BY <2>1, <2>2 DEF SchedInv, CurrentInv
  <2>3. CASE state[t] = "READY" /\ scheduler = "trivial"
    <3>1. PICK i \in Ids : TCB[i] = t
      BY <2>3 DEF SchedInv, TableInv
    <3>2. t # NoTask
      BY Facts
    <3>3. passed[t] + Ahead(currentId, i) <= Tasks /\ i < Tasks
      BY <2>3, <3>1, <3>2 DEF SchedInv, SearchInv, TableInv
    <3>4. i \in Nat /\ currentId \in Nat /\ currentId < Tasks
      BY IdFacts DEF SchedInv
    <3> QED  BY <2>1, <3>3, <3>4 DEF Ahead
  <2>4. CASE state[t] = "READY" /\ scheduler = "round_robin"
    <3>1. PICK n, r : Queue(readyNext, readyPrev, n, r, Listed(state))
      BY <2>4 DEF SchedInv, ListInv
    <3>2. CASE t \in Listed(state)
      <4>1. PICK i \in 1 .. n : r[i] = t
        BY <3>1, <3>2 DEF Queue
      <4>2. passed[t] + i <= Tasks
        BY <3>1, <4>1 DEF Queue
      <4> QED  BY <2>1, <4>2
    <3>3. CASE t \notin Listed(state)
      <4>1. PICK v \in Task : creating[v] = t
        BY <2>4, <3>3 DEF Listed
      <4>2. passed[t] = 0
        BY <2>4, <4>1, Facts DEF SchedInv, ListInv
      <4> QED  BY <2>1, <4>2
    <3> QED  BY <3>2, <3>3
  <2> QED  BY <2>2, <2>3, <2>4 DEF SchedInv, Typed
<1> QED  BY InvAlways, <1>1, PTL

(***************************************************************************)
(* The slot the trivial search stands at, which it reads without a check   *)
(* when no other holds a ready task, holds one for ever: a task can not    *)
(* free itself (scheduler_trivial.c:53).                                   *)
(***************************************************************************)
THEOREM SearchEndsOnTasks ==
  ASSUME SchedulersAssumption
  PROVE  SchedSpec => []SearchEndsOnTask
<1>1. SchedInv => SearchEndsOnTask
  BY DEF SchedInv, SearchInv, SearchEndsOnTask
<1> QED  BY InvAlways, <1>1, PTL

(***************************************************************************)
(* No check of a context switch, no transition and no insertion fails but  *)
(* by the two races: a task woken before the switch that was to leave it,  *)
(* and one created and not yet scheduled (task.c:305-354).                 *)
(***************************************************************************)
THEOREM StopsByRaceOnly ==
  ASSUME SchedulersAssumption
  PROVE  SchedSpec => StopsOnlyByRace
<1> DEFINE Race == state[current] = "READY" \/ \E t \in Task : creating[t] # NoTask
<1>1. SchedInv /\ [SchedNext]_schedVars => [halted' # halted => Race]_schedVars
  <2> SUFFICES ASSUME SchedInv, SchedNext, halted' # halted  PROVE Race
    OBVIOUS
  <2>1. ASSUME NEW t \in Task, ScheduleNew(t)
        PROVE  Race
    BY <2>1 DEF ScheduleNew
  <2>2. ASSUME NEW u \in Task, state[u] \in {"WAIT", "INACTIVE"}, NEW st, InsertFails(u, st)
        PROVE  FALSE
    <3>1. scheduler = "round_robin" /\ InList(u)
      BY <2>2 DEF InsertFails, Insertable
    <3>2. PICK n, r : Queue(readyNext, readyPrev, n, r, Listed(state))
      BY <3>1 DEF SchedInv, ListInv
    <3>3. u \in Listed(state)
      BY <3>1, <3>2, InRing DEF Queue, InList
    <3> QED  BY <2>2, <3>3 DEF Listed
  <2>3. ASSUME NEW u \in Task, Wake(u)
        PROVE  FALSE
    BY <2>2, <2>3 DEF Wake
  <2>4. ASSUME NEW t \in Task, NEW u \in Task, StartTask(t, u)
        PROVE  FALSE
    BY <2>2, <2>4 DEF StartTask
  <2>5. CASE Switch
    <3>1. scheduler = "trivial" \/ scheduler = "round_robin"
      BY DEF SchedInv, Typed
    <3> QED  BY <2>5, <3>1, TrivialSwitch, RoundRobinSwitch
  <2> QED  BY <2>1, <2>3, <2>4, <2>5 DEF SchedNext, NewTask, BlockTask, EndTask, Leaves, Yield,
                                         StopTask, FreeTask, SliceExpires
<1> QED  BY InvAlways, <1>1, PTL DEF SchedSpec, StopsOnlyByRace

=============================================================================
