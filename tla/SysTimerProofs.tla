--------------------------- MODULE SysTimerProofs ---------------------------
(***************************************************************************)
(* The software timers, for any number of them, any periods and a counter  *)
(* of any size: their lists stay in the order of time, and when no tick    *)
(* falls inside the handler or a service each timer runs when exactly its  *)
(* period has passed.                                                      *)
(***************************************************************************)
EXTENDS SysTimer, TLAPS

(* An entry of a list, and its rank there: the earlier, the higher.        *)
Item == [timer : Timer, exec_at : 0 .. Wrap - 1]

Rank == [e \in Item |-> -e.exec_at]

Q == INSTANCE TaskListsProofs WITH Prio <- Rank

-----------------------------------------------------------------------------
(* What the operators of the lists return.                                 *)

LEMMA Constants ==
  /\ Wrap \in Nat \ {0}
  /\ Timer = Delay \cup Repeating /\ Slice \in Repeating
  /\ Watchdog \in Repeating /\ Slice # Watchdog
  /\ Delay \cap Repeating = {}
  /\ DelayPeriods \subseteq Nat
  /\ \A t \in Repeating : Period[t] \in 1 .. Wrap - 1
  BY SysTimerAssumption DEF Repeating, Timer

LEMMA ItemFacts ==
  ASSUME NEW e \in Item
  PROVE  /\ e.timer \in Timer /\ e.exec_at \in 0 .. Wrap - 1
         /\ Rank[e] \in Int /\ Rank[e] = -e.exec_at
  BY Constants DEF Item, Rank

LEMMA EntriesAreMembers ==
  ASSUME NEW list
  PROVE  Entries(list) = Q!Members(list)
  BY DEF Entries, Q!Members

LEMMA OrderIsRank ==
  ASSUME NEW list \in Seq(Item)
  PROVE  InOrder(list) <=> Q!Sorted(list)
<1>1. \A i \in DOMAIN list : list[i] \in Item
  OBVIOUS
<1>2. ASSUME NEW i \in DOMAIN list, NEW j \in DOMAIN list
      PROVE  list[i].exec_at <= list[j].exec_at
               <=> Rank[list[i]] >= Rank[list[j]]
  <2>1. list[i] \in Item /\ list[j] \in Item
    BY <1>1
  <2> QED
    BY <2>1, ItemFacts, Constants
<1> QED
  BY <1>2 DEF InOrder, Q!Sorted

LEMMA ModRange ==
  ASSUME NEW n \in Nat \ {0}, NEW i \in Nat
  PROVE  i % n \in 0 .. n - 1
  OBVIOUS

LEMMA ModSmall ==
  ASSUME NEW n \in Nat \ {0}, NEW i \in 0 .. n - 1
  PROVE  i % n = i
  OBVIOUS

LEMMA ModOnce ==
  ASSUME NEW n \in Nat \ {0}, NEW i \in n .. 2 * n - 1
  PROVE  i % n = i - n
  OBVIOUS

LEMMA ExecAtType ==
  ASSUME NEW p \in Nat, cnt \in 0 .. Wrap - 1
  PROVE  ExecAt(p) \in 0 .. Wrap - 1
  BY Constants DEF ExecAt

(* list_insert_condition with systimer_insert_condition.                   *)
LEMMA InsertedProperties ==
  ASSUME NEW list \in Seq(Item), NEW new \in Item
  PROVE  /\ Inserted(list, new) \in Seq(Item)
         /\ Entries(Inserted(list, new)) = Entries(list) \cup {new}
         /\ InOrder(list) => InOrder(Inserted(list, new))
         /\ Q!NoDuplicates(list) /\ new \notin Entries(list) =>
              Q!NoDuplicates(Inserted(list, new))
<1> DEFINE later == {i \in DOMAIN list : LaterThan(list[i], new)}
           q     == Q!Scheduled(list, new)
<1>1. ASSUME NEW i \in DOMAIN list
      PROVE  LaterThan(list[i], new) <=> Q!Outranks(new, list[i])
  <2>1. list[i] \in Item
    OBVIOUS
  <2> QED
    BY <2>1, ItemFacts, Constants DEF LaterThan, Q!Outranks
<1>2. later = {i \in DOMAIN list : Q!Outranks(new, list[i])}
  BY <1>1
<1>3. Inserted(list, new) = q
  <2>1. CASE later = {}
    <3>1. q = InsertAt(list, Len(list) + 1, new)
      BY <1>2, <2>1 DEF Q!Scheduled, Q!InsertionPoint, InsertAt, Q!InsertAt
    <3>2. Inserted(list, new) = Append(list, new)
      BY <2>1 DEF Inserted
    <3>3. InsertAt(list, Len(list) + 1, new) = Append(list, new)
      BY Q!InsertAtEnd DEF InsertAt, Q!InsertAt
    <3> QED
      BY <3>1, <3>2, <3>3
  <2>2. CASE later # {}
    <3> DEFINE first(P) == CHOOSE i \in P : \A j \in P : i <= j
               higher   == {i \in DOMAIN list : Q!Outranks(new, list[i])}
    <3>1. Inserted(list, new) = InsertAt(list, first(later), new)
      BY <2>2 DEF Inserted
    <3>2. q = Q!InsertAt(list, first(higher), new)
      BY <1>2, <2>2 DEF Q!Scheduled, Q!InsertionPoint
    <3>3. first(later) = first(higher)
      BY <1>2
    <3> HIDE DEF later, higher, first
    <3> QED
      BY <3>1, <3>2, <3>3 DEF InsertAt, Q!InsertAt
  <2> QED
    BY <2>1, <2>2
<1>4. \A e \in Item : Rank[e] \in Int
  BY ItemFacts
<1> HIDE DEF later, q
<1>5. /\ q \in Seq(Item)
      /\ Q!Members(q) = Q!Members(list) \cup {new}
      /\ Q!NoDuplicates(list) /\ new \notin Q!Members(list) =>
           Q!NoDuplicates(q)
      /\ Q!Sorted(list) => Q!Sorted(q)
  BY <1>4, Q!ScheduledProperties DEF q
<1> QED
  BY <1>3, <1>5, EntriesAreMembers, OrderIsRank

(* list_remove of a timer's node.                                          *)
LEMMA RemovedProperties ==
  ASSUME NEW list \in Seq(Item), NEW t
  PROVE  /\ Removed(list, t) \in Seq(Item)
         /\ Entries(Removed(list, t)) \subseteq Entries(list)
         /\ \A e \in Entries(list) :
              e \in Entries(Removed(list, t)) \/ e.timer = t
         /\ InOrder(list) => InOrder(Removed(list, t))
         /\ Q!NoDuplicates(list) =>
              /\ Q!NoDuplicates(Removed(list, t))
              /\ (\A e, f \in Entries(list) : e.timer = f.timer => e = f) =>
                   t \notin Timers(Removed(list, t))
         /\ t \notin Timers(list) => Removed(list, t) = list
<1> DEFINE at == CHOOSE i \in DOMAIN list : list[i].timer = t
<1>1. DOMAIN list = 1 .. Len(list)
  BY Q!LenProperties
<1>2. CASE ~ \E i \in DOMAIN list : list[i].timer = t
  <2>1. Removed(list, t) = list
    BY <1>2 DEF Removed
  <2> QED
    BY <1>2, <2>1 DEF Timers, Entries
<1>3. CASE \E i \in DOMAIN list : list[i].timer = t
  <2>1. at \in 1 .. Len(list) /\ list[at].timer = t
    BY <1>1, <1>3
  <2>2. Removed(list, t) = RemoveAt(list, at)
    BY <1>3 DEF Removed
  <2> HIDE DEF at
  <2> DEFINE r == RemoveAt(list, at)
  <2>3. /\ r \in Seq(Item)
        /\ Q!Members(r) \subseteq Q!Members(list)
        /\ Q!Members(list) \subseteq Q!Members(r) \cup {list[at]}
        /\ Q!NoDuplicates(list) =>
             Q!NoDuplicates(r) /\ list[at] \notin Q!Members(r)
        /\ Q!Sorted(list) => Q!Sorted(r)
    BY <2>1, Q!RemovalProperties DEF RemoveAt, Q!RemoveAt
  <2> HIDE DEF r
  <2>4. Removed(list, t) = r
    BY <2>2 DEF r
  <2>5. list[at] \in Entries(list) /\ t \in Timers(list)
    BY <1>1, <2>1 DEF Entries, Timers
  <2>6. InOrder(list) => InOrder(r)
    BY <2>3, OrderIsRank
  <2>7. Entries(r) \subseteq Entries(list)
    BY <2>3, EntriesAreMembers
  <2>8. \A e \in Entries(list) : e \in Entries(r) \/ e.timer = t
    BY <2>1, <2>3, EntriesAreMembers
  <2>9. ASSUME Q!NoDuplicates(list),
               \A e, f \in Entries(list) : e.timer = f.timer => e = f
        PROVE  t \notin Timers(r)
    <3> SUFFICES ASSUME NEW e \in Entries(r), e.timer = t
                 PROVE  FALSE
      BY DEF Timers
    <3>1. e = list[at]
      BY <2>1, <2>5, <2>7, <2>9
    <3> QED
      BY <2>3, <2>9, <3>1, EntriesAreMembers
  <2> QED
    BY <2>3, <2>4, <2>5, <2>6, <2>7, <2>8, <2>9
<1> QED
  BY <1>2, <1>3

(* list_removeFront.                                                       *)
LEMMA TailEntries ==
  ASSUME NEW list \in Seq(Item), list # << >>
  PROVE  /\ Head(list) \in Item /\ Head(list) \in Entries(list)
         /\ Tail(list) \in Seq(Item)
         /\ Entries(list) = Entries(Tail(list)) \cup {Head(list)}
         /\ Q!NoDuplicates(list) =>
              /\ Q!NoDuplicates(Tail(list))
              /\ Head(list) \notin Entries(Tail(list))
         /\ InOrder(list) =>
              /\ InOrder(Tail(list))
              /\ \A e \in Entries(list) : Head(list).exec_at <= e.exec_at
<1>1. /\ Head(list) \in Item /\ Head(list) \in Q!Members(list)
      /\ Tail(list) \in Seq(Item)
      /\ Q!Members(list) = Q!Members(Tail(list)) \cup {Head(list)}
      /\ Q!NoDuplicates(list) =>
           /\ Q!NoDuplicates(Tail(list))
           /\ Head(list) \notin Q!Members(Tail(list))
      /\ Q!Sorted(list) =>
           /\ Q!Sorted(Tail(list))
           /\ \A e \in Q!Members(Tail(list)) : Rank[Head(list)] >= Rank[e]
  BY Q!TailListProperties
<1>2. ASSUME InOrder(list), NEW e \in Entries(list)
      PROVE  Head(list).exec_at <= e.exec_at
  <2>1. CASE e = Head(list)
    BY <1>1, <2>1, ItemFacts, Constants
  <2>2. CASE e # Head(list)
    <3>1. e \in Q!Members(Tail(list)) /\ Q!Sorted(list)
      BY <1>1, <1>2, <2>2, EntriesAreMembers, OrderIsRank
    <3>2. e \in Item
      BY <1>1, <3>1 DEF Q!Members
    <3>3. Rank[Head(list)] >= Rank[e]
      BY <1>1, <3>1
    <3> QED
      BY <1>1, <3>2, <3>3, ItemFacts, Constants
  <2> QED
    BY <2>1, <2>2
<1> QED
  BY <1>1, <1>2, EntriesAreMembers, OrderIsRank

-----------------------------------------------------------------------------
(* What the exactness of the timers is proved from.                        *)

(* No tick falls inside the handler or a service.                          *)
Prompt == Slow = {}

(* No delay is longer than the counter counts: the driver asserts it of    *)
(* systimer_create_exec's periods (systimer.c:126).                        *)
ShortDelays == DelayPeriods \subseteq 0 .. Wrap - 1

(* The watchdog's timer is faster than the watchdog: 200 ms and 250 ms     *)
(* (watchdog.c:19, :27).                                                   *)
FedInTime == Period[Watchdog] < Reload

-----------------------------------------------------------------------------
(* The inductive invariants.                                               *)

Types == TypeOK /\ (halt = "none" => unfed < Reload)

(* The counter has wrapped and the lists have not changed places yet.      *)
AtWrap == update /\ pc # "clear update"

(* How long an entry of either list has to wait.                           *)
Wait(e)         == e.exec_at - cnt
RolloverWait(e) == IF AtWrap THEN e.exec_at ELSE e.exec_at + Wrap - cnt

(* Each entry is in the list of its lap, as far ahead as it owes.          *)
EntriesExact ==
  /\ \A e \in Entries(systimers) :
       e.exec_at >= cnt /\ owed[e.timer] = Wait(e)
  /\ \A e \in Entries(rollovers) :
       /\ AtWrap \/ e.exec_at < cnt
       /\ owed[e.timer] = RolloverWait(e)

ListedOnce == Q!NoDuplicates(systimers) /\ Q!NoDuplicates(rollovers)

(* At the wrap, every timer of the old lap has run.                        *)
WrapOK ==
  /\ update => cnt = 0 /\ pc \notin {"callback", "rearm"}
  /\ AtWrap => systimers = << >>
  /\ pc = "clear update" => update

(* The timer being served is in no list, and due.                          *)
ServingOK ==
  /\ pc \in {"loop", "callback", "rearm"} => systime = cnt
  /\ pc \notin {"callback", "rearm"} => serving = {}
  /\ pc \in {"callback", "rearm"} =>
       \E t \in Timer : serving = {t} /\ ~Listed(t) /\ owed[t] = 0

(* Outside the loop the first timer is the one compared with, and flagged  *)
(* when it is due.                                                         *)
ComparesNext ==
  systimers # << >> =>
    /\ pc \in {"idle", "clear", "update", "clear update"} =>
         ccr = Head(systimers).exec_at /\ cc1ie
    /\ pc \in {"idle", "update", "clear update"} =>
         (Head(systimers).exec_at = cnt => cc1)
    /\ pc = "clear" => Head(systimers).exec_at # cnt

(* The watchdog's timer is running since the last reload.                  *)
WatchdogOK ==
  /\ unfed = -1 => ~Listed(Watchdog) /\ Watchdog \notin serving
  /\ unfed # -1 => Listed(Watchdog) \/ Watchdog \in serving
  /\ Listed(Watchdog) => unfed + owed[Watchdog] = Period[Watchdog]
  /\ pc = "rearm" /\ Watchdog \in serving => unfed = 0

ListsExact == ListsInOrder /\ ListedOnce /\ EntriesExact

Exact ==
  /\ ListsExact /\ WrapOK /\ ServingOK /\ ComparesNext /\ WatchdogOK
  /\ NothingFails

-----------------------------------------------------------------------------
(* Types and the order of the lists, whatever the handler's speed.         *)

TypedLists == systimers \in Seq(Item) /\ rollovers \in Seq(Item)

LEMMA TypesOfLists ==
  ASSUME Types
  PROVE  /\ TypedLists /\ cnt \in 0 .. Wrap - 1 /\ owed \in [Timer -> Nat]
         /\ \A e \in Entries(systimers) \cup Entries(rollovers) : e \in Item
<1>1. TypedLists /\ cnt \in 0 .. Wrap - 1 /\ owed \in [Timer -> Nat]
  BY DEF Types, TypeOK, TypedLists, Item
<1>2. ASSUME NEW list \in Seq(Item)
      PROVE  \A e \in Entries(list) : e \in Item
  BY DEF Entries
<1> QED
  BY <1>1, <1>2 DEF TypedLists

LEMMA InitTypes == Init => Types /\ ListsInOrder
<1> SUFFICES ASSUME Init
             PROVE  Types /\ ListsInOrder
  OBVIOUS
<1>1. << >> \in Seq([timer : Timer, exec_at : 0 .. Wrap - 1])
  OBVIOUS
<1>2. 0 \in 0 .. Wrap - 1 /\ -1 \in -1 .. Reload
  BY Constants, SysTimerAssumption
<1>3. owed \in [Timer -> Nat]
  BY DEF Init
<1>4. TypeOK
  BY <1>1, <1>2, <1>3 DEF Init, TypeOK
<1>5. ListsInOrder
  BY DEF Init, ListsInOrder, InOrder
<1> QED
  BY <1>4, <1>5, SysTimerAssumption DEF Init, Types

LEMMA ScheduleTypes ==
  ASSUME TypedLists, cnt \in 0 .. Wrap - 1,
         NEW t \in Timer, NEW p \in Nat, Schedule(t, p)
  PROVE  TypedLists' /\ (ListsInOrder => ListsInOrder')
<1> DEFINE new == Entry(t, ExecAt(p))
<1>1. new \in Item
  BY ExecAtType DEF Entry, Item
<1> HIDE DEF new
<1>2. \/ rollovers' = Inserted(rollovers, new) /\ systimers' = systimers
      \/ systimers' = Inserted(systimers, new) /\ rollovers' = rollovers
  BY DEF Schedule, new
<1> QED
  BY <1>1, <1>2, InsertedProperties DEF TypedLists, ListsInOrder

LEMMA ScheduleNextTypes ==
  ASSUME TypedLists', ccr \in 0 .. Wrap - 1, cc1ie \in BOOLEAN,
         cc1 \in BOOLEAN, ScheduleNext
  PROVE  ccr' \in 0 .. Wrap - 1 /\ cc1ie' \in BOOLEAN /\ cc1' \in BOOLEAN
<1>1. CASE systimers' = << >>
  BY <1>1 DEF ScheduleNext
<1>2. CASE systimers' # << >>
  <2>1. Head(systimers') \in Item
    BY <1>2, TailEntries DEF TypedLists
  <2> QED
    BY <1>2, <2>1, ItemFacts DEF ScheduleNext
<1> QED
  BY <1>1, <1>2

LEMMA StartTypes ==
  ASSUME Types, NEW t \in Timer, NEW p \in Nat, Start(t, p), cnt' = cnt
  PROVE  /\ TypedLists' /\ (ListsInOrder => ListsInOrder')
         /\ ccr' \in 0 .. Wrap - 1 /\ cc1ie' \in BOOLEAN /\ cc1' \in BOOLEAN
         /\ owed' \in [Timer -> Nat]
<1>1. TypedLists /\ cnt \in 0 .. Wrap - 1 /\ owed \in [Timer -> Nat]
  BY TypesOfLists
<1>2. TypedLists' /\ (ListsInOrder => ListsInOrder')
  BY <1>1, ScheduleTypes DEF Start
<1> QED
  BY <1>1, <1>2, ScheduleNextTypes DEF Start, Types, TypeOK

LEMMA TypesNext ==
  Types /\ ListsInOrder /\ [Next]_vars => Types' /\ ListsInOrder'
<1> SUFFICES ASSUME Types, ListsInOrder, [Next]_vars
             PROVE  Types' /\ ListsInOrder'
  OBVIOUS
<1>3. /\ TypedLists /\ cnt \in 0 .. Wrap - 1 /\ owed \in [Timer -> Nat]
      /\ ccr \in 0 .. Wrap - 1 /\ cc1ie \in BOOLEAN /\ cc1 \in BOOLEAN
  BY TypesOfLists DEF Types, TypeOK
<1>4. \A t \in Repeating : Period[t] \in Nat /\ t \in Timer
  BY Constants
<1>1. halt = "none" => unfed \in -1 .. Reload /\ unfed < Reload
  BY DEF Types, TypeOK
<1>2. Reload \in Nat \ {0}
  BY SysTimerAssumption
<1> USE DEF hardware, lists, handler
<1>5. CASE UNCHANGED vars
  BY <1>5 DEF vars, ListsInOrder, Types, TypeOK
<1>6. CASE Tick
  <2>1. cnt' \in 0 .. Wrap - 1
    <3>1. cnt + 1 \in Nat /\ cnt' = (cnt + 1) % Wrap
      BY <1>3, <1>6, Constants DEF Tick
    <3>2. (cnt + 1) % Wrap \in 0 .. Wrap - 1
      BY <3>1, ModRange, Constants
    <3> QED
      BY <3>1, <3>2
  <2>2. owed' \in [Timer -> Nat]
    <3>1. \A t \in Timer : owed[t] \in Nat
      BY <1>3
    <3>2. \A t \in Timer :
            (IF owed[t] = 0 THEN 0 ELSE owed[t] - 1) \in Nat
      BY <3>1
    <3>3. owed' = [t \in Timer |-> IF owed[t] = 0 THEN 0 ELSE owed[t] - 1]
      BY <1>6 DEF Tick
    <3> QED
      BY <3>2, <3>3
  <2>3. /\ unfed' \in -1 .. Reload /\ halt' \in {"none", "reset"}
        /\ halt' = "none" => unfed' < Reload
    <3>1. unfed \in -1 .. Reload /\ unfed < Reload /\ Reload \in Nat \ {0}
      BY <1>1, <1>2, <1>6 DEF Tick
    <3> QED
      BY <1>6, <3>1 DEF Tick
  <2>4. /\ UNCHANGED <<ccr, cc1ie, lists, handler>>
        /\ cc1' \in BOOLEAN /\ update' \in BOOLEAN
    BY <1>3, <1>6 DEF Tick
  <2> QED
    BY <1>6, <2>1, <2>2, <2>3, <2>4 DEF Tick, ListsInOrder, Types, TypeOK
<1>7. ASSUME NEW t \in Delay, StartDelay(t)
      PROVE  Types' /\ ListsInOrder'
  <2>1. PICK p \in DelayPeriods : Start(t, p)
    BY <1>7 DEF StartDelay
  <2>2. p \in Nat /\ t \in Timer /\ cnt' = cnt
    BY <1>7, Constants DEF StartDelay
  <2> QED
    BY <1>7, <2>1, <2>2, StartTypes
       DEF StartDelay, TypedLists, Item, Types, TypeOK
<1>8. ASSUME NEW t \in Repeating, StartRepeating(t)
      PROVE  Types' /\ ListsInOrder'
  <2>1. Start(t, Period[t]) /\ cnt' = cnt
    BY <1>8 DEF StartRepeating
  <2>2. t \in Timer /\ Period[t] \in Nat
    BY <1>4
  <2>3. /\ TypedLists' /\ ListsInOrder'
        /\ ccr' \in 0 .. Wrap - 1 /\ cc1ie' \in BOOLEAN /\ cc1' \in BOOLEAN
        /\ owed' \in [Timer -> Nat]
    BY <2>1, <2>2, StartTypes
  <2>4. unfed' \in -1 .. Reload /\ (halt' = "none" => unfed' < Reload)
    BY <1>1, <1>2, <1>8 DEF StartRepeating, InService
  <2> QED
    BY <1>8, <2>3, <2>4
       DEF StartRepeating, TypedLists, Item, Types, TypeOK
<1>9. ASSUME NEW t \in Delay \cup {Slice}, StopTimer(t)
      PROVE  Types' /\ ListsInOrder'
  <2>1. TypedLists' /\ ListsInOrder'
    BY <1>3, <1>9, RemovedProperties DEF StopTimer, TypedLists, ListsInOrder
  <2>2. ccr' \in 0 .. Wrap - 1 /\ cc1ie' \in BOOLEAN /\ cc1' \in BOOLEAN
    BY <1>3, <1>9, <2>1, ScheduleNextTypes DEF StopTimer
  <2> QED
    BY <1>3, <1>9, <2>1, <2>2 DEF StopTimer, TypedLists, Item, Types, TypeOK
<1>10. CASE Enter \/ ClearCC1 \/ ClearUpdate \/ NoUpdate
  BY <1>10 DEF Enter, ClearCC1, ClearUpdate, NoUpdate, At, ListsInOrder,
              Types, TypeOK
<1>11. CASE RemoveDue
  <2>1. /\ systimers # << >> /\ systimers' = Tail(systimers)
        /\ rollovers' = rollovers /\ serving' = {Head(systimers).timer}
    BY <1>11 DEF RemoveDue, Due
  <2>2. /\ Tail(systimers) \in Seq(Item) /\ InOrder(Tail(systimers))
        /\ Head(systimers).timer \in Timer
    BY <1>3, <2>1, TailEntries, ItemFacts DEF TypedLists, ListsInOrder
  <2> QED
    BY <1>11, <2>1, <2>2 DEF RemoveDue, At, ListsInOrder, TypedLists, Item,
                                 Types, TypeOK
<1>12. ASSUME NEW t \in Timer, Callback(t)
       PROVE  Types' /\ ListsInOrder'
  <2>1. CASE Start(Slice, Period[Slice])
    <3>1. Slice \in Timer /\ Period[Slice] \in Nat /\ cnt' = cnt
      BY <1>4, <1>12, Constants DEF Callback
    <3>2. /\ TypedLists' /\ ListsInOrder'
          /\ ccr' \in 0 .. Wrap - 1 /\ cc1ie' \in BOOLEAN /\ cc1' \in BOOLEAN
          /\ owed' \in [Timer -> Nat]
      BY <2>1, <3>1, StartTypes
    <3>3. unfed' \in -1 .. Reload /\ (halt' = "none" => unfed' < Reload)
      BY <1>1, <1>2, <1>12 DEF Callback, At
    <3> QED
      BY <1>12, <3>2, <3>3 DEF Callback, At, TypedLists, Item, Types, TypeOK
  <2>2. CASE UNCHANGED <<ccr, cc1ie, cc1, lists, owed>>
    BY <1>2, <1>12, <2>2 DEF Callback, At, ListsInOrder, Types, TypeOK
  <2> QED
    BY <1>12, <2>1, <2>2 DEF Callback
<1>13. ASSUME NEW t \in Timer, Rearm(t)
       PROVE  Types' /\ ListsInOrder'
  <2>1. CASE Rearms(t)
    <3>1. /\ Schedule(t, Period[t]) /\ owed' = [owed EXCEPT ![t] = Period[t]]
          /\ Period[t] \in Nat
      BY <1>4, <1>13, <2>1 DEF Rearm, Rearms
    <3>2. TypedLists' /\ ListsInOrder' /\ owed' \in [Timer -> Nat]
      BY <1>3, <3>1, ScheduleTypes
    <3> QED
      BY <1>13, <3>2 DEF Rearm, At, TypedLists, Item, Types, TypeOK
  <2>2. CASE ~Rearms(t)
    BY <1>13, <2>2 DEF Rearm, At, ListsInOrder, Types, TypeOK
  <2> QED
    BY <2>1, <2>2
<1>14. CASE LoopEnds
  <2>1. TypedLists' /\ ListsInOrder'
    BY <1>3, <1>14 DEF LoopEnds, TypedLists, ListsInOrder
  <2> QED
    BY <1>3, <1>14, <2>1, ScheduleNextTypes
       DEF LoopEnds, At, TypedLists, Item, Types, TypeOK
<1>15. CASE SwapLists
  <2>1. TypedLists' /\ ListsInOrder'
    BY <1>3, <1>15 DEF SwapLists, TypedLists, ListsInOrder
  <2>2. ccr' \in 0 .. Wrap - 1 /\ cc1ie' \in BOOLEAN /\ cc1' \in BOOLEAN
    BY <1>3, <1>15, <2>1, ScheduleNextTypes DEF SwapLists
  <2> QED
    BY <1>3, <1>15, <2>1, <2>2
       DEF SwapLists, At, TypedLists, Item, Types, TypeOK
<1> QED
  BY <1>5, <1>6, <1>7, <1>8, <1>9, <1>10, <1>11, <1>12, <1>13, <1>14, <1>15
     DEF Next, IRQHandler

(* The timers' state has the types its variables are declared with.        *)
THEOREM TimerTypes == Spec => []TypeOK
<1>1. Types /\ ListsInOrder => TypeOK
  BY DEF Types
<1> QED
  BY InitTypes, TypesNext, <1>1, PTL DEF Spec

(***************************************************************************)
(* Both lists stay in the order of time, for any timers and periods and    *)
(* however slow the handler is: the head is always the next timer to run   *)
(* (systimer.c:18-21).                                                     *)
(***************************************************************************)
THEOREM TimersInOrder == Spec => []ListsInOrder
  BY InitTypes, TypesNext, PTL DEF Spec

-----------------------------------------------------------------------------
(* The exactness of the lists: what starting and stopping does to it.      *)

LEMMA ExecAtValue ==
  ASSUME cnt \in 0 .. Wrap - 1, NEW p \in 0 .. Wrap - 1
  PROVE  /\ ExecAt(p) \in 0 .. Wrap - 1
         /\ cnt + p < Wrap  => ExecAt(p) = cnt + p
         /\ cnt + p >= Wrap => ExecAt(p) = cnt + p - Wrap
<1>1. ExecAt(p) = (cnt + p) % Wrap
  BY ModSmall, Constants DEF ExecAt
<1>2. CASE cnt + p < Wrap
  <2>1. cnt + p \in 0 .. Wrap - 1
    BY <1>2, Constants
  <2>2. Wrap \in Nat \ {0} /\ 2 * Wrap - 1 \in Int
    BY Constants
  <2>3. (cnt + p) % Wrap = cnt + p
    BY <2>1, <2>2, ModSmall
  <2> QED
    BY <1>1, <1>2, <2>1, <2>3, Constants
<1>3. CASE cnt + p >= Wrap
  <2>1. cnt + p \in Wrap .. 2 * Wrap - 1
    BY <1>3, Constants
  <2>2. Wrap \in Nat \ {0}
    BY Constants
  <2>3. (cnt + p) % Wrap = cnt + p - Wrap
    BY <2>1, <2>2, ModOnce
  <2> QED
    BY <1>1, <1>3, <2>1, <2>3, Constants
<1> QED
  BY <1>2, <1>3, Constants

LEMMA ListedEntries ==
  ASSUME NEW t
  PROVE  Listed(t) <=>
           \E e \in Entries(systimers) \cup Entries(rollovers) : e.timer = t
  BY DEF Listed, Timers

(* What a listed timer owes tells its entry: it has only one.              *)
LEMMA OneEntry ==
  ASSUME Types, EntriesExact, WrapOK,
         NEW e \in Entries(systimers) \cup Entries(rollovers),
         NEW f \in Entries(systimers) \cup Entries(rollovers),
         e.timer = f.timer
  PROVE  /\ e = f
         /\ ~(e \in Entries(systimers) /\ f \in Entries(rollovers))
<1>1. e \in Item /\ f \in Item /\ cnt \in 0 .. Wrap - 1
  BY TypesOfLists
<1>2. e.exec_at \in 0 .. Wrap - 1 /\ f.exec_at \in 0 .. Wrap - 1
  BY <1>1, ItemFacts
<1>3. AtWrap => Entries(systimers) = {}
  <2>1. DOMAIN << >> = {}
    OBVIOUS
  <2> QED
    BY <2>1 DEF WrapOK, Entries
<1>4. ASSUME NEW x \in Entries(systimers) \cup Entries(rollovers)
      PROVE  /\ x \in Entries(systimers) =>
                  x.exec_at >= cnt /\ owed[x.timer] = x.exec_at - cnt
             /\ x \in Entries(rollovers) /\ ~AtWrap =>
                  owed[x.timer] = x.exec_at + Wrap - cnt
             /\ x \in Entries(rollovers) /\ AtWrap =>
                  owed[x.timer] = x.exec_at
  BY DEF EntriesExact, Wait, RolloverWait
<1>5. e.exec_at = f.exec_at
  <2>1. CASE e \in Entries(systimers) /\ f \in Entries(systimers)
    BY <1>1, <1>2, <1>4, <2>1, Constants
  <2>2. CASE e \in Entries(rollovers) /\ f \in Entries(rollovers)
    BY <1>1, <1>2, <1>4, <2>2, Constants
  <2>3. CASE e \in Entries(systimers) /\ f \in Entries(rollovers)
    BY <1>1, <1>2, <1>3, <1>4, <2>3, Constants
  <2>4. CASE e \in Entries(rollovers) /\ f \in Entries(systimers)
    BY <1>1, <1>2, <1>3, <1>4, <2>4, Constants
  <2> QED
    BY <2>1, <2>2, <2>3, <2>4
<1>6. e = f
  BY <1>1, <1>5 DEF Item
<1>7. ASSUME e \in Entries(systimers), f \in Entries(rollovers)
      PROVE  FALSE
  BY <1>1, <1>2, <1>3, <1>4, <1>7, Constants
<1> QED
  BY <1>6, <1>7

(* systimer_schedule, of a timer in no list, outside the wrap.             *)
LEMMA ScheduleExact ==
  ASSUME Types, ListsExact, ~update, ~update', cnt' = cnt,
         NEW t \in Timer, ~Listed(t), NEW p \in 0 .. Wrap - 1,
         Schedule(t, p), owed' = [owed EXCEPT ![t] = p]
  PROVE  /\ ListsExact'
         /\ \A u \in Timer : Listed(u)' <=> Listed(u) \/ u = t
<1> DEFINE new == Entry(t, ExecAt(p))
<1>1. /\ TypedLists /\ cnt \in 0 .. Wrap - 1 /\ owed \in [Timer -> Nat]
      /\ \A e \in Entries(systimers) \cup Entries(rollovers) : e \in Item
  BY TypesOfLists
<1>2. /\ ExecAt(p) \in 0 .. Wrap - 1
      /\ cnt + p < Wrap  => ExecAt(p) = cnt + p
      /\ cnt + p >= Wrap => ExecAt(p) = cnt + p - Wrap
  BY <1>1, ExecAtValue
<1>3. new \in Item /\ new.timer = t /\ new.exec_at = ExecAt(p)
  BY <1>2 DEF Entry, Item
<1>4. /\ Rollover(ExecAt(p)) => /\ rollovers' = Inserted(rollovers, new)
                                /\ systimers' = systimers
      /\ ~Rollover(ExecAt(p)) => /\ systimers' = Inserted(systimers, new)
                                 /\ rollovers' = rollovers
  BY DEF Schedule
<1> HIDE DEF new
<1>5. new \notin Entries(systimers) \cup Entries(rollovers)
  BY <1>3, ListedEntries
<1>6. ASSUME NEW list \in Seq(Item), InOrder(list), Q!NoDuplicates(list),
             new \notin Entries(list)
      PROVE  /\ Entries(Inserted(list, new)) = Entries(list) \cup {new}
             /\ InOrder(Inserted(list, new))
             /\ Q!NoDuplicates(Inserted(list, new))
  BY <1>3, <1>6, InsertedProperties
<1>7. ListsInOrder' /\ ListedOnce'
  BY <1>1, <1>4, <1>5, <1>6
     DEF ListsExact, ListsInOrder, ListedOnce, TypedLists
<1>8. /\ Rollover(ExecAt(p)) =>
           /\ Entries(rollovers)' = Entries(rollovers) \cup {new}
           /\ Entries(systimers)' = Entries(systimers)
      /\ ~Rollover(ExecAt(p)) =>
           /\ Entries(systimers)' = Entries(systimers) \cup {new}
           /\ Entries(rollovers)' = Entries(rollovers)
  BY <1>1, <1>4, <1>5, <1>6
     DEF ListsExact, ListsInOrder, ListedOnce, TypedLists
<1>9. ASSUME NEW u \in Timer
      PROVE  Listed(u)' <=> Listed(u) \/ u = t
  BY <1>3, <1>8 DEF Listed, Timers
<1>10. EntriesExact'
  <2>1. ~AtWrap /\ ~AtWrap'
    BY DEF AtWrap
  <2>2. \A e \in Entries(systimers) \cup Entries(rollovers) :
          e.timer # t /\ owed'[e.timer] = owed[e.timer]
    BY <1>1, ListedEntries
  <2>3. owed'[t] = p
    BY <1>1
  <2>4. CASE Rollover(ExecAt(p))
    <3>1. new.exec_at < cnt /\ p = new.exec_at + Wrap - cnt
      BY <1>1, <1>2, <1>3, <2>4, Constants DEF Rollover
    <3> QED
      BY <1>3, <1>8, <2>1, <2>2, <2>3, <2>4, <3>1
         DEF EntriesExact, ListsExact, Wait, RolloverWait
  <2>5. CASE ~Rollover(ExecAt(p))
    <3>1. new.exec_at >= cnt /\ p = new.exec_at - cnt
      BY <1>1, <1>2, <1>3, <2>5, Constants DEF Rollover
    <3> QED
      BY <1>3, <1>8, <2>1, <2>2, <2>3, <2>5, <3>1
         DEF EntriesExact, ListsExact, Wait, RolloverWait
  <2> QED
    BY <2>4, <2>5
<1> QED
  BY <1>7, <1>9, <1>10 DEF ListsExact

(* systimer_stop_irq.                                                      *)
LEMMA RemoveExact ==
  ASSUME Types, ListsExact, WrapOK, NEW t \in Timer,
         systimers' = Removed(systimers, t),
         rollovers' = Removed(rollovers, t),
         owed' = [owed EXCEPT ![t] = 0], UNCHANGED <<cnt, update, pc>>
  PROVE  /\ ListsExact'
         /\ \A u \in Timer : Listed(u)' <=> Listed(u) /\ u # t
         /\ Entries(systimers)' \subseteq Entries(systimers)
<1>1. /\ TypedLists /\ owed \in [Timer -> Nat]
      /\ \A e \in Entries(systimers) \cup Entries(rollovers) : e \in Item
  BY TypesOfLists
<1>2. ASSUME NEW list \in {systimers, rollovers}
      PROVE  /\ list \in Seq(Item) /\ InOrder(list) /\ Q!NoDuplicates(list)
             /\ \A e, f \in Entries(list) : e.timer = f.timer => e = f
  BY <1>1, <1>2, OneEntry DEF ListsExact, ListsInOrder, ListedOnce, TypedLists
<1>3. ASSUME NEW list \in {systimers, rollovers}
      PROVE  /\ InOrder(Removed(list, t)) /\ Q!NoDuplicates(Removed(list, t))
             /\ Entries(Removed(list, t)) \subseteq Entries(list)
             /\ \A e \in Entries(list) :
                  e \in Entries(Removed(list, t)) <=> e.timer # t
  <2>1. /\ Entries(Removed(list, t)) \subseteq Entries(list)
        /\ \A e \in Entries(list) :
             e \in Entries(Removed(list, t)) \/ e.timer = t
        /\ InOrder(Removed(list, t)) /\ Q!NoDuplicates(Removed(list, t))
        /\ t \notin Timers(Removed(list, t))
    BY <1>2, RemovedProperties
  <2> QED
    BY <2>1 DEF Timers
<1>4. ListsInOrder' /\ ListedOnce'
  BY <1>3 DEF ListsInOrder, ListedOnce
<1>5. /\ Entries(systimers)' \subseteq Entries(systimers)
      /\ Entries(rollovers)' \subseteq Entries(rollovers)
      /\ \A e \in Entries(systimers) :
           e \in Entries(systimers)' <=> e.timer # t
      /\ \A e \in Entries(rollovers) :
           e \in Entries(rollovers)' <=> e.timer # t
  BY <1>3
<1>6. ASSUME NEW u \in Timer
      PROVE  Listed(u)' <=> Listed(u) /\ u # t
  BY <1>5 DEF Listed, Timers
<1>7. \A e \in Entries(systimers)' \cup Entries(rollovers)' :
        owed'[e.timer] = owed[e.timer]
  BY <1>1, <1>5
<1>8. EntriesExact'
  BY <1>5, <1>7 DEF ListsExact, EntriesExact, Wait, RolloverWait, AtWrap
<1> QED
  BY <1>4, <1>5, <1>6, <1>8 DEF ListsExact

(* While the counter may count, no listed timer is due.                    *)
LEMMA NoneDue ==
  ASSUME Types, Exact, pc = "idle", ~Pending
  PROVE  /\ \A e \in Entries(systimers) : e.exec_at > cnt
         /\ \A t \in Timer : Listed(t) => owed[t] > 0
<1>1. /\ TypedLists /\ cnt \in 0 .. Wrap - 1 /\ owed \in [Timer -> Nat]
      /\ \A e \in Entries(systimers) \cup Entries(rollovers) : e \in Item
  BY TypesOfLists
<1>2. ~update /\ ~AtWrap
  BY DEF Pending, AtWrap
<1>3. ASSUME NEW e \in Entries(systimers)
      PROVE  e.exec_at > cnt
  <2>1. systimers # << >>
    BY DEF Entries
  <2>2. /\ Head(systimers) \in Entries(systimers)
        /\ Head(systimers).exec_at <= e.exec_at
    BY <1>1, <2>1, TailEntries DEF Exact, ListsExact, ListsInOrder, TypedLists
  <2>3. Head(systimers).exec_at # cnt
    BY <2>1 DEF Exact, ComparesNext, Pending
  <2>4. Head(systimers).exec_at >= cnt
    BY <2>2 DEF Exact, ListsExact, EntriesExact
  <2> QED
    BY <1>1, <2>2, <2>3, <2>4, ItemFacts, Constants
<1>4. ASSUME NEW t \in Timer, Listed(t)
      PROVE  owed[t] > 0
  <2>1. PICK e \in Entries(systimers) \cup Entries(rollovers) : e.timer = t
    BY <1>4, ListedEntries
  <2>2. CASE e \in Entries(systimers)
    BY <1>1, <1>3, <2>1, <2>2, ItemFacts, Constants
       DEF Exact, ListsExact, EntriesExact, Wait
  <2>3. CASE e \in Entries(rollovers)
    BY <1>1, <1>2, <2>1, <2>3, ItemFacts, Constants
       DEF Exact, ListsExact, EntriesExact, RolloverWait
  <2> QED
    BY <2>1, <2>2, <2>3
<1> QED
  BY <1>3, <1>4

-----------------------------------------------------------------------------
(* Every step keeps the timers exact.                                      *)

LEMMA ExactInit == Init => Exact
<1> SUFFICES ASSUME Init
             PROVE  Exact
  OBVIOUS
<1>1. DOMAIN << >> = {} /\ systimers = << >> /\ rollovers = << >>
  BY DEF Init
<1>2. Entries(systimers) = {} /\ Entries(rollovers) = {}
  BY <1>1 DEF Entries
<1>3. ListsExact
  BY <1>1, <1>2 DEF ListsExact, ListsInOrder, InOrder, ListedOnce,
                    Q!NoDuplicates, EntriesExact
<1>4. \A t : ~Listed(t)
  BY <1>2 DEF Listed, Timers
<1> QED
  BY <1>1, <1>3, <1>4
     DEF Init, Exact, WrapOK, AtWrap, ServingOK, ComparesNext, WatchdogOK,
         NothingFails

(* The compare register after systimer_schedule_next.                      *)
LEMMA NextCompared ==
  ASSUME ScheduleNext, cnt' = cnt, systimers' # << >>
  PROVE  /\ ccr' = Head(systimers').exec_at /\ cc1ie'
         /\ Head(systimers').exec_at = cnt' => cc1'
  BY DEF ScheduleNext

LEMMA ExactTick ==
  ASSUME Prompt, FedInTime, Types, Exact, Tick
  PROVE  Exact'
<1>1. /\ TypedLists /\ cnt \in 0 .. Wrap - 1 /\ owed \in [Timer -> Nat]
      /\ \A e \in Entries(systimers) \cup Entries(rollovers) : e \in Item
  BY TypesOfLists
<1>2. /\ pc = "idle" /\ ~Pending /\ halt = "none"
      /\ cnt' = (cnt + 1) % Wrap
      /\ cc1' = (cc1 \/ cnt' = ccr)
      /\ update' = (update \/ cnt' = 0)
      /\ owed' = [t \in Timer |-> IF owed[t] = 0 THEN 0 ELSE owed[t] - 1]
      /\ unfed' = (IF unfed = -1 THEN -1 ELSE unfed + 1)
      /\ halt' = (IF unfed' >= Reload THEN "reset" ELSE "none")
      /\ ccr' = ccr /\ cc1ie' = cc1ie /\ pc' = pc /\ serving' = serving
      /\ systimers' = systimers /\ rollovers' = rollovers
  BY DEF Prompt, Tick, lists, handler
<1>3. ~update /\ ~AtWrap /\ (AtWrap' <=> cnt' = 0)
  BY <1>2 DEF Pending, AtWrap
<1>4. /\ \A e \in Entries(systimers) : e.exec_at > cnt
      /\ \A t \in Timer : Listed(t) => owed[t] > 0
  BY <1>2, NoneDue
<1>5. /\ cnt + 1 < Wrap => cnt' = cnt + 1
      /\ cnt + 1 >= Wrap => cnt' = 0 /\ cnt + 1 = Wrap
  <2>1. Wrap \in Nat \ {0}
    BY Constants
  <2>2. CASE cnt + 1 < Wrap
    <3>1. cnt + 1 \in 0 .. Wrap - 1
      BY <1>1, <2>1, <2>2
    <3>2. (cnt + 1) % Wrap = cnt + 1
      BY <2>1, <3>1, ModSmall
    <3> QED
      BY <1>2, <2>1, <2>2, <3>1, <3>2
  <2>3. CASE cnt + 1 >= Wrap
    <3>1. cnt + 1 = Wrap /\ Wrap \in Wrap .. 2 * Wrap - 1
      BY <1>1, <2>1, <2>3
    <3>2. Wrap % Wrap = Wrap - Wrap
      BY <2>1, <3>1, ModOnce
    <3> QED
      BY <1>2, <2>1, <3>1, <3>2
  <2> QED
    BY <1>1, <2>1, <2>2, <2>3
<1>6. cnt + 1 >= Wrap => Entries(systimers) = {}
  BY <1>1, <1>4, ItemFacts, Constants
<1>7. ASSUME NEW t \in Timer, Listed(t)
      PROVE  owed'[t] = owed[t] - 1
  BY <1>1, <1>2, <1>4, <1>7
<1>8. /\ \A e \in Entries(systimers) : owed'[e.timer] = owed[e.timer] - 1
      /\ \A e \in Entries(rollovers) : owed'[e.timer] = owed[e.timer] - 1
  BY <1>1, <1>7, ListedEntries, ItemFacts
<1>9. Entries(systimers)' = Entries(systimers)
      /\ Entries(rollovers)' = Entries(rollovers)
  BY <1>2
<1>10. EntriesExact'
  <2>1. CASE cnt + 1 < Wrap
    <3>1. cnt' = cnt + 1 /\ ~AtWrap'
      BY <1>1, <1>3, <1>5, <2>1
    <3>2. ASSUME NEW e \in Entries(systimers)
          PROVE  e.exec_at >= cnt' /\ owed'[e.timer] = e.exec_at - cnt'
      <4>1. owed[e.timer] = e.exec_at - cnt /\ e.exec_at > cnt
        BY <1>4 DEF Exact, ListsExact, EntriesExact, Wait
      <4> QED
        BY <1>1, <1>8, <3>1, <4>1, ItemFacts, Constants
    <3>3. ASSUME NEW e \in Entries(rollovers)
          PROVE  /\ e.exec_at < cnt'
                 /\ owed'[e.timer] = e.exec_at + Wrap - cnt'
      <4>1. owed[e.timer] = e.exec_at + Wrap - cnt /\ e.exec_at < cnt
        BY <1>3 DEF Exact, ListsExact, EntriesExact, RolloverWait
      <4> QED
        BY <1>1, <1>8, <3>1, <4>1, ItemFacts, Constants
    <3> QED
      BY <1>9, <3>1, <3>2, <3>3 DEF EntriesExact, Wait, RolloverWait
  <2>2. CASE cnt + 1 >= Wrap
    <3>1. AtWrap' /\ cnt + 1 = Wrap /\ Entries(systimers) = {}
      BY <1>3, <1>5, <1>6, <2>2
    <3>2. ASSUME NEW e \in Entries(rollovers)
          PROVE  owed'[e.timer] = e.exec_at
      <4>1. owed[e.timer] = e.exec_at + Wrap - cnt
        BY <1>3 DEF Exact, ListsExact, EntriesExact, RolloverWait
      <4> QED
        BY <1>1, <1>8, <3>1, <4>1, ItemFacts, Constants
    <3> QED
      BY <1>9, <3>1, <3>2 DEF EntriesExact, RolloverWait
  <2> QED
    BY <1>1, <2>1, <2>2, Constants
<1>11. ListsExact'
  BY <1>2, <1>10 DEF Exact, ListsExact, ListsInOrder, ListedOnce
<1>12. WrapOK'
  <2>1. ASSUME AtWrap'
        PROVE  systimers = << >>
    <3>1. Entries(systimers) = {}
      BY <1>1, <1>3, <1>5, <1>6, <2>1, Constants
    <3> QED
      BY <1>1, <3>1, TailEntries DEF TypedLists
  <2> QED
    BY <1>2, <1>3, <2>1 DEF WrapOK
<1>13. ServingOK' /\ ComparesNext'
  BY <1>2 DEF Exact, ServingOK, ComparesNext
<1>14. \/ unfed' = -1
       \/ /\ Listed(Watchdog)
          /\ unfed' + owed'[Watchdog] = Period[Watchdog]
  <2>1. unfed \in -1 .. Reload /\ Watchdog \in Timer /\ serving = {}
    BY <1>2, Constants DEF Types, TypeOK, Exact, ServingOK
  <2>2. CASE unfed # -1
    <3>1. Listed(Watchdog) /\ unfed + owed[Watchdog] = Period[Watchdog]
      BY <2>1, <2>2 DEF Exact, WatchdogOK
    <3>2. owed'[Watchdog] = owed[Watchdog] - 1 /\ unfed' = unfed + 1
      BY <1>2, <1>7, <2>1, <2>2, <3>1
    <3> QED
      BY <1>1, <2>1, <3>1, <3>2
  <2>3. CASE unfed = -1
    BY <1>2, <2>3
  <2> QED
    BY <2>2, <2>3
<1>15. WatchdogOK'
  <2>1. Listed(Watchdog)' <=> Listed(Watchdog)
    BY <1>2 DEF Listed
  <2>2. unfed \in -1 .. Reload /\ (unfed' = -1 <=> unfed = -1)
    BY <1>2 DEF Types, TypeOK
  <2> QED
    BY <1>2, <1>14, <2>1, <2>2 DEF Exact, WatchdogOK
<1>16. NothingFails'
  <2>1. Watchdog \in Timer /\ owed'[Watchdog] \in Nat
    BY <1>1, <1>2, Constants
  <2>2. /\ Reload \in Nat \ {0} /\ unfed \in -1 .. Reload
        /\ Period[Watchdog] \in Nat
    <3>1. Reload \in Nat \ {0}
      BY SysTimerAssumption
    <3>2. unfed \in -1 .. Reload
      BY DEF Types, TypeOK
    <3>3. Period[Watchdog] \in Nat
      BY Constants
    <3> QED
      BY <3>1, <3>2, <3>3
  <2>3. unfed' < Reload
    BY <1>2, <1>14, <2>1, <2>2 DEF FedInTime
  <2> QED
    BY <1>2, <2>2, <2>3 DEF NothingFails
<1> QED
  BY <1>11, <1>12, <1>13, <1>15, <1>16 DEF Exact

(* What a service or a callback that starts a timer leaves exact.          *)
LEMMA ExactStart ==
  ASSUME Types, Exact, ~update, UNCHANGED <<cnt, update>>,
         NEW t \in Timer, NEW p \in 0 .. Wrap - 1, Start(t, p)
  PROVE  /\ ListsExact'
         /\ ~Listed(t)
         /\ \A u \in Timer : Listed(u)' <=> Listed(u) \/ u = t
         /\ owed' = [owed EXCEPT ![t] = p] /\ owed \in [Timer -> Nat]
<1>1. /\ ~Listed(t) /\ Schedule(t, p) /\ owed' = [owed EXCEPT ![t] = p]
      /\ owed \in [Timer -> Nat]
  BY TypesOfLists DEF Start
<1> QED
  BY <1>1, ScheduleExact DEF Exact

LEMMA ExactServiceStart ==
  ASSUME Prompt, Types, Exact, InService,
         UNCHANGED <<cnt, update, handler, halt>>,
         NEW t \in Timer, NEW p \in 0 .. Wrap - 1, Start(t, p),
         IF t = Watchdog THEN unfed = -1 /\ unfed' = 0 /\ p = Period[Watchdog]
                         ELSE unfed' = unfed
  PROVE  Exact'
<1>1. /\ pc = "idle" /\ ~Pending /\ ~update /\ pc' = pc /\ cnt' = cnt
      /\ update' = update /\ serving' = serving /\ halt' = halt
  BY DEF InService, Prompt, Pending, handler
<1>2. /\ ListsExact' /\ ~Listed(t)
      /\ \A u \in Timer : Listed(u)' <=> Listed(u) \/ u = t
      /\ owed' = [owed EXCEPT ![t] = p] /\ owed \in [Timer -> Nat]
  BY <1>1, ExactStart
<1>3. WrapOK' /\ ServingOK' /\ NothingFails'
  BY <1>1 DEF Exact, WrapOK, AtWrap, ServingOK, NothingFails
<1>4. ComparesNext'
  BY <1>1, NextCompared DEF ComparesNext, Start
<1>5. WatchdogOK'
  <2>1. Watchdog \in Timer /\ Period[Watchdog] \in Nat /\ serving = {}
    BY <1>1, Constants DEF Exact, ServingOK
  <2>2. Listed(Watchdog)' <=> Listed(Watchdog) \/ Watchdog = t
    BY <1>2, <2>1
  <2>3. CASE t = Watchdog
    <3>1. owed'[Watchdog] = Period[Watchdog] /\ unfed' = 0
      BY <1>2, <2>1, <2>3
    <3> QED
      BY <1>1, <2>1, <2>2, <2>3, <3>1 DEF WatchdogOK
  <2>4. CASE t # Watchdog
    <3>1. owed'[Watchdog] = owed[Watchdog] /\ unfed' = unfed
      BY <1>2, <2>1, <2>4
    <3> QED
      BY <1>1, <2>1, <2>2, <2>4, <3>1 DEF Exact, WatchdogOK
  <2> QED
    BY <2>3, <2>4
<1> QED
  BY <1>2, <1>3, <1>4, <1>5 DEF Exact

LEMMA ExactStop ==
  ASSUME Prompt, Types, Exact, NEW t \in Delay \cup {Slice}, StopTimer(t)
  PROVE  Exact'
<1>1. /\ pc = "idle" /\ ~Pending /\ pc' = pc /\ cnt' = cnt /\ update' = update
      /\ serving' = serving /\ halt' = halt /\ unfed' = unfed
      /\ systimers' = Removed(systimers, t)
      /\ rollovers' = Removed(rollovers, t)
      /\ ScheduleNext
      /\ owed' = [owed EXCEPT ![t] = 0]
  BY DEF StopTimer, InService, Prompt, handler
<1>2. t \in Timer /\ t # Watchdog /\ Watchdog \in Timer
  BY Constants
<1>3. /\ ListsExact'
      /\ \A u \in Timer : Listed(u)' <=> Listed(u) /\ u # t
      /\ Entries(systimers)' \subseteq Entries(systimers)
  BY <1>1, <1>2, RemoveExact DEF Exact
<1>4. WrapOK' /\ ServingOK' /\ NothingFails'
  BY <1>1 DEF Exact, WrapOK, AtWrap, ServingOK, NothingFails, Pending
<1>5. ComparesNext'
  BY <1>1, NextCompared DEF ComparesNext
<1>6. WatchdogOK'
  <2>1. owed'[Watchdog] = owed[Watchdog]
    BY <1>1, <1>2, TypesOfLists
  <2>2. Listed(Watchdog)' <=> Listed(Watchdog)
    BY <1>2, <1>3
  <2> QED
    BY <1>1, <2>1, <2>2 DEF Exact, WatchdogOK
<1> QED
  BY <1>3, <1>4, <1>5, <1>6 DEF Exact

(* The steps of the handler that leave the lists alone.                    *)
LEMMA ExactFlags ==
  ASSUME Types, Exact, Enter \/ ClearCC1 \/ ClearUpdate \/ NoUpdate \/ LoopEnds
  PROVE  Exact'
<1>1. /\ systimers' = systimers /\ rollovers' = rollovers /\ cnt' = cnt
      /\ serving' = serving /\ unfed' = unfed /\ owed' = owed /\ halt' = halt
  BY DEF Enter, ClearCC1, ClearUpdate, NoUpdate, LoopEnds, lists, hardware
<1>2. AtWrap' <=> AtWrap
  <2>1. \/ pc = "clear update" /\ update' = FALSE
        \/ pc # "clear update" /\ pc' # "clear update" /\ update' = update
    BY DEF Enter, ClearCC1, ClearUpdate, NoUpdate, LoopEnds, At, hardware
  <2>2. CASE pc = "clear update" /\ update' = FALSE
    BY <2>2 DEF AtWrap
  <2>3. CASE /\ pc # "clear update" /\ pc' # "clear update"
             /\ update' = update
    BY <2>3 DEF AtWrap
  <2> QED
    BY <2>1, <2>2, <2>3
<1>3. ListsExact'
  BY <1>1, <1>2 DEF Exact, ListsExact, ListsInOrder, ListedOnce, EntriesExact,
                    Wait, RolloverWait
<1>4. \A t : Listed(t)' <=> Listed(t)
  BY <1>1 DEF Listed
<1>5. WatchdogOK' /\ NothingFails'
  <2>1. pc' # "rearm"
    BY DEF Enter, ClearCC1, ClearUpdate, NoUpdate, LoopEnds
  <2> QED
    BY <1>1, <1>4, <2>1 DEF Exact, WatchdogOK, NothingFails
<1>6. CASE Enter
  <2>1. WrapOK'
    BY <1>1, <1>2, <1>6 DEF Enter, At, Exact, WrapOK
  <2>2. ServingOK' /\ ComparesNext'
    BY <1>1, <1>6 DEF Enter, At, Exact, ServingOK, ComparesNext
  <2> QED
    BY <1>3, <1>5, <2>1, <2>2 DEF Exact
<1>7. CASE ClearCC1
  <2>1. WrapOK'
    BY <1>1, <1>2, <1>7 DEF ClearCC1, At, Exact, WrapOK
  <2>2. ServingOK' /\ ComparesNext'
    BY <1>1, <1>7 DEF ClearCC1, At, Exact, ServingOK, ComparesNext
  <2> QED
    BY <1>3, <1>5, <2>1, <2>2 DEF Exact
<1>8. CASE ClearUpdate
  <2>1. WrapOK'
    BY <1>1, <1>2, <1>8 DEF ClearUpdate, At, Exact, WrapOK
  <2>2. ServingOK' /\ ComparesNext'
    BY <1>1, <1>8 DEF ClearUpdate, At, Exact, ServingOK, ComparesNext
  <2> QED
    BY <1>3, <1>5, <2>1, <2>2 DEF Exact
<1>9. CASE NoUpdate
  <2>1. WrapOK'
    BY <1>1, <1>2, <1>9 DEF NoUpdate, At, hardware, Exact, WrapOK
  <2>2. ServingOK' /\ ComparesNext'
    BY <1>1, <1>9 DEF NoUpdate, At, hardware, Exact, ServingOK, ComparesNext
  <2> QED
    BY <1>3, <1>5, <2>1, <2>2 DEF Exact
<1>10. CASE LoopEnds
  <2>1. WrapOK' /\ ServingOK'
    BY <1>1, <1>2, <1>10 DEF LoopEnds, At, Exact, WrapOK, ServingOK
  <2>2. pc' = "clear" /\ ScheduleNext /\ ~Due /\ systime = cnt
    BY <1>10 DEF LoopEnds, At, Exact, ServingOK
  <2>3. systimers # << >> => Head(systimers).exec_at # cnt
    BY <2>2 DEF Due
  <2>4. ComparesNext'
    BY <1>1, <2>2, <2>3, NextCompared DEF ComparesNext
  <2> QED
    BY <1>3, <1>5, <2>1, <2>4 DEF Exact
<1> QED
  BY <1>6, <1>7, <1>8, <1>9, <1>10

LEMMA ExactRemoveDue ==
  ASSUME Types, Exact, RemoveDue
  PROVE  Exact'
<1> DEFINE first == Head(systimers)
<1>1. /\ systimers # << >> /\ first.exec_at = systime /\ pc = "loop"
      /\ serving' = {first.timer} /\ systimers' = Tail(systimers)
      /\ pc' = "callback" /\ cnt' = cnt /\ update' = update
      /\ rollovers' = rollovers /\ systime' = systime /\ unfed' = unfed
      /\ owed' = owed /\ halt' = halt
  BY DEF RemoveDue, Due, At, hardware
<1>2. /\ TypedLists /\ cnt \in 0 .. Wrap - 1
      /\ \A e \in Entries(systimers) \cup Entries(rollovers) : e \in Item
  BY TypesOfLists
<1>3. /\ first \in Item /\ first \in Entries(systimers)
      /\ Entries(systimers) = Entries(Tail(systimers)) \cup {first}
      /\ Q!NoDuplicates(Tail(systimers)) /\ InOrder(Tail(systimers))
      /\ first \notin Entries(Tail(systimers))
  BY <1>1, <1>2, TailEntries
     DEF Exact, ListsExact, ListsInOrder, ListedOnce, TypedLists
<1> HIDE DEF first
<1>4. /\ Entries(systimers)' = Entries(systimers) \ {first}
      /\ Entries(rollovers)' = Entries(rollovers)
  BY <1>1, <1>3
<1>5. ~update /\ systime = cnt /\ serving = {}
  BY <1>1 DEF Exact, WrapOK, AtWrap, ServingOK
<1>6. first.timer \in Timer /\ owed[first.timer] = 0
  <2>1. owed[first.timer] = first.exec_at - cnt
    BY <1>3 DEF Exact, ListsExact, EntriesExact, Wait
  <2> QED
    BY <1>1, <1>2, <1>3, <1>5, <2>1, ItemFacts
<1>7. ASSUME NEW e \in (Entries(systimers) \cup Entries(rollovers)) \ {first}
      PROVE  e.timer # first.timer
  BY <1>3, <1>7, OneEntry DEF Exact, ListsExact
<1>8. first \notin Entries(rollovers)
  BY <1>3, OneEntry DEF Exact, ListsExact
<1>9. \A t : Listed(t)' <=> Listed(t) /\ t # first.timer
  BY <1>3, <1>4, <1>7, <1>8 DEF Listed, Timers
<1>10. ListsExact'
  BY <1>1, <1>3, <1>4, <1>5
     DEF Exact, ListsExact, ListsInOrder, ListedOnce, EntriesExact, Wait,
         RolloverWait, AtWrap
<1>11. WrapOK' /\ ServingOK' /\ ComparesNext' /\ NothingFails'
  BY <1>1, <1>5, <1>6, <1>9
     DEF Exact, WrapOK, AtWrap, ServingOK, ComparesNext, NothingFails
<1>12. WatchdogOK'
  <2>1. Listed(first.timer)
    BY <1>3, ListedEntries
  <2> QED
    BY <1>1, <1>5, <1>9, <2>1 DEF Exact, WatchdogOK
<1> QED
  BY <1>10, <1>11, <1>12 DEF Exact

LEMMA ExactCallback ==
  ASSUME Types, Exact, NEW t \in Timer, Callback(t)
  PROVE  Exact'
<1>1. /\ pc = "callback" /\ pc' = "rearm" /\ serving = {t} /\ serving' = {t}
      /\ cnt' = cnt /\ update' = update /\ systime' = systime /\ halt' = halt
      /\ unfed' = IF t = Watchdog THEN 0 ELSE unfed
  BY DEF Callback, At
<1>2. ~update /\ systime = cnt /\ ~Listed(t) /\ owed[t] = 0
  <2>1. PICK u \in Timer : serving = {u} /\ ~Listed(u) /\ owed[u] = 0
    BY <1>1 DEF Exact, ServingOK
  <2> QED
    BY <1>1, <2>1 DEF Exact, WrapOK, ServingOK
<1>3. WrapOK' /\ ComparesNext' /\ NothingFails'
  BY <1>1, <1>2 DEF Exact, WrapOK, AtWrap, ComparesNext, NothingFails
<1>4. CASE t \in Delay /\ Start(Slice, Period[Slice])
  <2>1. /\ Slice \in Timer /\ Period[Slice] \in 0 .. Wrap - 1
        /\ Slice # t /\ Slice # Watchdog /\ t # Watchdog /\ Watchdog \in Timer
    BY <1>4, Constants
  <2>2. /\ ListsExact'
        /\ \A u \in Timer : Listed(u)' <=> Listed(u) \/ u = Slice
        /\ owed' = [owed EXCEPT ![Slice] = Period[Slice]]
        /\ owed \in [Timer -> Nat]
    BY <1>1, <1>2, <1>4, <2>1, ExactStart
  <2>3. owed'[t] = owed[t] /\ owed'[Watchdog] = owed[Watchdog]
    BY <2>1, <2>2
  <2>4. ServingOK'
    BY <1>1, <1>2, <2>1, <2>2, <2>3 DEF ServingOK
  <2>5. WatchdogOK'
    BY <1>1, <2>1, <2>2, <2>3 DEF Exact, WatchdogOK
  <2> QED
    BY <1>3, <2>2, <2>4, <2>5 DEF Exact
<1>5. CASE UNCHANGED <<ccr, cc1ie, cc1, lists, owed>>
  <2>1. systimers' = systimers /\ rollovers' = rollovers /\ owed' = owed
    BY <1>5 DEF lists
  <2>2. \A u : Listed(u)' <=> Listed(u)
    BY <2>1 DEF Listed
  <2>3. ListsExact'
    BY <1>1, <1>2, <2>1
       DEF Exact, ListsExact, ListsInOrder, ListedOnce, EntriesExact, Wait,
           RolloverWait, AtWrap
  <2>4. ServingOK'
    BY <1>1, <1>2, <2>1, <2>2 DEF ServingOK
  <2>5. WatchdogOK'
    <3>1. unfed \in -1 .. Reload
      BY DEF Types, TypeOK
    <3> QED
      BY <1>1, <1>2, <2>1, <2>2, <3>1 DEF Exact, WatchdogOK
  <2> QED
    BY <1>3, <2>3, <2>4, <2>5 DEF Exact
<1> QED
  BY <1>4, <1>5 DEF Callback

LEMMA ExactRearm ==
  ASSUME Types, Exact, NEW t \in Timer, Rearm(t)
  PROVE  Exact'
<1>1. /\ pc = "rearm" /\ pc' = "loop" /\ serving = {t} /\ serving' = {}
      /\ cnt' = cnt /\ update' = update /\ systime' = systime /\ halt' = halt
      /\ unfed' = unfed
  BY DEF Rearm, At, hardware
<1>2. ~update /\ systime = cnt /\ ~Listed(t)
  <2>1. PICK u \in Timer : serving = {u} /\ ~Listed(u) /\ owed[u] = 0
    BY <1>1 DEF Exact, ServingOK
  <2> QED
    BY <1>1, <2>1 DEF Exact, WrapOK, ServingOK
<1>3. WrapOK' /\ ServingOK' /\ ComparesNext' /\ NothingFails'
  BY <1>1, <1>2
     DEF Exact, WrapOK, AtWrap, ServingOK, ComparesNext, NothingFails
<1>4. CASE Rearms(t)
  <2>1. /\ Schedule(t, Period[t]) /\ owed' = [owed EXCEPT ![t] = Period[t]]
        /\ Period[t] \in 0 .. Wrap - 1
    BY <1>4, Constants DEF Rearm, Rearms
  <2>2. /\ ListsExact'
        /\ \A u \in Timer : Listed(u)' <=> Listed(u) \/ u = t
    BY <1>1, <1>2, <2>1, ScheduleExact DEF Exact
  <2>3. /\ Watchdog \in Timer /\ owed \in [Timer -> Nat]
        /\ Period[Watchdog] \in Nat
    BY Constants, TypesOfLists
  <2>4. WatchdogOK'
    <3>1. CASE t = Watchdog
      <4>1. owed'[Watchdog] = Period[Watchdog] /\ unfed' = 0
        BY <1>1, <2>1, <2>3, <3>1 DEF Exact, WatchdogOK
      <4> QED
        BY <1>1, <2>2, <2>3, <3>1, <4>1 DEF WatchdogOK
    <3>2. CASE t # Watchdog
      <4>1. owed'[Watchdog] = owed[Watchdog]
        BY <2>1, <2>3, <3>2
      <4> QED
        BY <1>1, <2>2, <2>3, <3>2, <4>1 DEF Exact, WatchdogOK
    <3> QED
      BY <3>1, <3>2
  <2> QED
    BY <1>3, <2>2, <2>4 DEF Exact
<1>5. CASE ~Rearms(t)
  <2>1. /\ systimers' = systimers /\ rollovers' = rollovers /\ owed' = owed
        /\ t # Watchdog
    BY <1>5, Constants DEF Rearm, Rearms, lists
  <2>2. \A u : Listed(u)' <=> Listed(u)
    BY <2>1 DEF Listed
  <2>3. ListsExact'
    BY <1>1, <1>2, <2>1
       DEF Exact, ListsExact, ListsInOrder, ListedOnce, EntriesExact, Wait,
           RolloverWait, AtWrap
  <2>4. WatchdogOK'
    BY <1>1, <2>1, <2>2 DEF Exact, WatchdogOK
  <2> QED
    BY <1>3, <2>3, <2>4 DEF Exact
<1> QED
  BY <1>4, <1>5

(* At the wrap the old lap's list is empty, and the lists change places.   *)
LEMMA ExactSwap ==
  ASSUME Types, Exact, SwapLists
  PROVE  /\ Exact'
         /\ systimers = << >> /\ systimers' = rollovers
         /\ rollovers' = systimers
<1>1. pc = "update" /\ update
  BY DEF SwapLists, At
<1>2. systimers = << >> /\ cnt = 0 /\ AtWrap
  BY <1>1 DEF Exact, WrapOK, AtWrap
<1>3. /\ systimers' = rollovers /\ rollovers' = << >> /\ ScheduleNext
      /\ pc' = "clear update" /\ halt' = halt /\ cnt' = cnt /\ update' = update
      /\ serving' = serving /\ unfed' = unfed /\ owed' = owed
  BY <1>2 DEF SwapLists
<1>4. /\ DOMAIN << >> = {} /\ Entries(<< >>) = {}
      /\ Entries(systimers)' = Entries(rollovers) /\ Entries(rollovers)' = {}
  <2>1. DOMAIN << >> = {}
    OBVIOUS
  <2>2. Entries(<< >>) = {}
    BY <2>1 DEF Entries
  <2> QED
    BY <1>3, <2>1, <2>2
<1>5. \A t : Listed(t)' <=> Listed(t)
  BY <1>2, <1>3, <1>4 DEF Listed, Timers
<1>6. ListsInOrder' /\ ListedOnce'
  BY <1>2, <1>3 DEF Exact, ListsExact, ListsInOrder, ListedOnce
<1>7. EntriesExact'
  <2>1. \A e \in Entries(rollovers) : e.exec_at \in 0 .. Wrap - 1
    BY TypesOfLists, ItemFacts
  <2>2. \A e \in Entries(rollovers) : owed[e.timer] = e.exec_at
    BY <1>2 DEF Exact, ListsExact, EntriesExact, RolloverWait
  <2>3. ASSUME NEW e \in Entries(rollovers)
        PROVE  e.exec_at >= cnt' /\ owed'[e.timer] = e.exec_at - cnt'
    <3>1. cnt' = 0
      BY <1>2, <1>3
    <3>2. e.exec_at \in 0 .. Wrap - 1 /\ Wrap - 1 \in Int
      BY <2>1, Constants
    <3>3. e.exec_at \in Nat
      BY <3>2
    <3>4. owed'[e.timer] = e.exec_at
      BY <1>3, <2>2
    <3> QED
      BY <3>1, <3>3, <3>4
  <2> QED
    BY <1>4, <2>3 DEF EntriesExact, Wait
<1>8. WrapOK' /\ ServingOK' /\ NothingFails'
  BY <1>1, <1>2, <1>3 DEF Exact, WrapOK, AtWrap, ServingOK, NothingFails
<1>9. ComparesNext'
  BY <1>3, NextCompared DEF ComparesNext
<1>10. WatchdogOK'
  BY <1>1, <1>3, <1>5 DEF Exact, WatchdogOK
<1> QED
  BY <1>2, <1>3, <1>6, <1>7, <1>8, <1>9, <1>10 DEF Exact, ListsExact

LEMMA ExactNext ==
  ASSUME Prompt, ShortDelays, FedInTime, Types, Exact, [Next]_vars
  PROVE  Exact'
<1>1. CASE UNCHANGED vars
  BY <1>1 DEF vars, hardware, lists, handler, Exact, ListsExact, ListsInOrder,
     ListedOnce, EntriesExact, Wait, RolloverWait, AtWrap, WrapOK, ServingOK,
     Listed, ComparesNext, WatchdogOK, NothingFails
<1>2. CASE Tick
  BY <1>2, ExactTick
<1>3. ASSUME NEW t \in Delay, StartDelay(t)
      PROVE  Exact'
  <2>1. PICK p \in DelayPeriods : Start(t, p)
    BY <1>3 DEF StartDelay
  <2>2. t \in Timer /\ t # Watchdog /\ p \in 0 .. Wrap - 1
    BY Constants DEF ShortDelays
  <2> QED
    BY <1>3, <2>1, <2>2, ExactServiceStart DEF StartDelay
<1>4. ASSUME NEW t \in Repeating, StartRepeating(t)
      PROVE  Exact'
  <2>1. t \in Timer /\ Period[t] \in 0 .. Wrap - 1
    BY Constants
  <2> QED
    BY <1>4, <2>1, ExactServiceStart DEF StartRepeating
<1>5. ASSUME NEW t \in Delay \cup {Slice}, StopTimer(t)
      PROVE  Exact'
  BY <1>5, ExactStop
<1> QED
  BY <1>1, <1>2, <1>3, <1>4, <1>5, ExactFlags, ExactRemoveDue, ExactCallback,
     ExactRearm, ExactSwap DEF Next, IRQHandler

(***************************************************************************)
(* No assertion of the driver fails and the watchdog never resets the      *)
(* board: at the wrap every timer of the lap has run, and the watchdog's   *)
(* timer, which shares the lists, runs when its period has passed          *)
(* (systimer.c:258, watchdog.c:19).                                        *)
(***************************************************************************)
THEOREM PromptTimersNeverFail ==
  ASSUME Prompt, ShortDelays, FedInTime
  PROVE  Spec => []NothingFails
<1>1. Types /\ Exact /\ [Next]_vars => Exact'
  BY ExactNext
<1>2. Exact => NothingFails
  BY DEF Exact
<1> QED
  BY InitTypes, TypesNext, ExactInit, <1>1, <1>2, PTL DEF Spec

-----------------------------------------------------------------------------
(* Every step is a tick, a start, a stop, a run, or none for the alarms.   *)

LEMMA LeftValue ==
  ASSUME NEW t \in Timer
  PROVE  /\ Left[t] = IF Listed(t) \/ (t \in serving /\ t \in Repeating)
                        THEN owed[t] ELSE -1
         /\ Left'[t] = IF Listed(t)' \/ (t \in serving' /\ t \in Repeating)
                         THEN owed'[t] ELSE -1
  BY DEF Left, Rearms

LEMMA LeftChanges ==
  ASSUME NEW t \in Timer, \A u \in Timer : u # t => Left'[u] = Left[u]
  PROVE  Left' = [Left EXCEPT ![t] = Left'[t]]
<1> DEFINE old == Left
           new == Left'
<1>1. old = [u \in Timer |-> old[u]] /\ new = [u \in Timer |-> new[u]]
  BY DEF Left
<1>2. \A u \in Timer : u # t => new[u] = old[u]
  OBVIOUS
<1> HIDE DEF old, new
<1>3. [old EXCEPT ![t] = new[t]]
        = [u \in Timer |-> IF u = t THEN new[t] ELSE old[u]]
  BY <1>1
<1>4. [u \in Timer |-> IF u = t THEN new[t] ELSE old[u]]
        = [u \in Timer |-> new[u]]
  BY <1>2
<1>5. new = [old EXCEPT ![t] = new[t]]
  BY <1>1, <1>3, <1>4
<1> QED
  BY <1>5 DEF old, new

LEMMA LeftStays ==
  ASSUME \A u \in Timer : Left'[u] = Left[u]
  PROVE  Left' = Left
<1> DEFINE old == Left
           new == Left'
<1>1. old = [u \in Timer |-> old[u]] /\ new = [u \in Timer |-> new[u]]
  BY DEF Left
<1>2. \A u \in Timer : new[u] = old[u]
  OBVIOUS
<1> HIDE DEF old, new
<1>3. old = new
  BY <1>1, <1>2
<1> QED
  BY <1>3 DEF old, new

(* Starting a timer, by a service or a callback.                           *)
LEMMA StartIsStart ==
  ASSUME Types, Exact, ~update, UNCHANGED <<cnt, update>>,
         NEW t \in Timer, NEW p \in 0 .. Wrap - 1, Start(t, p),
         p \in Periods[t], serving' = serving, serving \cap Repeating = {}
  PROVE  Promise!Start(t)
<1>1. /\ ~Listed(t)
      /\ \A u \in Timer : Listed(u)' <=> Listed(u) \/ u = t
      /\ owed' = [owed EXCEPT ![t] = p] /\ owed \in [Timer -> Nat]
  BY ExactStart
<1>2. Left[t] = -1 /\ Left'[t] = p
  BY <1>1, LeftValue
<1>3. ASSUME NEW u \in Timer, u # t
      PROVE  Left'[u] = Left[u]
  BY <1>1, <1>3, LeftValue
<1>4. Left' = [Left EXCEPT ![t] = p]
  BY <1>2, <1>3, LeftChanges
<1> QED
  BY <1>2, <1>4 DEF Promise!Start, Promise!Off

LEMMA TickIsTick ==
  ASSUME Prompt, Types, Exact, Tick
  PROVE  Promise!Tick
<1>1. /\ pc = "idle" /\ ~Pending /\ serving' = serving
      /\ owed' = [t \in Timer |-> IF owed[t] = 0 THEN 0 ELSE owed[t] - 1]
      /\ systimers' = systimers /\ rollovers' = rollovers
  BY DEF Prompt, Tick, lists, handler
<1>2. \A t \in Timer : Listed(t) => owed[t] > 0
  BY <1>1, NoneDue
<1>3. owed \in [Timer -> Nat] /\ serving = {}
  BY <1>1, TypesOfLists DEF Exact, ServingOK
<1>4. \A t \in Timer : Listed(t)' <=> Listed(t)
  BY <1>1 DEF Listed
<1>5. ASSUME NEW t \in Timer
      PROVE  /\ Left[t] # 0
             /\ Left'[t] = IF Left[t] = -1 THEN -1 ELSE Left[t] - 1
  <2>1. /\ Left[t] = IF Listed(t) THEN owed[t] ELSE -1
        /\ Left'[t] = IF Listed(t) THEN owed'[t] ELSE -1
    BY <1>1, <1>3, <1>4, LeftValue
  <2>2. owed[t] \in Nat /\ owed'[t] = IF owed[t] = 0 THEN 0 ELSE owed[t] - 1
    BY <1>1, <1>3
  <2> QED
    BY <1>2, <2>1, <2>2
<1>6. Left' = [t \in Timer |-> Left'[t]]
  BY DEF Left
<1>7. Left' = [t \in Timer |-> IF Left[t] = -1 THEN -1 ELSE Left[t] - 1]
  BY <1>5, <1>6
<1> QED
  BY <1>5, <1>7 DEF Promise!Tick, Promise!Off

LEMMA StopIsStop ==
  ASSUME Prompt, Types, Exact, NEW t \in Delay \cup {Slice}, StopTimer(t)
  PROVE  Promise!Stop(t) \/ Left' = Left
<1>1. /\ pc = "idle" /\ cnt' = cnt /\ update' = update /\ pc' = pc
      /\ serving' = serving
      /\ systimers' = Removed(systimers, t)
      /\ rollovers' = Removed(rollovers, t)
      /\ owed' = [owed EXCEPT ![t] = 0]
  BY DEF StopTimer, InService, handler
<1>2. t \in Timer /\ owed \in [Timer -> Nat] /\ serving = {}
  BY <1>1, Constants, TypesOfLists DEF Exact, ServingOK
<1>3. \A u \in Timer : Listed(u)' <=> Listed(u) /\ u # t
  BY <1>1, <1>2, RemoveExact DEF Exact
<1>4. ASSUME NEW u \in Timer, u # t
      PROVE  Left'[u] = Left[u]
  BY <1>1, <1>2, <1>3, <1>4, LeftValue
<1>5. Left'[t] = -1
  BY <1>1, <1>2, <1>3, LeftValue
<1>6. Left' = [Left EXCEPT ![t] = -1]
  BY <1>2, <1>4, <1>5, LeftChanges
<1>7. CASE Listed(t)
  <2>1. Left[t] # -1
    BY <1>2, <1>7, LeftValue
  <2> QED
    BY <1>6, <2>1 DEF Promise!Stop, Promise!Off
<1>8. CASE ~Listed(t)
  <2>1. Left[t] = -1
    BY <1>2, <1>8, LeftValue
  <2> QED
    BY <1>4, <1>5, <2>1, LeftStays
<1> QED
  BY <1>7, <1>8

(* A delay has run when it leaves the list.                                *)
LEMMA DueRuns ==
  ASSUME Types, Exact, RemoveDue
  PROVE  (\E t \in Timer : Promise!Run(t)) \/ Left' = Left
<1> DEFINE first == Head(systimers)
           t     == first.timer
<1>1. /\ systimers # << >> /\ first.exec_at = systime /\ pc = "loop"
      /\ serving' = {t} /\ systimers' = Tail(systimers)
      /\ rollovers' = rollovers /\ owed' = owed
  BY DEF RemoveDue, Due, At
<1>2. /\ TypedLists /\ cnt \in 0 .. Wrap - 1 /\ owed \in [Timer -> Nat]
      /\ \A e \in Entries(systimers) \cup Entries(rollovers) : e \in Item
  BY TypesOfLists
<1>3. /\ first \in Item /\ first \in Entries(systimers)
      /\ Entries(systimers) = Entries(Tail(systimers)) \cup {first}
      /\ first \notin Entries(Tail(systimers))
  BY <1>1, <1>2, TailEntries DEF Exact, ListsExact, ListedOnce, TypedLists
<1>4. serving = {} /\ systime = cnt /\ t \in Timer /\ Listed(t)
  BY <1>1, <1>3, ItemFacts, ListedEntries DEF Exact, ServingOK
<1> HIDE DEF first
<1>5. owed[t] = 0
  <2>1. owed[t] = first.exec_at - cnt
    BY <1>3 DEF Exact, ListsExact, EntriesExact, Wait
  <2> QED
    BY <1>1, <1>2, <1>4, <2>1
<1> HIDE DEF t
<1>6. ASSUME NEW u \in Timer
      PROVE  Listed(u)' <=> Listed(u) /\ u # t
  <2>1. \A e \in Entries(systimers) \cup Entries(rollovers) :
          e.timer = t => e = first /\ e \notin Entries(rollovers)
    BY <1>3, OneEntry DEF Exact, ListsExact, t
  <2>2. /\ Entries(systimers)' = Entries(systimers) \ {first}
        /\ Entries(rollovers)' = Entries(rollovers)
    BY <1>1, <1>3
  <2> QED
    BY <1>3, <2>1, <2>2 DEF Listed, Timers, t
<1>7. ASSUME NEW u \in Timer, u # t
      PROVE  Left'[u] = Left[u]
  BY <1>1, <1>4, <1>6, <1>7, LeftValue
<1>8. Left[t] = 0
  BY <1>4, <1>5, LeftValue
<1>9. CASE t \in Repeating
  <2>1. Left'[t] = 0
    BY <1>1, <1>4, <1>5, <1>9, LeftValue
  <2> QED
    BY <1>7, <1>8, <2>1, LeftStays
<1>10. CASE t \notin Repeating
  <2>1. Left'[t] = -1
    BY <1>4, <1>6, <1>10, LeftValue
  <2>2. Left' = [Left EXCEPT ![t] = -1]
    BY <1>4, <1>7, <2>1, LeftChanges
  <2> QED
    BY <1>4, <1>8, <1>10, <2>2 DEF Promise!Run, Promise!Off
<1> QED
  BY <1>9, <1>10

(* A repeating timer has run when it is scheduled again.                   *)
LEMMA RearmRuns ==
  ASSUME Types, Exact, NEW t \in Timer, Rearm(t)
  PROVE  Promise!Run(t) \/ Left' = Left
<1>1. /\ pc = "rearm" /\ serving = {t} /\ serving' = {}
      /\ cnt' = cnt /\ update' = update
  BY DEF Rearm, At, hardware
<1>2. ~update /\ ~Listed(t) /\ owed[t] = 0 /\ owed \in [Timer -> Nat]
  <2>1. PICK u \in Timer : serving = {u} /\ ~Listed(u) /\ owed[u] = 0
    BY <1>1 DEF Exact, ServingOK
  <2> QED
    BY <1>1, <2>1, TypesOfLists DEF Exact, WrapOK
<1>3. CASE Rearms(t)
  <2>1. /\ Schedule(t, Period[t]) /\ owed' = [owed EXCEPT ![t] = Period[t]]
        /\ Period[t] \in 0 .. Wrap - 1 /\ t \in Repeating /\ t \notin Delay
    BY <1>3, Constants DEF Rearm, Rearms
  <2>2. \A u \in Timer : Listed(u)' <=> Listed(u) \/ u = t
    BY <1>1, <1>2, <2>1, ScheduleExact DEF Exact
  <2>3. ASSUME NEW u \in Timer, u # t
        PROVE  Left'[u] = Left[u]
    BY <1>1, <1>2, <2>1, <2>2, <2>3, LeftValue
  <2>4. Left[t] = 0 /\ Left'[t] = Period[t]
    BY <1>1, <1>2, <2>1, <2>2, LeftValue
  <2>5. Left' = [Left EXCEPT ![t] = Period[t]]
    BY <2>3, <2>4, LeftChanges
  <2>6. Period[t] \in Periods[t]
    BY <2>1 DEF Periods
  <2> QED
    BY <2>1, <2>4, <2>5, <2>6 DEF Promise!Run
<1>4. CASE ~Rearms(t)
  <2>1. /\ systimers' = systimers /\ rollovers' = rollovers /\ owed' = owed
        /\ t \notin Repeating
    BY <1>4 DEF Rearm, Rearms, lists
  <2>2. ASSUME NEW u \in Timer
        PROVE  Left'[u] = Left[u]
    BY <1>1, <2>1, LeftValue DEF Listed
  <2> QED
    BY <2>2, LeftStays
<1> QED
  BY <1>3, <1>4

LEMMA StepAlarms ==
  ASSUME Prompt, ShortDelays, Types, Exact, [Next]_vars
  PROVE  [Promise!Next]_Left
<1>1. CASE UNCHANGED vars
  BY <1>1 DEF vars, hardware, lists, handler, Left, Listed
<1>2. CASE Tick
  BY <1>2, TickIsTick DEF Promise!Next
<1>3. ASSUME InService
      PROVE  ~update /\ serving = {}
  BY <1>3 DEF InService, Prompt, Pending, Exact, ServingOK
<1>4. ASSUME NEW t \in Delay, StartDelay(t)
      PROVE  [Promise!Next]_Left
  <2>1. PICK p \in DelayPeriods : Start(t, p)
    BY <1>4 DEF StartDelay
  <2>2. t \in Timer /\ p \in 0 .. Wrap - 1 /\ p \in Periods[t]
    BY Constants DEF ShortDelays, Periods
  <2>3. /\ ~update /\ serving = {} /\ serving' = serving
        /\ UNCHANGED <<cnt, update>>
    BY <1>3, <1>4 DEF StartDelay, handler
  <2>4. Promise!Start(t)
    BY <2>1, <2>2, <2>3, StartIsStart
  <2> QED
    BY <2>2, <2>4 DEF Promise!Next
<1>5. ASSUME NEW t \in Repeating, StartRepeating(t)
      PROVE  [Promise!Next]_Left
  <2>1. /\ t \in Timer /\ Period[t] \in 0 .. Wrap - 1
        /\ Period[t] \in Periods[t]
    BY Constants DEF Periods
  <2>2. /\ ~update /\ serving = {} /\ serving' = serving
        /\ UNCHANGED <<cnt, update>> /\ Start(t, Period[t])
    BY <1>3, <1>5 DEF StartRepeating, handler
  <2>3. Promise!Start(t)
    BY <2>1, <2>2, StartIsStart
  <2> QED
    BY <2>1, <2>3 DEF Promise!Next
<1>6. ASSUME NEW t \in Delay \cup {Slice}, StopTimer(t)
      PROVE  [Promise!Next]_Left
  <2>1. t \in Timer
    BY Constants
  <2> QED
    BY <1>6, <2>1, StopIsStop DEF Promise!Next
<1>7. CASE RemoveDue
  BY <1>7, DueRuns DEF Promise!Next
<1>8. ASSUME NEW t \in Timer, Callback(t)
      PROVE  [Promise!Next]_Left
  <2>1. CASE t \in Delay /\ Start(Slice, Period[Slice])
    <3>1. /\ Slice \in Timer /\ Period[Slice] \in 0 .. Wrap - 1
          /\ Period[Slice] \in Periods[Slice]
      BY Constants DEF Periods
    <3>2. /\ pc = "callback" /\ serving = {t} /\ serving' = serving
          /\ UNCHANGED <<cnt, update>>
      BY <1>8 DEF Callback, At
    <3>3. ~update /\ serving \cap Repeating = {}
      BY <2>1, <3>2, Constants DEF Exact, WrapOK
    <3>4. Promise!Start(Slice)
      BY <2>1, <3>1, <3>2, <3>3, StartIsStart
    <3> QED
      BY <3>1, <3>4 DEF Promise!Next
  <2>2. CASE UNCHANGED <<ccr, cc1ie, cc1, lists, owed>>
    BY <1>8, <2>2 DEF Callback, lists, Left, Listed
  <2> QED
    BY <1>8, <2>1, <2>2 DEF Callback
<1>9. ASSUME NEW t \in Timer, Rearm(t)
      PROVE  [Promise!Next]_Left
  BY <1>9, RearmRuns DEF Promise!Next
<1>10. CASE Enter \/ LoopEnds \/ ClearCC1 \/ ClearUpdate \/ NoUpdate
  BY <1>10 DEF Enter, LoopEnds, ClearCC1, ClearUpdate, NoUpdate, hardware,
     lists, Left, Listed
<1>11. CASE SwapLists
  <2>1. systimers' = rollovers /\ rollovers' = systimers
    BY <1>11, ExactSwap
  <2>2. serving' = serving /\ owed' = owed
    BY <1>11 DEF SwapLists
  <2> QED
    BY <2>1, <2>2 DEF Left, Listed
<1> QED
  BY <1>1, <1>2, <1>4, <1>5, <1>6, <1>7, <1>8, <1>9, <1>10, <1>11
     DEF Next, IRQHandler

LEMMA InitAlarms == Init => Promise!Init
<1>1. DOMAIN << >> = {}
  OBVIOUS
<1>2. ASSUME Init
      PROVE  Left = [t \in Timer |-> -1]
  BY <1>1, <1>2 DEF Init, Left, Listed, Timers, Entries
<1> QED
  BY <1>2 DEF Promise!Init, Promise!Off

(***************************************************************************)
(* The timers are alarms: if no tick falls inside the handler or a         *)
(* service, a started timer runs when exactly its period has passed, again *)
(* and again if it repeats, and never once it is stopped, for any timers,  *)
(* periods shorter than the counter's, and across its wrap.                *)
(***************************************************************************)
THEOREM TimersAreAlarms ==
  ASSUME Prompt, ShortDelays, FedInTime
  PROVE  Spec => ImplementsAlarms
<1>1. Types /\ Exact /\ [Next]_vars => Exact'
  BY ExactNext
<1>2. Types /\ Exact /\ [Next]_vars => [Promise!Next]_Left
  BY StepAlarms
<1> QED
  BY InitTypes, TypesNext, ExactInit, InitAlarms, <1>1, <1>2, PTL
     DEF Spec, ImplementsAlarms, Promise!Spec

=============================================================================
