------------------------------ MODULE SysTimer ------------------------------
(***************************************************************************)
(* The software timers, device/systimer.c, and the watchdog that one of    *)
(* them feeds, services/watchdog.c.                                        *)
(*                                                                         *)
(* A hardware counter of milliseconds wraps at Wrap.  A timer is in the    *)
(* list of those that run before the counter wraps (systimers) or of those *)
(* that run after (rollovers), and the compare register holds the time of  *)
(* the first.  The interrupt handler is taken step by step: the counter    *)
(* may advance while it runs callbacks.  Starting and stopping a timer is  *)
(* a protected service, one step.                                          *)
(***************************************************************************)
EXTENDS Integers, Sequences, SequencesExt

CONSTANTS
  Delay,       \* the timers of task_delay, TIMER_EVENT_ONCE
  Slice,       \* scheduler_timer, which tasks and callbacks start and stop
  Watchdog,    \* the timer that runs watchdog_refresh
  Leds,        \* the application's other timers of systimer_create_exec
  Period,      \* Period[t] for Slice, Watchdog and Leds
  DelayPeriods,\* the delays that tasks ask for
  Wrap,        \* SYSTIMERS_PERIOD
  Reload,      \* ticks until the watchdog resets the board
  Slow         \* what may take long: "callback", the counter advances in a
               \* callback; "service", an interrupt comes due in a service

Repeating == Leds \cup {Slice, Watchdog}    \* TIMER_EXEC_IRQ
Timer     == Delay \cup Repeating

ASSUME SysTimerAssumption ==
  /\ Wrap \in Nat /\ Wrap > 1
  /\ Period \in [Repeating -> 1 .. Wrap - 1]
  /\ DelayPeriods \subseteq Nat
  /\ Reload \in Nat \ {0}
  /\ Slow \subseteq {"callback", "service"}
  /\ Delay \cap Repeating = {} /\ Slice # Watchdog

VARIABLES
  cnt,         \* SYSTIMERS->CNT
  ccr,         \* SYSTIMERS->CCR1
  cc1ie,       \* TIM_IT_CC1 in SYSTIMERS->DIER
  cc1,         \* TIM_FLAG_CC1 in SYSTIMERS->SR
  update,      \* TIM_FLAG_UPDATE
  systimers,   \* the list of the timers, as records of timer and exec_at
  rollovers,   \* the list of those that run after the next wrap
  pc,          \* where the interrupt handler is
  systime,     \* its local variable
  serving,     \* the timer whose callback it runs
  unfed,       \* ticks since the watchdog was reloaded, or -1: not enabled
  owed,        \* ticks that must pass before a started timer may run
  halt         \* the assertion that failed, or "reset"

hardware == <<cnt, ccr, cc1ie, cc1, update>>
lists    == <<systimers, rollovers>>
handler  == <<pc, systime, serving>>
vars     == <<hardware, lists, handler, unfed, owed, halt>>

(* systimer_init and systimer_enable.  A match with the initial CCR1 may   *)
(* be flagged already.                                                     *)
Init ==
  /\ cnt = 0 /\ ccr = 0 /\ cc1ie = TRUE /\ cc1 \in BOOLEAN /\ update = FALSE
  /\ systimers = << >> /\ rollovers = << >>
  /\ pc = "idle" /\ systime = 0 /\ serving = {}
  /\ unfed = -1
  /\ owed = [t \in Timer |-> 0]
  /\ halt = "none"

-----------------------------------------------------------------------------
Entry(t, at) == [timer |-> t, exec_at |-> at]

Entries(list) == {list[i] : i \in DOMAIN list}

Timers(list) == {e.timer : e \in Entries(list)}

(* list_element: the timer's node is in some list.                         *)
Listed(t) == t \in Timers(systimers) \cup Timers(rollovers)

RolloverNever(at) == FALSE                                       \* mutant

(* systimer_schedule: period and exec_at are 16 bits wide.                 *)
ExecAt(p) == (cnt + (p % Wrap)) % Wrap

(* systimer_insert_condition.                                              *)
LaterThan(node, new) == node.exec_at > new.exec_at

(* list_insert_condition: before the first node that runs later.           *)
Inserted(list, new) ==
  LET later == {i \in DOMAIN list : LaterThan(list[i], new)}
  IN  IF later = {} THEN Append(list, new)
      ELSE InsertAt(list, CHOOSE i \in later : \A j \in later : i <= j, new)

(* list_remove: the timer's node leaves the list that holds it.            *)
Removed(list, t) ==
  IF \E i \in DOMAIN list : list[i].timer = t
    THEN RemoveAt(list, CHOOSE i \in DOMAIN list : list[i].timer = t)
    ELSE list

(* systimer_insert: which list a time belongs to.                          *)
Rollover(at) == at < cnt

Schedule(t, p) ==
  LET new == Entry(t, ExecAt(p))
  IN  IF Rollover(ExecAt(p))
        THEN rollovers' = Inserted(rollovers, new) /\ UNCHANGED systimers
        ELSE systimers' = Inserted(systimers, new) /\ UNCHANGED rollovers

(***************************************************************************)
(* systimer_schedule_next, of the list as the step leaves it.  A compare   *)
(* value written while the counter has it matches.                         *)
(***************************************************************************)
ScheduleNext ==
  IF systimers' = << >> THEN UNCHANGED <<ccr, cc1ie, cc1>>
  ELSE /\ ccr' = Head(systimers').exec_at
       /\ cc1ie' = TRUE
       /\ cc1' = (cc1 \/ ccr' = cnt)

-----------------------------------------------------------------------------
(* The hardware.                                                           *)

Pending == update \/ (cc1 /\ cc1ie)

(* The counter.  The watchdog counts the same milliseconds.                *)
Tick ==
  /\ halt = "none"
  /\ \/ pc = "idle" /\ ~Pending
     \/ pc = "callback" /\ "callback" \in Slow
  /\ cnt' = (cnt + 1) % Wrap
  /\ cc1' = (cc1 \/ cnt' = ccr)
  /\ update' = (update \/ cnt' = 0)
  /\ owed' = [t \in Timer |-> IF owed[t] = 0 THEN 0 ELSE owed[t] - 1]
  /\ unfed' = IF unfed = -1 THEN -1 ELSE unfed + 1
  /\ halt' = IF unfed' >= Reload THEN "reset" ELSE "none"
  /\ UNCHANGED <<ccr, cc1ie, lists, handler>>

-----------------------------------------------------------------------------
(* Services, called by tasks and by PendSV.                                *)

InService ==
  halt = "none" /\ pc = "idle" /\ (Pending => "service" \in Slow)

(* systimer_start_irq does nothing with a timer that is in a list.         *)
Start(t, p) ==
  /\ ~Listed(t)
  /\ Schedule(t, p)
  /\ ScheduleNext
  /\ owed' = [owed EXCEPT ![t] = p]

(* systimer_create_event_onetime.                                          *)
StartDelay(t) ==
  /\ InService
  /\ \E p \in DelayPeriods : Start(t, p)
  /\ UNCHANGED <<cnt, update, handler, unfed, halt>>

(* The scheduler, and systimer_create_exec.                                *)
StartRepeating(t) ==
  /\ InService
  /\ t = Watchdog => unfed = -1
  /\ Start(t, Period[t])
  /\ unfed' = IF t = Watchdog THEN 0 ELSE unfed
  /\ UNCHANGED <<cnt, update, handler, halt>>

(* systimer_stop_irq, of a delay or of the slice.                          *)
StopTimer(t) ==
  /\ InService
  /\ systimers' = Removed(systimers, t)
  /\ rollovers' = Removed(rollovers, t)
  /\ ScheduleNext
  /\ owed' = [owed EXCEPT ![t] = 0]
  /\ UNCHANGED <<cnt, update, handler, unfed, halt>>

-----------------------------------------------------------------------------
(* SYSTIMERS_IRQHandler.                                                   *)

At(place) == halt = "none" /\ pc = place

(* The flags are tested; systimers_slave_CC1_callback masks and reads.     *)
Enter ==
  /\ At("idle")
  /\ Pending
  /\ IF cc1
       THEN pc' = "loop" /\ cc1ie' = FALSE /\ systime' = cnt
       ELSE pc' = "update" /\ UNCHANGED <<cc1ie, systime>>
  /\ UNCHANGED <<cnt, ccr, cc1, update, lists, serving, unfed, owed, halt>>

AnyDue == systimers # << >>                                      \* mutant
Due    == systimers # << >> /\ Head(systimers).exec_at = systime

RemoveDue ==
  /\ At("loop")
  /\ Due
  /\ serving' = {Head(systimers).timer}
  /\ systimers' = Tail(systimers)
  /\ pc' = "callback"
  /\ UNCHANGED <<hardware, rollovers, systime, unfed, owed, halt>>

(* The callback of t: the notification of a delay's event may start the    *)
(* slice (scheduler_reschedule_task), the watchdog's reloads it.           *)
Callback(t) ==
  /\ At("callback")
  /\ serving = {t}
  /\ \/ t \in Delay /\ Start(Slice, Period[Slice])
     \/ UNCHANGED <<ccr, cc1ie, cc1, lists, owed>>
  /\ unfed' = IF t = Watchdog THEN 0 ELSE unfed
  /\ pc' = "rearm"
  /\ UNCHANGED <<cnt, update, systime, serving, halt>>

RearmNever(t) == FALSE                                           \* mutant
Rearms(t)     == t \in Repeating

Rearm(t) ==
  /\ At("rearm")
  /\ serving = {t}
  /\ IF Rearms(t)
       THEN Schedule(t, Period[t]) /\ owed' = [owed EXCEPT ![t] = Period[t]]
       ELSE UNCHANGED <<lists, owed>>
  /\ serving' = {}
  /\ pc' = "loop"
  /\ UNCHANGED <<hardware, systime, unfed, halt>>

LoopEnds ==
  /\ At("loop")
  /\ ~Due
  /\ UNCHANGED lists
  /\ ScheduleNext
  /\ pc' = "clear"
  /\ UNCHANGED <<cnt, update, systime, serving, unfed, owed, halt>>

ClearCC1 ==
  /\ At("clear")
  /\ cc1' = FALSE
  /\ pc' = "update"
  /\ UNCHANGED <<cnt, ccr, cc1ie, update, lists, systime, serving, unfed, owed,
                 halt>>

(* systimers_slave_UE_callback: the lists change places.                   *)
SwapLists ==
  /\ At("update")
  /\ update
  /\ IF systimers # << >>
       THEN /\ halt' = "Bad Logic"
            /\ UNCHANGED <<lists, ccr, cc1ie, cc1, pc>>
       ELSE /\ systimers' = rollovers /\ rollovers' = systimers
            /\ ScheduleNext
            /\ pc' = "clear update"
            /\ UNCHANGED halt
  /\ UNCHANGED <<cnt, update, systime, serving, unfed, owed>>

ClearUpdate ==
  /\ At("clear update")
  /\ update' = FALSE
  /\ pc' = "idle"
  /\ UNCHANGED <<cnt, ccr, cc1ie, cc1, lists, systime, serving, unfed, owed,
                 halt>>

NoUpdate ==
  /\ At("update")
  /\ ~update
  /\ pc' = "idle"
  /\ UNCHANGED <<hardware, lists, systime, serving, unfed, owed, halt>>

IRQHandler ==
  \/ Enter \/ RemoveDue \/ LoopEnds \/ ClearCC1
  \/ SwapLists \/ ClearUpdate \/ NoUpdate
  \/ \E t \in Timer : Callback(t) \/ Rearm(t)

Next ==
  \/ Tick
  \/ \E t \in Delay : StartDelay(t)
  \/ \E t \in Repeating : StartRepeating(t)
  \/ \E t \in Delay \cup {Slice} : StopTimer(t)
  \/ IRQHandler

Spec == Init /\ [][Next]_vars

(***************************************************************************)
(* Fairness: the counter counts, between services too, and the handler     *)
(* goes on.                                                                *)
(***************************************************************************)
FairSpec == Spec /\ SF_vars(Tick) /\ WF_vars(IRQHandler)

-----------------------------------------------------------------------------
(* Properties.                                                             *)

TypeOK ==
  LET List == Seq([timer : Timer, exec_at : 0 .. Wrap - 1])
  IN  /\ cnt \in 0 .. Wrap - 1 /\ ccr \in 0 .. Wrap - 1
      /\ cc1ie \in BOOLEAN /\ cc1 \in BOOLEAN /\ update \in BOOLEAN
      /\ systimers \in List /\ rollovers \in List
      /\ pc \in {"idle", "loop", "callback", "rearm", "clear", "update",
                 "clear update"}
      /\ systime \in 0 .. Wrap - 1
      /\ serving \subseteq Timer
      /\ unfed \in -1 .. Reload
      /\ owed \in [Timer -> Nat]
      /\ halt \in {"none", "Bad Logic", "reset"}

(***************************************************************************)
(* When no tick falls inside the handler or a service, the timers are      *)
(* those of Alarms: each runs when exactly its period has passed, across   *)
(* the wrap of the counter, whatever is started, stopped and started       *)
(* again.                                                                  *)
(***************************************************************************)
Left ==
  [t \in Timer |->
     IF Listed(t) \/ (t \in serving /\ Rearms(t)) THEN owed[t] ELSE -1]

Periods ==
  [t \in Timer |-> IF t \in Delay THEN DelayPeriods ELSE {Period[t]}]

Promise == INSTANCE Alarms WITH left <- Left

ImplementsAlarms == Promise!Spec

(***************************************************************************)
(* Then no assertion fails and the watchdog is reloaded in time, although  *)
(* its timer shares the lists with those that tasks start and stop         *)
(* (systimer.c:258, watchdog.c:19).                                        *)
(***************************************************************************)
NothingFails == halt = "none"

(* Both lists are in the order of time, so that the next timer to run is   *)
(* the one compared with (systimer.c:18-21, :188).                         *)
InOrder(list) ==
  \A i, j \in DOMAIN list : i < j => list[i].exec_at <= list[j].exec_at

ListsInOrder == InOrder(systimers) /\ InOrder(rollovers)

(* Every timer that is started runs, or is stopped before it does.         *)
TimersRun == \A t \in Timer : Listed(t) ~> ~Listed(t)

-----------------------------------------------------------------------------
(* What the code's assertions say, and the code does not do.               *)

(* "Bad Logic" (systimer.c:258): when the counter wraps, every timer that  *)
(* was to run before has run.                                              *)
NoneLeftBehind == halt # "Bad Logic"

(* "Periods greater than timer period not supported." (systimer.c:126): a  *)
(* timer does not run before its period has passed.                        *)
NeverEarly == \A t \in serving : pc = "callback" => owed[t] = 0

=============================================================================
