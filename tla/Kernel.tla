------------------------------- MODULE Kernel -------------------------------
(***************************************************************************)
(* The core of simple_os: tasks, events, the priority scheduler and the    *)
(* context switch, on one Cortex-M7 core.                                  *)
(*                                                                         *)
(* Three kinds of code run.  A task runs its own code and asks for a       *)
(* service with service_call; a protected service runs with interrupts     *)
(* disabled and is one step here.  Interrupt handlers, all of one          *)
(* priority, run between any two of these.  PendSV has the lowest          *)
(* priority: it is pended by a service or a handler, runs when no handler  *)
(* is left to run, and before any further instruction of a task.           *)
(* event_notify_irq empties a waiting list in a loop: one step of the      *)
(* model per task it releases, with everything else locked out by          *)
(* draining.  A failed assertion stops the processor (halt) until the      *)
(* watchdog resets it.                                                     *)
(***************************************************************************)
EXTENDS TaskStates, TaskLists, FiniteSets

CONSTANTS
  Task,        \* task control blocks: the main task and those malloc may return
  Main,        \* the task made of main() by task_main_hoist
  Idle,        \* the idle task, which is not in the TCB table
  Shell,       \* the task of the shell's commands
  Name,        \* the statically allocated events of drivers and applications
  MaxTasks,    \* MAX_TASK_COUNT
  MaxEvents,   \* MAX_EVENT_COUNT
  Calls        \* the calls the tasks make, a subset of KernelCall

KernelCall ==
  {"yield", "wait", "notify", "delay", "new", "join", "end", "start", "stop",
   "irq_notify"}

Thread == Task \cup {Idle}

ASSUME KernelAssumption ==
  /\ Main \in Task
  /\ Idle \notin Task
  /\ Shell \in Task
  /\ Prio \in [Thread -> Int]
  /\ MaxTasks \in Nat \ {0}
  /\ MaxEvents \in Nat
  /\ Calls \subseteq KernelCall

(***************************************************************************)
(* An event is the join event of a task, the event task_delay keeps on     *)
(* the stack of its caller, or a static one.                               *)
(***************************************************************************)
TaskEvent   == [kind : {"join"}, task : Thread]
                 \cup [kind : {"delay"}, task : Task]
StaticEvent == [kind : {"static"}, name : Name]
Event       == TaskEvent \cup StaticEvent

Join(t)  == [kind |-> "join",  task |-> t]
Delay(t) == [kind |-> "delay", task |-> t]

NoEvent == [kind |-> "none"]

VARIABLES
  current,     \* current_task
  state,       \* task_t.state; "FREE" while the control block is not allocated
  ready,       \* ready_list
  waiting,     \* event_t.waiting
  signal,      \* event_t.signal
  tcb,         \* the tasks TCB[] points at
  registered,  \* the events event_list[] points at
  pendSV,      \* a PendSV exception is pending
  slice,       \* scheduler_timer is in a timer list
  timer,       \* the one-shot timer of a task's task_delay is in a timer list
  draining,    \* the event whose waiters event_notify_irq is releasing
  pc,          \* where in a kernel call the task is
  arg,         \* the event, or the task through its join event, of that call
  halt         \* the assertion that stopped the processor, or "none"

lists == <<ready, waiting>>
calls == <<pc, arg>>
vars  == <<current, state, ready, waiting, signal, tcb, registered, pendSV,
           slice, timer, draining, pc, arg, halt>>

Place ==
  {"run", "add", "wait", "clear", "resched", "free", "destroy", "unregister",
   "start", "stop"}

Failure ==
  {"Invalid Transition", "Invalid task", "Waiter not waiting",
   "Node not initialized", "Node still in some list", "Cannot free",
   "Use after free"}

-----------------------------------------------------------------------------
(***************************************************************************)
(* task_main_hoist: the main task runs, it has the first TCB slot, and it  *)
(* has just asked for a context switch.                                    *)
(***************************************************************************)
Init ==
  /\ current = Main
  /\ state = [t \in Thread |-> IF t = Main THEN "ACTIVE"
                               ELSE IF t = Idle THEN "READY" ELSE "FREE"]
  /\ ready = << >>
  /\ waiting = [e \in Event |-> << >>]
  /\ signal = [e \in Event |-> 0]
  /\ tcb = {Main}
  /\ registered = {}
  /\ pendSV = TRUE
  /\ slice = FALSE
  /\ timer = [t \in Task |-> FALSE]
  /\ draining = NoEvent
  /\ pc = [t \in Task |-> "run"]
  /\ arg = [t \in Task |-> Join(t)]
  /\ halt = "none"

InSomeList(t) ==
  \/ t \in Members(ready)
  \/ \E e \in Event : t \in Members(waiting[e])

Fail(why) ==
  /\ halt' = why
  /\ UNCHANGED <<current, state, ready, waiting, signal, tcb, registered,
                 pendSV, slice, timer, draining, pc, arg>>

InterruptsEnabled == halt = "none" /\ draining = NoEvent

(* A task executes only when it is current and no switch is pending.       *)
Runs(t) == InterruptsEnabled /\ ~pendSV /\ current = t

At(t, place) == Runs(t) /\ pc[t] = place

Goto(t, place, e) ==
  /\ pc' = [pc EXCEPT ![t] = place]
  /\ arg' = [arg EXCEPT ![t] = e]

(***************************************************************************)
(* scheduler_reschedule_task, called when the states are st.  A task that  *)
(* outranks the current one preempts it; an equal starts the time slice.   *)
(***************************************************************************)
PreemptsLower(t) == t # current /\ Prio[t] < Prio[current]        \* mutant

Preempts(t) == t # current /\ Prio[t] > Prio[current]
Shares(t)   == t # current /\ Prio[t] = Prio[current]

Reschedule(t, st) ==
  IF st[t] # "READY" \/ t = Idle
    THEN UNCHANGED <<ready, pendSV, slice>>
    ELSE /\ ready' = Scheduled(ready, t)
         /\ pendSV' = (pendSV \/ Preempts(t))
         /\ slice' = (slice \/ Shares(t))

-----------------------------------------------------------------------------
(* Calls a task begins.                                                    *)

Begins(t, call) == call \in Calls /\ At(t, "run")

Yield(t) ==
  /\ Begins(t, "yield")
  /\ pendSV' = TRUE
  /\ UNCHANGED <<current, state, lists, signal, tcb, registered, slice, timer,
                 draining, calls, halt>>

Wait(t) ==
  /\ Begins(t, "wait")
  /\ \E e \in StaticEvent : Goto(t, "add", e)
  /\ UNCHANGED <<current, state, lists, signal, tcb, registered, pendSV, slice,
                 timer, draining, halt>>

(***************************************************************************)
(* task_delay: a fresh event, and a one-shot timer started by a service.   *)
(***************************************************************************)
StartDelay(t) ==
  /\ Begins(t, "delay")
  /\ signal' = [signal EXCEPT ![Delay(t)] = 0]
  /\ waiting' = [waiting EXCEPT ![Delay(t)] = << >>]
  /\ timer' = [timer EXCEPT ![t] = TRUE]
  /\ Goto(t, "add", Delay(t))
  /\ UNCHANGED <<current, state, ready, tcb, registered, pendSV, slice,
                 draining, halt>>

(***************************************************************************)
(* task_new: allocation, initialisation, and the service                   *)
(* task_control_add, whose failure is ignored.                             *)
(***************************************************************************)
NewTask(t) ==
  /\ Begins(t, "new")
  /\ \E u \in Task :
       /\ state[u] = "FREE"
       /\ state' = [state EXCEPT ![u] = "READY"]
       /\ signal' = [signal EXCEPT ![Join(u)] = 0]
       /\ waiting' = [waiting EXCEPT ![Join(u)] = << >>]
       /\ tcb' = IF Cardinality(tcb) < MaxTasks THEN tcb \cup {u} ELSE tcb
       /\ Goto(t, "resched", Join(u))
  /\ UNCHANGED <<current, ready, registered, pendSV, slice, timer, draining,
                 halt>>

RescheduleNew(t) ==
  /\ At(t, "resched")
  /\ Reschedule(arg[t].task, state)
  /\ Goto(t, "run", Join(t))
  /\ UNCHANGED <<current, state, waiting, signal, tcb, registered, timer,
                 draining, halt>>

(***************************************************************************)
(* task_join of a task that its creator knows and no other task joins: it  *)
(* frees the task, so a second joiner would hold a dangling pointer.       *)
(***************************************************************************)
JoinTask(t) ==
  /\ Begins(t, "join")
  /\ \E u \in Task \ {t} :
       /\ state[u] # "FREE"
       /\ \A v \in Task :
            pc[v] \notin {"run", "start", "stop"} => arg[v] # Join(u)
       /\ Goto(t, "add", Join(u))
  /\ UNCHANGED <<current, state, lists, signal, tcb, registered, pendSV, slice,
                 timer, draining, halt>>

(***************************************************************************)
(* event_notify and event_notify_irq: set the signal, then release the     *)
(* waiters one after the other.                                            *)
(***************************************************************************)
NotifyUnsignalled(e) == draining' = e /\ UNCHANGED signal         \* mutant

Notify(e) ==
  /\ signal' = [signal EXCEPT ![e] = 1]
  /\ draining' = e

NotifyEvent(t) ==
  /\ Begins(t, "notify")
  /\ \E e \in StaticEvent : Notify(e)
  /\ UNCHANGED <<current, state, lists, tcb, registered, pendSV, slice, timer,
                 calls, halt>>

(* The task's function returns into task_end.                              *)
EndTask(t) ==
  /\ t # Main
  /\ Begins(t, "end")
  /\ Notify(Join(t))
  /\ UNCHANGED <<current, state, lists, tcb, registered, pendSV, slice, timer,
                 calls, halt>>

(***************************************************************************)
(* The shell's start and stop commands find a task of the table, or the    *)
(* idle task, and then ask for the service.  The task found may have been  *)
(* freed in between.                                                       *)
(***************************************************************************)
FindTask(t) ==
  /\ t = Shell
  /\ \E u \in tcb \cup {Idle}, service \in {"start", "stop"} :
       Begins(t, service) /\ Goto(t, service, Join(u))
  /\ UNCHANGED <<current, state, lists, signal, tcb, registered, pendSV, slice,
                 timer, draining, halt>>

StartTask(t) ==
  /\ At(t, "start")
  /\ LET u  == arg[t].task
         st == [state EXCEPT ![u] = Transition(state[u], "START")]
     IN  IF state[u] = "FREE" THEN Fail("Use after free")
         ELSE IF ~CanMove(state[u], "START") THEN Fail("Invalid Transition")
         ELSE /\ state' = st
              /\ Reschedule(u, st)
              /\ Goto(t, "run", Join(t))
              /\ UNCHANGED <<current, waiting, signal, tcb, registered, timer,
                             draining, halt>>

StopTask(t) ==
  /\ At(t, "stop")
  /\ LET u == arg[t].task IN
       IF state[u] = "FREE" THEN Fail("Use after free")
       ELSE IF ~CanMove(state[u], "STOP") THEN Fail("Invalid Transition")
       ELSE /\ ready' = Unlinked(ready, u)
            /\ waiting' = [e \in Event |-> Unlinked(waiting[e], u)]
            /\ state' = [state EXCEPT ![u] = Transition(state[u], "STOP")]
            /\ Goto(t, "run", Join(t))
            /\ UNCHANGED <<current, signal, tcb, registered, pendSV, slice,
                           timer, draining, halt>>

-----------------------------------------------------------------------------
(* The rest of event_wait, and of the calls that wait.                     *)

(* event_control_add: a full table is not reported to the caller.          *)
RegisterEvent(t) ==
  /\ At(t, "add")
  /\ registered' = IF Cardinality(registered) < MaxEvents
                     THEN registered \cup {arg[t]} ELSE registered
  /\ Goto(t, "wait", arg[t])
  /\ UNCHANGED <<current, state, lists, signal, tcb, pendSV, slice, timer,
                 draining, halt>>

(* event_wait_irq.                                                         *)
BlocksAlways(e) == TRUE                                          \* mutant
BlocksNever(e)  == FALSE                                         \* mutant

Blocks(e) == signal[e] = 0

WaitSignalled(t) ==
  /\ At(t, "wait")
  /\ ~Blocks(arg[t])
  /\ Goto(t, "clear", arg[t])
  /\ UNCHANGED <<current, state, lists, signal, tcb, registered, pendSV, slice,
                 timer, draining, halt>>

WaitBlocks(t) ==
  /\ At(t, "wait")
  /\ Blocks(arg[t])
  /\ IF ~CanMove(state[t], "WAIT") THEN Fail("Invalid Transition")
     ELSE IF InSomeList(t)         THEN Fail("Node not initialized")
     ELSE /\ state' = [state EXCEPT ![t] = Transition(state[t], "WAIT")]
          /\ waiting' = [waiting EXCEPT ![arg[t]] = Append(@, t)]
          /\ pendSV' = TRUE
          /\ Goto(t, "clear", arg[t])
          /\ UNCHANGED <<current, ready, signal, tcb, registered, slice, timer,
                         draining, halt>>

(***************************************************************************)
(* Back in the task: event_wait clears the signal outside any service, and *)
(* its caller goes on.                                                     *)
(***************************************************************************)
AfterWait(e) == CASE e.kind = "static" -> "run"
                  [] e.kind = "delay"  -> "destroy"
                  [] e.kind = "join"   -> "free"

ClearSignal(t) ==
  /\ At(t, "clear")
  /\ signal' = [signal EXCEPT ![arg[t]] = 0]
  /\ Goto(t, AfterWait(arg[t]), arg[t])
  /\ UNCHANGED <<current, state, lists, tcb, registered, pendSV, slice, timer,
                 draining, halt>>

(***************************************************************************)
(* task_free.  A task the table had no room for kept the id 0.  A freed    *)
(* task whose task_delay is unfinished leaves a timer or an event_list     *)
(* entry that points into its freed stack.                                 *)
(***************************************************************************)
FreeTask(t) ==
  /\ At(t, "free")
  /\ LET u == arg[t].task IN
       IF u = Main \/ u \notin tcb THEN Fail("Cannot free")
       ELSE IF InSomeList(u)       THEN Fail("Node still in some list")
       ELSE IF timer[u] \/ Delay(u) \in registered THEN Fail("Use after free")
       ELSE /\ tcb' = tcb \ {u}
            /\ registered' = registered \ {Join(u)}
            /\ state' = [state EXCEPT ![u] = "FREE"]
            /\ pc' = [pc EXCEPT ![t] = "run", ![u] = "run"]
            /\ arg' = [arg EXCEPT ![t] = Join(t), ![u] = Join(u)]
            /\ UNCHANGED <<current, lists, signal, pendSV, slice, timer,
                           draining, halt>>

(* The end of task_delay: systimer_destroy, then event_control_remove.     *)
DestroyTimer(t) ==
  /\ At(t, "destroy")
  /\ timer' = [timer EXCEPT ![t] = FALSE]
  /\ Goto(t, "unregister", arg[t])
  /\ UNCHANGED <<current, state, lists, signal, tcb, registered, pendSV, slice,
                 draining, halt>>

UnregisterEvent(t) ==
  /\ At(t, "unregister")
  /\ registered' = registered \ {arg[t]}
  /\ Goto(t, "run", Join(t))
  /\ UNCHANGED <<current, state, lists, signal, tcb, pendSV, slice, timer,
                 draining, halt>>

-----------------------------------------------------------------------------
(* event_notify_irq's loop, with interrupts disabled.                      *)

HeadKept(q) == q                                                 \* mutant

HeadReleased(q) == Tail(q)

ReleaseWaiter ==
  /\ halt = "none"
  /\ draining # NoEvent
  /\ waiting[draining] # << >>
  /\ LET u  == Head(waiting[draining])
         st == [state EXCEPT ![u] = Transition(state[u], "NOTIFY")]
     IN  IF state[u] # "WAIT" THEN Fail("Waiter not waiting")
         ELSE /\ waiting' = [waiting EXCEPT ![draining] = HeadReleased(@)]
              /\ state' = st
              /\ Reschedule(u, st)
              /\ UNCHANGED <<current, signal, tcb, registered, timer, draining,
                             calls, halt>>

Drained ==
  /\ halt = "none"
  /\ draining # NoEvent
  /\ waiting[draining] = << >>

NotifyDone ==
  /\ Drained
  /\ draining.kind # "join"
  /\ draining' = NoEvent
  /\ UNCHANGED <<current, state, lists, signal, tcb, registered, pendSV, slice,
                 timer, calls, halt>>

(* task_end_irq, after its event_notify_irq.                               *)
ExitTask ==
  /\ Drained
  /\ draining.kind = "join"
  /\ IF CanMove(state[current], "EXIT")
       THEN /\ state' = [state EXCEPT ![current] =
                                        Transition(state[current], "EXIT")]
            /\ pendSV' = TRUE
            /\ draining' = NoEvent
            /\ UNCHANGED <<current, lists, signal, tcb, registered, slice,
                           timer, calls, halt>>
       ELSE Fail("Invalid Transition")

-----------------------------------------------------------------------------
(* Interrupts.                                                             *)

(* A driver's handler notifies its event.                                  *)
IrqNotify ==
  /\ InterruptsEnabled
  /\ "irq_notify" \in Calls
  /\ \E e \in StaticEvent : Notify(e)
  /\ UNCHANGED <<current, state, lists, tcb, registered, pendSV, slice, timer,
                 calls, halt>>

(* The timer interrupt finds the timer of t's task_delay due.              *)
DelayExpires(t) ==
  /\ InterruptsEnabled
  /\ timer[t]
  /\ timer' = [timer EXCEPT ![t] = FALSE]
  /\ Notify(Delay(t))
  /\ UNCHANGED <<current, state, lists, tcb, registered, pendSV, slice, calls,
                 halt>>

(* The scheduler's 5 ms timer; it is periodic and stays armed.             *)
SliceExpires ==
  /\ InterruptsEnabled
  /\ slice
  /\ pendSV' = TRUE
  /\ UNCHANGED <<current, state, lists, signal, tcb, registered, slice, timer,
                 draining, calls, halt>>

-----------------------------------------------------------------------------
(***************************************************************************)
(* assert_task_valid, with the states st, the current task c and the ready *)
(* list q that the context switch has produced.  Only registered events    *)
(* count as wait queues.                                                   *)
(***************************************************************************)
InWaitQueue(t) == \E e \in registered : t \in Members(waiting[e])

ValidTask(t, st, c, q) ==
  CASE st[t] = "ACTIVE" -> t = c /\ t \notin Members(q) /\ ~InWaitQueue(t)
    [] st[t] = "READY"  -> t # c /\ t \in Members(q) /\ ~InWaitQueue(t)
    [] st[t] = "WAIT"   -> t # c /\ t \notin Members(q) /\ InWaitQueue(t)
    [] OTHER            -> t # c /\ t \notin Members(q) /\ ~InWaitQueue(t)

(***************************************************************************)
(* PendSV_Handler: the state of the task that leaves, its place in the     *)
(* ready list, the choice of the next one by scheduler_get_next_ready,     *)
(* that one's state, and the check of every task in the table.             *)
(***************************************************************************)
Left == Transition(state[current], "CONTEXT_SWITCH")

QueueWithBlocked == IF current # Idle                            \* mutant
                      THEN Scheduled(ready, current) ELSE ready

Queue == IF Left = "READY" /\ current # Idle
           THEN Scheduled(ready, current) ELSE ready

SliceStopped(next, rest) == FALSE                                \* mutant

SliceNeeded(next, rest) == rest # << >> /\ Prio[Head(rest)] = Prio[next]

PendSV ==
  /\ InterruptsEnabled
  /\ pendSV
  /\ LET next   == IF Queue = << >> THEN Idle ELSE Head(Queue)
         rest   == IF Queue = << >> THEN << >> ELSE Tail(Queue)
         parked == [state EXCEPT ![current] = Left]
         st     == [parked EXCEPT ![next] =
                                    Transition(parked[next], "CONTEXT_SWITCH")]
     IN  IF Left = Invalid \/ ~CanMove(parked[next], "CONTEXT_SWITCH")
           THEN Fail("Invalid Transition")
         ELSE IF \E t \in tcb : ~ValidTask(t, st, next, rest)
           THEN Fail("Invalid task")
         ELSE /\ current' = next
              /\ state' = st
              /\ ready' = rest
              /\ slice' = SliceNeeded(next, rest)
              /\ pendSV' = FALSE
              /\ UNCHANGED <<waiting, signal, tcb, registered, timer, draining,
                             calls, halt>>

(* The watchdog, no longer refreshed, resets the processor.                *)
WatchdogReset ==
  /\ halt # "none"
  /\ current' = Main
  /\ state' = [t \in Thread |-> IF t = Main THEN "ACTIVE"
                                ELSE IF t = Idle THEN "READY" ELSE "FREE"]
  /\ ready' = << >>
  /\ waiting' = [e \in Event |-> << >>]
  /\ signal' = [e \in Event |-> 0]
  /\ tcb' = {Main}
  /\ registered' = {}
  /\ pendSV' = TRUE
  /\ slice' = FALSE
  /\ timer' = [t \in Task |-> FALSE]
  /\ draining' = NoEvent
  /\ pc' = [t \in Task |-> "run"]
  /\ arg' = [t \in Task |-> Join(t)]
  /\ halt' = "none"

-----------------------------------------------------------------------------
BeginsCall(t) ==
  \/ Yield(t) \/ Wait(t) \/ StartDelay(t) \/ NewTask(t) \/ JoinTask(t)
  \/ NotifyEvent(t) \/ EndTask(t) \/ FindTask(t)

ContinuesCall(t) ==
  \/ RescheduleNew(t) \/ RegisterEvent(t) \/ WaitSignalled(t) \/ WaitBlocks(t)
  \/ ClearSignal(t) \/ FreeTask(t) \/ DestroyTimer(t) \/ UnregisterEvent(t)
  \/ StartTask(t) \/ StopTask(t)

Drain == ReleaseWaiter \/ NotifyDone \/ ExitTask

Next ==
  \/ \E t \in Task : BeginsCall(t) \/ ContinuesCall(t) \/ DelayExpires(t)
  \/ Drain
  \/ IrqNotify
  \/ SliceExpires
  \/ PendSV
  \/ WatchdogReset

Spec == Init /\ [][Next]_vars

(***************************************************************************)
(* Fairness.  The processor keeps executing: a service it has started goes *)
(* on and the watchdog does not stop.  An exception that comes due while   *)
(* interrupts are disabled stays pending until they are enabled, the       *)
(* handlers leave time for PendSV, and a slice is long enough for a step   *)
(* of the task that runs: strong fairness.  A task need not make another   *)
(* call, and no driver need ever interrupt.                                *)
(***************************************************************************)
Fairness ==
  /\ WF_vars(Drain)
  /\ WF_vars(WatchdogReset)
  /\ SF_vars(PendSV)
  /\ SF_vars(SliceExpires)
  /\ \A t \in Task : SF_vars(ContinuesCall(t)) /\ SF_vars(DelayExpires(t))

FairSpec == Spec /\ Fairness

-----------------------------------------------------------------------------
(* Properties.                                                             *)

(* The values of the kernel's variables.                                   *)
TypeOK ==
  /\ current \in Thread
  /\ state \in [Thread -> TaskState \cup {"FREE"}]
  /\ ready \in Seq(Task)
  /\ waiting \in [Event -> Seq(Task)]
  /\ signal \in [Event -> {0, 1}]
  /\ tcb \subseteq Task
  /\ registered \subseteq Event
  /\ pendSV \in BOOLEAN
  /\ slice \in BOOLEAN
  /\ timer \in [Task -> BOOLEAN]
  /\ draining \in Event \cup {NoEvent}
  /\ pc \in [Task -> Place]
  /\ arg \in [Task -> Event]
  /\ halt \in Failure \cup {"none"}

(***************************************************************************)
(* No wake-up is lost: an event whose signal is set has no waiter left     *)
(* behind, but for those event_notify_irq is just releasing.  (event_wait  *)
(* clears the signal outside any service, event.h:38; event_wait_irq must  *)
(* test it before it blocks, event.h:50.)                                  *)
(***************************************************************************)
NoLostWakeup ==
  \A e \in Event : signal[e] = 1 /\ waiting[e] # << >> => draining = e

(* task_new found no room in TCB[] for some task that exists.              *)
TableOverflowed == \E t \in Task : state[t] # "FREE" /\ t \notin tcb

(***************************************************************************)
(* The intrusive node of a task is in at most one list, once, and the list *)
(* says what the state says: ready_list holds READY tasks and a waiting    *)
(* list holds WAIT tasks, each of which is in one.  A second insertion of  *)
(* a node would corrupt both lists silently (list.h:212 does not check).   *)
(***************************************************************************)
ReadyListOK ==
  /\ NoDuplicates(ready)
  /\ \A t \in Members(ready) : state[t] = "READY"

WaitingListsOK ==
  /\ \A e \in Event : NoDuplicates(waiting[e])
  /\ \A e, f \in Event :
       e # f => Members(waiting[e]) \cap Members(waiting[f]) = {}
  /\ \A e \in Event : \A t \in Members(waiting[e]) : state[t] = "WAIT"
  /\ \A t \in Task :
       state[t] = "WAIT" => \E e \in Event : t \in Members(waiting[e])

ListsAgree == TableOverflowed \/ (ReadyListOK /\ WaitingListsOK)

(***************************************************************************)
(* The assertions that the waiters of a notified event wait (event.h:68)   *)
(* and that a node put in a waiting list is in no other (list.h:119) hold, *)
(* whatever tasks are stopped and started meanwhile.                       *)
(***************************************************************************)
ListAssertionsHold ==
  TableOverflowed \/ halt \notin {"Waiter not waiting", "Node not initialized"}

(* The ready list keeps the order of priorities under every interleaving.  *)
ReadySorted == Sorted(ready)

(***************************************************************************)
(* Fully preemptive: a task keeps the processor while an unpended switch   *)
(* is possible only if no ready task outranks it, however the task became  *)
(* ready (scheduler_priority.c:49, :73).                                   *)
(***************************************************************************)
PriorityRespected ==
  halt = "none" /\ ~pendSV =>
    \A t \in Members(ready) : Prio[t] <= Prio[current]

(***************************************************************************)
(* While a ready task has the priority of the running one the time slice   *)
(* is running: the timer is started when the task becomes ready, stopped   *)
(* at each switch and started again for the next pair of equals            *)
(* (scheduler_priority.c:52, :71-79).                                      *)
(***************************************************************************)
SliceArmed ==
  halt = "none" /\ ~pendSV =>
    \A t \in Members(ready) \ {current} : Prio[t] = Prio[current] => slice

(***************************************************************************)
(* A blocked task becomes ready only by a notification of the event it     *)
(* waits for, unless it is stopped first.                                  *)
(***************************************************************************)
ReleasedByNotify ==
  [][\A t \in Task : state[t] = "WAIT" /\ state'[t] = "READY" =>
       draining # NoEvent /\ signal[draining] = 1
         /\ t \in Members(waiting[draining])]_vars

(***************************************************************************)
(* Without the shell's start and stop, task_join is about to free only a   *)
(* task that has ended (task.c:149-150), and which no list, no timer and   *)
(* no entry of event_list uses any more.                                   *)
(***************************************************************************)
JoinedHasEnded ==
  \A t \in Task : pc[t] = "free" =>
    LET u == arg[t].task
    IN  /\ state[u] = "END" /\ u # current
        /\ ~InSomeList(u) /\ ~timer[u] /\ Delay(u) \notin registered

(***************************************************************************)
(* The only ways the kernel's own check in PendSV_Handler (task.c:355-385) *)
(* fails when no table is full and the shell stops no task: the task that  *)
(* blocked was notified before the switch, or the switch came between the  *)
(* two services of task_new.                                               *)
(***************************************************************************)
NotifiedBeforeSwitch == current # Idle /\ state[current] = "READY"
CreationInterrupted  == current # Idle /\ pc[current] = "resched"

ChecksFailOnlyByRace ==
  [][halt = "none" /\ halt' = "Invalid task" =>
       NotifiedBeforeSwitch \/ CreationInterrupted]_vars

(***************************************************************************)
(* A ready task that nothing outranks leaves the ready list: its equals    *)
(* give way when their slice ends.                                         *)
(***************************************************************************)
Top == {t \in Task : \A u \in Thread : Prio[u] <= Prio[t]}

TopTasksRun ==
  \A t \in Top : (t \in Members(ready)) ~> (t \notin Members(ready))

(***************************************************************************)
(* task_delay of such a task returns, although its timer may expire before *)
(* the task has reached event_wait_irq, unless an assertion has failed.    *)
(***************************************************************************)
DelayReturns ==
  \A t \in Top :
    (arg[t] = Delay(t)) ~> (arg[t] # Delay(t) \/ halt # "none")

-----------------------------------------------------------------------------
(* What the code's own assertions and texts say, and the code does not do. *)

(* Every task passes assert_task_valid at every switch (task.c:353-385).   *)
TaskChecksHold == halt # "Invalid task"

(* task_state_transition is never asked for a transition it does not have, *)
(* as by "stop" on a task that ended or on the shell itself (task.c:251).  *)
TransitionsValid == halt # "Invalid Transition"

(* task_free is called only on tasks of no list (task.c:134): a task_join  *)
(* returns when its task has ended.                                        *)
FreedTasksUnlisted == halt # "Node still in some list"

(* task_join of a task made by task_new can free it (task.c:141).          *)
CreatedTasksCanBeFreed == halt # "Cannot free"

(* A blocked task is in one wait queue that is counted (task.c:374-375).   *)
BlockedTasksCounted ==
  \A t \in tcb : state[t] = "WAIT" => InWaitQueue(t)

(* The idle task has the lowest priority (task_type.h:81): it gives way to *)
(* any task that becomes ready.                                            *)
IdleGivesWay ==
  \A t \in Task : (current = Idle /\ t \in Members(ready)) ~> (current # Idle)

=============================================================================
