---------------------------- MODULE Schedulers -----------------------------
(***************************************************************************)
(* The two schedulers a build may choose instead of the priority one:      *)
(* core/scheduler_round_robin.c, a ready list in order of arrival, and     *)
(* core/scheduler_trivial.c, a search of the TCB table from where the last *)
(* one ended.  Both ask for a context switch every 5 ms.                   *)
(*                                                                         *)
(* Why a task waits, and what its calls do when an assertion of theirs     *)
(* fails, are the matter of Kernel; here tasks block, wake, end and are    *)
(* stopped, and a context switch (context_switch.c) chooses the next.      *)
(***************************************************************************)
EXTENDS TaskStates, Integers, FiniteSets, Sequences

CONSTANTS
  Task,     \* task control blocks
  Main,     \* the task of main(), one of them
  Idle,     \* the idle task, of id -1, none of them
  Ready,    \* the head of ready_list
  MaxTasks, \* MAX_TASK_COUNT: room for every task
  NoTask    \* NULL

Thread == Task \cup {Idle}

SchedulersAssumption ==
  /\ IsFiniteSet(Task) /\ Main \in Task /\ Idle \notin Task
  /\ Ready \notin Thread /\ NoTask \notin Thread \cup {Ready}
  /\ MaxTasks \in Nat /\ Cardinality(Task) <= MaxTasks

VARIABLES
  scheduler, \* OS_SCHEDULER: "round_robin" or "trivial"
  current,   \* current_task
  state,     \* task_t.state; "FREE" while the control block is not allocated
  TCB,       \* TCB[id]
  creating,  \* the task a task_new has put in the table and not scheduled
  readyNext, \* the links of ready_list
  readyPrev,
  currentId, \* current_id of the search, a static variable
  pendSV,    \* a PendSV exception is pending
  halted,    \* an assertion failed
  passed     \* how many tasks were chosen while this one was ready

readyLinks == <<readyNext, readyPrev>>
schedVars ==
  <<scheduler, current, state, TCB, creating, readyLinks, currentId, pendSV, halted, passed>>

List == INSTANCE LinkedList WITH
  ListHead <- {Ready}, ListItem <- Thread, ItemKey <- [t \in Thread |-> 0],
  NoNode <- NoTask, OnlyUnlinked <- TRUE, gotNode <- NoTask, misused <- FALSE,
  next <- readyNext, prev <- readyPrev

Ids       == 0 .. MaxTasks - 1
InList(t) == readyNext[t] # t
InTable   == {TCB[i] : i \in Ids} \ {NoTask}

(* task_main_hoist has asked for a switch.                                 *)
SchedInit ==
  /\ scheduler \in {"round_robin", "trivial"}
  /\ current = Main
  /\ state = [t \in Thread |-> CASE t = Main -> "ACTIVE" [] t = Idle -> "READY" [] OTHER -> "FREE"]
  /\ TCB = [i \in Ids |-> IF i = 0 THEN Main ELSE NoTask]
  /\ creating = [t \in Task |-> NoTask]
  /\ readyNext = [n \in Thread \cup {Ready} |-> n]
  /\ readyPrev = [n \in Thread \cup {Ready} |-> n]
  /\ currentId = 0
  /\ pendSV = TRUE
  /\ halted = FALSE
  /\ passed = [t \in Task |-> 0]

-----------------------------------------------------------------------------
Halt ==
  /\ halted' = TRUE
  /\ UNCHANGED <<scheduler, current, state, TCB, creating, readyLinks, currentId, pendSV, passed>>

InsertableAny(t, st) == scheduler = "round_robin" /\ t # Idle     \* mutant

(* scheduler_reschedule_task of t, when the states are st.  Only a list    *)
(* insertion of a task that is in the list already fails.                  *)
Insertable(t, st) == scheduler = "round_robin" /\ st[t] = "READY" /\ t # Idle

InsertFails(t, st) == Insertable(t, st) /\ InList(t)

AtFront(t) ==                                                    \* mutant
  [next |-> [readyNext EXCEPT ![t] = readyNext[Ready], ![Ready] = t],
   prev |-> [readyPrev EXCEPT ![readyNext[Ready]] = t, ![t] = Ready]]

(* list_addAtRear.                                                         *)
AtRear(t) ==
  [next |-> [readyNext EXCEPT ![t] = Ready, ![readyPrev[Ready]] = t],
   prev |-> [readyPrev EXCEPT ![Ready] = t, ![t] = readyPrev[Ready]]]

Reschedule(t, st) ==
  IF Insertable(t, st) THEN readyNext' = AtRear(t).next /\ readyPrev' = AtRear(t).prev
  ELSE UNCHANGED readyLinks

Runs(t) == ~halted /\ ~pendSV /\ current = t

(* task_new: the service that puts the task in the first free slot ...     *)
NewTask(t) ==
  /\ Runs(t) /\ creating[t] = NoTask
  /\ \E u \in Task, i \in Ids :
       /\ state[u] = "FREE"
       /\ TCB[i] = NoTask /\ \A j \in 0 .. i - 1 : TCB[j] # NoTask
       /\ TCB' = [TCB EXCEPT ![i] = u]
       /\ state' = [state EXCEPT ![u] = "READY"]
       /\ creating' = [creating EXCEPT ![t] = u]
  /\ UNCHANGED <<scheduler, current, readyLinks, currentId, pendSV, halted, passed>>

(* ... and the one that schedules it.                                      *)
ScheduleNew(t) ==
  /\ Runs(t) /\ creating[t] # NoTask
  /\ IF InsertFails(creating[t], state) THEN Halt
     ELSE /\ Reschedule(creating[t], state)
          /\ creating' = [creating EXCEPT ![t] = NoTask]
          /\ UNCHANGED <<scheduler, current, state, TCB, currentId, pendSV, halted, passed>>

Leaves(t, action) ==
  /\ Runs(t) /\ creating[t] = NoTask
  /\ state' = [state EXCEPT ![t] = Transition(@, action)]
  /\ pendSV' = TRUE
  /\ UNCHANGED <<scheduler, current, TCB, creating, readyLinks, currentId, halted, passed>>

(* event_wait_irq; task_end_irq, of a task that is not the main one.       *)
BlockTask(t) == state[t] = "ACTIVE" /\ Leaves(t, "WAIT")
EndTask(t)   == t # Main /\ state[t] = "ACTIVE" /\ Leaves(t, "EXIT")

Yield(t) ==
  /\ Runs(t)
  /\ pendSV' = TRUE
  /\ UNCHANGED <<scheduler, current, state, TCB, creating, readyLinks, currentId, halted, passed>>

(* event_notify_irq, from a task or from an interrupt, which comes between *)
(* any two services.                                                       *)
Wake(u) ==
  /\ ~halted
  /\ state[u] = "WAIT"
  /\ LET st == [state EXCEPT ![u] = "READY"]
     IN  IF InsertFails(u, st) THEN Halt
         ELSE /\ state' = st
              /\ Reschedule(u, st)
              /\ UNCHANGED <<scheduler, current, TCB, creating, currentId, pendSV, halted, passed>>

(* task_stop and task_start of another task that has been scheduled.       *)
StopTask(t, u) ==
  /\ Runs(t) /\ t # u
  /\ u \in InTable /\ u \notin {creating[v] : v \in Task}
  /\ state[u] \in {"READY", "WAIT"}
  /\ List!Unlink(u)
  /\ state' = [state EXCEPT ![u] = Transition(@, "STOP")]
  /\ passed' = [passed EXCEPT ![u] = 0]
  /\ UNCHANGED <<scheduler, current, TCB, creating, currentId, pendSV, halted>>

StartTask(t, u) ==
  /\ Runs(t) /\ u \in InTable /\ state[u] = "INACTIVE"
  /\ LET st == [state EXCEPT ![u] = Transition(@, "START")]
     IN  IF InsertFails(u, st) THEN Halt
         ELSE /\ state' = st
              /\ Reschedule(u, st)
              /\ UNCHANGED <<scheduler, current, TCB, creating, currentId, pendSV, halted, passed>>

(* task_free, by the task that joined it.                                  *)
FreeTask(t, u) ==
  /\ Runs(t) /\ u \in InTable /\ state[u] = "END"
  /\ TCB' = [i \in Ids |-> IF TCB[i] = u THEN NoTask ELSE TCB[i]]
  /\ List!Unlink(u)
  /\ state' = [state EXCEPT ![u] = "FREE"]
  /\ UNCHANGED <<scheduler, current, creating, currentId, pendSV, halted, passed>>

(* The timer of scheduler_init, every 5 ms.                                *)
SliceExpires ==
  /\ ~halted
  /\ pendSV' = TRUE
  /\ UNCHANGED <<scheduler, current, state, TCB, creating, readyLinks, currentId, halted, passed>>

-----------------------------------------------------------------------------
IdFrom(k)    == k % MaxTasks                                     \* mutant

(* scheduler_get_next_ready of the trivial scheduler: the first slot after *)
(* the last one chosen that holds a ready task; all of them were tried     *)
(* when it is back at that one, whose slot it then reads once more.        *)
IdAfter(k)   == (currentId + k) % MaxTasks
ReadyAt(i, st) == TCB[i] # NoTask /\ st[TCB[i]] = "READY"

FoundPast(st) ==                                                 \* mutant
  LET after == {k \in 1 .. MaxTasks : ReadyAt(IdAfter(k), st)}
  IN  IF after = {} THEN IdAfter(1)
      ELSE IdAfter(CHOOSE k \in after : \A j \in after : k <= j)

Found(st) ==
  LET after == {k \in 1 .. MaxTasks : ReadyAt(IdAfter(k), st)}
  IN  IF after = {} THEN currentId
      ELSE IdAfter(CHOOSE k \in after : \A j \in after : k <= j)

OrIdle(t) == IF t \in Task THEN t ELSE Idle

(* assert_task_valid, of the states st with c current; a waiting task is   *)
(* in a queue of its event.                                                *)
TaskReady(t, st, n) == st[t] = "READY" /\ (scheduler = "round_robin" => n[t] # t)

TaskValid(t, c, st, n) ==
  CASE st[t] = "ACTIVE" -> t = c
    [] st[t] = "READY"  -> t # c /\ TaskReady(t, st, n)
    [] OTHER            -> t # c

(* PendSV_Handler with the next task c, the states st after the first of   *)
(* its two transitions, and the links n and p without c.                   *)
SwitchTo(c, st, n, p, id) ==
  LET now == [st EXCEPT ![c] = Transition(@, "CONTEXT_SWITCH")]
  IN  IF now[c] = Invalid \/ \E t \in InTable : ~TaskValid(t, c, now, n) THEN Halt
      ELSE /\ current' = c
           /\ state' = now
           /\ readyNext' = n /\ readyPrev' = p
           /\ currentId' = id
           /\ pendSV' = FALSE
           /\ passed' = [t \in Task |-> IF now[t] # "READY" THEN 0
                                        ELSE IF c = Idle \/ passed[t] = MaxTasks THEN passed[t]
                                        ELSE passed[t] + 1]
           /\ UNCHANGED <<scheduler, TCB, creating, halted>>

Switch ==
  /\ ~halted /\ pendSV
  /\ LET left == [state EXCEPT ![current] = Transition(@, "CONTEXT_SWITCH")]
     IN  IF left[current] = Invalid \/ InsertFails(current, left) THEN Halt
         ELSE IF scheduler = "trivial"
           THEN LET id == Found(left)
                    c  == IF ReadyAt(id, left) THEN TCB[id] ELSE NoTask
                IN  SwitchTo(OrIdle(c), left, readyNext, readyPrev, id)
         ELSE LET l == IF Insertable(current, left) THEN AtRear(current)
                       ELSE [next |-> readyNext, prev |-> readyPrev]
                  c == l.next[Ready]
              IN  IF c = Ready THEN SwitchTo(Idle, left, l.next, l.prev, currentId)
                  ELSE SwitchTo(c, left, [l.next EXCEPT ![Ready] = l.next[c], ![c] = c],
                                [l.prev EXCEPT ![l.next[c]] = Ready, ![c] = c], currentId)

SchedNext ==
  \/ \E t \in Task :
       \/ NewTask(t) \/ ScheduleNew(t) \/ BlockTask(t) \/ EndTask(t) \/ Yield(t) \/ Wake(t)
       \/ \E u \in Task : StopTask(t, u) \/ StartTask(t, u) \/ FreeTask(t, u)
  \/ SliceExpires
  \/ Switch

(* Exceptions that are due are taken; a task may never make a call.        *)
SchedSpec == SchedInit /\ [][SchedNext]_schedVars /\ WF_schedVars(Switch) /\ WF_schedVars(SliceExpires)

-----------------------------------------------------------------------------
(* A ready task waits for every other task to be chosen once at most       *)
(* (scheduler_round_robin.c:33-46, scheduler_trivial.c:40-55).             *)
TurnComes == \A t \in Task : passed[t] <= Cardinality(Task) - 1

(* The slot the trivial search ends on always holds a task, although it    *)
(* does not check for NULL before it reads the state                       *)
(* (scheduler_trivial.c:53).                                               *)
SearchEndsOnTask == TCB[currentId] # NoTask

(* With the checks of every context switch, the processor stops only when  *)
(* a task was woken between the service that blocked it and the switch, or *)
(* had been created and not yet scheduled (task.c:305-354).  Tasks are     *)
(* started and stopped here only in a state that allows it, and none stops *)
(* itself; what happens otherwise is in Kernel.                            *)
StopsOnlyByRace ==
  [][halted' # halted =>
       state[current] = "READY" \/ \E t \in Task : creating[t] # NoTask]_schedVars

(* A ready task runs, or is stopped, or an assertion fails: the periodic   *)
(* timer sees to it, whatever the tasks do.                                *)
ReadyTasksRun ==
  \A t \in Task : state[t] = "READY" ~> (state[t] # "READY" \/ halted)

=============================================================================
