---------------------------- MODULE KernelProofs ----------------------------
(***************************************************************************)
(* Theorems about Kernel, for any tasks, priorities, events, table sizes   *)
(* and calls that satisfy KernelAssumption.                                *)
(***************************************************************************)
EXTENDS Kernel, TaskListsProofs, FiniteSetTheorems

(* The calls in progress refer to the task or the event they are about.    *)
CallsOK ==
  \A t \in Task :
    /\ pc[t] \in {"start", "stop"} => \E u \in Thread : arg[t] = Join(u)
    /\ pc[t] \in {"resched", "free"} => \E u \in Task : arg[t] = Join(u)
    /\ pc[t] \in {"add", "wait", "clear"} => arg[t] # Join(Idle)
    /\ pc[t] \in {"destroy", "unregister"} => arg[t].kind = "delay"

TypeInv == TypeOK /\ CallsOK

-----------------------------------------------------------------------------

LEMMA EventFacts ==
  /\ \A t \in Thread : Join(t) \in Event
  /\ \A t \in Task : t \in Thread /\ t # Idle
  /\ \A t \in Task : Delay(t) \in Event /\ Delay(t) # Join(Idle)
  /\ \A e \in StaticEvent : e # Join(Idle)
  /\ \A t, u \in Thread : Join(t) = Join(u) => t = u
  /\ \A t \in Thread : Join(t).task = t /\ Join(t).kind = "join"
  /\ \A t \in Task : Delay(t).task = t /\ Delay(t).kind = "delay"
  /\ StaticEvent \subseteq Event
  /\ NoEvent \notin Event
  /\ \A e \in Event : e.kind \in {"join", "delay", "static"}
  /\ \A e \in Event : e.kind = "join" => \E u \in Thread : e = Join(u)
  /\ Idle \in Thread
BY KernelAssumption DEF Thread, Event, TaskEvent, StaticEvent, Join, Delay, NoEvent

LEMMA TransitionType ==
  \A s, a : Transition(s, a) \in TaskState \cup {Invalid}
BY DEF Transition, TaskState, Invalid

LEMMA CanMoveType ==
  \A s, a : CanMove(s, a) => Transition(s, a) \in TaskState
BY TransitionType DEF CanMove

LEMMA PrioType == \A t \in Thread : Prio[t] \in Int
BY KernelAssumption

(* scheduler_reschedule_task keeps the scheduler's variables well-typed.   *)
LEMMA RescheduleType ==
  ASSUME TypeOK, NEW t \in Thread, NEW st, Reschedule(t, st)
  PROVE  /\ ready' \in Seq(Task)
         /\ pendSV' \in BOOLEAN
         /\ slice' \in BOOLEAN
<1>1. CASE st[t] # "READY" \/ t = Idle
  BY <1>1 DEF Reschedule, TypeOK
<1>2. CASE st[t] = "READY" /\ t # Idle
  <2>1. t \in Task /\ ready \in Seq(Task) /\ \A u \in Task : Prio[u] \in Int
    BY <1>2, PrioType DEF Thread, TypeOK
  <2>2. Scheduled(ready, t) \in Seq(Task)
    BY <2>1, ScheduledProperties
  <2> QED
    BY <1>2, <2>2 DEF Reschedule
<1> QED
  BY <1>1, <1>2

LEMMA TypeInit == Init => TypeInv
<1> SUFFICES ASSUME Init PROVE TypeInv
  OBVIOUS
<1>1. << >> \in Seq(Task)
  BY EmptySeq
<1>2. TypeOK
  BY <1>1, EventFacts, KernelAssumption
     DEF Init, TypeOK, Thread, TaskState, Place
<1>3. CallsOK
  BY DEF Init, CallsOK
<1> QED
  BY <1>2, <1>3 DEF TypeInv

(* A failed assertion changes nothing but halt.                            *)
LEMMA FailType ==
  ASSUME TypeInv, NEW why \in Failure, Fail(why)
  PROVE  TypeInv'
<1>1. TypeOK'
  BY DEF TypeInv, TypeOK, Fail
<1>2. CallsOK'
  BY DEF TypeInv, CallsOK, Fail
<1> QED
  BY <1>1, <1>2 DEF TypeInv

(* The calls a task begins.                                                *)
LEMMA TypeBegins ==
  ASSUME TypeInv, NEW t \in Task, BeginsCall(t)
  PROVE  TypeInv'
<1> USE DEF lists, calls, Begins, Goto
<1>0. TypeOK /\ CallsOK
  BY DEF TypeInv
<1>1. CASE Yield(t)
  BY <1>0, <1>1 DEF Yield, TypeInv, TypeOK, CallsOK
<1>2. CASE Wait(t)
  BY <1>0, <1>2, EventFacts DEF Wait, TypeInv, TypeOK, CallsOK, Place
<1>3. CASE StartDelay(t)
  BY <1>0, <1>3, EventFacts, EmptySeq
     DEF StartDelay, TypeInv, TypeOK, CallsOK, Place
<1>4. CASE NewTask(t)
  <2>1. PICK u \in Task :
          /\ state' = [state EXCEPT ![u] = "READY"]
          /\ signal' = [signal EXCEPT ![Join(u)] = 0]
          /\ waiting' = [waiting EXCEPT ![Join(u)] = << >>]
          /\ tcb' = IF Cardinality(tcb) < MaxTasks THEN tcb \cup {u} ELSE tcb
          /\ pc' = [pc EXCEPT ![t] = "resched"]
          /\ arg' = [arg EXCEPT ![t] = Join(u)]
    BY <1>4 DEF NewTask
  <2>2. tcb' \subseteq Task
    BY <1>0, <2>1 DEF TypeOK
  <2>3. TypeOK'
    BY <1>0, <1>4, <2>1, <2>2, EventFacts, EmptySeq
       DEF NewTask, TypeOK, Place, TaskState
  <2>4. CallsOK'
    BY <1>0, <2>1 DEF CallsOK, TypeOK
  <2> QED
    BY <2>3, <2>4 DEF TypeInv
<1>5. CASE JoinTask(t)
  BY <1>0, <1>5, EventFacts DEF JoinTask, TypeInv, TypeOK, CallsOK, Place
<1>6. CASE NotifyEvent(t)
  BY <1>0, <1>6, EventFacts DEF NotifyEvent, Notify, TypeInv, TypeOK, CallsOK
<1>7. CASE EndTask(t)
  BY <1>0, <1>7, EventFacts DEF EndTask, Notify, TypeInv, TypeOK, CallsOK
<1>8. CASE FindTask(t)
  <2>1. PICK u \in Thread, place \in {"start", "stop"} :
          /\ pc' = [pc EXCEPT ![t] = place]
          /\ arg' = [arg EXCEPT ![t] = Join(u)]
    BY <1>0, <1>8 DEF FindTask, TypeOK, Thread
  <2>2. TypeOK'
    BY <1>0, <1>8, <2>1, EventFacts DEF FindTask, TypeOK, Place
  <2>3. CallsOK'
    BY <1>0, <2>1 DEF CallsOK, TypeOK
  <2> QED
    BY <2>2, <2>3 DEF TypeInv
<1> QED
  BY <1>1, <1>2, <1>3, <1>4, <1>5, <1>6, <1>7, <1>8 DEF BeginsCall

(* The calls in progress.                                                  *)
LEMMA TypeContinues ==
  ASSUME TypeInv, NEW t \in Task, ContinuesCall(t)
  PROVE  TypeInv'
<1> USE DEF lists, calls, At, Goto
<1>0. TypeOK /\ CallsOK
  BY DEF TypeInv
<1>1. CASE RescheduleNew(t)
  <2>1. PICK u \in Task : arg[t] = Join(u)
    BY <1>0, <1>1 DEF RescheduleNew, CallsOK
  <2>2. arg[t].task \in Thread
    BY <2>1, EventFacts DEF Thread
  <2>3. ready' \in Seq(Task) /\ pendSV' \in BOOLEAN /\ slice' \in BOOLEAN
    BY <1>0, <1>1, <2>2, RescheduleType DEF RescheduleNew
  <2> QED
    BY <1>0, <1>1, <2>3, EventFacts
       DEF RescheduleNew, TypeInv, TypeOK, CallsOK, Place
<1>2. CASE RegisterEvent(t)
  <2>1. arg[t] \in Event
    BY <1>0 DEF TypeOK
  <2>2. registered' \subseteq Event
    BY <1>0, <1>2, <2>1 DEF RegisterEvent, TypeOK
  <2> QED
    BY <1>0, <1>2, <2>1, <2>2 DEF RegisterEvent, TypeInv, TypeOK, CallsOK, Place
<1>3. CASE WaitSignalled(t)
  BY <1>0, <1>3 DEF WaitSignalled, TypeInv, TypeOK, CallsOK, Place
<1>4. CASE WaitBlocks(t)
  <2>1. CASE UNCHANGED <<current, ready, signal, tcb, registered, slice,
                         timer, draining, halt>>
             /\ CanMove(state[t], "WAIT")
             /\ state' = [state EXCEPT ![t] = Transition(state[t], "WAIT")]
             /\ waiting' = [waiting EXCEPT ![arg[t]] = Append(@, t)]
             /\ pendSV' = TRUE
             /\ pc' = [pc EXCEPT ![t] = "clear"]
             /\ arg' = [arg EXCEPT ![t] = arg[t]]
    <3>1. Transition(state[t], "WAIT") \in TaskState
      BY <2>1, CanMoveType
    <3>2. state' \in [Thread -> TaskState \cup {"FREE"}]
      BY <1>0, <2>1, <3>1 DEF TypeOK
    <3>3. waiting[arg[t]] \in Seq(Task) /\ arg[t] \in Event
      BY <1>0 DEF TypeOK
    <3>4. waiting' \in [Event -> Seq(Task)]
      BY <1>0, <2>1, <3>3, AppendListProperties DEF TypeOK
    <3>5. pc[t] = "wait"
      BY <1>4 DEF WaitBlocks
    <3>6. TypeOK'
      BY <1>0, <2>1, <3>2, <3>3, <3>4 DEF TypeOK, Place
    <3>7. CallsOK'
      BY <1>0, <2>1, <3>5 DEF CallsOK, TypeOK
    <3> QED
      BY <3>6, <3>7 DEF TypeInv
  <2>2. CASE Fail("Invalid Transition") \/ Fail("Node not initialized")
    BY <2>2, FailType DEF Failure
  <2> QED
    BY <1>4, <2>1, <2>2 DEF WaitBlocks
<1>5. CASE ClearSignal(t)
  <2>1. arg[t] \in Event
    BY <1>0 DEF TypeOK
  <2>2. arg[t].kind = "join" => \E u \in Task : arg[t] = Join(u)
    <3>1. arg[t] # Join(Idle)
      BY <1>0, <1>5 DEF ClearSignal, CallsOK
    <3> QED
      BY <2>1, <3>1, EventFacts DEF Thread
  <2>3. /\ AfterWait(arg[t]) \in {"run", "destroy", "free"}
        /\ AfterWait(arg[t]) = "destroy" => arg[t].kind = "delay"
        /\ AfterWait(arg[t]) = "free" => arg[t].kind = "join"
    BY <2>1, EventFacts DEF AfterWait
  <2>4. TypeOK'
    BY <1>0, <1>5, <2>1, <2>2, <2>3 DEF ClearSignal, TypeOK, Place
  <2>5. CallsOK'
    BY <1>0, <1>5, <2>1, <2>2, <2>3 DEF ClearSignal, CallsOK, TypeOK
  <2> QED
    BY <2>4, <2>5 DEF TypeInv
<1>6. CASE FreeTask(t)
  <2> DEFINE u == arg[t].task
  <2>1. CASE UNCHANGED <<current, lists, signal, pendSV, slice, timer,
                         draining, halt>>
             /\ tcb' = tcb \ {u}
             /\ registered' = registered \ {Join(u)}
             /\ state' = [state EXCEPT ![u] = "FREE"]
             /\ pc' = [pc EXCEPT ![t] = "run", ![u] = "run"]
             /\ arg' = [arg EXCEPT ![t] = Join(t), ![u] = Join(u)]
    <3>1. u \in Task
      <4>1. PICK v \in Task : arg[t] = Join(v)
        BY <1>0, <1>6 DEF FreeTask, CallsOK
      <4> QED
        BY <4>1, EventFacts
    <3> HIDE DEF u
    <3>2. Join(t) \in Event /\ Join(u) \in Event
      BY <3>1, EventFacts
    <3>3. TypeOK'
      BY <1>0, <2>1, <3>1, <3>2 DEF TypeOK, Place
    <3>4. CallsOK'
      BY <1>0, <2>1, <3>1 DEF CallsOK, TypeOK
    <3> QED
      BY <3>3, <3>4 DEF TypeInv
  <2>2. CASE \E why \in Failure : Fail(why)
    BY <2>2, FailType
  <2> QED
    BY <1>6, <2>1, <2>2 DEF FreeTask, Failure
<1>7. CASE DestroyTimer(t)
  BY <1>0, <1>7 DEF DestroyTimer, TypeInv, TypeOK, CallsOK, Place
<1>8. CASE UnregisterEvent(t)
  BY <1>0, <1>8, EventFacts
     DEF UnregisterEvent, TypeInv, TypeOK, CallsOK, Place
<1>9. CASE StartTask(t)
  <2> DEFINE u  == arg[t].task
             st == [state EXCEPT ![u] = Transition(state[u], "START")]
  <2>1. PICK v \in Thread : arg[t] = Join(v)
    BY <1>0, <1>9 DEF StartTask, CallsOK
  <2>2. u \in Thread
    BY <2>1, EventFacts
  <2>3. CASE \E why \in Failure : Fail(why)
    BY <2>3, FailType
  <2>4. CASE /\ CanMove(state[u], "START")
             /\ state' = st
             /\ Reschedule(u, st)
             /\ pc' = [pc EXCEPT ![t] = "run"]
             /\ arg' = [arg EXCEPT ![t] = Join(t)]
             /\ UNCHANGED <<current, waiting, signal, tcb, registered, timer,
                            draining, halt>>
    <3>1. ready' \in Seq(Task) /\ pendSV' \in BOOLEAN /\ slice' \in BOOLEAN
      BY <1>0, <2>2, <2>4, RescheduleType
    <3>2. Transition(state[u], "START") \in TaskState
      BY <2>4, CanMoveType
    <3>3. state' \in [Thread -> TaskState \cup {"FREE"}]
      BY <1>0, <2>4, <3>2 DEF TypeOK
    <3>4. TypeOK'
      BY <1>0, <2>4, <3>1, <3>3, EventFacts DEF TypeOK, Place
    <3>5. CallsOK'
      BY <1>0, <2>4 DEF CallsOK, TypeOK
    <3> QED
      BY <3>4, <3>5 DEF TypeInv
  <2> QED
    BY <1>9, <2>3, <2>4 DEF StartTask, Failure
<1>10. CASE StopTask(t)
  <2> DEFINE u == arg[t].task
  <2>1. CASE \E why \in Failure : Fail(why)
    BY <2>1, FailType
  <2>2. CASE /\ CanMove(state[u], "STOP")
             /\ ready' = Unlinked(ready, u)
             /\ waiting' = [e \in Event |-> Unlinked(waiting[e], u)]
             /\ state' = [state EXCEPT ![u] = Transition(state[u], "STOP")]
             /\ pc' = [pc EXCEPT ![t] = "run"]
             /\ arg' = [arg EXCEPT ![t] = Join(t)]
             /\ UNCHANGED <<current, signal, tcb, registered, pendSV, slice,
                            timer, draining, halt>>
    <3>1. Unlinked(ready, u) \in Seq(Task)
      BY <1>0, UnlinkedProperties DEF TypeOK
    <3>2. \A e \in Event : Unlinked(waiting[e], u) \in Seq(Task)
      BY <1>0, UnlinkedProperties DEF TypeOK
    <3>3. Transition(state[u], "STOP") \in TaskState
      BY <2>2, CanMoveType
    <3>4. state' \in [Thread -> TaskState \cup {"FREE"}]
      BY <1>0, <2>2, <3>3 DEF TypeOK
    <3>5. TypeOK'
      BY <1>0, <2>2, <3>1, <3>2, <3>4, EventFacts DEF TypeOK, Place
    <3>6. CallsOK'
      BY <1>0, <2>2 DEF CallsOK, TypeOK
    <3> QED
      BY <3>5, <3>6 DEF TypeInv
  <2> QED
    BY <1>10, <2>1, <2>2 DEF StopTask, Failure
<1> QED
  BY <1>1, <1>2, <1>3, <1>4, <1>5, <1>6, <1>7, <1>8, <1>9, <1>10
     DEF ContinuesCall

(* event_notify_irq and task_end_irq.                                      *)
LEMMA TypeDrain ==
  ASSUME TypeInv, Drain
  PROVE  TypeInv'
<1> USE DEF lists, calls
<1>0. TypeOK /\ CallsOK
  BY DEF TypeInv
<1>1. CASE ReleaseWaiter
  <2> DEFINE u  == Head(waiting[draining])
             st == [state EXCEPT ![u] = Transition(state[u], "NOTIFY")]
  <2>1. CASE state[u] # "WAIT"
    BY <1>1, <2>1, FailType DEF ReleaseWaiter, Failure
  <2>2. CASE state[u] = "WAIT"
    <3>1. draining \in Event /\ waiting[draining] \in Seq(Task)
      BY <1>0, <1>1 DEF ReleaseWaiter, TypeOK
    <3>2. u \in Task /\ Tail(waiting[draining]) \in Seq(Task)
      BY <1>1, <3>1, TailListProperties DEF ReleaseWaiter
    <3>3. Transition(state[u], "NOTIFY") = "READY"
      BY <2>2 DEF Transition
    <3>4. /\ waiting' = [waiting EXCEPT ![draining] = Tail(@)]
          /\ state' = st
          /\ Reschedule(u, st)
          /\ UNCHANGED <<current, signal, tcb, registered, timer, draining,
                         calls, halt>>
      BY <1>1, <2>2 DEF ReleaseWaiter, HeadReleased
    <3>5. ready' \in Seq(Task) /\ pendSV' \in BOOLEAN /\ slice' \in BOOLEAN
      BY <1>0, <3>2, <3>4, RescheduleType DEF Thread
    <3>6. waiting' \in [Event -> Seq(Task)]
      BY <1>0, <3>1, <3>2, <3>4 DEF TypeOK
    <3>7. state' \in [Thread -> TaskState \cup {"FREE"}]
      BY <1>0, <3>3, <3>4 DEF TypeOK, TaskState
    <3> QED
      BY <1>0, <3>4, <3>5, <3>6, <3>7 DEF TypeInv, TypeOK, CallsOK
  <2> QED
    BY <2>1, <2>2
<1>2. CASE NotifyDone
  BY <1>0, <1>2 DEF NotifyDone, TypeInv, TypeOK, CallsOK
<1>3. CASE ExitTask
  <2>1. CASE CanMove(state[current], "EXIT")
    <3>1. Transition(state[current], "EXIT") \in TaskState
      BY <2>1, CanMoveType
    <3>2. state' \in [Thread -> TaskState \cup {"FREE"}]
      BY <1>0, <1>3, <2>1, <3>1 DEF ExitTask, TypeOK
    <3> QED
      BY <1>0, <1>3, <2>1, <3>2 DEF ExitTask, TypeInv, TypeOK, CallsOK
  <2>2. CASE ~CanMove(state[current], "EXIT")
    BY <1>3, <2>2, FailType DEF ExitTask, Failure
  <2> QED
    BY <2>1, <2>2
<1> QED
  BY <1>1, <1>2, <1>3 DEF Drain

(***************************************************************************)
(* What a context switch that ends in no assertion does: the task that     *)
(* leaves is queued if it can go on, and the head of the queue, or the     *)
(* idle task, comes next.                                                  *)
(***************************************************************************)
LEMMA PendSVCases ==
  ASSUME PendSV
  PROVE  \/ Fail("Invalid Transition")
         \/ Fail("Invalid task")
         \/ \E next \in {IF Queue = << >> THEN Idle ELSE Head(Queue)},
               rest \in {IF Queue = << >> THEN << >> ELSE Tail(Queue)} :
              \E parked \in {[state EXCEPT ![current] = Left]} :
                /\ Left # Invalid
                /\ CanMove(parked[next], "CONTEXT_SWITCH")
                /\ current' = next
                /\ state' = [parked EXCEPT ![next] =
                               Transition(parked[next], "CONTEXT_SWITCH")]
                /\ ready' = rest
                /\ slice' = SliceNeeded(next, rest)
                /\ pendSV' = FALSE
                /\ UNCHANGED <<waiting, signal, tcb, registered, timer,
                               draining, calls, halt>>
BY DEF PendSV

LEMMA QueueType ==
  ASSUME TypeOK
  PROVE  /\ Queue \in Seq(Task)
         /\ Sorted(ready) => Sorted(Queue)
<1>1. ready \in Seq(Task) /\ \A u \in Task : Prio[u] \in Int
  BY PrioType DEF TypeOK, Thread
<1>2. CASE Left = "READY" /\ current # Idle
  <2>1. current \in Task
    BY <1>2 DEF TypeOK, Thread
  <2> QED
    BY <1>1, <1>2, <2>1, ScheduledProperties DEF Queue
<1>3. CASE ~(Left = "READY" /\ current # Idle)
  BY <1>1, <1>3 DEF Queue
<1> QED
  BY <1>2, <1>3

(* PendSV_Handler.                                                         *)
LEMMA TypePendSV ==
  ASSUME TypeInv, PendSV
  PROVE  TypeInv'
<1> USE DEF lists, calls
<1>0. TypeOK /\ CallsOK
  BY DEF TypeInv
<1>1. CASE Fail("Invalid Transition") \/ Fail("Invalid task")
  BY <1>1, FailType DEF Failure
<1>2. CASE ~(Fail("Invalid Transition") \/ Fail("Invalid task"))
  <2>1. PICK next \in {IF Queue = << >> THEN Idle ELSE Head(Queue)},
             rest \in {IF Queue = << >> THEN << >> ELSE Tail(Queue)} :
          \E parked \in {[state EXCEPT ![current] = Left]} :
            /\ Left # Invalid
            /\ CanMove(parked[next], "CONTEXT_SWITCH")
            /\ current' = next
            /\ state' = [parked EXCEPT ![next] =
                           Transition(parked[next], "CONTEXT_SWITCH")]
            /\ ready' = rest
            /\ slice' = SliceNeeded(next, rest)
            /\ pendSV' = FALSE
            /\ UNCHANGED <<waiting, signal, tcb, registered, timer,
                           draining, calls, halt>>
    BY <1>2, PendSVCases
  <2>2. Queue \in Seq(Task)
    BY <1>0, QueueType
  <2>3. next \in Thread /\ rest \in Seq(Task)
    <3>1. CASE Queue = << >>
      BY <2>1, <3>1, EmptySeq DEF Thread
    <3>2. CASE Queue # << >>
      BY <2>1, <2>2, <3>2, TailListProperties DEF Thread
    <3> QED
      BY <3>1, <3>2
  <2>4. PICK parked \in {[state EXCEPT ![current] = Left]} :
            /\ CanMove(parked[next], "CONTEXT_SWITCH")
            /\ state' = [parked EXCEPT ![next] =
                           Transition(parked[next], "CONTEXT_SWITCH")]
    BY <2>1
  <2>5. Left \in TaskState
    BY <2>1, TransitionType DEF Left
  <2>6. Transition(parked[next], "CONTEXT_SWITCH") \in TaskState
    BY <2>4, CanMoveType
  <2>7. parked \in [Thread -> TaskState \cup {"FREE"}]
    BY <1>0, <2>4, <2>5 DEF TypeOK
  <2>8. state' \in [Thread -> TaskState \cup {"FREE"}]
    BY <2>4, <2>6, <2>7
  <2>9. TypeOK'
    BY <1>0, <2>1, <2>3, <2>8 DEF TypeOK, SliceNeeded
  <2>10. CallsOK'
    BY <1>0, <2>1 DEF CallsOK
  <2> QED
    BY <2>9, <2>10 DEF TypeInv
<1> QED
  BY <1>1, <1>2

LEMMA TypeNext == TypeInv /\ [Next]_vars => TypeInv'
<1> SUFFICES ASSUME TypeInv, [Next]_vars PROVE TypeInv'
  OBVIOUS
<1> USE DEF lists, calls
<1>0. TypeOK /\ CallsOK
  BY DEF TypeInv
<1>1. ASSUME NEW t \in Task, BeginsCall(t) PROVE TypeInv'
  BY <1>1, TypeBegins
<1>2. ASSUME NEW t \in Task, ContinuesCall(t) PROVE TypeInv'
  BY <1>2, TypeContinues
<1>3. ASSUME NEW t \in Task, DelayExpires(t) PROVE TypeInv'
  BY <1>0, <1>3, EventFacts DEF DelayExpires, Notify, TypeInv, TypeOK, CallsOK
<1>4. CASE Drain
  BY <1>4, TypeDrain
<1>5. CASE IrqNotify
  BY <1>0, <1>5, EventFacts DEF IrqNotify, Notify, TypeInv, TypeOK, CallsOK
<1>6. CASE SliceExpires
  BY <1>0, <1>6 DEF SliceExpires, TypeInv, TypeOK, CallsOK
<1>7. CASE PendSV
  BY <1>7, TypePendSV
<1>8. CASE WatchdogReset
  <2>1. Init'
    BY <1>8 DEF WatchdogReset, Init
  <2> QED
    BY <2>1, TypeInit, PTL
<1>9. CASE UNCHANGED vars
  BY <1>0, <1>9 DEF vars, TypeInv, TypeOK, CallsOK
<1> QED
  BY <1>1, <1>2, <1>3, <1>4, <1>5, <1>6, <1>7, <1>8, <1>9 DEF Next

(* The kernel's variables keep their types, and a call in progress always  *)
(* has the task or the event it is about.                                  *)
THEOREM TypeCorrect == Spec => []TypeOK
<1>1. Init => TypeInv
  BY TypeInit
<1>2. TypeInv /\ [Next]_vars => TypeInv'
  BY TypeNext
<1>3. TypeInv => TypeOK
  BY DEF TypeInv
<1> QED
  BY <1>1, <1>2, <1>3, PTL DEF Spec

-----------------------------------------------------------------------------
(***************************************************************************)
(* No lost wake-up.  The invariant is inductive with the types: a step     *)
(* that leaves event_notify_irq has emptied the list, a step that blocks a *)
(* task has found the signal cleared, and the stop command only shortens   *)
(* lists.                                                                  *)
(***************************************************************************)
LEMMA WakeupInit == Init => NoLostWakeup
BY DEF Init, NoLostWakeup

LEMMA WakeupNotify ==
  ASSUME TypeOK, NoLostWakeup, NEW e \in Event, draining = NoEvent, Notify(e),
         waiting' = waiting
  PROVE  NoLostWakeup'
BY EventFacts DEF NoLostWakeup, Notify, TypeOK

LEMMA WakeupBegins ==
  ASSUME TypeOK, NoLostWakeup, NEW t \in Task, BeginsCall(t)
  PROVE  NoLostWakeup'
<1> USE DEF lists, calls
<1>1. CASE UNCHANGED <<waiting, signal, draining>>
  BY <1>1 DEF NoLostWakeup
<1>2. CASE StartDelay(t)
  BY <1>2, EventFacts DEF StartDelay, NoLostWakeup, TypeOK
<1>3. CASE NewTask(t)
  BY <1>3, EventFacts DEF NewTask, NoLostWakeup, TypeOK
<1>4. CASE NotifyEvent(t)
  BY <1>4, WakeupNotify, EventFacts
     DEF NotifyEvent, Begins, At, Runs, InterruptsEnabled
<1>5. CASE EndTask(t)
  BY <1>5, WakeupNotify, EventFacts
     DEF EndTask, Begins, At, Runs, InterruptsEnabled
<1> QED
  BY <1>1, <1>2, <1>3, <1>4, <1>5
     DEF BeginsCall, Yield, Wait, JoinTask, FindTask

LEMMA WakeupContinues ==
  ASSUME TypeOK, NoLostWakeup, NEW t \in Task, ContinuesCall(t)
  PROVE  NoLostWakeup'
<1> USE DEF lists, calls
<1>1. CASE UNCHANGED <<waiting, signal, draining>>
  BY <1>1 DEF NoLostWakeup
<1>2. CASE WaitBlocks(t)
  <2>1. CASE waiting' = [waiting EXCEPT ![arg[t]] = Append(@, t)]
             /\ UNCHANGED <<signal, draining>>
    <3>1. arg[t] \in Event /\ signal[arg[t]] = 0
      BY <1>2 DEF WaitBlocks, Blocks, TypeOK
    <3>2. \A e \in Event \ {arg[t]} : waiting'[e] = waiting[e]
      BY <2>1 DEF TypeOK
    <3> QED
      BY <2>1, <3>1, <3>2 DEF NoLostWakeup
  <2> QED
    BY <1>1, <1>2, <2>1 DEF WaitBlocks, Fail
<1>3. CASE ClearSignal(t)
  BY <1>3 DEF ClearSignal, NoLostWakeup, TypeOK
<1>4. CASE StopTask(t)
  <2>1. CASE waiting' = [e \in Event |-> Unlinked(waiting[e], arg[t].task)]
             /\ UNCHANGED <<signal, draining>>
    <3>1. \A e \in Event : waiting[e] = << >> => waiting'[e] = << >>
      BY <2>1, EmptySeq DEF Unlinked
    <3> QED
      BY <2>1, <3>1 DEF NoLostWakeup
  <2> QED
    BY <1>1, <1>4, <2>1 DEF StopTask, Fail
<1> QED
  BY <1>1, <1>2, <1>3, <1>4
     DEF ContinuesCall, RescheduleNew, RegisterEvent, WaitSignalled, FreeTask,
         Fail, DestroyTimer, UnregisterEvent, StartTask

LEMMA WakeupDrain ==
  ASSUME TypeOK, NoLostWakeup, Drain
  PROVE  NoLostWakeup'
<1> USE DEF lists, calls
<1>1. CASE ReleaseWaiter
  BY <1>1 DEF ReleaseWaiter, HeadReleased, Fail, NoLostWakeup, TypeOK
<1>2. CASE NotifyDone \/ ExitTask
  BY <1>2 DEF NotifyDone, ExitTask, Drained, Fail, NoLostWakeup
<1> QED
  BY <1>1, <1>2 DEF Drain

(* An event that is signalled has no waiter left behind, for any number of *)
(* tasks and events: event_wait_irq and event_notify_irq lose no wake-up.  *)
THEOREM NoWakeupIsLost == Spec => []NoLostWakeup
<1>1. Init => NoLostWakeup
  BY WakeupInit
<1>2. TypeOK /\ NoLostWakeup /\ [Next]_vars => NoLostWakeup'
  <2> SUFFICES ASSUME TypeOK, NoLostWakeup, [Next]_vars
               PROVE  NoLostWakeup'
    OBVIOUS
  <2>1. CASE UNCHANGED <<waiting, signal, draining>>
    BY <2>1 DEF NoLostWakeup
  <2>2. ASSUME NEW t \in Task, BeginsCall(t) PROVE NoLostWakeup'
    BY <2>2, WakeupBegins
  <2>3. ASSUME NEW t \in Task, ContinuesCall(t) PROVE NoLostWakeup'
    BY <2>3, WakeupContinues
  <2>4. ASSUME NEW t \in Task, DelayExpires(t) PROVE NoLostWakeup'
    BY <2>4, WakeupNotify, EventFacts
       DEF DelayExpires, InterruptsEnabled, lists, calls
  <2>5. CASE Drain
    BY <2>5, WakeupDrain
  <2>6. CASE IrqNotify
    BY <2>6, WakeupNotify, EventFacts
       DEF IrqNotify, InterruptsEnabled, lists, calls
  <2>7. CASE WatchdogReset
    BY <2>7 DEF WatchdogReset, NoLostWakeup
  <2>8. CASE SliceExpires \/ PendSV
    BY <2>1, <2>8 DEF SliceExpires, PendSV, Fail, lists
  <2> QED
    BY <2>1, <2>2, <2>3, <2>4, <2>5, <2>6, <2>7, <2>8 DEF Next, vars
<1> QED
  BY <1>1, <1>2, TypeCorrect, PTL DEF Spec

-----------------------------------------------------------------------------
(***************************************************************************)
(* The scheduler.  PriorityRespected and SliceArmed hold after a context   *)
(* switch because the ready list is sorted: its head outranks the rest.    *)
(***************************************************************************)
SchedInv == ReadySorted /\ PriorityRespected /\ SliceArmed

LEMMA MembersEmpty == Members(<< >>) = {} /\ Sorted(<< >>)
BY EmptySeq DEF Members, Sorted

LEMMA SchedInit == Init => SchedInv
BY MembersEmpty
   DEF Init, SchedInv, ReadySorted, PriorityRespected, SliceArmed

(* What any step may do to the scheduler's variables.                      *)
SchedStutter ==
  /\ UNCHANGED <<current, ready, slice>>
  /\ pendSV => pendSV'
  /\ halt' = "none" => halt = "none"

Rescheduled ==
  \E t \in Thread, st \in [Thread -> TaskState \cup {"FREE"}] :
    Reschedule(t, st) /\ UNCHANGED <<current, halt>>

Stopped ==
  \E t \in Thread :
    ready' = Unlinked(ready, t) /\ UNCHANGED <<current, pendSV, slice, halt>>

LEMMA SchedBegins ==
  ASSUME NEW t \in Task, BeginsCall(t)
  PROVE  SchedStutter
BY DEF lists, calls, BeginsCall, SchedStutter, Yield, Wait, StartDelay,
       NewTask, JoinTask, NotifyEvent, EndTask, FindTask

LEMMA SchedContinues ==
  ASSUME TypeInv, NEW t \in Task, ContinuesCall(t)
  PROVE  SchedStutter \/ Rescheduled \/ Stopped
<1> USE DEF lists, calls
<1>1. CASE RescheduleNew(t)
  <2>1. PICK u \in Task : arg[t] = Join(u)
    BY <1>1 DEF RescheduleNew, At, TypeInv, CallsOK
  <2>2. arg[t].task \in Thread
    BY <2>1, EventFacts DEF Thread
  <2> QED
    BY <1>1, <2>2 DEF RescheduleNew, Rescheduled, TypeInv, TypeOK
<1>2. CASE WaitBlocks(t)
  BY <1>2 DEF WaitBlocks, Fail, SchedStutter
<1>3. CASE FreeTask(t)
  BY <1>3 DEF FreeTask, Fail, SchedStutter
<1>4. CASE StartTask(t) \/ StopTask(t)
  <2>1. PICK u \in Thread : arg[t] = Join(u)
    BY <1>4 DEF StartTask, StopTask, At, TypeInv, CallsOK
  <2>2. arg[t].task \in Thread
    BY <2>1, EventFacts
  <2>3. CASE \E why \in Failure : Fail(why)
    <3>1. \A why \in Failure : why # "none"
      BY DEF Failure
    <3> QED
      BY <2>3, <3>1 DEF Fail, SchedStutter
  <2>4. CASE StartTask(t) /\ ~ \E why \in Failure : Fail(why)
    <3>1. Reschedule(arg[t].task, state') /\ UNCHANGED <<current, halt>>
      BY <2>4 DEF StartTask, Failure
    <3>2. state' \in [Thread -> TaskState \cup {"FREE"}]
      BY TypeContinues DEF TypeInv, TypeOK
    <3> QED
      BY <2>2, <3>1, <3>2 DEF Rescheduled
  <2>5. CASE StopTask(t) /\ ~ \E why \in Failure : Fail(why)
    <3>1. ready' = Unlinked(ready, arg[t].task)
          /\ UNCHANGED <<current, pendSV, slice, halt>>
      BY <2>5 DEF StopTask, Failure
    <3> QED
      BY <2>2, <3>1 DEF Stopped
  <2> QED
    BY <1>4, <2>3, <2>4, <2>5
<1> QED
  BY <1>1, <1>2, <1>3, <1>4
     DEF ContinuesCall, SchedStutter, RegisterEvent, WaitSignalled,
         ClearSignal, DestroyTimer, UnregisterEvent

LEMMA SchedDrain ==
  ASSUME TypeInv, Drain
  PROVE  SchedStutter \/ Rescheduled
<1> USE DEF lists, calls
<1>1. CASE ReleaseWaiter
  <2> DEFINE u == Head(waiting[draining])
  <2>1. CASE state[u] # "WAIT"
    BY <1>1, <2>1 DEF ReleaseWaiter, Fail, SchedStutter
  <2>2. CASE state[u] = "WAIT"
    <3>1. u \in Thread
      <4>1. waiting[draining] \in Seq(Task) /\ waiting[draining] # << >>
        BY <1>1 DEF ReleaseWaiter, TypeInv, TypeOK
      <4> QED
        BY <4>1, TailListProperties DEF Thread
    <3>2. Reschedule(u, state') /\ UNCHANGED <<current, halt>>
      BY <1>1, <2>2 DEF ReleaseWaiter
    <3>3. state' \in [Thread -> TaskState \cup {"FREE"}]
      BY TypeDrain DEF TypeInv, TypeOK
    <3> QED
      BY <3>1, <3>2, <3>3 DEF Rescheduled
  <2> QED
    BY <2>1, <2>2
<1>2. CASE NotifyDone \/ ExitTask
  BY <1>2 DEF NotifyDone, ExitTask, Fail, SchedStutter
<1> QED
  BY <1>1, <1>2 DEF Drain

(* scheduler_reschedule_task: the task that becomes ready either leaves    *)
(* the current one on top, or a switch is asked for.                       *)
LEMMA SchedRescheduled ==
  ASSUME TypeOK, SchedInv, Rescheduled
  PROVE  SchedInv'
<1>1. PICK t \in Thread, st \in [Thread -> TaskState \cup {"FREE"}] :
        Reschedule(t, st) /\ UNCHANGED <<current, halt>>
  BY DEF Rescheduled
<1>2. CASE st[t] # "READY" \/ t = Idle
  BY <1>1, <1>2
     DEF Reschedule, SchedInv, ReadySorted, PriorityRespected, SliceArmed
<1>3. CASE st[t] = "READY" /\ t # Idle
  <2>1. /\ t \in Task
        /\ ready \in Seq(Task)
        /\ \A u \in Thread : Prio[u] \in Int
        /\ \A u \in Task : u \in Thread
        /\ current \in Thread
    BY <1>3, PrioType DEF Thread, TypeOK
  <2>2. /\ ready' = Scheduled(ready, t)
        /\ pendSV' = (pendSV \/ (t # current /\ Prio[t] > Prio[current]))
        /\ slice' = (slice \/ (t # current /\ Prio[t] = Prio[current]))
    BY <1>1, <1>3 DEF Reschedule, Preempts, Shares
  <2>3. Members(ready') = Members(ready) \cup {t} /\ ReadySorted'
    BY <2>1, <2>2, ScheduledProperties DEF SchedInv, ReadySorted
  <2>4. PriorityRespected'
    <3> SUFFICES ASSUME halt' = "none", ~pendSV', NEW u \in Members(ready')
                 PROVE  Prio[u] <= Prio[current]
      BY <1>1 DEF PriorityRespected
    <3>1. halt = "none" /\ ~pendSV
      BY <1>1, <2>2
    <3>2. CASE u \in Members(ready)
      BY <3>1, <3>2 DEF SchedInv, PriorityRespected
    <3>3. CASE u = t
      <4>1. ~(t # current /\ Prio[t] > Prio[current])
        BY <2>2
      <4>2. Prio[t] \in Int /\ Prio[current] \in Int
        BY <2>1
      <4> QED
        BY <3>3, <4>1, <4>2
    <3> QED
      BY <2>3, <3>2, <3>3
  <2>5. SliceArmed'
    <3> SUFFICES ASSUME halt' = "none", ~pendSV',
                        NEW u \in Members(ready') \ {current},
                        Prio[u] = Prio[current]
                 PROVE  slice'
      BY <1>1 DEF SliceArmed
    <3>1. halt = "none" /\ ~pendSV
      BY <1>1, <2>2
    <3>2. CASE u \in Members(ready)
      BY <2>2, <3>1, <3>2 DEF SchedInv, SliceArmed
    <3>3. CASE u = t
      BY <2>2, <3>3
    <3> QED
      BY <2>3, <3>2, <3>3
  <2> QED
    BY <2>3, <2>4, <2>5 DEF SchedInv
<1> QED
  BY <1>2, <1>3

LEMMA SchedStopped ==
  ASSUME TypeOK, SchedInv, Stopped
  PROVE  SchedInv'
<1>1. PICK t \in Thread :
        ready' = Unlinked(ready, t) /\ UNCHANGED <<current, pendSV, slice, halt>>
  BY DEF Stopped
<1>2. ready \in Seq(Task)
  BY DEF TypeOK
<1>3. Members(ready') \subseteq Members(ready) /\ ReadySorted'
  BY <1>1, <1>2, UnlinkedProperties DEF SchedInv, ReadySorted
<1> QED
  BY <1>1, <1>3 DEF SchedInv, PriorityRespected, SliceArmed

(* PendSV_Handler: what stays in the list is outranked by the head that    *)
(* left it.                                                                *)
LEMMA SchedPendSV ==
  ASSUME TypeOK, SchedInv, PendSV
  PROVE  SchedInv'
<1>1. CASE Fail("Invalid Transition") \/ Fail("Invalid task")
  BY <1>1 DEF Fail, SchedInv, ReadySorted, PriorityRespected, SliceArmed
<1>2. CASE ~(Fail("Invalid Transition") \/ Fail("Invalid task"))
  <2>1. PICK next \in {IF Queue = << >> THEN Idle ELSE Head(Queue)},
             rest \in {IF Queue = << >> THEN << >> ELSE Tail(Queue)} :
            /\ current' = next
            /\ ready' = rest
            /\ slice' = SliceNeeded(next, rest)
    BY <1>2, PendSVCases
  <2>2. Queue \in Seq(Task) /\ Sorted(Queue)
    BY QueueType DEF SchedInv, ReadySorted
  <2>3. CASE Queue = << >>
    <3>1. ready' = << >>
      BY <2>1, <2>3
    <3>2. Members(ready') = {} /\ Sorted(ready')
      BY <3>1, MembersEmpty
    <3> QED
      BY <3>2 DEF SchedInv, ReadySorted, PriorityRespected, SliceArmed
  <2>4. CASE Queue # << >>
    <3>1. current' = Head(Queue) /\ ready' = Tail(Queue)
      BY <2>1, <2>4
    <3>2. /\ Head(Queue) \in Task
          /\ Tail(Queue) \in Seq(Task)
          /\ Sorted(Tail(Queue))
          /\ \A u \in Members(Tail(Queue)) : Prio[Head(Queue)] >= Prio[u]
      BY <2>2, <2>4, TailListProperties
    <3>3. \A u \in Task : Prio[u] \in Int
      BY PrioType DEF Thread
    <3>4. \A u \in Members(ready') : u \in Task
      BY <3>1, <3>2, ElementOfSeq, LenProperties DEF Members
    <3>5. ReadySorted' /\ PriorityRespected'
      BY <3>1, <3>2, <3>3, <3>4 DEF ReadySorted, PriorityRespected
    <3>6. SliceArmed'
      <4> SUFFICES ASSUME NEW u \in Members(ready') \ {current'},
                          Prio[u] = Prio[current']
                   PROVE  slice'
        BY DEF SliceArmed
      <4>1. ready' # << >>
        BY MembersEmpty
      <4>2. /\ Head(ready') \in Members(ready')
            /\ \A v \in Members(Tail(ready')) : Prio[Head(ready')] >= Prio[v]
            /\ Members(ready') = Members(Tail(ready')) \cup {Head(ready')}
        BY <3>1, <3>2, <4>1, TailListProperties
      <4>3. Prio[Head(ready')] >= Prio[u]
        BY <3>3, <3>4, <4>2
      <4>4. Prio[current'] >= Prio[Head(ready')]
        BY <3>1, <3>2, <4>2
      <4>5. Prio[Head(ready')] = Prio[current']
        <5>1. u \in Task /\ Head(ready') \in Task /\ current' \in Task
          BY <3>1, <3>2, <3>4, <4>2
        <5>2. /\ Prio[u] \in Int
              /\ Prio[Head(ready')] \in Int
              /\ Prio[current'] \in Int
          BY <3>3, <5>1
        <5> QED
          BY <4>3, <4>4, <5>2
      <4> QED
        BY <2>1, <4>1, <4>5 DEF SliceNeeded
    <3> QED
      BY <3>5, <3>6 DEF SchedInv
  <2> QED
    BY <2>3, <2>4
<1> QED
  BY <1>1, <1>2

LEMMA SchedNext == TypeInv /\ SchedInv /\ [Next]_vars => SchedInv'
<1> SUFFICES ASSUME TypeInv, SchedInv, [Next]_vars PROVE SchedInv'
  OBVIOUS
<1>0. TypeOK
  BY DEF TypeInv
<1>1. CASE SchedStutter
  BY <1>1
     DEF SchedStutter, SchedInv, ReadySorted, PriorityRespected, SliceArmed
<1>2. CASE Rescheduled
  BY <1>0, <1>2, SchedRescheduled
<1>3. CASE Stopped
  BY <1>0, <1>3, SchedStopped
<1>4. CASE PendSV
  BY <1>0, <1>4, SchedPendSV
<1>5. CASE WatchdogReset
  <2>1. Init'
    BY <1>5 DEF WatchdogReset, Init
  <2> QED
    BY <2>1, SchedInit, PTL
<1>6. ASSUME NEW t \in Task, BeginsCall(t) PROVE SchedInv'
  BY <1>1, <1>6, SchedBegins
<1>7. ASSUME NEW t \in Task, ContinuesCall(t) PROVE SchedInv'
  BY <1>1, <1>2, <1>3, <1>7, SchedContinues
<1>8. ASSUME NEW t \in Task, DelayExpires(t) PROVE SchedInv'
  BY <1>1, <1>8 DEF DelayExpires, SchedStutter, lists, calls
<1>9. CASE Drain
  BY <1>1, <1>2, <1>9, SchedDrain
<1>10. CASE IrqNotify \/ SliceExpires
  BY <1>1, <1>10 DEF IrqNotify, SliceExpires, SchedStutter, lists, calls
<1>11. CASE UNCHANGED vars
  BY <1>1, <1>11 DEF vars, SchedStutter
<1> QED
  BY <1>4, <1>5, <1>6, <1>7, <1>8, <1>9, <1>10, <1>11 DEF Next

LEMMA SchedCorrect == Spec => []SchedInv
<1>1. Init => TypeInv /\ SchedInv
  BY TypeInit, SchedInit
<1>2. TypeInv /\ SchedInv /\ [Next]_vars => (TypeInv /\ SchedInv)'
  BY TypeNext, SchedNext
<1> QED
  BY <1>1, <1>2, PTL DEF Spec

(* The ready list is in the order of priorities, whatever the tasks and    *)
(* the handlers do.                                                        *)
THEOREM ReadyStaysSorted == Spec => []ReadySorted
<1>1. SchedInv => ReadySorted
  BY DEF SchedInv
<1> QED
  BY <1>1, SchedCorrect, PTL

(* Preemption: while no switch is pending, no ready task outranks the one  *)
(* that runs.                                                              *)
THEOREM HighestRuns == Spec => []PriorityRespected
<1>1. SchedInv => PriorityRespected
  BY DEF SchedInv
<1> QED
  BY <1>1, SchedCorrect, PTL

(* Time slicing: while a ready task equals the running one, the slice      *)
(* timer is running.                                                       *)
THEOREM EqualsShareTime == Spec => []SliceArmed
<1>1. SchedInv => SliceArmed
  BY DEF SchedInv
<1> QED
  BY <1>1, SchedCorrect, PTL

-----------------------------------------------------------------------------
(***************************************************************************)
(* Notification.  The event whose waiters are being released is signalled, *)
(* as nothing else runs meanwhile, and no other step takes a task from     *)
(* WAIT to READY.                                                          *)
(***************************************************************************)
DrainsSignalled == draining # NoEvent => signal[draining] = 1

LEMMA NotifiedIsSignalled ==
  ASSUME TypeOK, NEW e \in Event, Notify(e)
  PROVE  DrainsSignalled'
BY DEF DrainsSignalled, Notify, TypeOK

LEMMA DrainsSignalledNext == TypeOK /\ DrainsSignalled /\ [Next]_vars => DrainsSignalled'
<1> SUFFICES ASSUME TypeOK, DrainsSignalled, [Next]_vars PROVE DrainsSignalled'
  OBVIOUS
<1> USE DEF lists, calls, Begins, At, Runs, InterruptsEnabled
<1>1. CASE UNCHANGED <<signal, draining>> \/ draining' = NoEvent
  BY <1>1 DEF DrainsSignalled
<1>2. ASSUME NEW e \in Event, Notify(e) PROVE DrainsSignalled'
  BY <1>2, NotifiedIsSignalled
<1>3. ASSUME NEW t \in Task, BeginsCall(t) PROVE DrainsSignalled'
  <2>1. CASE NotifyEvent(t) \/ EndTask(t)
    BY <1>2, <2>1, EventFacts DEF NotifyEvent, EndTask
  <2>2. CASE ~(NotifyEvent(t) \/ EndTask(t))
    <3>1. draining = NoEvent /\ draining' = draining
      BY <1>3, <2>2
         DEF BeginsCall, Yield, Wait, StartDelay, NewTask, JoinTask, FindTask
    <3> QED  BY <1>1, <3>1
  <2> QED  BY <2>1, <2>2
<1>4. ASSUME NEW t \in Task, ContinuesCall(t) PROVE DrainsSignalled'
  <2>1. draining = NoEvent /\ draining' = draining
    BY <1>4
       DEF ContinuesCall, RescheduleNew, RegisterEvent, WaitSignalled, WaitBlocks,
           ClearSignal, FreeTask, DestroyTimer, UnregisterEvent, StartTask,
           StopTask, Fail
  <2> QED  BY <1>1, <2>1
<1>5. ASSUME NEW t \in Task, DelayExpires(t) PROVE DrainsSignalled'
  BY <1>2, <1>5, EventFacts DEF DelayExpires
<1>6. CASE Drain
  BY <1>1, <1>6 DEF Drain, ReleaseWaiter, NotifyDone, ExitTask, Fail
<1>7. CASE IrqNotify
  BY <1>2, <1>7, EventFacts DEF IrqNotify
<1>8. CASE SliceExpires
  BY <1>1, <1>8 DEF SliceExpires
<1>9. CASE PendSV
  BY <1>1, <1>9, PendSVCases DEF Fail
<1>10. CASE WatchdogReset
  BY <1>1, <1>10 DEF WatchdogReset
<1>11. CASE UNCHANGED vars
  BY <1>1, <1>11 DEF vars
<1> QED
  BY <1>3, <1>4, <1>5, <1>6, <1>7, <1>8, <1>9, <1>10, <1>11 DEF Next

(* Of what a task may do to another, only a notification readies it.       *)
LEMMA TransitionToReady ==
  ASSUME NEW a, Transition("WAIT", a) = "READY"
  PROVE  a = "NOTIFY"
BY DEF Transition, Invalid

(* A step that readies a waiting task releases it.                         *)
LEMMA ReadiedIsReleased ==
  ASSUME TypeInv, [Next]_vars, NEW t \in Task, state[t] = "WAIT", state'[t] = "READY"
  PROVE  ReleaseWaiter /\ t = Head(waiting[draining])
<1> USE DEF lists, calls
<1>0. /\ state \in [Thread -> TaskState \cup {"FREE"}] /\ current \in Thread
      /\ t \in Thread /\ t # Idle
  BY EventFacts DEF TypeInv, TypeOK
<1>1. state' # state
  OBVIOUS
<1>2. ASSUME NEW u \in Task, BeginsCall(u) PROVE FALSE
  BY <1>0, <1>1, <1>2
     DEF BeginsCall, Yield, Wait, StartDelay, NewTask, JoinTask, NotifyEvent,
         EndTask, FindTask
<1>3. ASSUME NEW u \in Task, ContinuesCall(u) PROVE FALSE
  <2> DEFINE v == arg[u].task
  <2>1. CASE StartTask(u)
    <3>1. state' = [state EXCEPT ![v] = Transition(state[v], "START")]
      BY <1>1, <2>1 DEF StartTask, Fail
    <3>2. Transition(state[t], "START") = "READY"
      BY <1>0, <3>1
    <3> QED  BY <3>2, TransitionToReady
  <2>2. CASE StopTask(u)
    <3>1. state' = [state EXCEPT ![v] = Transition(state[v], "STOP")]
      BY <1>1, <2>2 DEF StopTask, Fail
    <3>2. Transition(state[t], "STOP") = "READY"
      BY <1>0, <3>1
    <3> QED  BY <3>2, TransitionToReady
  <2>3. CASE WaitBlocks(u)
    <3>1. state' = [state EXCEPT ![u] = Transition(state[u], "WAIT")]
      BY <1>1, <2>3 DEF WaitBlocks, Fail
    <3>2. Transition(state[t], "WAIT") = "READY"
      BY <1>0, <3>1
    <3> QED  BY <3>2, TransitionToReady
  <2>4. CASE FreeTask(u)
    <3>1. state' = [state EXCEPT ![v] = "FREE"]
      BY <1>1, <2>4 DEF FreeTask, Fail
    <3> QED  BY <1>0, <3>1
  <2> QED
    BY <1>1, <1>3, <2>1, <2>2, <2>3, <2>4
       DEF ContinuesCall, RescheduleNew, RegisterEvent, WaitSignalled,
           ClearSignal, DestroyTimer, UnregisterEvent
<1>4. CASE Drain
  <2>1. CASE ReleaseWaiter
    BY <1>0, <1>1, <2>1 DEF ReleaseWaiter, Fail
  <2>2. CASE NotifyDone \/ ExitTask
    <3>1. state' = [state EXCEPT ![current] = Transition(state[current], "EXIT")]
      BY <1>1, <2>2 DEF NotifyDone, ExitTask, Fail
    <3>2. Transition(state[t], "EXIT") = "READY"
      BY <1>0, <3>1
    <3> QED  BY <3>2, TransitionToReady
  <2> QED  BY <1>4, <2>1, <2>2 DEF Drain
<1>5. CASE PendSV
  <2>1. PICK next, parked :
          /\ parked = [state EXCEPT ![current] = Transition(state[current], "CONTEXT_SWITCH")]
          /\ state' = [parked EXCEPT ![next] = Transition(parked[next], "CONTEXT_SWITCH")]
    BY <1>1, <1>5, PendSVCases DEF Fail, Left
  <2>2. parked[t] = "WAIT"
    BY <1>0, <2>1 DEF Transition
  <2>3. t \in DOMAIN parked /\ Transition("WAIT", "CONTEXT_SWITCH") = "WAIT"
    BY <1>0, <2>1 DEF Transition
  <2>4. state'[t] = "WAIT"
    BY <2>1, <2>2, <2>3
  <2> QED  BY <2>4
<1>6. CASE WatchdogReset
  BY <1>0, <1>6 DEF WatchdogReset
<1> QED
  BY <1>1, <1>2, <1>3, <1>4, <1>5, <1>6
     DEF Next, DelayExpires, IrqNotify, SliceExpires, vars

(* A blocked task becomes ready only by a notification of the event in     *)
(* whose list it waits.                                                    *)
THEOREM OnlyNotifyReleases == Spec => ReleasedByNotify
<1>1. Init => TypeInv /\ DrainsSignalled
  BY TypeInit DEF Init, DrainsSignalled
<1>2. TypeInv /\ DrainsSignalled /\ [Next]_vars => (TypeInv /\ DrainsSignalled)'
  BY TypeNext, DrainsSignalledNext DEF TypeInv
<1>3. TypeInv /\ DrainsSignalled /\ [Next]_vars =>
        [\A t \in Task : state[t] = "WAIT" /\ state'[t] = "READY" =>
           draining # NoEvent /\ signal[draining] = 1
             /\ t \in Members(waiting[draining])]_vars
  <2> SUFFICES ASSUME TypeInv, DrainsSignalled, [Next]_vars, NEW t \in Task,
                      state[t] = "WAIT", state'[t] = "READY"
               PROVE  draining # NoEvent /\ signal[draining] = 1
                        /\ t \in Members(waiting[draining])
    OBVIOUS
  <2>1. ReleaseWaiter /\ t = Head(waiting[draining])
    BY ReadiedIsReleased
  <2>2. draining # NoEvent /\ waiting[draining] # << >>
    BY <2>1 DEF ReleaseWaiter
  <2>3. waiting[draining] \in Seq(Task)
    BY <2>2 DEF TypeInv, TypeOK
  <2>4. t \in Members(waiting[draining])
    BY <2>1, <2>2, <2>3, TailListProperties
  <2> QED  BY <2>2, <2>4 DEF DrainsSignalled
<1> QED
  BY <1>1, <1>2, <1>3, PTL DEF Spec, ReleasedByNotify

-----------------------------------------------------------------------------
(***************************************************************************)
(* Lists and calls.  What the lists hold depends on where tasks are in     *)
(* their calls: nobody but its creator schedules a new task, nobody but    *)
(* its joiner frees one, and only when it has ended: without the shell's   *)
(* start and stop, and until the task table overflows, since a task that   *)
(* is not in it is not checked by PendSV_Handler.                          *)
(***************************************************************************)
NoShell == {"start", "stop"} \cap Calls = {}

About(t, u) ==
  pc[t] \in {"resched", "add", "wait", "clear", "free"} /\ arg[t] = Join(u)

NodesOK == ReadyListOK /\ WaitingListsOK

WaitersOK ==
  \A e \in Event : \A t \in Members(waiting[e]) : pc[t] = "clear" /\ arg[t] = e

RunnerOK == ~pendSV /\ current \in Task => state[current] = "ACTIVE"

CallsApart ==
  /\ \A t \in Task : pc[t] \notin {"start", "stop"}
  /\ \A t, v, u \in Task : About(t, u) /\ About(v, u) => t = v
  /\ \A t, u \in Task : arg[t] = Delay(u) => t = u

CreationOK ==
  \A t, u \in Task :
    pc[t] = "resched" /\ arg[t] = Join(u) =>
      state[u] = "READY" /\ u \notin Members(ready) /\ u # current

JoinOK ==
  \A t, u \in Task :
    /\ About(t, u) => t # u /\ state[u] # "FREE"
    /\ pc[t] = "clear" /\ arg[t] = Join(u) =>
         t \in Members(waiting[Join(u)]) \/ draining = Join(u) \/ state[u] = "END"
    /\ pc[t] = "free" /\ arg[t] = Join(u) => state[u] = "END" /\ u # current

EndOK ==
  /\ \A u \in Task :
       signal[Join(u)] = 1 => draining = Join(u) \/ state[u] \in {"END", "FREE"}
  /\ \A u \in Thread : draining = Join(u) =>
       u = current /\ u \in Task /\ state[u] = "ACTIVE" /\ pc[u] = "run"
  /\ \A u \in Task : state[u] = "END" => pc[u] = "run"

DelayOK ==
  \A u \in Task :
    /\ timer[u] => pc[u] \in {"add", "wait", "clear", "destroy"} /\ arg[u] = Delay(u)
    /\ Delay(u) \in registered =>
         pc[u] \in {"wait", "clear", "destroy", "unregister"} /\ arg[u] = Delay(u)

LifeOK ==
  /\ NodesOK /\ WaitersOK /\ RunnerOK /\ CallsApart
  /\ CreationOK /\ JoinOK /\ EndOK /\ DelayOK

LEMMA EventKinds ==
  /\ \A e \in StaticEvent : e.kind = "static"
  /\ \A t, u \in Thread : Join(t) # Delay(u)
  /\ \A t, u \in Task : Delay(t) = Delay(u) => t = u
  /\ \A e \in StaticEvent, t \in Thread : e # Join(t) /\ e # Delay(t)
  /\ \A t \in Thread : Join(t) # NoEvent /\ Delay(t) # NoEvent
  /\ \A e \in Event : e.kind = "delay" => \E u \in Task : e = Delay(u)
BY DEF Event, TaskEvent, StaticEvent, Join, Delay, NoEvent

LEMMA LifeInit == Init => LifeOK
<1> SUFFICES ASSUME Init PROVE LifeOK
  OBVIOUS
<1>1. Members(<< >>) = {} /\ NoDuplicates(<< >>)
  BY EmptySeq DEF Members, NoDuplicates
<1>2. NodesOK /\ WaitersOK
  BY <1>1, EventFacts DEF Init, NodesOK, WaitersOK, ReadyListOK, WaitingListsOK
<1>3. CallsApart /\ CreationOK /\ JoinOK /\ RunnerOK
  BY EventFacts, EventKinds
     DEF Init, CallsApart, CreationOK, JoinOK, RunnerOK, About
<1>4. EndOK /\ DelayOK
  BY EventFacts, EventKinds DEF Init, EndOK, DelayOK
<1> QED  BY <1>2, <1>3, <1>4 DEF LifeOK

(* The running task is in no list, and nothing else is going on.           *)
LEMMA RunnerFacts ==
  ASSUME TypeOK, LifeOK, NEW t \in Task, Runs(t)
  PROVE  /\ state[t] = "ACTIVE" /\ current = t /\ ~pendSV /\ draining = NoEvent
         /\ t \notin Members(ready)
         /\ \A e \in Event : t \notin Members(waiting[e])
<1>1. state[t] = "ACTIVE" /\ current = t /\ ~pendSV /\ draining = NoEvent
  BY DEF Runs, InterruptsEnabled, LifeOK, RunnerOK
<1> QED  BY <1>1 DEF LifeOK, NodesOK, ReadyListOK, WaitingListsOK

(* A notification of an event that is not a join event.                    *)
LEMMA StaticNotifyKeepsLife ==
  ASSUME TypeOK, LifeOK, draining = NoEvent, NEW e \in Event,
         \A u \in Thread : e # Join(u), Notify(e),
         UNCHANGED <<current, state, ready, waiting, registered, pendSV, pc, arg>>,
         \A u \in Task : timer'[u] => timer[u]
  PROVE  LifeOK'
<1>1. NodesOK' /\ WaitersOK' /\ RunnerOK' /\ CallsApart' /\ CreationOK' /\ DelayOK'
  BY DEF LifeOK, NodesOK, ReadyListOK, WaitingListsOK, WaitersOK, RunnerOK, CallsApart,
         CreationOK, DelayOK, About
<1>2. /\ \A u \in Task : signal'[Join(u)] = signal[Join(u)]
      /\ \A u \in Thread : draining' # Join(u) /\ draining # Join(u)
  BY EventFacts, EventKinds DEF TypeOK, Notify
<1>3. JoinOK' /\ EndOK'
  BY <1>2, EventFacts DEF LifeOK, JoinOK, EndOK, About
<1> QED  BY <1>1, <1>3 DEF LifeOK

(* A step of the running task that leaves lists and states alone.          *)
LEMMA RunnerMoves ==
  ASSUME TypeOK, LifeOK, NEW t \in Task, Runs(t),
         UNCHANGED <<current, state, ready, waiting>>,
         NEW p, pc' = [pc EXCEPT ![t] = p], NEW e, arg' = [arg EXCEPT ![t] = e]
  PROVE  NodesOK' /\ WaitersOK' /\ RunnerOK'
<1>1. NodesOK'
  BY DEF LifeOK, NodesOK, ReadyListOK, WaitingListsOK
<1>2. WaitersOK'
  <2>1. \A f \in Event : t \notin Members(waiting[f])
    BY RunnerFacts
  <2>2. \A f \in Event, u \in Task : u # t => pc'[u] = pc[u] /\ arg'[u] = arg[u]
    BY DEF TypeOK
  <2>3. \A f \in Event : Members(waiting[f]) \subseteq Task
    BY DEF TypeOK, Members
  <2> QED  BY <2>1, <2>2, <2>3 DEF LifeOK, WaitersOK
<1>3. RunnerOK'
  BY RunnerFacts DEF RunnerOK
<1> QED  BY <1>1, <1>2, <1>3

LEMMA LifeBegins ==
  ASSUME TypeInv, LifeOK, NoShell, NEW t \in Task, BeginsCall(t)
  PROVE  LifeOK'
<1> USE DEF lists, calls
<1>0. TypeOK /\ CallsOK /\ NodesOK /\ WaitersOK /\ RunnerOK /\ CallsApart /\ CreationOK
      /\ JoinOK /\ EndOK /\ DelayOK
  BY DEF TypeInv, LifeOK
<1>1. Runs(t) /\ pc[t] = "run"
  BY DEF BeginsCall, Yield, Wait, StartDelay, NewTask, JoinTask, NotifyEvent, EndTask,
         FindTask, Begins, At
<1>2. /\ state[t] = "ACTIVE" /\ current = t /\ ~pendSV /\ draining = NoEvent
      /\ t \notin Members(ready)
      /\ \A e \in Event : t \notin Members(waiting[e])
  BY <1>0, <1>1, RunnerFacts
<1>3. ~timer[t] /\ Delay(t) \notin registered
  BY <1>0, <1>1 DEF DelayOK
<1>4. CASE Yield(t)
  BY <1>0, <1>2, <1>4
     DEF Yield, LifeOK, NodesOK, ReadyListOK, WaitingListsOK, WaitersOK, RunnerOK,
         CallsApart, CreationOK, JoinOK, EndOK, DelayOK, About
<1>5. CASE Wait(t)
  <2>1. PICK e \in StaticEvent : pc' = [pc EXCEPT ![t] = "add"] /\ arg' = [arg EXCEPT ![t] = e]
    BY <1>5 DEF Wait, Goto
  <2>2. NodesOK' /\ WaitersOK' /\ RunnerOK'
    BY <1>0, <1>1, <1>5, <2>1, RunnerMoves DEF Wait
  <2>3. CallsApart' /\ CreationOK'
    BY <1>0, <1>1, <1>5, <2>1, EventFacts, EventKinds
       DEF Wait, TypeOK, CallsApart, CreationOK, About
  <2>4. JoinOK' /\ EndOK' /\ DelayOK'
    BY <1>0, <1>1, <1>2, <1>3, <1>5, <2>1, EventFacts, EventKinds
       DEF Wait, TypeOK, JoinOK, EndOK, DelayOK, About
  <2> QED  BY <2>2, <2>3, <2>4 DEF LifeOK
<1>6. CASE StartDelay(t)
  <2>1. /\ pc' = [pc EXCEPT ![t] = "add"] /\ arg' = [arg EXCEPT ![t] = Delay(t)]
        /\ waiting' = [waiting EXCEPT ![Delay(t)] = << >>]
        /\ signal' = [signal EXCEPT ![Delay(t)] = 0]
        /\ timer' = [timer EXCEPT ![t] = TRUE]
        /\ UNCHANGED <<current, state, ready, tcb, registered, pendSV, slice, draining, halt>>
    BY <1>6 DEF StartDelay, Goto
  <2>2. Members(waiting[Delay(t)]) = {}
    <3>1. \A u \in Members(waiting[Delay(t)]) : u \in Task /\ u # t /\ arg[u] = Delay(t)
      BY <1>0, <1>2, EventFacts DEF WaitersOK, TypeOK, Members
    <3> QED  BY <1>0, <3>1 DEF CallsApart
  <2>3. waiting[Delay(t)] = << >>
    BY <1>0, <2>2, EventFacts, TailListProperties DEF TypeOK
  <2>4. waiting' = waiting
    BY <1>0, <2>1, <2>3, EventFacts DEF TypeOK
  <2>5. NodesOK' /\ WaitersOK' /\ RunnerOK'
    BY <1>0, <1>1, <2>1, <2>4, RunnerMoves
  <2>6. CallsApart' /\ CreationOK'
    BY <1>0, <1>1, <2>1, EventFacts, EventKinds DEF TypeOK, CallsApart, CreationOK, About
  <2>7. JoinOK' /\ EndOK' /\ DelayOK'
    BY <1>0, <1>1, <1>2, <1>3, <2>1, <2>4, EventFacts, EventKinds
       DEF TypeOK, JoinOK, EndOK, DelayOK, About
  <2> QED  BY <2>5, <2>6, <2>7 DEF LifeOK
<1>7. CASE NewTask(t)
  <2>1. PICK u \in Task :
          /\ state[u] = "FREE"
          /\ state' = [state EXCEPT ![u] = "READY"]
          /\ signal' = [signal EXCEPT ![Join(u)] = 0]
          /\ waiting' = [waiting EXCEPT ![Join(u)] = << >>]
          /\ pc' = [pc EXCEPT ![t] = "resched"] /\ arg' = [arg EXCEPT ![t] = Join(u)]
    BY <1>7 DEF NewTask, Goto
  <2>2. UNCHANGED <<current, ready, registered, pendSV, timer, draining>>
    BY <1>7 DEF NewTask
  <2>3. /\ u # t /\ u \notin Members(ready)
        /\ \A e \in Event : u \notin Members(waiting[e])
        /\ \A v \in Task : ~About(v, u)
    BY <1>0, <1>2, <2>1
       DEF NodesOK, ReadyListOK, WaitingListsOK, JoinOK
  <2>4. waiting[Join(u)] = << >>
    <3>1. Join(u) \in Event /\ waiting[Join(u)] \in Seq(Task)
      BY <1>0, EventFacts DEF TypeOK
    <3>2. Members(waiting[Join(u)]) \subseteq Task
      BY <3>1 DEF Members
    <3>3. \A v \in Members(waiting[Join(u)]) : About(v, u)
      BY <1>0, <3>1 DEF WaitersOK, About
    <3>4. Members(waiting[Join(u)]) = {}
      BY <2>3, <3>2, <3>3
    <3> QED  BY <3>1, <3>4, TailListProperties
  <2>5. waiting' = waiting
    BY <1>0, <2>1, <2>4, EventFacts DEF TypeOK
  <2>6. \A v \in Task : v # u => state'[v] = state[v]
    BY <1>0, <2>1 DEF TypeOK
  <2>7. state'[u] = "READY"
    BY <1>0, <2>1, EventFacts DEF TypeOK
  <2>8. \A v \in Task : v # t => pc'[v] = pc[v] /\ arg'[v] = arg[v]
    BY <1>0, <2>1 DEF TypeOK
  <2>9. pc'[t] = "resched" /\ arg'[t] = Join(u)
    BY <1>0, <2>1 DEF TypeOK
  <2>10. NodesOK'
    <3>1. Members(ready) \subseteq Task /\ \A e \in Event : Members(waiting[e]) \subseteq Task
      BY <1>0 DEF TypeOK, Members
    <3>2. ReadyListOK'
      BY <1>0, <2>2, <2>3, <2>6, <3>1 DEF NodesOK, ReadyListOK
    <3>3. WaitingListsOK'
      BY <1>0, <2>3, <2>5, <2>6, <2>7, <3>1 DEF NodesOK, WaitingListsOK
    <3> QED  BY <3>2, <3>3 DEF NodesOK
  <2>11. WaitersOK' /\ RunnerOK'
    BY <1>0, <1>2, <2>2, <2>3, <2>5, <2>6, <2>8 DEF WaitersOK, RunnerOK, TypeOK, Members
  <2>12. CallsApart'
    BY <1>0, <2>3, <2>8, <2>9, EventFacts, EventKinds DEF CallsApart, About
  <2>13. CreationOK'
    BY <1>0, <1>2, <2>2, <2>3, <2>6, <2>7, <2>8, <2>9, EventFacts DEF CreationOK
  <2>14. JoinOK'
    BY <1>0, <2>2, <2>3, <2>5, <2>6, <2>7, <2>8, <2>9, EventFacts DEF JoinOK, About
  <2>15. \A v \in Task : v # u => signal'[Join(v)] = signal[Join(v)]
    BY <1>0, <2>1, EventFacts DEF TypeOK
  <2>16. signal'[Join(u)] = 0
    BY <1>0, <2>1, EventFacts DEF TypeOK
  <2>17. EndOK'
    BY <1>0, <1>2, <2>2, <2>6, <2>7, <2>8, <2>15, <2>16, EventKinds DEF EndOK, Thread
  <2>18. DelayOK'
    BY <1>0, <1>3, <2>2, <2>8 DEF DelayOK
  <2> QED  BY <2>10, <2>11, <2>12, <2>13, <2>14, <2>17, <2>18 DEF LifeOK
<1>8. CASE JoinTask(t)
  <2>1. PICK u \in Task \ {t} :
          /\ state[u] # "FREE"
          /\ \A v \in Task : pc[v] \notin {"run", "start", "stop"} => arg[v] # Join(u)
          /\ pc' = [pc EXCEPT ![t] = "add"] /\ arg' = [arg EXCEPT ![t] = Join(u)]
    BY <1>8 DEF JoinTask, Goto
  <2>2. NodesOK' /\ WaitersOK' /\ RunnerOK'
    BY <1>0, <1>1, <1>8, <2>1, RunnerMoves DEF JoinTask
  <2>3. CallsApart' /\ CreationOK'
    <3>1. /\ pc'[t] = "add" /\ arg'[t] = Join(u)
          /\ \A v \in Task : v # t => pc'[v] = pc[v] /\ arg'[v] = arg[v]
      BY <1>0, <2>1 DEF TypeOK
    <3>2. \A v \in Task : ~About(v, u)
      BY <2>1 DEF About
    <3>3. CallsApart'
      BY <1>0, <3>1, <3>2, EventFacts, EventKinds DEF CallsApart, About
    <3>4. CreationOK'
      BY <1>0, <1>8, <3>1 DEF JoinTask, CreationOK
    <3> QED  BY <3>3, <3>4
  <2>4. JoinOK' /\ EndOK' /\ DelayOK'
    BY <1>0, <1>1, <1>2, <1>3, <1>8, <2>1, EventFacts, EventKinds
       DEF JoinTask, TypeOK, JoinOK, EndOK, DelayOK, About
  <2> QED  BY <2>2, <2>3, <2>4 DEF LifeOK
<1>9. CASE NotifyEvent(t)
  <2>1. PICK e \in StaticEvent : Notify(e)
    BY <1>9 DEF NotifyEvent
  <2>2. UNCHANGED <<current, state, ready, waiting, registered, pendSV, timer, pc, arg>>
    BY <1>9 DEF NotifyEvent
  <2>3. e \in Event /\ \A u \in Thread : e # Join(u)
    BY EventFacts, EventKinds
  <2> QED  BY <1>0, <1>2, <2>1, <2>2, <2>3, StaticNotifyKeepsLife
<1>10. CASE EndTask(t)
  <2>1. /\ signal' = [signal EXCEPT ![Join(t)] = 1] /\ draining' = Join(t)
        /\ UNCHANGED <<current, state, ready, waiting, registered, pendSV, timer, pc, arg>>
    BY <1>10 DEF EndTask, Notify
  <2>2. NodesOK' /\ WaitersOK' /\ RunnerOK' /\ CallsApart' /\ CreationOK' /\ DelayOK'
    BY <1>0, <2>1
       DEF NodesOK, ReadyListOK, WaitingListsOK, WaitersOK, RunnerOK, CallsApart,
           CreationOK, DelayOK, About
  <2>3. JoinOK' /\ EndOK'
    BY <1>0, <1>1, <1>2, <2>1, EventFacts, EventKinds DEF TypeOK, JoinOK, EndOK, About, Thread
  <2> QED  BY <2>2, <2>3 DEF LifeOK
<1>11. CASE FindTask(t)
  BY <1>11 DEF FindTask, Begins, NoShell
<1> QED
  BY <1>4, <1>5, <1>6, <1>7, <1>8, <1>9, <1>10, <1>11 DEF BeginsCall

LEMMA LifeStutters ==
  ASSUME LifeOK,
         UNCHANGED <<current, state, ready, waiting, signal, registered, pendSV, timer,
                     draining, pc, arg>>
  PROVE  LifeOK'
<1>1. NodesOK' /\ WaitersOK' /\ RunnerOK' /\ CallsApart' /\ CreationOK'
  BY DEF LifeOK, NodesOK, ReadyListOK, WaitingListsOK, WaitersOK, RunnerOK, CallsApart,
         CreationOK, About
<1>2. JoinOK' /\ EndOK' /\ DelayOK'
  BY DEF LifeOK, JoinOK, EndOK, DelayOK, About
<1> QED  BY <1>1, <1>2 DEF LifeOK

(* The second service of task_new puts the task in the ready list.         *)
LEMMA LifeReschedules ==
  ASSUME TypeInv, LifeOK, NEW t \in Task, RescheduleNew(t)
  PROVE  LifeOK'
<1> USE DEF lists, calls
<1>0. TypeOK /\ CallsOK /\ NodesOK /\ WaitersOK /\ RunnerOK /\ CallsApart /\ CreationOK
      /\ JoinOK /\ EndOK /\ DelayOK
  BY DEF TypeInv, LifeOK
<1>1. Runs(t) /\ pc[t] = "resched"
  BY DEF RescheduleNew, At
<1>2. /\ state[t] = "ACTIVE" /\ current = t /\ ~pendSV /\ draining = NoEvent
      /\ \A e \in Event : t \notin Members(waiting[e])
  BY <1>0, <1>1, RunnerFacts
<1>3. PICK u \in Task : arg[t] = Join(u)
  BY <1>0, <1>1 DEF CallsOK
<1>4. state[u] = "READY" /\ u \notin Members(ready) /\ u # t /\ u # Idle /\ About(t, u)
  BY <1>0, <1>1, <1>2, <1>3, EventFacts DEF CreationOK, About
<1>5. ready' = Scheduled(ready, u)
  BY <1>3, <1>4, EventFacts DEF RescheduleNew, Reschedule
<1>6. /\ UNCHANGED <<current, state, waiting, signal, registered, timer, draining>>
      /\ pc' = [pc EXCEPT ![t] = "run"] /\ arg' = [arg EXCEPT ![t] = Join(t)]
  BY DEF RescheduleNew, Goto
<1>7. /\ Members(ready') = Members(ready) \cup {u}
      /\ NoDuplicates(ready) => NoDuplicates(ready')
  <2>1. ready \in Seq(Task) /\ \A v \in Task : Prio[v] \in Int
    BY <1>0, PrioType DEF TypeOK, Thread
  <2> QED  BY <1>4, <1>5, <2>1, ScheduledProperties
<1>8. /\ \A v \in Task : v # t => pc'[v] = pc[v] /\ arg'[v] = arg[v]
      /\ pc'[t] = "run" /\ arg'[t] = Join(t)
  BY <1>0, <1>6 DEF TypeOK
<1>9. NodesOK'
  BY <1>0, <1>4, <1>6, <1>7 DEF NodesOK, ReadyListOK, WaitingListsOK
<1>10. WaitersOK' /\ RunnerOK'
  BY <1>0, <1>2, <1>6, <1>8 DEF WaitersOK, RunnerOK, TypeOK, Members
<1>11. CallsApart'
  BY <1>0, <1>8, EventFacts, EventKinds DEF CallsApart, About
<1>12. CreationOK'
  BY <1>0, <1>4, <1>6, <1>7, <1>8 DEF CreationOK, CallsApart, About
<1>13. JoinOK' /\ EndOK'
  BY <1>0, <1>1, <1>2, <1>6, <1>8 DEF JoinOK, EndOK, About
<1>14. DelayOK'
  BY <1>0, <1>1, <1>6, <1>8 DEF DelayOK
<1> QED  BY <1>9, <1>10, <1>11, <1>12, <1>13, <1>14 DEF LifeOK

(* A task blocks.                                                          *)
LEMMA LifeBlocks ==
  ASSUME TypeInv, LifeOK, NEW t \in Task, WaitBlocks(t)
  PROVE  LifeOK'
<1> USE DEF lists, calls
<1>0. TypeOK /\ CallsOK /\ NodesOK /\ WaitersOK /\ RunnerOK /\ CallsApart /\ CreationOK
      /\ JoinOK /\ EndOK /\ DelayOK
  BY DEF TypeInv, LifeOK
<1>1. Runs(t) /\ pc[t] = "wait" /\ arg[t] \in Event
  BY <1>0 DEF WaitBlocks, At, TypeOK
<1>2. /\ state[t] = "ACTIVE" /\ current = t /\ ~pendSV /\ draining = NoEvent
      /\ t \notin Members(ready)
      /\ \A e \in Event : t \notin Members(waiting[e])
  BY <1>0, <1>1, RunnerFacts
<1>3. CASE Fail("Invalid Transition") \/ Fail("Node not initialized")
  BY <1>3, LifeStutters DEF Fail
<1>4. CASE ~(Fail("Invalid Transition") \/ Fail("Node not initialized"))
  <2>1. /\ state' = [state EXCEPT ![t] = Transition(state[t], "WAIT")]
        /\ waiting' = [waiting EXCEPT ![arg[t]] = Append(@, t)]
        /\ pendSV' = TRUE
        /\ pc' = [pc EXCEPT ![t] = "clear"] /\ arg' = [arg EXCEPT ![t] = arg[t]]
        /\ UNCHANGED <<current, ready, signal, registered, timer, draining>>
    BY <1>4 DEF WaitBlocks, Goto
  <2>2. Transition(state[t], "WAIT") = "WAIT"
    BY <1>2 DEF Transition
  <2>3. /\ \A v \in Task : v # t => pc'[v] = pc[v] /\ state'[v] = state[v]
        /\ pc'[t] = "clear" /\ state'[t] = "WAIT" /\ arg' = arg
    BY <1>0, <2>1, <2>2, EventFacts DEF TypeOK
  <2>4. /\ waiting'[arg[t]] = Append(waiting[arg[t]], t)
        /\ \A e \in Event : e # arg[t] => waiting'[e] = waiting[e]
    BY <1>0, <1>1, <2>1 DEF TypeOK
  <2>5. /\ Members(waiting'[arg[t]]) = Members(waiting[arg[t]]) \cup {t}
        /\ NoDuplicates(waiting'[arg[t]])
    <3>1. waiting[arg[t]] \in Seq(Task) /\ NoDuplicates(waiting[arg[t]])
      BY <1>0, <1>1 DEF TypeOK, NodesOK, WaitingListsOK
    <3> QED  BY <1>1, <1>2, <2>4, <3>1, AppendListProperties
  <2>6. Members(ready) \subseteq Task /\ \A e \in Event : Members(waiting[e]) \subseteq Task
    BY <1>0 DEF TypeOK, Members
  <2>7. ReadyListOK'
    BY <1>0, <1>2, <2>1, <2>3, <2>6 DEF NodesOK, ReadyListOK
  <2>8. WaitingListsOK'
    <3> DEFINE In(v, e)  == v \in Members(waiting[e])
               InP(v, e) == v \in Members(waiting'[e])
    <3>1. \A e \in Event : \A v : InP(v, e) <=> In(v, e) \/ (v = t /\ e = arg[t])
      BY <2>4, <2>5
    <3>2. \A e \in Event : ~In(t, e)
      BY <1>2
    <3>3. \A e \in Event : NoDuplicates(waiting'[e])
      BY <1>0, <2>4, <2>5 DEF NodesOK, WaitingListsOK
    <3>4. \A e, f \in Event : e # f => \A v : ~(In(v, e) /\ In(v, f))
      BY <1>0 DEF NodesOK, WaitingListsOK
    <3>5. \A e, f \in Event : e # f => \A v : ~(InP(v, e) /\ InP(v, f))
      BY <3>1, <3>2, <3>4
    <3>6. \A e \in Event : \A v \in Members(waiting'[e]) : state'[v] = "WAIT"
      <4> SUFFICES ASSUME NEW e \in Event, NEW v, InP(v, e) PROVE state'[v] = "WAIT"
        OBVIOUS
      <4>1. CASE v = t
        BY <2>3, <4>1
      <4>2. CASE v # t
        <5>1. In(v, e)
          BY <3>1, <4>2
        <5>2. v \in Task /\ state[v] = "WAIT"
          BY <1>0, <2>6, <5>1 DEF NodesOK, WaitingListsOK
        <5> QED  BY <2>3, <4>2, <5>2
      <4> QED  BY <4>1, <4>2
    <3>7. ASSUME NEW v \in Task, state'[v] = "WAIT" PROVE \E e \in Event : InP(v, e)
      <4>1. CASE v = t
        BY <1>1, <3>1, <4>1
      <4>2. CASE v # t
        <5>1. \E e \in Event : In(v, e)
          BY <1>0, <2>3, <3>7, <4>2 DEF NodesOK, WaitingListsOK
        <5> QED  BY <3>1, <5>1
      <4> QED  BY <4>1, <4>2
    <3> HIDE DEF In, InP
    <3>8. \A e, f \in Event : e # f => Members(waiting'[e]) \cap Members(waiting'[f]) = {}
      BY <3>5 DEF InP
    <3> QED  BY <3>3, <3>6, <3>7, <3>8 DEF WaitingListsOK, InP
  <2>9. WaitersOK' /\ RunnerOK'
    <3>1. \A e \in Event : \A v \in Members(waiting'[e]) :
            v \in Members(waiting[e]) \/ (v = t /\ e = arg[t])
      BY <2>4, <2>5
    <3>2. WaitersOK'
      BY <1>0, <2>3, <2>6, <3>1 DEF WaitersOK
    <3>3. RunnerOK'
      BY <2>1 DEF RunnerOK
    <3> QED  BY <3>2, <3>3
  <2>10. CallsApart'
    BY <1>0, <1>1, <2>3 DEF CallsApart, About
  <2>11. CreationOK'
    BY <1>0, <1>2, <2>1, <2>3 DEF CreationOK
  <2>12. JoinOK'
    BY <1>0, <1>1, <1>2, <2>1, <2>3, <2>4, <2>5 DEF JoinOK, About
  <2>13. EndOK' /\ DelayOK'
    BY <1>0, <1>1, <1>2, <2>1, <2>3, EventKinds DEF EndOK, DelayOK, Thread
  <2> QED  BY <2>7, <2>8, <2>9, <2>10, <2>11, <2>12, <2>13 DEF LifeOK, NodesOK
<1> QED  BY <1>3, <1>4

(* A joiner frees the task it joined.                                      *)
LEMMA LifeFrees ==
  ASSUME TypeInv, LifeOK, NEW t \in Task, FreeTask(t)
  PROVE  LifeOK'
<1> USE DEF lists, calls
<1>0. TypeOK /\ CallsOK /\ NodesOK /\ WaitersOK /\ RunnerOK /\ CallsApart /\ CreationOK
      /\ JoinOK /\ EndOK /\ DelayOK
  BY DEF TypeInv, LifeOK
<1>1. Runs(t) /\ pc[t] = "free"
  BY DEF FreeTask, At
<1>2. /\ state[t] = "ACTIVE" /\ current = t /\ draining = NoEvent
      /\ \A e \in Event : t \notin Members(waiting[e])
  BY <1>0, <1>1, RunnerFacts
<1>3. CASE \E why \in Failure : Fail(why)
  BY <1>3, LifeStutters DEF Fail
<1>4. CASE ~ \E why \in Failure : Fail(why)
  <2>1. PICK u \in Task : arg[t] = Join(u)
    BY <1>0, <1>1 DEF CallsOK
  <2>2. arg[t].task = u /\ About(t, u) /\ u # t /\ state[u] = "END" /\ pc[u] = "run"
    BY <1>0, <1>1, <2>1, EventFacts DEF JoinOK, EndOK, About
  <2>3. /\ registered' = registered \ {Join(u)}
        /\ state' = [state EXCEPT ![u] = "FREE"]
        /\ pc' = [pc EXCEPT ![t] = "run", ![u] = "run"]
        /\ arg' = [arg EXCEPT ![t] = Join(t), ![u] = Join(u)]
        /\ UNCHANGED <<current, ready, waiting, signal, pendSV, timer, draining>>
    BY <1>4, <2>2 DEF FreeTask, Failure
  <2>4. /\ \A v \in Task : v # t /\ v # u => pc'[v] = pc[v] /\ arg'[v] = arg[v]
        /\ pc'[t] = "run" /\ pc'[u] = "run" /\ arg'[t] = Join(t) /\ arg'[u] = Join(u)
    BY <1>0, <2>2, <2>3 DEF TypeOK
  <2>5. state'[u] = "FREE" /\ \A v \in Task : v # u => state'[v] = state[v]
    BY <1>0, <2>3, EventFacts DEF TypeOK
  <2>6. Members(ready) \subseteq Task /\ \A e \in Event : Members(waiting[e]) \subseteq Task
    BY <1>0 DEF TypeOK, Members
  <2>7. /\ u \notin Members(ready) /\ \A e \in Event : u \notin Members(waiting[e])
    BY <1>0, <2>2 DEF NodesOK, ReadyListOK, WaitingListsOK
  <2>8. NodesOK'
    BY <1>0, <2>3, <2>5, <2>6, <2>7 DEF NodesOK, ReadyListOK, WaitingListsOK
  <2>9. WaitersOK' /\ RunnerOK'
    <3>1. \A e \in Event : \A v \in Members(waiting[e]) : v \in Task /\ v # t /\ v # u
      BY <1>2, <2>6, <2>7
    <3>2. WaitersOK'
      BY <1>0, <2>3, <2>4, <3>1 DEF WaitersOK
    <3>3. RunnerOK'
      BY <1>2, <2>2, <2>3, <2>5 DEF RunnerOK
    <3> QED  BY <3>2, <3>3
  <2>10. CallsApart'
    BY <1>0, <2>4, EventFacts, EventKinds DEF CallsApart, About
  <2>11. CreationOK'
    BY <1>0, <2>2, <2>3, <2>4, <2>5 DEF CreationOK
  <2>12. \A v \in Task : v # t => ~About(v, u)
    BY <1>0, <2>2 DEF CallsApart
  <2>13. JoinOK'
    <3>1. \A v, w \in Task :
            About(v, w)' => About(v, w) /\ v # t /\ v # u /\ w # u
      BY <2>4, <2>12 DEF About
    <3>2. ASSUME NEW v \in Task, NEW w \in Task, v # t, v # u, w # u
          PROVE  /\ pc'[v] = pc[v] /\ arg'[v] = arg[v] /\ state'[w] = state[w]
      BY <2>4, <2>5, <3>2
    <3>3. ASSUME NEW v \in Task, NEW w \in Task, About(v, w)'
          PROVE  /\ v # w /\ state'[w] # "FREE"
                 /\ pc'[v] = "clear" /\ arg'[v] = Join(w) =>
                      v \in Members(waiting[Join(w)]) \/ draining = Join(w)
                        \/ state'[w] = "END"
                 /\ pc'[v] = "free" /\ arg'[v] = Join(w) => state'[w] = "END" /\ w # current
      <4>1. About(v, w) /\ v # t /\ v # u /\ w # u
        BY <3>1, <3>3
      <4>2. pc'[v] = pc[v] /\ arg'[v] = arg[v] /\ state'[w] = state[w]
        BY <3>2, <4>1
      <4> QED  BY <1>0, <4>1, <4>2 DEF JoinOK
    <3>4. \A v, w \in Task :
            pc'[v] \in {"clear", "free"} /\ arg'[v] = Join(w) => About(v, w)'
      BY DEF About
    <3> QED  BY <2>3, <3>3, <3>4 DEF JoinOK
  <2>14. EndOK'
    <3>1. \A v \in Thread : draining' # Join(v)
      BY <1>2, <2>3, EventKinds
    <3>2. \A v \in Task : signal'[Join(v)] = 1 => state'[v] \in {"END", "FREE"}
      BY <1>0, <1>2, <2>3, <2>5, EventKinds, EventFacts DEF EndOK
    <3>3. \A v \in Task : state'[v] = "END" => pc'[v] = "run"
      BY <1>0, <2>4, <2>5 DEF EndOK
    <3> QED  BY <3>1, <3>2, <3>3 DEF EndOK
  <2>15. DelayOK'
    BY <1>0, <1>1, <2>2, <2>3, <2>4 DEF DelayOK
  <2> QED  BY <2>8, <2>9, <2>10, <2>11, <2>13, <2>14, <2>15 DEF LifeOK
<1> QED  BY <1>3, <1>4

LEMMA LifeContinues ==
  ASSUME TypeInv, LifeOK, NEW t \in Task, ContinuesCall(t)
  PROVE  LifeOK'
<1> USE DEF lists, calls
<1>0. TypeOK /\ CallsOK /\ CallsApart /\ CreationOK /\ JoinOK /\ EndOK /\ DelayOK
  BY DEF TypeInv, LifeOK
<1>1. CASE RescheduleNew(t) \/ WaitBlocks(t) \/ FreeTask(t)
  BY <1>1, LifeReschedules, LifeBlocks, LifeFrees
<1>2. CASE StartTask(t) \/ StopTask(t)
  BY <1>0, <1>2 DEF StartTask, StopTask, At, CallsApart
<1>3. CASE RegisterEvent(t)
  <2>1. /\ Runs(t) /\ pc[t] = "add" /\ arg[t] \in Event
        /\ registered' \subseteq registered \cup {arg[t]}
        /\ pc' = [pc EXCEPT ![t] = "wait"] /\ arg' = [arg EXCEPT ![t] = arg[t]]
        /\ UNCHANGED <<current, state, ready, waiting, signal, timer, draining>>
    BY <1>0, <1>3 DEF RegisterEvent, At, Goto, TypeOK
  <2>2. NodesOK' /\ WaitersOK' /\ RunnerOK'
    BY <1>0, <2>1, RunnerMoves
  <2>3. CallsApart' /\ CreationOK'
    BY <1>0, <2>1 DEF TypeOK, CallsApart, CreationOK, About
  <2>4. /\ state[t] = "ACTIVE" /\ draining = NoEvent
        /\ \A v \in Task : v # t => pc'[v] = pc[v]
        /\ pc'[t] = "wait" /\ arg' = arg
    BY <1>0, <2>1, RunnerFacts DEF TypeOK
  <2>5. JoinOK'
    BY <1>0, <2>1, <2>4 DEF JoinOK, About
  <2>6. EndOK'
    BY <1>0, <2>1, <2>4, EventKinds DEF EndOK
  <2>7. DelayOK'
    <3>1. \A u \in Task : Delay(u) \in registered' =>
            Delay(u) \in registered \/ (u = t /\ arg[t] = Delay(u))
      BY <1>0, <2>1 DEF CallsApart
    <3> QED  BY <1>0, <2>1, <2>4, <3>1 DEF DelayOK
  <2> QED  BY <2>2, <2>3, <2>5, <2>6, <2>7 DEF LifeOK
<1>4. CASE WaitSignalled(t)
  <2>1. /\ Runs(t) /\ pc[t] = "wait" /\ arg[t] \in Event /\ signal[arg[t]] = 1
        /\ pc' = [pc EXCEPT ![t] = "clear"] /\ arg' = [arg EXCEPT ![t] = arg[t]]
        /\ UNCHANGED <<current, state, ready, waiting, signal, registered, timer, draining>>
    BY <1>0, <1>4 DEF WaitSignalled, Blocks, At, Goto, TypeOK
  <2>2. NodesOK' /\ WaitersOK' /\ RunnerOK'
    BY <1>0, <2>1, RunnerMoves
  <2>3. CallsApart' /\ CreationOK'
    BY <1>0, <2>1 DEF TypeOK, CallsApart, CreationOK, About
  <2>4. state[t] = "ACTIVE" /\ draining = NoEvent
    BY <1>0, <2>1, RunnerFacts
  <2>5. \A u \in Task : arg[t] = Join(u) => state[u] = "END"
    BY <1>0, <2>1, <2>4, EventFacts, EventKinds DEF JoinOK, EndOK, About
  <2>6. JoinOK' /\ EndOK' /\ DelayOK'
    BY <1>0, <2>1, <2>4, <2>5 DEF TypeOK, JoinOK, EndOK, DelayOK, About
  <2> QED  BY <2>2, <2>3, <2>6 DEF LifeOK
<1>5. CASE ClearSignal(t)
  <2> DEFINE p == AfterWait(arg[t])
  <2>1. /\ Runs(t) /\ pc[t] = "clear" /\ arg[t] \in Event
        /\ signal' = [signal EXCEPT ![arg[t]] = 0]
        /\ pc' = [pc EXCEPT ![t] = p] /\ arg' = [arg EXCEPT ![t] = arg[t]]
        /\ UNCHANGED <<current, state, ready, waiting, registered, timer, draining>>
    BY <1>0, <1>5 DEF ClearSignal, At, Goto, TypeOK
  <2>2. NodesOK' /\ WaitersOK' /\ RunnerOK'
    BY <1>0, <2>1, RunnerMoves
  <2>3. /\ p \in {"run", "destroy", "free"}
        /\ \A u \in Thread : arg[t] = Join(u) => p = "free"
        /\ \A u \in Task : arg[t] = Delay(u) => p = "destroy"
    BY <2>1, EventFacts DEF AfterWait
  <2> HIDE DEF p
  <2>4. CallsApart' /\ CreationOK'
    BY <1>0, <2>1, <2>3 DEF TypeOK, CallsApart, CreationOK, About
  <2>5. /\ state[t] = "ACTIVE" /\ draining = NoEvent /\ current = t
        /\ \A e \in Event : t \notin Members(waiting[e])
    BY <1>0, <2>1, RunnerFacts
  <2>6. \A u \in Task : arg[t] = Join(u) => state[u] = "END" /\ u # t
    BY <1>0, <2>1, <2>5, EventFacts, EventKinds DEF JoinOK, About
  <2>7. JoinOK'
    BY <1>0, <2>1, <2>3, <2>5, <2>6 DEF TypeOK, JoinOK, About
  <2>8. EndOK'
    BY <1>0, <2>1, <2>5, EventFacts, EventKinds DEF TypeOK, EndOK
  <2>9. DelayOK'
    BY <1>0, <2>1, <2>3 DEF TypeOK, DelayOK
  <2> QED  BY <2>2, <2>4, <2>7, <2>8, <2>9 DEF LifeOK
<1>6. CASE DestroyTimer(t)
  <2>1. /\ Runs(t) /\ pc[t] = "destroy"
        /\ timer' = [timer EXCEPT ![t] = FALSE]
        /\ pc' = [pc EXCEPT ![t] = "unregister"] /\ arg' = [arg EXCEPT ![t] = arg[t]]
        /\ UNCHANGED <<current, state, ready, waiting, signal, registered, draining>>
    BY <1>0, <1>6 DEF DestroyTimer, At, Goto, TypeOK
  <2>2. NodesOK' /\ WaitersOK' /\ RunnerOK'
    BY <1>0, <2>1, RunnerMoves
  <2>3. CallsApart' /\ CreationOK'
    BY <1>0, <2>1 DEF TypeOK, CallsApart, CreationOK, About
  <2>4. JoinOK' /\ EndOK'
    BY <1>0, <2>1, RunnerFacts, EventKinds DEF TypeOK, JoinOK, EndOK, About
  <2>5. DelayOK'
    BY <1>0, <2>1 DEF TypeOK, DelayOK
  <2> QED  BY <2>2, <2>3, <2>4, <2>5 DEF LifeOK
<1>7. CASE UnregisterEvent(t)
  <2>1. /\ Runs(t) /\ pc[t] = "unregister"
        /\ registered' = registered \ {arg[t]}
        /\ pc' = [pc EXCEPT ![t] = "run"] /\ arg' = [arg EXCEPT ![t] = Join(t)]
        /\ UNCHANGED <<current, state, ready, waiting, signal, timer, draining>>
    BY <1>0, <1>7 DEF UnregisterEvent, At, Goto, TypeOK
  <2>2. NodesOK' /\ WaitersOK' /\ RunnerOK'
    BY <1>0, <2>1, RunnerMoves
  <2>3. CallsApart' /\ CreationOK'
    BY <1>0, <2>1, EventFacts, EventKinds DEF TypeOK, CallsApart, CreationOK, About
  <2>4. JoinOK' /\ EndOK'
    BY <1>0, <2>1, RunnerFacts, EventKinds DEF TypeOK, JoinOK, EndOK, About
  <2>5. DelayOK'
    BY <1>0, <2>1 DEF TypeOK, DelayOK
  <2> QED  BY <2>2, <2>3, <2>4, <2>5 DEF LifeOK
<1> QED
  BY <1>1, <1>2, <1>3, <1>4, <1>5, <1>6, <1>7 DEF ContinuesCall


-----------------------------------------------------------------------------
(* The steps nobody calls for.                                             *)

LEMMA LifeReleases ==
  ASSUME TypeInv, LifeOK, ReleaseWaiter
  PROVE  LifeOK'
<1> USE DEF lists, calls
<1>0. TypeOK /\ CallsOK /\ NodesOK /\ WaitersOK /\ RunnerOK /\ CallsApart /\ CreationOK
      /\ JoinOK /\ EndOK /\ DelayOK
  BY DEF TypeInv, LifeOK
<1>1. CASE Fail("Waiter not waiting")
  BY <1>1, LifeStutters DEF Fail
<1>2. CASE ~Fail("Waiter not waiting")
  <2> DEFINE e  == draining
             u  == Head(waiting[draining])
             st == [state EXCEPT ![u] = Transition(state[u], "NOTIFY")]
  <2>1. /\ e \in Event /\ waiting[e] # << >> /\ waiting[e] \in Seq(Task)
        /\ state[u] = "WAIT" /\ waiting' = [waiting EXCEPT ![e] = Tail(waiting[e])]
        /\ state' = st /\ Reschedule(u, st)
        /\ UNCHANGED <<current, signal, registered, timer, draining, pc, arg>>
    BY <1>0, <1>2 DEF ReleaseWaiter, HeadReleased, TypeOK
  <2>2. /\ u \in Task /\ Members(waiting[e]) = Members(Tail(waiting[e])) \cup {u}
        /\ NoDuplicates(Tail(waiting[e])) /\ u \notin Members(Tail(waiting[e]))
    <3>1. NoDuplicates(waiting[e])
      BY <1>0, <2>1 DEF NodesOK, WaitingListsOK
    <3> QED  BY <2>1, <3>1, TailListProperties
  <2>3. Transition(state[u], "NOTIFY") = "READY"
    BY <2>1 DEF Transition
  <2> HIDE DEF u
  <2>4. u \in Thread /\ u # Idle
    BY <2>2, EventFacts
  <2>5. state'[u] = "READY" /\ st[u] = "READY"
    BY <1>0, <2>1, <2>3, <2>4 DEF TypeOK
  <2>6. \A v \in Thread : v # u => state'[v] = state[v]
    BY <1>0, <2>1 DEF TypeOK
  <2>7. ready' = Scheduled(ready, u)
    BY <2>1, <2>4, <2>5 DEF Reschedule
  <2>8. u \notin Members(ready)
    BY <1>0, <2>1 DEF NodesOK, ReadyListOK
  <2>9. Members(ready') = Members(ready) \cup {u} /\ NoDuplicates(ready')
    <3>1. ready \in Seq(Task) /\ NoDuplicates(ready) /\ \A v \in Task : Prio[v] \in Int
      BY <1>0, PrioType DEF TypeOK, Thread, NodesOK, ReadyListOK
    <3> QED  BY <2>2, <2>7, <2>8, <3>1, ScheduledProperties
  <2>10. /\ waiting'[e] = Tail(waiting[e])
         /\ \A f \in Event : f # e => waiting'[f] = waiting[f]
    BY <1>0, <2>1 DEF TypeOK
  <2>11. \A f \in Event : f # e => u \notin Members(waiting[f])
    BY <1>0, <2>1, <2>2 DEF NodesOK, WaitingListsOK
  <2>12. \A f \in Event : \A v :
           v \in Members(waiting'[f]) <=> v \in Members(waiting[f]) /\ v # u
    BY <2>2, <2>10, <2>11
  <2>13. Members(ready) \subseteq Task /\ \A f \in Event : Members(waiting[f]) \subseteq Task
    BY <1>0 DEF TypeOK, Members
  <2>14. ReadyListOK'
    BY <1>0, <2>5, <2>6, <2>9, <2>13, EventFacts DEF NodesOK, ReadyListOK
  <2>15. WaitingListsOK'
    <3>1. \A f \in Event : NoDuplicates(waiting'[f])
      BY <1>0, <2>2, <2>10 DEF NodesOK, WaitingListsOK
    <3>2. \A f, g \in Event : f # g => Members(waiting'[f]) \cap Members(waiting'[g]) = {}
      <4>1. \A f, g \in Event : f # g =>
              \A v : ~(v \in Members(waiting[f]) /\ v \in Members(waiting[g]))
        BY <1>0 DEF NodesOK, WaitingListsOK
      <4> QED  BY <2>12, <4>1
    <3>3. \A f \in Event : \A v \in Members(waiting'[f]) : state'[v] = "WAIT"
      <4>1. \A f \in Event : \A v \in Members(waiting'[f]) :
              v \in Members(waiting[f]) /\ v \in Thread /\ v # u
        BY <2>12, <2>13, EventFacts
      <4> QED  BY <1>0, <2>6, <4>1 DEF NodesOK, WaitingListsOK
    <3>4. \A v \in Task : state'[v] = "WAIT" => \E f \in Event : v \in Members(waiting'[f])
      <4> SUFFICES ASSUME NEW v \in Task, state'[v] = "WAIT"
                   PROVE  \E f \in Event : v \in Members(waiting'[f])
        OBVIOUS
      <4>1. v # u /\ state[v] = "WAIT"
        BY <2>5, <2>6, EventFacts
      <4>2. \E f \in Event : v \in Members(waiting[f])
        BY <1>0, <4>1 DEF NodesOK, WaitingListsOK
      <4> QED  BY <2>12, <4>1, <4>2
    <3> QED  BY <3>1, <3>2, <3>3, <3>4 DEF WaitingListsOK
  <2>16. WaitersOK'
    BY <1>0, <2>1, <2>12 DEF WaitersOK
  <2>17. RunnerOK'
    <3>1. ~pendSV' => ~pendSV
      BY <2>1 DEF Reschedule
    <3> QED  BY <1>0, <2>1, <2>6, <3>1, EventFacts DEF RunnerOK
  <2>18. CallsApart' /\ DelayOK'
    BY <1>0, <2>1 DEF CallsApart, DelayOK, About
  <2>19. CreationOK'
    <3> SUFFICES ASSUME NEW t \in Task, NEW v \in Task, pc[t] = "resched", arg[t] = Join(v)
                 PROVE  state'[v] = "READY" /\ v \notin Members(ready') /\ v # current
      BY <2>1 DEF CreationOK
    <3>1. state[v] = "READY" /\ v \notin Members(ready) /\ v # current
      BY <1>0 DEF CreationOK
    <3>2. v # u
      BY <2>1, <3>1
    <3> QED  BY <2>6, <2>9, <3>1, <3>2, EventFacts
  <2>20. JoinOK'
    <3>1. \A v \in Task : state[v] # "FREE" => state'[v] # "FREE"
      BY <2>5, <2>6, EventFacts
    <3>2. \A v \in Task : state[v] = "END" => state'[v] = "END"
      BY <2>1, <2>6, EventFacts
    <3>3. \A t, v \in Task : t \in Members(waiting[Join(v)]) =>
            t \in Members(waiting'[Join(v)]) \/ draining = Join(v)
      BY <2>10, EventFacts
    <3> QED  BY <1>0, <2>1, <3>1, <3>2, <3>3 DEF JoinOK, About
  <2>21. EndOK'
    <3>1. \A v \in Task : state[v] \in {"END", "FREE"} => state'[v] = state[v]
      BY <2>1, <2>6, EventFacts
    <3>2. \A v \in Task : state'[v] = "END" => state[v] = "END"
      BY <2>5, <2>6, EventFacts
    <3>3. \A v \in Task : state[v] = "ACTIVE" => state'[v] = "ACTIVE"
      BY <2>1, <2>6, EventFacts
    <3> QED  BY <1>0, <2>1, <3>1, <3>2, <3>3 DEF EndOK
  <2> QED
    BY <2>14, <2>15, <2>16, <2>17, <2>18, <2>19, <2>20, <2>21 DEF LifeOK, NodesOK
<1> QED  BY <1>1, <1>2

LEMMA LifeNotified ==
  ASSUME TypeInv, LifeOK, NotifyDone
  PROVE  LifeOK'
<1> USE DEF lists, calls
<1>1. /\ UNCHANGED <<current, state, ready, waiting, signal, registered, pendSV, timer, pc, arg>>
      /\ \A u \in Thread : draining # Join(u) /\ draining' # Join(u)
  BY EventFacts, EventKinds DEF NotifyDone
<1>2. NodesOK' /\ WaitersOK' /\ RunnerOK' /\ CallsApart' /\ CreationOK' /\ DelayOK'
  BY <1>1 DEF LifeOK, NodesOK, ReadyListOK, WaitingListsOK, WaitersOK, RunnerOK, CallsApart,
              CreationOK, DelayOK, About
<1>3. JoinOK' /\ EndOK'
  BY <1>1, EventFacts DEF LifeOK, JoinOK, EndOK, About
<1> QED  BY <1>2, <1>3 DEF LifeOK

(* The end of a task: its joiners have been released.                      *)
LEMMA LifeExits ==
  ASSUME TypeInv, LifeOK, ExitTask
  PROVE  LifeOK'
<1> USE DEF lists, calls
<1>0. TypeOK /\ CallsOK /\ NodesOK /\ WaitersOK /\ RunnerOK /\ CallsApart /\ CreationOK
      /\ JoinOK /\ EndOK /\ DelayOK
  BY DEF TypeInv, LifeOK
<1>1. CASE Fail("Invalid Transition")
  BY <1>1, LifeStutters DEF Fail
<1>2. CASE ~Fail("Invalid Transition")
  <2> DEFINE c == current
  <2>1. /\ state' = [state EXCEPT ![c] = Transition(state[c], "EXIT")]
        /\ pendSV' /\ draining' = NoEvent
        /\ UNCHANGED <<current, ready, waiting, signal, registered, timer, pc, arg>>
    BY <1>2 DEF ExitTask
  <2>2. draining \in Event /\ draining.kind = "join"
    BY <1>0 DEF ExitTask, Drained, TypeOK
  <2>3. draining = Join(c) /\ c \in Task /\ state[c] = "ACTIVE" /\ pc[c] = "run"
    BY <1>0, <2>2, EventFacts DEF EndOK
  <2> HIDE DEF c
  <2>4. Transition(state[c], "EXIT") = "END"
    BY <2>3 DEF Transition
  <2>5. state'[c] = "END" /\ \A v \in Task : v # c => state'[v] = state[v]
    BY <1>0, <2>1, <2>3, <2>4, EventFacts DEF TypeOK
  <2>6. /\ c \notin Members(ready) /\ \A e \in Event : c \notin Members(waiting[e])
    BY <1>0, <2>3 DEF NodesOK, ReadyListOK, WaitingListsOK
  <2>7. Members(ready) \subseteq Task /\ \A e \in Event : Members(waiting[e]) \subseteq Task
    BY <1>0 DEF TypeOK, Members
  <2>8. NodesOK'
    BY <1>0, <2>1, <2>5, <2>6, <2>7 DEF NodesOK, ReadyListOK, WaitingListsOK
  <2>9. WaitersOK' /\ RunnerOK' /\ CallsApart' /\ DelayOK'
    BY <1>0, <2>1 DEF WaitersOK, RunnerOK, CallsApart, DelayOK, About
  <2>10. CreationOK'
    <3>1. \A t, u \in Task : pc[t] = "resched" /\ arg[t] = Join(u) => u # c
      BY <1>0 DEF CreationOK, c
    <3> QED  BY <1>0, <2>1, <2>5, <3>1 DEF CreationOK
  <2>11. \A u \in Task : state[u] = "END" => state'[u] = "END"
    BY <2>5
  <2>12. \A u \in Task : draining = Join(u) => state'[u] = "END"
    BY <2>3, <2>5, EventFacts
  <2>13. JoinOK'
    <3>1. \A u \in Task : state[u] # "FREE" => state'[u] # "FREE"
      BY <2>5
    <3> QED  BY <1>0, <2>1, <2>11, <2>12, <3>1 DEF JoinOK, About
  <2>14. EndOK'
    <3>1. \A u \in Task : state[u] = "FREE" => state'[u] = "FREE"
      BY <2>3, <2>5
    <3>2. \A u \in Task : signal'[Join(u)] = 1 => state'[u] \in {"END", "FREE"}
      BY <1>0, <2>1, <2>11, <2>12, <3>1 DEF EndOK
    <3>3. \A u \in Task : state'[u] = "END" => pc'[u] = "run"
      BY <1>0, <2>1, <2>3, <2>5 DEF EndOK
    <3> QED  BY <2>1, <3>2, <3>3, EventKinds DEF EndOK
  <2> QED  BY <2>8, <2>9, <2>10, <2>13, <2>14 DEF LifeOK
<1> QED  BY <1>1, <1>2

LEMMA LifeInterrupts ==
  ASSUME TypeInv, LifeOK,
         IrqNotify \/ SliceExpires \/ \E t \in Task : DelayExpires(t)
  PROVE  LifeOK'
<1> USE DEF lists, calls
<1>0. TypeOK
  BY DEF TypeInv
<1>1. CASE IrqNotify
  <2>1. PICK e \in StaticEvent : Notify(e)
    BY <1>1 DEF IrqNotify
  <2>2. /\ draining = NoEvent
        /\ UNCHANGED <<current, state, ready, waiting, registered, pendSV, timer, pc, arg>>
    BY <1>1 DEF IrqNotify, InterruptsEnabled
  <2>3. e \in Event /\ \A u \in Thread : e # Join(u)
    BY EventFacts, EventKinds
  <2> QED  BY <1>0, <2>1, <2>2, <2>3, StaticNotifyKeepsLife
<1>2. CASE SliceExpires
  <2>1. NodesOK' /\ WaitersOK' /\ RunnerOK' /\ CallsApart' /\ CreationOK'
    BY <1>2 DEF SliceExpires, LifeOK, NodesOK, ReadyListOK, WaitingListsOK, WaitersOK,
                RunnerOK, CallsApart, CreationOK, About
  <2>2. JoinOK' /\ EndOK' /\ DelayOK'
    BY <1>2 DEF SliceExpires, LifeOK, JoinOK, EndOK, DelayOK, About
  <2> QED  BY <2>1, <2>2 DEF LifeOK
<1>3. ASSUME NEW t \in Task, DelayExpires(t) PROVE LifeOK'
  <2>1. /\ draining = NoEvent /\ Notify(Delay(t))
        /\ UNCHANGED <<current, state, ready, waiting, registered, pendSV, pc, arg>>
        /\ timer' = [timer EXCEPT ![t] = FALSE]
    BY <1>3 DEF DelayExpires, InterruptsEnabled
  <2>2. Delay(t) \in Event /\ \A u \in Thread : Delay(t) # Join(u)
    BY EventFacts DEF Join, Delay
  <2>3. \A u \in Task : timer'[u] => timer[u]
    BY <1>0, <2>1 DEF TypeOK
  <2> QED  BY <1>0, <2>1, <2>2, <2>3, StaticNotifyKeepsLife
<1> QED  BY <1>1, <1>2, <1>3

-----------------------------------------------------------------------------
(* The context switch.  Its check of every task of the table, which is of  *)
(* every task that exists, is what makes the lists true again after a task *)
(* was notified before it had left.                                        *)
LEMMA PendSVChecks ==
  ASSUME PendSV, ~Fail("Invalid Transition"), ~Fail("Invalid task")
  PROVE  \A t \in tcb : ValidTask(t, state', current', ready')
BY DEF PendSV

LEMMA SwitchTransition ==
  ASSUME NEW s, NEW r, r = Transition(s, "CONTEXT_SWITCH"), r # Invalid
  PROVE  (r = "WAIT" <=> s = "WAIT") /\ (r = "END" <=> s = "END")
         /\ r # "FREE" /\ s # "FREE" /\ (r = "READY" => s = "ACTIVE")
BY DEF Transition, Invalid

LEMMA LifeSwitches ==
  ASSUME TypeInv, LifeOK, PendSV
  PROVE  TableOverflowed' \/ LifeOK'
<1> USE DEF lists, calls
<1>0. TypeOK /\ CallsOK /\ NodesOK /\ WaitersOK /\ RunnerOK /\ CallsApart /\ CreationOK
      /\ JoinOK /\ EndOK /\ DelayOK
  BY DEF TypeInv, LifeOK
<1>1. CASE Fail("Invalid Transition") \/ Fail("Invalid task")
  BY <1>1, LifeStutters DEF Fail
<1>2. CASE ~(Fail("Invalid Transition") \/ Fail("Invalid task"))
  <2> SUFFICES ASSUME ~TableOverflowed' PROVE LifeOK'
    OBVIOUS
  <2>1. PICK next \in {IF Queue = << >> THEN Idle ELSE Head(Queue)},
             rest \in {IF Queue = << >> THEN << >> ELSE Tail(Queue)},
             parked \in {[state EXCEPT ![current] = Left]} :
          /\ Left # Invalid
          /\ CanMove(parked[next], "CONTEXT_SWITCH")
          /\ current' = next
          /\ state' = [parked EXCEPT ![next] = Transition(parked[next], "CONTEXT_SWITCH")]
          /\ ready' = rest
          /\ pendSV' = FALSE
          /\ UNCHANGED <<waiting, signal, tcb, registered, timer, draining, pc, arg>>
    BY <1>2, PendSVCases
  <2>2. current \in Thread /\ Queue \in Seq(Task) /\ state \in [Thread -> TaskState \cup {"FREE"}]
    BY <1>0, QueueType DEF TypeOK
  <2>3. next \in Thread
    <3>1. CASE Queue = << >>
      BY <2>1, <3>1 DEF Thread
    <3>2. CASE Queue # << >>
      BY <2>1, <2>2, <3>2, TailListProperties DEF Thread
    <3> QED  BY <3>1, <3>2
  <2>4. \A v \in Thread : parked[v] = IF v = current THEN Left ELSE state[v]
    BY <2>1, <2>2
  <2>5. \A v \in Thread :
          state'[v] = IF v = next THEN Transition(parked[v], "CONTEXT_SWITCH") ELSE parked[v]
    BY <2>1, <2>2, <2>3
  <2>6. \A v \in Thread : /\ parked[v] = "WAIT" <=> state[v] = "WAIT"
                          /\ parked[v] = "END" <=> state[v] = "END"
                          /\ parked[v] = "FREE" <=> state[v] = "FREE"
    BY <2>1, <2>4, SwitchTransition DEF Left
  <2>7. \A v \in Thread : /\ state'[v] = "WAIT" <=> state[v] = "WAIT"
                          /\ state'[v] = "END" <=> state[v] = "END"
                          /\ state'[v] = "FREE" <=> state[v] = "FREE"
    <3>1. \A v \in Thread :
            v = next => Transition(parked[v], "CONTEXT_SWITCH") # Invalid
      BY <2>1 DEF CanMove
    <3>2. \A v \in Thread : /\ state'[v] = "WAIT" <=> parked[v] = "WAIT"
                            /\ state'[v] = "END" <=> parked[v] = "END"
                            /\ state'[v] = "FREE" <=> parked[v] = "FREE"
      BY <2>5, <3>1, SwitchTransition
    <3> QED  BY <2>6, <3>2
  <2>8. \A v \in Task : state'[v] # "FREE" =>
          CASE state'[v] = "ACTIVE" -> v = next /\ v \notin Members(rest)
            [] state'[v] = "READY"  -> v # next /\ v \in Members(rest)
            [] state'[v] = "WAIT"   -> v # next /\ v \notin Members(rest)
            [] OTHER                -> v # next /\ v \notin Members(rest)
    BY <1>2, <2>1, PendSVChecks DEF TableOverflowed, ValidTask
  <2>9. Members(Queue) \subseteq Members(ready) \cup {current} /\ NoDuplicates(Queue)
    <3>1. ready \in Seq(Task) /\ NoDuplicates(ready) /\ \A v \in Task : Prio[v] \in Int
      BY <1>0, PrioType DEF TypeOK, Thread, NodesOK, ReadyListOK
    <3>2. CASE Left = "READY" /\ current # Idle
      <4>1. current \in Task /\ state[current] = "ACTIVE"
        BY <2>2, <3>2, SwitchTransition DEF Thread, Left, Invalid
      <4>2. current \notin Members(ready)
        BY <1>0, <4>1 DEF NodesOK, ReadyListOK
      <4> QED  BY <3>1, <3>2, <4>1, <4>2, ScheduledProperties DEF Queue
    <3>3. CASE ~(Left = "READY" /\ current # Idle)
      BY <3>1, <3>3 DEF Queue
    <3> QED  BY <3>2, <3>3
  <2>10. /\ Members(rest) \subseteq Members(Queue) /\ NoDuplicates(rest)
         /\ next # Idle => next \in Members(Queue)
    <3>1. CASE Queue = << >>
      <4>1. rest = Queue /\ next = Idle
        BY <2>1, <3>1
      <4> QED  BY <2>9, <4>1
    <3>2. CASE Queue # << >>
      <4>1. next = Head(Queue) /\ rest = Tail(Queue)
        BY <2>1, <3>2
      <4>2. /\ Head(Queue) \in Members(Queue)
            /\ Members(Queue) = Members(Tail(Queue)) \cup {Head(Queue)}
            /\ NoDuplicates(Tail(Queue))
        BY <2>2, <2>9, <3>2, TailListProperties
      <4> QED  BY <4>1, <4>2
    <3> QED  BY <3>1, <3>2
  <2>11. Members(Queue) \subseteq Task /\ \A e \in Event : Members(waiting[e]) \subseteq Task
    BY <1>0, <2>2 DEF TypeOK, Members
  <2>12. ReadyListOK'
    <3> SUFFICES ASSUME NEW v \in Members(rest) PROVE state'[v] = "READY"
      BY <2>1, <2>10 DEF ReadyListOK
    <3>1. v \in Task /\ v \in Members(Queue)
      BY <2>10, <2>11
    <3>2. state[v] # "FREE"
      <4>1. CASE v \in Members(ready)
        BY <1>0, <4>1 DEF NodesOK, ReadyListOK
      <4>2. CASE v = current
        BY <2>1, <4>2, SwitchTransition DEF Left
      <4> QED  BY <2>9, <3>1, <4>1, <4>2
    <3> QED  BY <2>7, <2>8, <3>1, <3>2, EventFacts
  <2>13. WaitingListsOK'
    <3>1. \A e \in Event : \A v \in Members(waiting[e]) : state'[v] = "WAIT"
      BY <1>0, <2>7, <2>11, EventFacts DEF NodesOK, WaitingListsOK
    <3>2. \A v \in Task : state'[v] = "WAIT" => \E e \in Event : v \in Members(waiting[e])
      BY <1>0, <2>7, EventFacts DEF NodesOK, WaitingListsOK
    <3> QED  BY <1>0, <2>1, <3>1, <3>2 DEF NodesOK, WaitingListsOK
  <2>14. WaitersOK' /\ CallsApart' /\ DelayOK'
    BY <1>0, <2>1 DEF WaitersOK, CallsApart, DelayOK, About
  <2>15. RunnerOK'
    <3> SUFFICES ASSUME next \in Task PROVE state'[next] = "ACTIVE"
      BY <2>1 DEF RunnerOK
    <3>1. state'[next] # "FREE"
      BY <2>1, <2>3, <2>5, SwitchTransition DEF CanMove
    <3> QED  BY <2>8, <3>1
  <2>16. CreationOK'
    <3> SUFFICES ASSUME NEW t \in Task, NEW u \in Task, pc[t] = "resched", arg[t] = Join(u)
                 PROVE  state'[u] = "READY" /\ u \notin Members(rest) /\ u # next
      BY <2>1 DEF CreationOK
    <3>1. state[u] = "READY" /\ u \notin Members(ready) /\ u # current
      BY <1>0 DEF CreationOK
    <3>2. u \notin Members(Queue) /\ u # Idle /\ u \in Thread
      BY <2>9, <3>1, EventFacts
    <3>3. u # next
      BY <2>10, <3>2
    <3> QED  BY <2>4, <2>5, <2>10, <3>1, <3>2, <3>3
  <2>17. JoinOK'
    <3>1. \A u \in Task : state[u] # "FREE" => state'[u] # "FREE"
      BY <2>7, EventFacts
    <3>2. \A u \in Task : state[u] = "END" => state'[u] = "END"
      BY <2>7, EventFacts
    <3>3. \A u \in Task : state'[u] = "END" => u # next
      BY <2>8
    <3> QED  BY <1>0, <2>1, <3>1, <3>2, <3>3 DEF JoinOK, About
  <2>18. EndOK'
    <3>1. draining = NoEvent
      BY DEF PendSV, InterruptsEnabled
    <3>2. \A u \in Thread : draining' # Join(u) /\ draining # Join(u)
      BY <2>1, <3>1, EventKinds
    <3>3. \A u \in Task : state[u] \in {"END", "FREE"} => state'[u] \in {"END", "FREE"}
      BY <2>7, EventFacts
    <3>4. \A u \in Task : state'[u] = "END" => state[u] = "END"
      BY <2>7, EventFacts
    <3> QED  BY <1>0, <2>1, <3>2, <3>3, <3>4, EventFacts DEF EndOK
  <2> QED
    BY <2>12, <2>13, <2>14, <2>15, <2>16, <2>17, <2>18 DEF LifeOK, NodesOK
<1> QED  BY <1>1, <1>2

-----------------------------------------------------------------------------
(* A task that is missing in the table stays missing.                      *)
LEMMA OverflowStays ==
  ASSUME TypeInv, TableOverflowed, [Next]_vars
  PROVE  TableOverflowed' \/ WatchdogReset
<1> USE DEF lists, calls
<1>0. TypeOK
  BY DEF TypeInv
<1>1. PICK u \in Task : state[u] # "FREE" /\ u \notin tcb
  BY DEF TableOverflowed
<1>2. state \in [Thread -> TaskState \cup {"FREE"}] /\ u \in Thread /\ current \in Thread
  BY <1>0, EventFacts DEF TypeOK
<1>3. \A s, a : CanMove(s, a) => Transition(s, a) # "FREE"
  BY CanMoveType DEF TaskState
<1>4. state'[u] # "FREE" /\ u \notin tcb' => TableOverflowed'
  BY DEF TableOverflowed
<1>5. ASSUME NEW t \in Task, BeginsCall(t) PROVE TableOverflowed'
  <2>1. CASE NewTask(t)
    <3>1. PICK v \in Task : /\ state[v] = "FREE" /\ state' = [state EXCEPT ![v] = "READY"]
                            /\ tcb' \subseteq tcb \cup {v}
      BY <2>1 DEF NewTask
    <3> QED  BY <1>1, <1>2, <1>4, <3>1
  <2>2. CASE ~NewTask(t)
    <3>1. UNCHANGED <<state, tcb>>
      BY <1>5, <2>2 DEF BeginsCall, Yield, Wait, StartDelay, JoinTask, NotifyEvent,
                        EndTask, FindTask
    <3> QED  BY <1>1, <1>4, <3>1
  <2> QED  BY <2>1, <2>2
<1>6. ASSUME NEW t \in Task, ContinuesCall(t) PROVE TableOverflowed'
  <2> DEFINE v == arg[t].task
  <2>1. CASE UNCHANGED <<state, tcb>>
    BY <1>1, <1>4, <2>1
  <2>2. CASE ~UNCHANGED <<state, tcb>> /\ FreeTask(t)
    <3>1. /\ v \in tcb /\ tcb' = tcb \ {v} /\ state' = [state EXCEPT ![v] = "FREE"]
      BY <2>2 DEF FreeTask, Fail
    <3> QED  BY <1>1, <1>2, <1>4, <3>1
  <2>3. CASE ~UNCHANGED <<state, tcb>> /\ ~FreeTask(t)
    <3>1. /\ tcb' = tcb
          /\ \E w, a : CanMove(state[w], a)
                         /\ state' = [state EXCEPT ![w] = Transition(state[w], a)]
      BY <1>6, <2>3
         DEF ContinuesCall, RescheduleNew, RegisterEvent, WaitSignalled, WaitBlocks,
             ClearSignal, DestroyTimer, UnregisterEvent, StartTask, StopTask, Fail
    <3> QED  BY <1>1, <1>2, <1>3, <1>4, <3>1
  <2> QED  BY <2>1, <2>2, <2>3
<1>7. CASE Drain
  <2>1. CASE UNCHANGED <<state, tcb>>
    BY <1>1, <1>4, <2>1
  <2>2. CASE ~UNCHANGED <<state, tcb>>
    <3>1. /\ tcb' = tcb
          /\ \E w, a : CanMove(state[w], a)
                         /\ state' = [state EXCEPT ![w] = Transition(state[w], a)]
      <4>1. CanMove("WAIT", "NOTIFY")
        BY DEF CanMove, Transition, Invalid
      <4> QED  BY <1>7, <2>2, <4>1 DEF Drain, ReleaseWaiter, NotifyDone, ExitTask, Fail
    <3> QED  BY <1>1, <1>2, <1>3, <1>4, <3>1
  <2> QED  BY <2>1, <2>2
<1>8. CASE PendSV
  <2>1. CASE UNCHANGED <<state, tcb>>
    BY <1>1, <1>4, <2>1
  <2>2. CASE ~UNCHANGED <<state, tcb>>
    <3>1. PICK next, parked :
            /\ parked = [state EXCEPT ![current] = Left]
            /\ Left # Invalid /\ CanMove(parked[next], "CONTEXT_SWITCH")
            /\ state' = [parked EXCEPT ![next] = Transition(parked[next], "CONTEXT_SWITCH")]
            /\ tcb' = tcb
      BY <1>8, <2>2, PendSVCases DEF Fail
    <3>2. parked[u] # "FREE" /\ u \in DOMAIN parked
      BY <1>1, <1>2, <1>3, <3>1 DEF Left, CanMove
    <3>3. state'[u] # "FREE"
      BY <1>3, <3>1, <3>2
    <3> QED  BY <1>1, <1>4, <3>1, <3>3
  <2> QED  BY <2>1, <2>2
<1>9. CASE UNCHANGED <<state, tcb>>
  BY <1>1, <1>4, <1>9
<1> QED
  BY <1>5, <1>6, <1>7, <1>8, <1>9
     DEF Next, DelayExpires, IrqNotify, SliceExpires, vars

LEMMA ResetIsInit == WatchdogReset => Init'
BY DEF WatchdogReset, Init

LifeInv == TableOverflowed \/ LifeOK

LEMMA LifeNext ==
  ASSUME NoShell, TypeInv, LifeInv, [Next]_vars
  PROVE  LifeInv'
<1>1. CASE WatchdogReset
  <2>1. Init'
    BY <1>1, ResetIsInit
  <2>2. LifeOK'
    <3>1. (Init => LifeOK)'
      BY LifeInit, PTL
    <3> QED  BY <2>1, <3>1
  <2> QED  BY <2>2 DEF LifeInv
<1>2. CASE TableOverflowed /\ ~WatchdogReset
  BY <1>2, OverflowStays DEF LifeInv
<1>3. CASE LifeOK /\ ~WatchdogReset
  <2>1. ASSUME NEW t \in Task, BeginsCall(t) PROVE LifeOK'
    BY <1>3, <2>1, LifeBegins
  <2>2. ASSUME NEW t \in Task, ContinuesCall(t) PROVE LifeOK'
    BY <1>3, <2>2, LifeContinues
  <2>3. CASE Drain
    BY <1>3, <2>3, LifeReleases, LifeNotified, LifeExits DEF Drain, LifeInv
  <2>4. CASE IrqNotify \/ SliceExpires \/ \E t \in Task : DelayExpires(t)
    BY <1>3, <2>4, LifeInterrupts DEF LifeInv
  <2>5. CASE PendSV
    BY <1>3, <2>5, LifeSwitches DEF LifeInv
  <2>6. CASE UNCHANGED vars
    BY <1>3, <2>6, LifeStutters DEF vars, LifeInv, lists, calls
  <2> QED
    BY <1>3, <2>1, <2>2, <2>3, <2>4, <2>5, <2>6 DEF Next, LifeInv
<1> QED  BY <1>1, <1>2, <1>3 DEF LifeInv

LEMMA LifeCorrect ==
  ASSUME NoShell
  PROVE  Spec => [](TypeInv /\ LifeInv)
<1>1. Init => TypeInv /\ LifeInv
  BY TypeInit, LifeInit DEF LifeInv
<1>2. TypeInv /\ LifeInv /\ [Next]_vars => (TypeInv /\ LifeInv)'
  BY TypeNext, LifeNext
<1> QED  BY <1>1, <1>2, PTL DEF Spec

(* task_join is about to free only a task that has ended and that nothing  *)
(* refers to any more, under the same conditions.                          *)
THEOREM JoinedTasksEnded ==
  ASSUME NoShell
  PROVE  Spec => [](TableOverflowed \/ JoinedHasEnded)
<1>1. TypeInv /\ LifeInv => TableOverflowed \/ JoinedHasEnded
  <2> SUFFICES ASSUME TypeInv, LifeOK, NEW t \in Task, pc[t] = "free", NEW u,
                      u = arg[t].task
               PROVE  /\ state[u] = "END" /\ u # current
                      /\ ~InSomeList(u) /\ ~timer[u] /\ Delay(u) \notin registered
    BY DEF LifeInv, JoinedHasEnded
  <2>1. u \in Task /\ arg[t] = Join(u)
    BY EventFacts DEF TypeInv, CallsOK
  <2>2. state[u] = "END" /\ u # current
    BY <2>1 DEF LifeOK, JoinOK
  <2>3. pc[u] = "run"
    BY <2>1, <2>2 DEF LifeOK, EndOK
  <2>4. ~timer[u] /\ Delay(u) \notin registered
    BY <2>1, <2>3 DEF LifeOK, DelayOK
  <2>5. ~InSomeList(u)
    BY <2>2 DEF LifeOK, NodesOK, ReadyListOK, WaitingListsOK, InSomeList
  <2> QED  BY <2>2, <2>4, <2>5
<1> QED  BY <1>1, LifeCorrect, PTL

-----------------------------------------------------------------------------
(***************************************************************************)
(* The lists, whatever the shell starts and stops.  A task may then return *)
(* from a wait whose event has not come, and the shell may stop itself and *)
(* go on; but a node is still in one list at most.  Of the calls it takes  *)
(* only that none but its creator puts a new task in the ready list, that  *)
(* a switch before it has ends in a failed check, and that none refers to  *)
(* a task that is freed.                                                   *)
(***************************************************************************)
CallersOK ==
  /\ \A t, v, u \in Task : About(t, u) /\ About(v, u) => t = v
  /\ \A t, u \in Task : About(t, u) => t # u /\ state[u] # "FREE"
  /\ \A t, u \in Task : arg[t] = Delay(u) => t = u

CreatorOK == \A v \in Task : pc[v] = "resched" => v = current

CurrentOK ==
  current \in Task => state[current] # "FREE" /\ (~pendSV => state[current] # "WAIT")

SafeOK == NodesOK /\ WaitersOK /\ CallersOK /\ CreationOK /\ CreatorOK /\ CurrentOK

LEMMA SafeInit == Init => SafeOK
<1> SUFFICES ASSUME Init PROVE SafeOK
  OBVIOUS
<1>1. NodesOK /\ WaitersOK /\ CreationOK
  BY LifeInit DEF LifeOK
<1>2. CallersOK /\ CreatorOK
  BY EventFacts, EventKinds DEF Init, CallersOK, CreatorOK, About
<1>3. CurrentOK
  BY EventFacts DEF Init, CurrentOK
<1> QED  BY <1>1, <1>2, <1>3 DEF SafeOK

LEMMA SafeRunner ==
  ASSUME TypeOK, SafeOK, NEW t \in Task, Runs(t)
  PROVE  /\ current = t /\ ~pendSV /\ draining = NoEvent /\ state[t] \notin {"WAIT", "FREE"}
         /\ \A e \in Event : t \notin Members(waiting[e])
<1>1. current = t /\ ~pendSV /\ draining = NoEvent /\ state[t] \notin {"WAIT", "FREE"}
  BY DEF Runs, InterruptsEnabled, SafeOK, CurrentOK
<1> QED  BY <1>1 DEF SafeOK, NodesOK, WaitingListsOK

(* A step that leaves the calls, the lists and the states alone.           *)
LEMMA SafeStutters ==
  ASSUME SafeOK, UNCHANGED <<current, state, ready, waiting, pc, arg>>,
         pendSV' = pendSV \/ pendSV' = TRUE
  PROVE  SafeOK'
<1>1. NodesOK' /\ WaitersOK' /\ CreationOK'
  BY DEF SafeOK, NodesOK, ReadyListOK, WaitingListsOK, WaitersOK, CreationOK
<1>2. CallersOK' /\ CreatorOK' /\ CurrentOK'
  BY DEF SafeOK, CallersOK, CreatorOK, CurrentOK, About
<1> QED  BY <1>1, <1>2 DEF SafeOK

(* The running task goes on, in a call about an event of its own or about  *)
(* a task that no other call is about.                                     *)
LEMMA SafeGoes ==
  ASSUME TypeInv, SafeOK, NEW t \in Task, Runs(t),
         UNCHANGED <<current, state, ready, waiting, pendSV>>,
         NEW p \in Place, p # "resched", pc' = [pc EXCEPT ![t] = p],
         NEW e, arg' = [arg EXCEPT ![t] = e],
         \A u \in Task : e = Delay(u) => t = u,
         \A u \in Task : About(t, u)' =>
           t # u /\ state[u] # "FREE" /\ \A v \in Task : About(v, u) => v = t
  PROVE  SafeOK'
<1>0. /\ TypeOK /\ NodesOK /\ WaitersOK /\ CallersOK /\ CreationOK /\ CreatorOK /\ CurrentOK
      /\ current = t /\ ~pendSV /\ \A f \in Event : t \notin Members(waiting[f])
  BY SafeRunner DEF TypeInv, SafeOK
<1>1. /\ \A v \in Task : v # t => pc'[v] = pc[v] /\ arg'[v] = arg[v]
      /\ pc'[t] = p /\ arg'[t] = e
  BY <1>0 DEF TypeOK
<1>2. \A v, u \in Task : v # t => (About(v, u)' <=> About(v, u))
  BY <1>1 DEF About
<1>3. NodesOK' /\ CurrentOK'
  BY <1>0 DEF NodesOK, ReadyListOK, WaitingListsOK, CurrentOK
<1>4. WaitersOK'
  <2>1. \A f \in Event : Members(waiting[f]) \subseteq Task
    BY <1>0 DEF TypeOK, Members
  <2> QED  BY <1>0, <1>1, <2>1 DEF WaitersOK
<1>5. CallersOK'
  BY <1>0, <1>1, <1>2 DEF CallersOK
<1>6. CreatorOK' /\ CreationOK'
  BY <1>0, <1>1 DEF CreatorOK, CreationOK
<1> QED  BY <1>3, <1>4, <1>5, <1>6 DEF SafeOK

(* task_new: no list holds the new task, nor any waiter of it.             *)
LEMMA SafeNew ==
  ASSUME TypeInv, SafeOK, NEW t \in Task, NewTask(t)
  PROVE  SafeOK'
<1> USE DEF lists, calls
<1>0. TypeOK /\ NodesOK /\ WaitersOK /\ CallersOK /\ CreationOK /\ CreatorOK /\ CurrentOK
  BY DEF TypeInv, SafeOK
<1>1. Runs(t) /\ pc[t] = "run"
  BY DEF NewTask, Begins, At
<1>2. /\ current = t /\ ~pendSV /\ state[t] \notin {"WAIT", "FREE"}
      /\ \A e \in Event : t \notin Members(waiting[e])
  BY <1>0, <1>1, SafeRunner
<1>3. PICK u \in Task :
        /\ state[u] = "FREE"
        /\ state' = [state EXCEPT ![u] = "READY"]
        /\ waiting' = [waiting EXCEPT ![Join(u)] = << >>]
        /\ pc' = [pc EXCEPT ![t] = "resched"] /\ arg' = [arg EXCEPT ![t] = Join(u)]
  BY DEF NewTask, Goto
<1>4. UNCHANGED <<current, ready, pendSV>>
  BY DEF NewTask
<1>5. /\ u # t /\ u \notin Members(ready)
      /\ \A e \in Event : u \notin Members(waiting[e])
      /\ \A v \in Task : ~About(v, u)
  BY <1>0, <1>2, <1>3 DEF NodesOK, ReadyListOK, WaitingListsOK, CallersOK
<1>6. Members(ready) \subseteq Task /\ \A e \in Event : Members(waiting[e]) \subseteq Task
  BY <1>0 DEF TypeOK, Members
<1>7. waiting' = waiting
  <2>1. Join(u) \in Event /\ waiting[Join(u)] \in Seq(Task)
    BY <1>0, EventFacts DEF TypeOK
  <2>2. \A v \in Members(waiting[Join(u)]) : About(v, u)
    BY <1>0, <2>1 DEF WaitersOK, About
  <2>3. Members(waiting[Join(u)]) = {}
    BY <1>5, <1>6, <2>1, <2>2
  <2>4. waiting[Join(u)] = << >>
    BY <2>1, <2>3, TailListProperties
  <2> QED  BY <1>0, <1>3, <2>4 DEF TypeOK
<1>8. /\ state'[u] = "READY" /\ \A v \in Task : v # u => state'[v] = state[v]
      /\ pc'[t] = "resched" /\ arg'[t] = Join(u)
      /\ \A v \in Task : v # t => pc'[v] = pc[v] /\ arg'[v] = arg[v]
  BY <1>0, <1>3, EventFacts DEF TypeOK
<1>9. ReadyListOK'
  BY <1>0, <1>4, <1>5, <1>6, <1>8 DEF NodesOK, ReadyListOK
<1>10. WaitingListsOK'
  BY <1>0, <1>5, <1>6, <1>7, <1>8 DEF NodesOK, WaitingListsOK
<1>11. WaitersOK' /\ CurrentOK'
  BY <1>0, <1>2, <1>4, <1>5, <1>6, <1>7, <1>8 DEF WaitersOK, CurrentOK
<1>12. CallersOK'
  <2>1. \A v, w \in Task : v # t => (About(v, w)' <=> About(v, w))
    BY <1>8 DEF About
  <2>2. \A w \in Task : About(t, w)' => w = u
    <3>1. \A w \in Task : Join(u) = Join(w) => w = u
      BY EventFacts
    <3> QED  BY <1>8, <3>1 DEF About
  <2>3. \A w \in Task : arg'[t] # Delay(w)
    BY <1>8, EventFacts, EventKinds
  <2> QED  BY <1>0, <1>5, <1>8, <2>1, <2>2, <2>3 DEF CallersOK
<1>13. CreatorOK' /\ CreationOK'
  BY <1>0, <1>1, <1>2, <1>4, <1>5, <1>8, EventFacts DEF CreatorOK, CreationOK
<1> QED  BY <1>9, <1>10, <1>11, <1>12, <1>13 DEF SafeOK, NodesOK

LEMMA SafeBegins ==
  ASSUME TypeInv, SafeOK, NEW t \in Task, BeginsCall(t)
  PROVE  SafeOK'
<1> USE DEF lists, calls
<1>0. TypeOK /\ CallsOK /\ WaitersOK /\ CallersOK
  BY DEF TypeInv, SafeOK
<1>1. Runs(t) /\ pc[t] = "run"
  BY DEF BeginsCall, Yield, Wait, StartDelay, NewTask, JoinTask, NotifyEvent, EndTask,
         FindTask, Begins, At
<1>2. CASE Yield(t) \/ NotifyEvent(t) \/ EndTask(t)
  BY <1>2, SafeStutters DEF Yield, NotifyEvent, EndTask
<1>3. CASE Wait(t)
  <2>1. PICK e \in StaticEvent : pc' = [pc EXCEPT ![t] = "add"] /\ arg' = [arg EXCEPT ![t] = e]
    BY <1>3 DEF Wait, Goto
  <2>2. arg'[t] = e
    BY <1>0, <2>1 DEF TypeOK
  <2>3. \A u \in Task : e # Delay(u) /\ ~About(t, u)'
    BY <2>2, EventFacts, EventKinds DEF About
  <2>4. UNCHANGED <<current, state, ready, waiting, pendSV>>
    BY <1>3 DEF Wait
  <2> QED  BY <1>1, <2>1, <2>3, <2>4, SafeGoes DEF Place
<1>4. CASE StartDelay(t)
  <2>1. /\ pc' = [pc EXCEPT ![t] = "add"] /\ arg' = [arg EXCEPT ![t] = Delay(t)]
        /\ waiting' = [waiting EXCEPT ![Delay(t)] = << >>]
        /\ UNCHANGED <<current, state, ready, pendSV>>
    BY <1>4 DEF StartDelay, Goto
  <2>2. Members(waiting[Delay(t)]) = {}
    <3>1. \A u \in Members(waiting[Delay(t)]) : u \in Task /\ u # t /\ arg[u] = Delay(t)
      BY <1>0, <1>1, SafeRunner, EventFacts DEF WaitersOK, TypeOK, Members
    <3> QED  BY <1>0, <3>1 DEF CallersOK
  <2>3. waiting[Delay(t)] = << >>
    BY <1>0, <2>2, EventFacts, TailListProperties DEF TypeOK
  <2>4. waiting' = waiting
    BY <1>0, <2>1, <2>3, EventFacts DEF TypeOK
  <2>5. arg'[t] = Delay(t)
    BY <1>0, <2>1 DEF TypeOK
  <2>6. \A u \in Task : (Delay(t) = Delay(u) => t = u) /\ ~About(t, u)'
    BY <2>5, EventFacts, EventKinds DEF About
  <2> QED  BY <1>1, <2>1, <2>4, <2>6, SafeGoes DEF Place
<1>5. CASE NewTask(t)
  BY <1>5, SafeNew
<1>6. CASE JoinTask(t)
  <2>1. PICK u \in Task \ {t} :
          /\ state[u] # "FREE"
          /\ \A v \in Task : pc[v] \notin {"run", "start", "stop"} => arg[v] # Join(u)
          /\ pc' = [pc EXCEPT ![t] = "add"] /\ arg' = [arg EXCEPT ![t] = Join(u)]
    BY <1>6 DEF JoinTask, Goto
  <2>2. \A v \in Task : ~About(v, u)
    BY <2>1 DEF About
  <2>3. arg'[t] = Join(u)
    BY <1>0, <2>1 DEF TypeOK
  <2>4. \A w \in Task : Join(u) # Delay(w) /\ (About(t, w)' => w = u)
    BY <2>3, EventFacts, EventKinds DEF About
  <2>5. UNCHANGED <<current, state, ready, waiting, pendSV>>
    BY <1>6 DEF JoinTask
  <2> QED  BY <1>1, <2>1, <2>2, <2>4, <2>5, SafeGoes DEF Place
<1>7. CASE FindTask(t)
  <2>1. PICK u \in Thread, p \in {"start", "stop"} :
          pc' = [pc EXCEPT ![t] = p] /\ arg' = [arg EXCEPT ![t] = Join(u)]
    BY <1>0, <1>7 DEF FindTask, Goto, TypeOK, Thread
  <2>2. pc'[t] = p
    BY <1>0, <2>1 DEF TypeOK
  <2>3. \A w \in Task : Join(u) # Delay(w) /\ ~About(t, w)'
    BY <2>2, EventFacts, EventKinds DEF About
  <2>4. UNCHANGED <<current, state, ready, waiting, pendSV>>
    BY <1>7 DEF FindTask
  <2> QED  BY <1>1, <2>1, <2>3, <2>4, SafeGoes DEF Place
<1> QED  BY <1>2, <1>3, <1>4, <1>5, <1>6, <1>7 DEF BeginsCall

LEMMA SafeReschedules ==
  ASSUME TypeInv, SafeOK, NEW t \in Task, RescheduleNew(t)
  PROVE  SafeOK'
<1> USE DEF lists, calls
<1>0. /\ TypeOK /\ CallsOK /\ NodesOK /\ WaitersOK /\ CallersOK /\ CreationOK /\ CreatorOK
      /\ CurrentOK
  BY DEF TypeInv, SafeOK
<1>1. Runs(t) /\ pc[t] = "resched"
  BY DEF RescheduleNew, At
<1>2. /\ current = t /\ ~pendSV /\ state[t] \notin {"WAIT", "FREE"}
      /\ \A e \in Event : t \notin Members(waiting[e])
  BY <1>0, <1>1, SafeRunner
<1>3. PICK u \in Task : arg[t] = Join(u)
  BY <1>0, <1>1 DEF CallsOK
<1>4. state[u] = "READY" /\ u \notin Members(ready) /\ u # Idle
  BY <1>0, <1>1, <1>3, EventFacts DEF CreationOK
<1>5. ready' = Scheduled(ready, u)
  BY <1>3, <1>4, EventFacts DEF RescheduleNew, Reschedule
<1>6. /\ UNCHANGED <<current, state, waiting>>
      /\ pc' = [pc EXCEPT ![t] = "run"] /\ arg' = [arg EXCEPT ![t] = Join(t)]
  BY DEF RescheduleNew, Goto
<1>7. Members(ready') = Members(ready) \cup {u} /\ NoDuplicates(ready')
  <2>1. ready \in Seq(Task) /\ NoDuplicates(ready) /\ \A v \in Task : Prio[v] \in Int
    BY <1>0, PrioType DEF TypeOK, Thread, NodesOK, ReadyListOK
  <2> QED  BY <1>4, <1>5, <2>1, ScheduledProperties
<1>8. /\ \A v \in Task : v # t => pc'[v] = pc[v] /\ arg'[v] = arg[v]
      /\ pc'[t] = "run" /\ arg'[t] = Join(t)
  BY <1>0, <1>6 DEF TypeOK
<1>9. NodesOK' /\ CurrentOK'
  BY <1>0, <1>2, <1>4, <1>6, <1>7 DEF NodesOK, ReadyListOK, WaitingListsOK, CurrentOK
<1>10. WaitersOK'
  BY <1>0, <1>2, <1>6, <1>8 DEF WaitersOK, TypeOK, Members
<1>11. CallersOK'
  BY <1>0, <1>6, <1>8, EventFacts, EventKinds DEF CallersOK, About
<1>12. CreatorOK' /\ CreationOK'
  BY <1>0, <1>2, <1>6, <1>8 DEF CreatorOK, CreationOK
<1> QED  BY <1>9, <1>10, <1>11, <1>12 DEF SafeOK

(* A task blocks: it is active, and so in no list.                         *)
LEMMA SafeBlocks ==
  ASSUME TypeInv, SafeOK, NEW t \in Task, WaitBlocks(t)
  PROVE  SafeOK'
<1> USE DEF lists, calls
<1>0. TypeOK /\ NodesOK /\ WaitersOK /\ CallersOK /\ CreationOK /\ CreatorOK /\ CurrentOK
  BY DEF TypeInv, SafeOK
<1>1. Runs(t) /\ pc[t] = "wait" /\ arg[t] \in Event
  BY <1>0 DEF WaitBlocks, At, TypeOK
<1>2. current = t
  BY <1>1 DEF Runs
<1>3. CASE Fail("Invalid Transition") \/ Fail("Node not initialized")
  BY <1>3, SafeStutters DEF Fail
<1>4. CASE ~(Fail("Invalid Transition") \/ Fail("Node not initialized"))
  <2>1. /\ state' = [state EXCEPT ![t] = Transition(state[t], "WAIT")]
        /\ waiting' = [waiting EXCEPT ![arg[t]] = Append(@, t)]
        /\ pendSV' = TRUE
        /\ pc' = [pc EXCEPT ![t] = "clear"] /\ arg' = [arg EXCEPT ![t] = arg[t]]
        /\ UNCHANGED <<current, ready>>
        /\ CanMove(state[t], "WAIT")
    BY <1>4 DEF WaitBlocks, Goto
  <2>2. state[t] = "ACTIVE" /\ Transition(state[t], "WAIT") = "WAIT"
    BY <2>1 DEF CanMove, Transition, Invalid
  <2>3. /\ \A v \in Task : v # t => pc'[v] = pc[v] /\ state'[v] = state[v]
        /\ pc'[t] = "clear" /\ state'[t] = "WAIT" /\ arg' = arg
    BY <1>0, <2>1, <2>2, EventFacts DEF TypeOK
  <2>4. /\ waiting'[arg[t]] = Append(waiting[arg[t]], t)
        /\ \A e \in Event : e # arg[t] => waiting'[e] = waiting[e]
    BY <1>0, <1>1, <2>1 DEF TypeOK
  <2>5. t \notin Members(ready) /\ \A e \in Event : t \notin Members(waiting[e])
    BY <1>0, <2>2 DEF NodesOK, ReadyListOK, WaitingListsOK
  <2>6. /\ Members(waiting'[arg[t]]) = Members(waiting[arg[t]]) \cup {t}
        /\ NoDuplicates(waiting'[arg[t]])
    <3>1. waiting[arg[t]] \in Seq(Task) /\ NoDuplicates(waiting[arg[t]])
      BY <1>0, <1>1 DEF TypeOK, NodesOK, WaitingListsOK
    <3> QED  BY <1>1, <2>4, <2>5, <3>1, AppendListProperties
  <2>7. Members(ready) \subseteq Task /\ \A e \in Event : Members(waiting[e]) \subseteq Task
    BY <1>0 DEF TypeOK, Members
  <2>8. ReadyListOK'
    BY <1>0, <2>1, <2>3, <2>5, <2>7 DEF NodesOK, ReadyListOK
  <2>9. WaitingListsOK'
    <3> DEFINE In(v, e)  == v \in Members(waiting[e])
               InP(v, e) == v \in Members(waiting'[e])
    <3>1. \A e \in Event : \A v : InP(v, e) <=> In(v, e) \/ (v = t /\ e = arg[t])
      BY <2>4, <2>6
    <3>2. \A e \in Event : NoDuplicates(waiting'[e])
      BY <1>0, <2>4, <2>6 DEF NodesOK, WaitingListsOK
    <3>3. \A e, f \in Event : e # f => \A v : ~(In(v, e) /\ In(v, f))
      BY <1>0 DEF NodesOK, WaitingListsOK
    <3>4. \A e, f \in Event : e # f => \A v : ~(InP(v, e) /\ InP(v, f))
      BY <2>5, <3>1, <3>3
    <3>5. ASSUME NEW e \in Event, NEW v, InP(v, e) PROVE state'[v] = "WAIT"
      <4>1. CASE v = t
        BY <2>3, <4>1
      <4>2. CASE v # t
        <5>1. In(v, e)
          BY <3>1, <3>5, <4>2
        <5>2. v \in Task /\ state[v] = "WAIT"
          BY <1>0, <2>7, <5>1 DEF NodesOK, WaitingListsOK
        <5> QED  BY <2>3, <4>2, <5>2
      <4> QED  BY <4>1, <4>2
    <3>6. ASSUME NEW v \in Task, state'[v] = "WAIT" PROVE \E e \in Event : InP(v, e)
      <4>1. CASE v = t
        BY <1>1, <3>1, <4>1
      <4>2. CASE v # t
        <5>1. \E e \in Event : In(v, e)
          BY <1>0, <2>3, <3>6, <4>2 DEF NodesOK, WaitingListsOK
        <5> QED  BY <3>1, <5>1
      <4> QED  BY <4>1, <4>2
    <3> HIDE DEF In, InP
    <3>7. \A e, f \in Event : e # f => Members(waiting'[e]) \cap Members(waiting'[f]) = {}
      BY <3>4 DEF InP
    <3> QED  BY <3>2, <3>5, <3>6, <3>7 DEF WaitingListsOK, InP
  <2>10. WaitersOK'
    <3>1. \A e \in Event : \A v \in Members(waiting'[e]) :
            v \in Members(waiting[e]) \/ (v = t /\ e = arg[t])
      BY <2>4, <2>6
    <3> QED  BY <1>0, <2>3, <2>7, <3>1 DEF WaitersOK
  <2>11. CurrentOK'
    BY <1>2, <2>1, <2>3 DEF CurrentOK
  <2>12. CallersOK'
    BY <1>0, <1>1, <2>2, <2>3 DEF CallersOK, About
  <2>13. CreatorOK' /\ CreationOK'
    BY <1>0, <1>1, <1>2, <2>1, <2>3 DEF CreatorOK, CreationOK
  <2> QED  BY <2>8, <2>9, <2>10, <2>11, <2>12, <2>13 DEF SafeOK, NodesOK
<1> QED  BY <1>3, <1>4

(* task_free of a task of no list, whether it has ended or not.            *)
LEMMA SafeFrees ==
  ASSUME TypeInv, SafeOK, NEW t \in Task, FreeTask(t)
  PROVE  SafeOK'
<1> USE DEF lists, calls
<1>0. /\ TypeOK /\ CallsOK /\ NodesOK /\ WaitersOK /\ CallersOK /\ CreationOK /\ CreatorOK
      /\ CurrentOK
  BY DEF TypeInv, SafeOK
<1>1. Runs(t) /\ pc[t] = "free"
  BY DEF FreeTask, At
<1>2. /\ current = t /\ ~pendSV /\ state[t] \notin {"WAIT", "FREE"}
      /\ \A e \in Event : t \notin Members(waiting[e])
  BY <1>0, <1>1, SafeRunner
<1>3. CASE \E why \in Failure : Fail(why)
  BY <1>3, SafeStutters DEF Fail
<1>4. CASE ~ \E why \in Failure : Fail(why)
  <2>1. PICK u \in Task : arg[t] = Join(u)
    BY <1>0, <1>1 DEF CallsOK
  <2>2. arg[t].task = u /\ About(t, u) /\ u # t
    BY <1>0, <1>1, <2>1, EventFacts DEF CallersOK, About
  <2>3. /\ state' = [state EXCEPT ![u] = "FREE"]
        /\ pc' = [pc EXCEPT ![t] = "run", ![u] = "run"]
        /\ arg' = [arg EXCEPT ![t] = Join(t), ![u] = Join(u)]
        /\ UNCHANGED <<current, ready, waiting, pendSV>>
        /\ ~InSomeList(u)
    BY <1>4, <2>2 DEF FreeTask, Failure
  <2>4. /\ \A v \in Task : v # t /\ v # u => pc'[v] = pc[v] /\ arg'[v] = arg[v]
        /\ pc'[t] = "run" /\ pc'[u] = "run" /\ arg'[t] = Join(t) /\ arg'[u] = Join(u)
    BY <1>0, <2>2, <2>3 DEF TypeOK
  <2>5. state'[u] = "FREE" /\ \A v \in Task : v # u => state'[v] = state[v]
    BY <1>0, <2>3, EventFacts DEF TypeOK
  <2>6. Members(ready) \subseteq Task /\ \A e \in Event : Members(waiting[e]) \subseteq Task
    BY <1>0 DEF TypeOK, Members
  <2>7. u \notin Members(ready) /\ \A e \in Event : u \notin Members(waiting[e])
    BY <2>3 DEF InSomeList
  <2>8. NodesOK'
    BY <1>0, <2>3, <2>5, <2>6, <2>7 DEF NodesOK, ReadyListOK, WaitingListsOK
  <2>9. WaitersOK'
    <3>1. \A e \in Event : \A v \in Members(waiting[e]) : v \in Task /\ v # t /\ v # u
      BY <1>2, <2>6, <2>7
    <3> QED  BY <1>0, <2>3, <2>4, <3>1 DEF WaitersOK
  <2>10. CurrentOK'
    BY <1>2, <2>2, <2>3, <2>5 DEF CurrentOK
  <2>11. CallersOK'
    <3>1. \A v, w \in Task : About(v, w)' => About(v, w) /\ v # t
      BY <2>4 DEF About
    <3>2. \A v, w \in Task : About(v, w)' => w # u
      BY <1>0, <2>2, <3>1 DEF CallersOK
    <3>3. \A v, w \in Task : arg'[v] = Delay(w) => v = w
      BY <1>0, <2>4, EventFacts, EventKinds DEF CallersOK
    <3> QED  BY <1>0, <2>5, <3>1, <3>2, <3>3 DEF CallersOK
  <2>12. CreatorOK' /\ CreationOK'
    BY <1>0, <1>1, <1>2, <2>3, <2>4 DEF CreatorOK, CreationOK
  <2> QED  BY <2>8, <2>9, <2>10, <2>11, <2>12 DEF SafeOK
<1> QED  BY <1>3, <1>4

(* The service the shell asks for finds no task that is being created: the *)
(* shell is the current task, and it creates none.                         *)
LEMMA ShellServes ==
  ASSUME TypeInv, SafeOK, NEW t \in Task, Runs(t), pc[t] \in {"start", "stop"},
         current' = current, NEW u \in Thread, NEW s, s \notin {"WAIT", "FREE"},
         state' = [state EXCEPT ![u] = s],
         pc' = [pc EXCEPT ![t] = "run"], arg' = [arg EXCEPT ![t] = Join(t)]
  PROVE  /\ CallersOK' /\ CreatorOK' /\ CreationOK' /\ CurrentOK'
         /\ \A v \in Task : v # t => pc'[v] = pc[v] /\ arg'[v] = arg[v]
<1>0. /\ TypeOK /\ CallersOK /\ CreatorOK
      /\ current = t /\ state[t] \notin {"WAIT", "FREE"}
  BY SafeRunner DEF TypeInv, SafeOK
<1>1. /\ \A v \in Task : v # t => pc'[v] = pc[v] /\ arg'[v] = arg[v]
      /\ pc'[t] = "run" /\ arg'[t] = Join(t)
  BY <1>0 DEF TypeOK
<1>2. \A v \in Task : state'[v] = IF v = u THEN s ELSE state[v]
  BY <1>0, EventFacts DEF TypeOK
<1>3. \A v, w \in Task : About(v, w)' => About(v, w)
  BY <1>1 DEF About
<1>4. CallersOK'
  BY <1>0, <1>1, <1>2, <1>3, EventFacts, EventKinds DEF CallersOK
<1>5. CreatorOK' /\ CreationOK'
  BY <1>0, <1>1 DEF CreatorOK, CreationOK
<1>6. CurrentOK'
  BY <1>0, <1>2 DEF CurrentOK
<1> QED  BY <1>1, <1>4, <1>5, <1>6

LEMMA SafeStarts ==
  ASSUME TypeInv, SafeOK, NEW t \in Task, StartTask(t)
  PROVE  SafeOK'
<1> USE DEF lists, calls
<1> DEFINE u == arg[t].task
<1>0. TypeOK /\ CallsOK /\ NodesOK /\ WaitersOK
  BY DEF TypeInv, SafeOK
<1>1. Runs(t) /\ pc[t] = "start"
  BY DEF StartTask, At
<1>2. u \in Thread
  BY <1>0, <1>1, EventFacts DEF CallsOK
<1>3. CASE \E why \in Failure : Fail(why)
  BY <1>3, SafeStutters DEF Fail
<1>4. CASE ~ \E why \in Failure : Fail(why)
  <2> DEFINE st == [state EXCEPT ![u] = Transition(state[u], "START")]
  <2>1. /\ CanMove(state[u], "START") /\ state' = st /\ Reschedule(u, st)
        /\ pc' = [pc EXCEPT ![t] = "run"] /\ arg' = [arg EXCEPT ![t] = Join(t)]
        /\ UNCHANGED <<current, waiting>>
    BY <1>4 DEF StartTask, Failure, Goto
  <2>2. state[u] = "INACTIVE" /\ Transition(state[u], "START") = "READY"
    BY <2>1 DEF CanMove, Transition, Invalid
  <2> HIDE DEF u
  <2>3. /\ st[u] = "READY" /\ state'[u] = "READY"
        /\ \A v \in Task : v # u => state'[v] = state[v]
    BY <1>0, <1>2, <2>1, <2>2, EventFacts DEF TypeOK
  <2>4. u \notin Members(ready) /\ \A e \in Event : u \notin Members(waiting[e])
    BY <1>0, <2>2 DEF NodesOK, ReadyListOK, WaitingListsOK
  <2>5. CallersOK' /\ CreatorOK' /\ CreationOK' /\ CurrentOK'
        /\ \A v \in Task : v # t => pc'[v] = pc[v] /\ arg'[v] = arg[v]
    BY <1>1, <1>2, <2>1, <2>2, ShellServes
  <2>6. /\ Members(ready') \subseteq Members(ready) \cup {u} /\ NoDuplicates(ready')
    <3>1. ready \in Seq(Task) /\ NoDuplicates(ready) /\ \A v \in Task : Prio[v] \in Int
      BY <1>0, PrioType DEF TypeOK, Thread, NodesOK, ReadyListOK
    <3>2. CASE u = Idle
      BY <2>1, <3>1, <3>2 DEF Reschedule
    <3>3. CASE u # Idle
      <4>1. u \in Task /\ ready' = Scheduled(ready, u)
        BY <1>2, <2>1, <2>3, <3>3 DEF Reschedule, Thread
      <4> QED  BY <2>4, <3>1, <4>1, ScheduledProperties
    <3> QED  BY <3>2, <3>3
  <2>7. Members(ready) \subseteq Task /\ \A e \in Event : Members(waiting[e]) \subseteq Task
    BY <1>0 DEF TypeOK, Members
  <2>8. ReadyListOK'
    BY <1>0, <2>3, <2>6, <2>7 DEF NodesOK, ReadyListOK
  <2>9. WaitingListsOK'
    BY <1>0, <2>1, <2>3, <2>4, <2>7 DEF NodesOK, WaitingListsOK
  <2>10. WaitersOK'
    <3>1. \A e \in Event : t \notin Members(waiting[e])
      BY <1>0, <1>1, SafeRunner
    <3> QED  BY <1>0, <2>1, <2>5, <2>7, <3>1 DEF WaitersOK
  <2> QED  BY <2>5, <2>8, <2>9, <2>10 DEF SafeOK, NodesOK
<1> QED  BY <1>3, <1>4

LEMMA SafeStops ==
  ASSUME TypeInv, SafeOK, NEW t \in Task, StopTask(t)
  PROVE  SafeOK'
<1> USE DEF lists, calls
<1> DEFINE u == arg[t].task
<1>0. TypeOK /\ CallsOK /\ NodesOK /\ WaitersOK
  BY DEF TypeInv, SafeOK
<1>1. Runs(t) /\ pc[t] = "stop"
  BY DEF StopTask, At
<1>2. u \in Thread
  BY <1>0, <1>1, EventFacts DEF CallsOK
<1>3. CASE \E why \in Failure : Fail(why)
  BY <1>3, SafeStutters DEF Fail
<1>4. CASE ~ \E why \in Failure : Fail(why)
  <2>1. /\ CanMove(state[u], "STOP")
        /\ ready' = Unlinked(ready, u)
        /\ waiting' = [e \in Event |-> Unlinked(waiting[e], u)]
        /\ state' = [state EXCEPT ![u] = Transition(state[u], "STOP")]
        /\ pc' = [pc EXCEPT ![t] = "run"] /\ arg' = [arg EXCEPT ![t] = Join(t)]
        /\ current' = current
    BY <1>4 DEF StopTask, Failure, Goto
  <2>2. Transition(state[u], "STOP") = "INACTIVE"
    BY <2>1 DEF CanMove, Transition, Invalid
  <2> HIDE DEF u
  <2>3. state'[u] = "INACTIVE" /\ \A v \in Task : v # u => state'[v] = state[v]
    BY <1>0, <1>2, <2>1, <2>2, EventFacts DEF TypeOK
  <2>4. CallersOK' /\ CreatorOK' /\ CreationOK' /\ CurrentOK'
        /\ \A v \in Task : v # t => pc'[v] = pc[v] /\ arg'[v] = arg[v]
    BY <1>1, <1>2, <2>1, <2>2, ShellServes
  <2>5. /\ Members(ready') \subseteq Members(ready) \ {u} /\ NoDuplicates(ready')
    <3>1. ready \in Seq(Task) /\ NoDuplicates(ready)
      BY <1>0 DEF TypeOK, NodesOK, ReadyListOK
    <3> QED  BY <2>1, <3>1, UnlinkedProperties
  <2>6. \A e \in Event : /\ Members(waiting'[e]) = Members(waiting[e]) \ {u}
                         /\ NoDuplicates(waiting'[e])
    <3> SUFFICES ASSUME NEW e \in Event
                 PROVE  /\ Members(waiting'[e]) = Members(waiting[e]) \ {u}
                        /\ NoDuplicates(waiting'[e])
      OBVIOUS
    <3>1. waiting[e] \in Seq(Task) /\ NoDuplicates(waiting[e])
      BY <1>0 DEF TypeOK, NodesOK, WaitingListsOK
    <3>2. waiting'[e] = Unlinked(waiting[e], u)
      BY <2>1
    <3> QED  BY <3>1, <3>2, UnlinkedProperties
  <2>7. Members(ready) \subseteq Task /\ \A e \in Event : Members(waiting[e]) \subseteq Task
    BY <1>0 DEF TypeOK, Members
  <2>8. ReadyListOK'
    BY <1>0, <2>3, <2>5, <2>7 DEF NodesOK, ReadyListOK
  <2>9. WaitingListsOK'
    <3>1. \A e \in Event : \A v \in Members(waiting'[e]) : state'[v] = "WAIT"
      BY <1>0, <2>3, <2>6, <2>7 DEF NodesOK, WaitingListsOK
    <3>2. \A v \in Task : state'[v] = "WAIT" => \E e \in Event : v \in Members(waiting'[e])
      BY <1>0, <2>3, <2>6 DEF NodesOK, WaitingListsOK
    <3>3. \A e, f \in Event : e # f => Members(waiting'[e]) \cap Members(waiting'[f]) = {}
      BY <1>0, <2>6 DEF NodesOK, WaitingListsOK
    <3> QED  BY <2>6, <3>1, <3>2, <3>3 DEF WaitingListsOK
  <2>10. WaitersOK'
    <3>1. \A e \in Event : t \notin Members(waiting[e])
      BY <1>0, <1>1, SafeRunner
    <3> QED  BY <1>0, <2>4, <2>6, <2>7, <3>1 DEF WaitersOK
  <2> QED  BY <2>4, <2>8, <2>9, <2>10 DEF SafeOK, NodesOK
<1> QED  BY <1>3, <1>4

LEMMA SafeContinues ==
  ASSUME TypeInv, SafeOK, NEW t \in Task, ContinuesCall(t)
  PROVE  SafeOK'
<1> USE DEF lists, calls
<1>0. TypeOK /\ CallsOK /\ CallersOK
  BY DEF TypeInv, SafeOK
<1>1. CASE RescheduleNew(t) \/ WaitBlocks(t) \/ FreeTask(t) \/ StartTask(t) \/ StopTask(t)
  BY <1>1, SafeReschedules, SafeBlocks, SafeFrees, SafeStarts, SafeStops
<1>2. CASE RegisterEvent(t) \/ WaitSignalled(t) \/ ClearSignal(t) \/ DestroyTimer(t)
  <2>1. /\ arg[t] \in Event
        /\ AfterWait(arg[t]) \in {"run", "destroy", "free"}
    BY <1>0, EventFacts DEF AfterWait, TypeOK
  <2>2. PICK p \in Place \ {"resched"} :
          /\ Runs(t) /\ pc[t] \in {"add", "wait", "clear", "destroy"}
          /\ p \in {"add", "wait", "clear", "free"} => pc[t] # "destroy"
          /\ pc' = [pc EXCEPT ![t] = p] /\ arg' = [arg EXCEPT ![t] = arg[t]]
          /\ UNCHANGED <<current, state, ready, waiting, pendSV>>
    BY <1>2, <2>1
       DEF RegisterEvent, WaitSignalled, ClearSignal, DestroyTimer, At, Goto, Place
  <2>3. pc'[t] = p /\ arg'[t] = arg[t]
    BY <1>0, <2>2 DEF TypeOK
  <2>4. \A u \in Task : About(t, u)' => About(t, u)
    BY <2>2, <2>3 DEF About
  <2>5. \A u \in Task : /\ arg[t] = Delay(u) => t = u
                        /\ About(t, u)' =>
                             t # u /\ state[u] # "FREE" /\ \A v \in Task : About(v, u) => v = t
    BY <1>0, <2>4 DEF CallersOK
  <2> QED  BY <2>2, <2>5, SafeGoes
<1>3. CASE UnregisterEvent(t)
  <2>1. /\ Runs(t) /\ pc' = [pc EXCEPT ![t] = "run"] /\ arg' = [arg EXCEPT ![t] = Join(t)]
        /\ UNCHANGED <<current, state, ready, waiting, pendSV>>
    BY <1>3 DEF UnregisterEvent, At, Goto
  <2>2. pc'[t] = "run"
    BY <1>0, <2>1 DEF TypeOK
  <2>3. \A u \in Task : Join(t) # Delay(u) /\ ~About(t, u)'
    BY <2>2, EventFacts, EventKinds DEF About
  <2> QED  BY <2>1, <2>3, SafeGoes DEF Place
<1> QED  BY <1>1, <1>2, <1>3 DEF ContinuesCall

(* event_notify_irq releases the first waiter.                             *)
LEMMA SafeReleases ==
  ASSUME TypeInv, SafeOK, ReleaseWaiter
  PROVE  SafeOK'
<1> USE DEF lists, calls
<1>0. TypeOK /\ NodesOK /\ WaitersOK /\ CallersOK /\ CreationOK /\ CreatorOK /\ CurrentOK
  BY DEF TypeInv, SafeOK
<1>1. CASE Fail("Waiter not waiting")
  BY <1>1, SafeStutters DEF Fail
<1>2. CASE ~Fail("Waiter not waiting")
  <2> DEFINE e  == draining
             u  == Head(waiting[draining])
             st == [state EXCEPT ![u] = Transition(state[u], "NOTIFY")]
  <2>1. /\ e \in Event /\ waiting[e] # << >> /\ waiting[e] \in Seq(Task)
        /\ state[u] = "WAIT" /\ waiting' = [waiting EXCEPT ![e] = Tail(waiting[e])]
        /\ state' = st /\ Reschedule(u, st)
        /\ UNCHANGED <<current, pc, arg>>
    BY <1>0, <1>2 DEF ReleaseWaiter, HeadReleased, TypeOK
  <2>2. /\ u \in Task /\ Members(waiting[e]) = Members(Tail(waiting[e])) \cup {u}
        /\ NoDuplicates(Tail(waiting[e])) /\ u \notin Members(Tail(waiting[e]))
    <3>1. NoDuplicates(waiting[e])
      BY <1>0, <2>1 DEF NodesOK, WaitingListsOK
    <3> QED  BY <2>1, <3>1, TailListProperties
  <2>3. Transition(state[u], "NOTIFY") = "READY"
    BY <2>1 DEF Transition
  <2> HIDE DEF u
  <2>4. u \in Thread /\ u # Idle
    BY <2>2, EventFacts
  <2>5. /\ state'[u] = "READY" /\ st[u] = "READY"
        /\ \A v \in Task : v # u => state'[v] = state[v]
    BY <1>0, <2>1, <2>3, <2>4, EventFacts DEF TypeOK
  <2>6. ready' = Scheduled(ready, u) /\ (pendSV => pendSV')
    BY <2>1, <2>4, <2>5 DEF Reschedule
  <2>7. u \notin Members(ready)
    BY <1>0, <2>1 DEF NodesOK, ReadyListOK
  <2>8. Members(ready') = Members(ready) \cup {u} /\ NoDuplicates(ready')
    <3>1. ready \in Seq(Task) /\ NoDuplicates(ready) /\ \A v \in Task : Prio[v] \in Int
      BY <1>0, PrioType DEF TypeOK, Thread, NodesOK, ReadyListOK
    <3> QED  BY <2>2, <2>6, <2>7, <3>1, ScheduledProperties
  <2> HIDE DEF e
  <2>9. /\ \A f \in Event : Members(waiting'[f]) = Members(waiting[f]) \ {u}
        /\ \A f \in Event : NoDuplicates(waiting'[f])
    <3> SUFFICES ASSUME NEW f \in Event
                 PROVE  Members(waiting'[f]) = Members(waiting[f]) \ {u} /\ NoDuplicates(waiting'[f])
      OBVIOUS
    <3>1. u \in Members(waiting[e]) /\ DOMAIN waiting = Event
      BY <1>0, <2>2 DEF TypeOK
    <3>2. CASE f = e
      BY <2>1, <2>2, <3>1, <3>2
    <3>3. CASE f # e
      <4>1. u \notin Members(waiting[f]) /\ NoDuplicates(waiting[f])
        BY <1>0, <2>1, <3>1, <3>3 DEF NodesOK, WaitingListsOK
      <4> QED  BY <2>1, <3>1, <3>3, <4>1
    <3> QED  BY <3>2, <3>3
  <2>10. Members(ready) \subseteq Task /\ \A f \in Event : Members(waiting[f]) \subseteq Task
    BY <1>0 DEF TypeOK, Members
  <2>11. ReadyListOK'
    BY <1>0, <2>5, <2>8, <2>10 DEF NodesOK, ReadyListOK
  <2>12. WaitingListsOK'
    <3>1. \A f \in Event : \A v \in Members(waiting'[f]) : state'[v] = "WAIT"
      BY <1>0, <2>5, <2>9, <2>10 DEF NodesOK, WaitingListsOK
    <3>2. \A v \in Task : state'[v] = "WAIT" => \E f \in Event : v \in Members(waiting'[f])
      BY <1>0, <2>5, <2>9 DEF NodesOK, WaitingListsOK
    <3>3. \A f, g \in Event : f # g => Members(waiting'[f]) \cap Members(waiting'[g]) = {}
      BY <1>0, <2>9 DEF NodesOK, WaitingListsOK
    <3> QED  BY <2>9, <3>1, <3>2, <3>3 DEF WaitingListsOK
  <2>13. WaitersOK'
    BY <1>0, <2>1, <2>9 DEF WaitersOK
  <2>14. CurrentOK'
    BY <1>0, <2>1, <2>5, <2>6 DEF CurrentOK
  <2>15. CallersOK' /\ CreatorOK'
    BY <1>0, <2>1, <2>5 DEF CallersOK, CreatorOK, About
  <2>16. CreationOK'
    BY <1>0, <2>1, <2>5, <2>8 DEF CreationOK
  <2> QED
    BY <2>11, <2>12, <2>13, <2>14, <2>15, <2>16 DEF SafeOK, NodesOK
<1> QED  BY <1>1, <1>2

LEMMA SafeExits ==
  ASSUME TypeInv, SafeOK, ExitTask
  PROVE  SafeOK'
<1> USE DEF lists, calls
<1>0. TypeOK /\ NodesOK /\ WaitersOK /\ CallersOK /\ CreationOK /\ CreatorOK
  BY DEF TypeInv, SafeOK
<1>1. CASE Fail("Invalid Transition")
  BY <1>1, SafeStutters DEF Fail
<1>2. CASE ~Fail("Invalid Transition")
  <2> DEFINE c == current
  <2>1. /\ CanMove(state[c], "EXIT")
        /\ state' = [state EXCEPT ![c] = Transition(state[c], "EXIT")]
        /\ pendSV'
        /\ UNCHANGED <<current, ready, waiting, pc, arg>>
    BY <1>2 DEF ExitTask
  <2>2. state[c] = "ACTIVE" /\ Transition(state[c], "EXIT") = "END"
    BY <2>1 DEF CanMove, Transition, Invalid
  <2>3. c \in Thread
    BY <1>0 DEF TypeOK
  <2> HIDE DEF c
  <2>4. state'[c] = "END" /\ \A v \in Task : v # c => state'[v] = state[v]
    BY <1>0, <2>1, <2>2, <2>3, EventFacts DEF TypeOK
  <2>5. c \notin Members(ready) /\ \A e \in Event : c \notin Members(waiting[e])
    BY <1>0, <2>2 DEF NodesOK, ReadyListOK, WaitingListsOK
  <2>6. Members(ready) \subseteq Task /\ \A e \in Event : Members(waiting[e]) \subseteq Task
    BY <1>0 DEF TypeOK, Members
  <2>7. NodesOK'
    BY <1>0, <2>1, <2>4, <2>5, <2>6 DEF NodesOK, ReadyListOK, WaitingListsOK
  <2>8. WaitersOK' /\ CreatorOK'
    BY <1>0, <2>1 DEF WaitersOK, CreatorOK
  <2>9. CallersOK'
    BY <1>0, <2>1, <2>4 DEF CallersOK, About
  <2>10. CreationOK' /\ CurrentOK'
    <3>1. \A t, u \in Task : pc[t] = "resched" /\ arg[t] = Join(u) => u # c
      BY <1>0 DEF CreationOK, c
    <3>2. current' = c
      BY <2>1 DEF c
    <3> QED  BY <1>0, <2>1, <2>4, <3>1, <3>2 DEF CreationOK, CurrentOK
  <2> QED  BY <2>7, <2>8, <2>9, <2>10 DEF SafeOK
<1> QED  BY <1>1, <1>2

(* A switch that passes the check of every task of the table.              *)
LEMMA SafeSwitches ==
  ASSUME TypeInv, SafeOK, PendSV
  PROVE  TableOverflowed' \/ SafeOK'
<1> USE DEF lists, calls
<1>0. TypeOK /\ CallsOK /\ NodesOK /\ WaitersOK /\ CallersOK /\ CreationOK
  BY DEF TypeInv, SafeOK
<1>1. CASE Fail("Invalid Transition") \/ Fail("Invalid task")
  BY <1>1, SafeStutters DEF Fail
<1>2. CASE ~(Fail("Invalid Transition") \/ Fail("Invalid task"))
  <2> SUFFICES ASSUME ~TableOverflowed' PROVE SafeOK'
    OBVIOUS
  <2>1. PICK next \in {IF Queue = << >> THEN Idle ELSE Head(Queue)},
             rest \in {IF Queue = << >> THEN << >> ELSE Tail(Queue)},
             parked \in {[state EXCEPT ![current] = Left]} :
          /\ Left # Invalid
          /\ CanMove(parked[next], "CONTEXT_SWITCH")
          /\ current' = next
          /\ state' = [parked EXCEPT ![next] = Transition(parked[next], "CONTEXT_SWITCH")]
          /\ ready' = rest
          /\ UNCHANGED <<waiting, tcb, pc, arg>>
    BY <1>2, PendSVCases
  <2>2. current \in Thread /\ Queue \in Seq(Task) /\ state \in [Thread -> TaskState \cup {"FREE"}]
    BY <1>0, QueueType DEF TypeOK
  <2>3. next \in Thread
    <3>1. CASE Queue = << >>
      BY <2>1, <3>1 DEF Thread
    <3>2. CASE Queue # << >>
      BY <2>1, <2>2, <3>2, TailListProperties DEF Thread
    <3> QED  BY <3>1, <3>2
  <2>4. \A v \in Thread : parked[v] = IF v = current THEN Left ELSE state[v]
    BY <2>1, <2>2
  <2>5. \A v \in Thread :
          state'[v] = IF v = next THEN Transition(parked[v], "CONTEXT_SWITCH") ELSE parked[v]
    BY <2>1, <2>2, <2>3
  <2>6. \A v \in Thread : /\ parked[v] = "WAIT" <=> state[v] = "WAIT"
                          /\ parked[v] = "FREE" <=> state[v] = "FREE"
    BY <2>1, <2>4, SwitchTransition DEF Left
  <2>7. \A v \in Thread : /\ state'[v] = "WAIT" <=> state[v] = "WAIT"
                          /\ state'[v] = "FREE" <=> state[v] = "FREE"
    <3>1. \A v \in Thread :
            v = next => Transition(parked[v], "CONTEXT_SWITCH") # Invalid
      BY <2>1 DEF CanMove
    <3>2. \A v \in Thread : /\ state'[v] = "WAIT" <=> parked[v] = "WAIT"
                            /\ state'[v] = "FREE" <=> parked[v] = "FREE"
      BY <2>5, <3>1, SwitchTransition
    <3> QED  BY <2>6, <3>2
  <2>8. \A v \in Task : state'[v] # "FREE" =>
          CASE state'[v] = "ACTIVE" -> v = next /\ v \notin Members(rest)
            [] state'[v] = "READY"  -> v # next /\ v \in Members(rest)
            [] state'[v] = "WAIT"   -> v # next /\ v \notin Members(rest)
            [] OTHER                -> v # next /\ v \notin Members(rest)
    BY <1>2, <2>1, PendSVChecks DEF TableOverflowed, ValidTask
  <2>9. Members(Queue) \subseteq Members(ready) \cup {current} /\ NoDuplicates(Queue)
    <3>1. ready \in Seq(Task) /\ NoDuplicates(ready) /\ \A v \in Task : Prio[v] \in Int
      BY <1>0, PrioType DEF TypeOK, Thread, NodesOK, ReadyListOK
    <3>2. CASE Left = "READY" /\ current # Idle
      <4>1. current \in Task /\ state[current] = "ACTIVE"
        BY <2>2, <3>2, SwitchTransition DEF Thread, Left, Invalid
      <4>2. current \notin Members(ready)
        BY <1>0, <4>1 DEF NodesOK, ReadyListOK
      <4> QED  BY <3>1, <3>2, <4>1, <4>2, ScheduledProperties DEF Queue
    <3>3. CASE ~(Left = "READY" /\ current # Idle)
      BY <3>1, <3>3 DEF Queue
    <3> QED  BY <3>2, <3>3
  <2>10. /\ Members(rest) \subseteq Members(Queue) /\ NoDuplicates(rest)
         /\ next # Idle => next \in Members(Queue)
    <3>1. CASE Queue = << >>
      <4>1. rest = Queue /\ next = Idle
        BY <2>1, <3>1
      <4> QED  BY <2>9, <4>1
    <3>2. CASE Queue # << >>
      <4>1. next = Head(Queue) /\ rest = Tail(Queue)
        BY <2>1, <3>2
      <4>2. /\ Head(Queue) \in Members(Queue)
            /\ Members(Queue) = Members(Tail(Queue)) \cup {Head(Queue)}
            /\ NoDuplicates(Tail(Queue))
        BY <2>2, <2>9, <3>2, TailListProperties
      <4> QED  BY <4>1, <4>2
    <3> QED  BY <3>1, <3>2
  <2>11. Members(Queue) \subseteq Task /\ \A e \in Event : Members(waiting[e]) \subseteq Task
    BY <1>0, <2>2 DEF TypeOK, Members
  <2>12. ReadyListOK'
    <3> SUFFICES ASSUME NEW v \in Members(rest) PROVE state'[v] = "READY"
      BY <2>1, <2>10 DEF ReadyListOK
    <3>1. v \in Task /\ v \in Members(Queue)
      BY <2>10, <2>11
    <3>2. state[v] # "FREE"
      <4>1. CASE v \in Members(ready)
        BY <1>0, <4>1 DEF NodesOK, ReadyListOK
      <4>2. CASE v = current
        BY <2>1, <4>2, SwitchTransition DEF Left
      <4> QED  BY <2>9, <3>1, <4>1, <4>2
    <3> QED  BY <2>7, <2>8, <3>1, <3>2, EventFacts
  <2>13. WaitingListsOK'
    <3>1. \A e \in Event : \A v \in Members(waiting[e]) : state'[v] = "WAIT"
      BY <1>0, <2>7, <2>11, EventFacts DEF NodesOK, WaitingListsOK
    <3>2. \A v \in Task : state'[v] = "WAIT" => \E e \in Event : v \in Members(waiting[e])
      BY <1>0, <2>7, EventFacts DEF NodesOK, WaitingListsOK
    <3> QED  BY <1>0, <2>1, <3>1, <3>2 DEF NodesOK, WaitingListsOK
  <2>14. WaitersOK' /\ CallersOK'
    BY <1>0, <2>1, <2>7, EventFacts DEF WaitersOK, CallersOK, About
  <2>15. CurrentOK'
    <3> SUFFICES ASSUME next \in Task PROVE state'[next] = "ACTIVE"
      BY <2>1 DEF CurrentOK
    <3>1. state'[next] # "FREE"
      BY <2>1, <2>3, <2>5, SwitchTransition DEF CanMove
    <3> QED  BY <2>8, <3>1
  <2>16. ASSUME NEW t \in Task, pc[t] = "resched" PROVE FALSE
    <3>1. PICK u \in Task : arg[t] = Join(u)
      BY <1>0, <2>16 DEF CallsOK
    <3>2. state[u] = "READY" /\ u \notin Members(ready) /\ u # current
      BY <1>0, <2>16, <3>1 DEF CreationOK
    <3>3. u \notin Members(Queue) /\ u # Idle /\ u \in Thread
      BY <2>9, <3>2, EventFacts
    <3>4. u # next /\ u \notin Members(rest)
      BY <2>10, <3>3
    <3>5. state'[u] = "READY"
      BY <2>4, <2>5, <3>2, <3>3, <3>4
    <3> QED  BY <2>8, <3>4, <3>5
  <2>17. CreatorOK' /\ CreationOK'
    BY <2>1, <2>16 DEF CreatorOK, CreationOK
  <2> QED
    BY <2>12, <2>13, <2>14, <2>15, <2>17 DEF SafeOK, NodesOK
<1> QED  BY <1>1, <1>2

SafeInv == TableOverflowed \/ SafeOK

LEMMA SafeNext ==
  ASSUME TypeInv, SafeInv, [Next]_vars
  PROVE  SafeInv'
<1> USE DEF lists, calls
<1>1. CASE WatchdogReset
  <2>1. Init'
    BY <1>1, ResetIsInit
  <2>2. (Init => SafeOK)'
    BY SafeInit, PTL
  <2> QED  BY <2>1, <2>2 DEF SafeInv
<1>2. CASE TableOverflowed /\ ~WatchdogReset
  BY <1>2, OverflowStays DEF SafeInv
<1>3. CASE SafeOK /\ ~WatchdogReset
  <2>1. ASSUME NEW t \in Task, BeginsCall(t) PROVE SafeOK'
    BY <1>3, <2>1, SafeBegins
  <2>2. ASSUME NEW t \in Task, ContinuesCall(t) PROVE SafeOK'
    BY <1>3, <2>2, SafeContinues
  <2>3. CASE Drain
    <3>1. CASE NotifyDone
      BY <1>3, <3>1, SafeStutters DEF NotifyDone, SafeInv
    <3> QED  BY <1>3, <2>3, <3>1, SafeReleases, SafeExits DEF Drain, SafeInv
  <2>4. CASE IrqNotify \/ SliceExpires \/ \E t \in Task : DelayExpires(t)
    BY <1>3, <2>4, SafeStutters DEF IrqNotify, SliceExpires, DelayExpires, SafeInv
  <2>5. CASE PendSV
    BY <1>3, <2>5, SafeSwitches DEF SafeInv
  <2>6. CASE UNCHANGED vars
    BY <1>3, <2>6, SafeStutters DEF vars, SafeInv
  <2> QED
    BY <1>3, <2>1, <2>2, <2>3, <2>4, <2>5, <2>6 DEF Next, SafeInv
<1> QED  BY <1>1, <1>2, <1>3 DEF SafeInv

LEMMA SafeCorrect == Spec => [](TypeInv /\ SafeInv)
<1>1. Init => TypeInv /\ SafeInv
  BY TypeInit, SafeInit DEF SafeInv
<1>2. TypeInv /\ SafeInv /\ [Next]_vars => (TypeInv /\ SafeInv)'
  BY TypeNext, SafeNext
<1> QED  BY <1>1, <1>2, PTL DEF Spec

(* The intrusive lists and the states of the tasks agree, and no node is   *)
(* in two lists, whatever the shell starts and stops: at least until       *)
(* task_new finds the task table full.                                     *)
THEOREM ListsStayTrue == Spec => []ListsAgree
<1>1. SafeInv => ListsAgree
  BY DEF SafeInv, SafeOK, NodesOK, ListsAgree
<1> QED  BY <1>1, SafeCorrect, PTL

(* Only these two steps make an assertion about a list fail: the node of a *)
(* task that blocks is in no list, because the task is active.             *)
LEMMA ListAssertionsNext ==
  ASSUME TypeInv, SafeInv, ListAssertionsHold, [Next]_vars
  PROVE  ListAssertionsHold'
<1> USE DEF lists, calls
<1> DEFINE Bad == {"Waiter not waiting", "Node not initialized"}
<1>1. CASE WatchdogReset
  BY <1>1 DEF WatchdogReset, ListAssertionsHold
<1>2. CASE TableOverflowed /\ ~WatchdogReset
  BY <1>2, OverflowStays DEF ListAssertionsHold
<1>3. CASE SafeOK /\ ~TableOverflowed /\ ~WatchdogReset
  <2>0. halt \notin Bad /\ TypeOK /\ NodesOK
    BY <1>3 DEF ListAssertionsHold, TypeInv, SafeOK
  <2> SUFFICES halt' \notin Bad
    BY DEF ListAssertionsHold
  <2>1. ASSUME NEW t \in Task, BeginsCall(t) PROVE halt' \notin Bad
    BY <2>0, <2>1 DEF BeginsCall, Yield, Wait, StartDelay, NewTask, JoinTask, NotifyEvent,
                      EndTask, FindTask
  <2>2. ASSUME NEW t \in Task, ContinuesCall(t) PROVE halt' \notin Bad
    <3>1. CASE WaitBlocks(t)
      <4>1. CanMove(state[t], "WAIT") => state[t] = "ACTIVE"
        BY DEF CanMove, Transition, Invalid
      <4>2. CanMove(state[t], "WAIT") => ~InSomeList(t)
        BY <2>0, <4>1 DEF InSomeList, NodesOK, ReadyListOK, WaitingListsOK
      <4> QED  BY <2>0, <3>1, <4>2 DEF WaitBlocks, Fail
    <3> QED
      BY <2>0, <2>2, <3>1
         DEF ContinuesCall, RescheduleNew, RegisterEvent, WaitSignalled, ClearSignal,
             FreeTask, DestroyTimer, UnregisterEvent, StartTask, StopTask, Fail
  <2>3. CASE Drain
    <3>1. CASE ReleaseWaiter
      <4>1. /\ draining \in Event /\ waiting[draining] \in Seq(Task)
            /\ waiting[draining] # << >>
        BY <2>0, <3>1 DEF ReleaseWaiter, TypeOK
      <4>2. Head(waiting[draining]) \in Members(waiting[draining])
        BY <4>1, TailListProperties
      <4>3. state[Head(waiting[draining])] = "WAIT"
        BY <2>0, <4>1, <4>2 DEF NodesOK, WaitingListsOK
      <4> QED  BY <2>0, <3>1, <4>3 DEF ReleaseWaiter
    <3> QED  BY <2>0, <2>3, <3>1 DEF Drain, NotifyDone, ExitTask, Fail
  <2>4. CASE PendSV
    BY <2>0, <2>4, PendSVCases DEF Fail
  <2> QED
    BY <1>3, <2>0, <2>1, <2>2, <2>3, <2>4
       DEF Next, DelayExpires, IrqNotify, SliceExpires, vars
<1> QED  BY <1>1, <1>2, <1>3 DEF SafeInv

(* The assertions that a notified task waits (event.h:68) and that a node  *)
(* put in a waiting list is in no other (list.h:119) hold, whatever the    *)
(* shell starts and stops, until the task table is full.                   *)
THEOREM ListAssertionsStayTrue == Spec => []ListAssertionsHold
<1>1. Init => ListAssertionsHold
  BY DEF Init, ListAssertionsHold
<1>2. TypeInv /\ SafeInv /\ ListAssertionsHold /\ [Next]_vars => ListAssertionsHold'
  BY ListAssertionsNext
<1> QED  BY <1>1, <1>2, SafeCorrect, PTL DEF Spec

-----------------------------------------------------------------------------
(***************************************************************************)
(* The check of every context switch.  When both tables have room for all  *)
(* tasks and events there may be, the tables hold every task and every     *)
(* event in use, a ready task that does not run is in the ready list or    *)
(* about to be put there by its creator, and only the current task is      *)
(* active; so a task fails the check by one of the two races only.         *)
(***************************************************************************)
RoomForAll ==
  /\ IsFiniteSet(Task) /\ Cardinality(Task) <= MaxTasks
  /\ IsFiniteSet(Event) /\ Cardinality(Event) <= MaxEvents

Creates(v, u) == pc[v] = "resched" /\ arg[v] = Join(u)

TableOK   == tcb = {u \in Task : state[u] # "FREE"}
QueuedOK  == \A u \in Task : state[u] = "READY" /\ u # current =>
               u \in Members(ready) \/ \E v \in Task : Creates(v, u)
ActiveOK  == \A u \in Task : state[u] = "ACTIVE" => u = current
EventsOK  == \A v \in Task : pc[v] \in {"wait", "clear"} => arg[v] \in registered

RoomOK == TableOK /\ QueuedOK /\ ActiveOK /\ CreatorOK /\ EventsOK

LEMMA RoomLeavesNoneOut == RoomOK => ~TableOverflowed
BY DEF RoomOK, TableOK, TableOverflowed

LEMMA RoomInit == Init => RoomOK
<1> SUFFICES ASSUME Init PROVE RoomOK
  OBVIOUS
<1>1. \A u \in Task : u \in Thread /\ u # Idle
  BY EventFacts
<1>2. \A u \in Task : state[u] = IF u = Main THEN "ACTIVE" ELSE "FREE"
  BY <1>1 DEF Init
<1>3. TableOK
  BY <1>2, KernelAssumption DEF Init, TableOK
<1>4. QueuedOK /\ ActiveOK /\ CreatorOK /\ EventsOK
  BY <1>2 DEF Init, QueuedOK, ActiveOK, CreatorOK, EventsOK
<1> QED  BY <1>3, <1>4 DEF RoomOK

(* A step that leaves states, lists and the task table alone, creates no   *)
(* task, and unregisters no event that is waited for.                      *)
LEMMA RoomMoves ==
  ASSUME RoomOK, UNCHANGED <<current, state, ready, tcb>>,
         \A v \in Task : /\ pc'[v] = "resched" <=> pc[v] = "resched"
                         /\ pc[v] = "resched" => arg'[v] = arg[v]
                         /\ pc'[v] \in {"wait", "clear"} => arg'[v] \in registered'
  PROVE  RoomOK'
<1>1. TableOK' /\ ActiveOK' /\ CreatorOK' /\ EventsOK'
  BY DEF RoomOK, TableOK, ActiveOK, CreatorOK, EventsOK
<1>2. \A v, u \in Task : Creates(v, u) => Creates(v, u)'
  BY DEF Creates
<1>3. QueuedOK'
  <2> SUFFICES ASSUME NEW u \in Task, state[u] = "READY", u # current, u \notin Members(ready)
               PROVE  \E v \in Task : Creates(v, u)'
    BY DEF QueuedOK
  <2>1. \E v \in Task : Creates(v, u)
    BY DEF RoomOK, QueuedOK
  <2> QED  BY <1>2, <2>1
<1> QED  BY <1>1, <1>3 DEF RoomOK

LEMMA RoomStutters ==
  ASSUME RoomOK, UNCHANGED <<current, state, ready, tcb, registered, pc, arg>>
  PROVE  RoomOK'
BY RoomMoves DEF RoomOK, EventsOK

(* The running task goes on to a place at which it creates no task.        *)
LEMMA RoomGoes ==
  ASSUME TypeInv, RoomOK, UNCHANGED <<current, state, ready, tcb>>,
         NEW t \in Task, pc[t] # "resched",
         NEW p, p # "resched", pc' = [pc EXCEPT ![t] = p],
         NEW e, arg' = [arg EXCEPT ![t] = e], p \in {"wait", "clear"} => e \in registered',
         \A v \in Task \ {t} : pc[v] \in {"wait", "clear"} => arg[v] \in registered'
  PROVE  RoomOK'
<1>1. /\ \A v \in Task : v # t => pc'[v] = pc[v] /\ arg'[v] = arg[v]
      /\ pc'[t] = p /\ arg'[t] = e
  BY DEF TypeInv, TypeOK
<1> QED  BY <1>1, RoomMoves

LEMMA RoomBegins ==
  ASSUME NoShell, RoomForAll, TypeInv, LifeOK, RoomOK, NEW t \in Task, BeginsCall(t)
  PROVE  RoomOK'
<1> USE DEF lists, calls
<1>0. TypeOK /\ TableOK /\ QueuedOK /\ ActiveOK /\ CreatorOK /\ EventsOK
  BY DEF TypeInv, RoomOK
<1>1. Runs(t) /\ pc[t] = "run" /\ current = t
  BY DEF BeginsCall, Yield, Wait, StartDelay, NewTask, JoinTask, NotifyEvent, EndTask,
         FindTask, Begins, At, Runs
<1>2. CASE Yield(t) \/ NotifyEvent(t) \/ EndTask(t)
  BY <1>2, RoomStutters DEF Yield, NotifyEvent, EndTask
<1>3. CASE Wait(t) \/ StartDelay(t) \/ JoinTask(t)
  <2>1. /\ UNCHANGED <<current, state, ready, tcb, registered>>
        /\ pc' = [pc EXCEPT ![t] = "add"]
        /\ \E e : arg' = [arg EXCEPT ![t] = e]
    BY <1>3 DEF Wait, StartDelay, JoinTask, Goto
  <2>2. PICK e : arg' = [arg EXCEPT ![t] = e]
    BY <2>1
  <2>3. \A v \in Task : v # t => pc'[v] = pc[v] /\ arg'[v] = arg[v]
    BY <1>0, <2>1, <2>2 DEF TypeOK
  <2>4. pc'[t] = "add"
    BY <1>0, <2>1 DEF TypeOK
  <2> QED  BY <1>0, <1>1, <2>1, <2>3, <2>4, RoomMoves DEF EventsOK
<1>4. CASE NewTask(t)
  <2>1. PICK u \in Task :
          /\ state[u] = "FREE"
          /\ state' = [state EXCEPT ![u] = "READY"]
          /\ tcb' = IF Cardinality(tcb) < MaxTasks THEN tcb \cup {u} ELSE tcb
          /\ pc' = [pc EXCEPT ![t] = "resched"] /\ arg' = [arg EXCEPT ![t] = Join(u)]
    BY <1>4 DEF NewTask, Goto
  <2>2. UNCHANGED <<current, ready, registered>>
    BY <1>4 DEF NewTask
  <2>3. /\ state'[u] = "READY" /\ \A v \in Task : v # u => state'[v] = state[v]
        /\ pc'[t] = "resched" /\ arg'[t] = Join(u)
        /\ \A v \in Task : v # t => pc'[v] = pc[v] /\ arg'[v] = arg[v]
    BY <1>0, <2>1, EventFacts DEF TypeOK
  <2>4. tcb' = tcb \cup {u}
    <3>1. /\ Cardinality(tcb) \in Nat /\ Cardinality(Task) \in Nat /\ MaxTasks \in Nat
          /\ Cardinality(tcb) <= Cardinality(Task) /\ Cardinality(Task) <= MaxTasks
          /\ Cardinality(Task) = Cardinality(tcb) => Task = tcb
      BY <1>0, FS_Subset, FS_CardinalityType, KernelAssumption DEF RoomForAll, TypeOK
    <3>2. u \notin tcb
      BY <1>0, <2>1 DEF TableOK
    <3>3. Cardinality(tcb) < MaxTasks
      BY <3>1, <3>2
    <3> QED  BY <2>1, <3>3
  <2>5. TableOK'
    BY <1>0, <2>1, <2>3, <2>4 DEF TableOK
  <2>6. Creates(t, u)' /\ \A v, w \in Task : Creates(v, w) => Creates(v, w)'
    BY <1>1, <2>3 DEF Creates
  <2>7. QueuedOK'
    BY <1>0, <2>2, <2>3, <2>6 DEF QueuedOK
  <2>8. ActiveOK' /\ CreatorOK' /\ EventsOK'
    BY <1>0, <1>1, <2>2, <2>3 DEF ActiveOK, CreatorOK, EventsOK
  <2> QED  BY <2>5, <2>7, <2>8 DEF RoomOK
<1>5. CASE FindTask(t)
  BY <1>5 DEF FindTask, Begins, NoShell
<1> QED  BY <1>2, <1>3, <1>4, <1>5 DEF BeginsCall

(* The second service of task_new.                                         *)
LEMMA RoomReschedules ==
  ASSUME TypeInv, LifeOK, RoomOK, NEW t \in Task, RescheduleNew(t)
  PROVE  RoomOK'
<1> USE DEF lists, calls
<1>0. TypeOK /\ CallsOK /\ CreationOK /\ TableOK /\ QueuedOK /\ ActiveOK /\ CreatorOK /\ EventsOK
  BY DEF TypeInv, LifeOK, RoomOK
<1>1. pc[t] = "resched" /\ current = t
  BY DEF RescheduleNew, At, Runs
<1>2. PICK u \in Task : arg[t] = Join(u)
  BY <1>0, <1>1 DEF CallsOK
<1>3. state[u] = "READY" /\ u # Idle /\ arg[t].task = u
  BY <1>0, <1>1, <1>2, EventFacts DEF CreationOK
<1>4. ready' = Scheduled(ready, u)
  BY <1>3 DEF RescheduleNew, Reschedule
<1>5. /\ UNCHANGED <<current, state, tcb, registered>>
      /\ pc' = [pc EXCEPT ![t] = "run"] /\ arg' = [arg EXCEPT ![t] = Join(t)]
  BY DEF RescheduleNew, Goto
<1>6. Members(ready') = Members(ready) \cup {u}
  <2>1. ready \in Seq(Task) /\ \A v \in Task : Prio[v] \in Int
    BY <1>0, PrioType DEF TypeOK, Thread
  <2> QED  BY <1>4, <2>1, ScheduledProperties
<1>7. /\ \A v \in Task : v # t => pc'[v] = pc[v] /\ arg'[v] = arg[v]
      /\ pc'[t] = "run"
  BY <1>0, <1>5 DEF TypeOK
<1>8. TableOK' /\ ActiveOK' /\ CreatorOK' /\ EventsOK'
  BY <1>0, <1>5, <1>7 DEF TableOK, ActiveOK, CreatorOK, EventsOK
<1>9. QueuedOK'
  <2>1. \A v, w \in Task : Creates(v, w) => w = u
    BY <1>0, <1>1, <1>2, EventFacts DEF CreatorOK, Creates
  <2> QED  BY <1>0, <1>5, <1>6, <2>1 DEF QueuedOK
<1> QED  BY <1>8, <1>9 DEF RoomOK

(* A task blocks, or a task is freed.                                      *)
LEMMA RoomBlocks ==
  ASSUME TypeInv, LifeOK, RoomOK, NEW t \in Task, WaitBlocks(t)
  PROVE  RoomOK'
<1> USE DEF lists, calls
<1>0. TypeOK /\ TableOK /\ QueuedOK /\ ActiveOK /\ CreatorOK /\ EventsOK
  BY DEF TypeInv, RoomOK
<1>1. Runs(t) /\ pc[t] = "wait" /\ current = t
  BY DEF WaitBlocks, At, Runs
<1>2. state[t] = "ACTIVE"
  BY <1>0, <1>1, RunnerFacts
<1>3. CASE Fail("Invalid Transition") \/ Fail("Node not initialized")
  BY <1>3, RoomStutters DEF Fail
<1>4. CASE ~(Fail("Invalid Transition") \/ Fail("Node not initialized"))
  <2>1. /\ state' = [state EXCEPT ![t] = Transition(state[t], "WAIT")]
        /\ pc' = [pc EXCEPT ![t] = "clear"] /\ arg' = [arg EXCEPT ![t] = arg[t]]
        /\ UNCHANGED <<current, ready, tcb, registered>>
    BY <1>4 DEF WaitBlocks, Goto
  <2>2. Transition(state[t], "WAIT") = "WAIT"
    BY <1>2 DEF Transition
  <2>3. /\ \A v \in Task : v # t => pc'[v] = pc[v] /\ state'[v] = state[v]
        /\ pc'[t] = "clear" /\ state'[t] = "WAIT" /\ arg' = arg
    BY <1>0, <2>1, <2>2, EventFacts DEF TypeOK
  <2>4. TableOK' /\ ActiveOK' /\ CreatorOK' /\ EventsOK'
    BY <1>0, <1>1, <1>2, <2>1, <2>3 DEF TableOK, ActiveOK, CreatorOK, EventsOK
  <2>5. \A v, w \in Task : Creates(v, w) => Creates(v, w)'
    BY <1>1, <2>3 DEF Creates
  <2>6. QueuedOK'
    BY <1>0, <2>1, <2>3, <2>5 DEF QueuedOK
  <2> QED  BY <2>4, <2>6 DEF RoomOK
<1> QED  BY <1>3, <1>4

LEMMA RoomFrees ==
  ASSUME TypeInv, LifeOK, RoomOK, NEW t \in Task, FreeTask(t)
  PROVE  RoomOK'
<1> USE DEF lists, calls
<1>0. /\ TypeOK /\ CallsOK /\ CallsApart /\ JoinOK /\ EndOK
      /\ TableOK /\ QueuedOK /\ ActiveOK /\ CreatorOK /\ EventsOK
  BY DEF TypeInv, LifeOK, RoomOK
<1>1. pc[t] = "free" /\ current = t
  BY DEF FreeTask, At, Runs
<1>2. CASE \E why \in Failure : Fail(why)
  BY <1>2, RoomStutters DEF Fail
<1>3. CASE ~ \E why \in Failure : Fail(why)
  <2>1. PICK u \in Task : arg[t] = Join(u)
    BY <1>0, <1>1 DEF CallsOK
  <2>2. arg[t].task = u /\ About(t, u) /\ u # t /\ state[u] = "END" /\ pc[u] = "run"
    BY <1>0, <1>1, <2>1, EventFacts DEF JoinOK, EndOK, About
  <2>3. /\ tcb' = tcb \ {u}
        /\ registered' = registered \ {Join(u)}
        /\ state' = [state EXCEPT ![u] = "FREE"]
        /\ pc' = [pc EXCEPT ![t] = "run", ![u] = "run"]
        /\ arg' = [arg EXCEPT ![t] = Join(t), ![u] = Join(u)]
        /\ UNCHANGED <<current, ready>>
    BY <1>3, <2>2 DEF FreeTask, Failure
  <2>4. /\ \A v \in Task : v # t /\ v # u => pc'[v] = pc[v] /\ arg'[v] = arg[v]
        /\ pc'[t] = "run" /\ pc'[u] = "run"
    BY <1>0, <2>2, <2>3 DEF TypeOK
  <2>5. state'[u] = "FREE" /\ \A v \in Task : v # u => state'[v] = state[v]
    BY <1>0, <2>3, EventFacts DEF TypeOK
  <2>6. TableOK' /\ ActiveOK' /\ CreatorOK'
    BY <1>0, <2>3, <2>4, <2>5 DEF TableOK, ActiveOK, CreatorOK
  <2>7. QueuedOK'
    <3>1. \A v, w \in Task : Creates(v, w) => Creates(v, w)'
      BY <1>1, <2>2, <2>4 DEF Creates
    <3> QED  BY <1>0, <2>3, <2>5, <3>1 DEF QueuedOK
  <2>8. EventsOK'
    <3> SUFFICES ASSUME NEW v \in Task, pc'[v] \in {"wait", "clear"}
                 PROVE  arg'[v] \in registered'
      BY DEF EventsOK
    <3>1. v # t /\ v # u /\ pc[v] \in {"wait", "clear"} /\ arg'[v] = arg[v]
      BY <2>4
    <3>2. arg[v] # Join(u)
      BY <1>0, <2>2, <3>1 DEF CallsApart, About
    <3> QED  BY <1>0, <2>3, <3>1, <3>2 DEF EventsOK
  <2> QED  BY <2>6, <2>7, <2>8 DEF RoomOK
<1> QED  BY <1>2, <1>3

LEMMA RoomContinues ==
  ASSUME NoShell, RoomForAll, TypeInv, LifeOK, RoomOK, NEW t \in Task, ContinuesCall(t)
  PROVE  RoomOK'
<1> USE DEF lists, calls
<1>0. TypeOK /\ CallsOK /\ CallsApart /\ EventsOK
  BY DEF TypeInv, LifeOK, RoomOK
<1>1. CASE RescheduleNew(t) \/ WaitBlocks(t) \/ FreeTask(t)
  BY <1>1, RoomReschedules, RoomBlocks, RoomFrees
<1>2. CASE StartTask(t) \/ StopTask(t)
  BY <1>0, <1>2 DEF StartTask, StopTask, At, CallsApart
<1>3. CASE RegisterEvent(t)
  <2>1. /\ pc[t] = "add" /\ arg[t] \in Event
        /\ registered' = IF Cardinality(registered) < MaxEvents
                           THEN registered \cup {arg[t]} ELSE registered
        /\ pc' = [pc EXCEPT ![t] = "wait"] /\ arg' = [arg EXCEPT ![t] = arg[t]]
        /\ UNCHANGED <<current, state, ready, tcb>>
    BY <1>0, <1>3 DEF RegisterEvent, At, Goto, TypeOK
  <2>2. /\ Cardinality(registered) \in Nat /\ Cardinality(Event) \in Nat /\ MaxEvents \in Nat
        /\ Cardinality(registered) <= Cardinality(Event) /\ Cardinality(Event) <= MaxEvents
        /\ Cardinality(Event) = Cardinality(registered) => Event = registered
    BY <1>0, FS_Subset, FS_CardinalityType, KernelAssumption DEF RoomForAll, TypeOK
  <2>3. registered' = registered \cup {arg[t]}
    <3>1. CASE Cardinality(registered) < MaxEvents
      BY <2>1, <3>1
    <3>2. CASE ~(Cardinality(registered) < MaxEvents)
      <4>1. Event = registered
        BY <2>2, <3>2
      <4> QED  BY <2>1, <3>2, <4>1
    <3> QED  BY <3>1, <3>2
  <2> QED  BY <1>0, <2>1, <2>3, RoomGoes DEF EventsOK
<1>4. CASE WaitSignalled(t)
  <2>1. /\ pc[t] = "wait"
        /\ pc' = [pc EXCEPT ![t] = "clear"] /\ arg' = [arg EXCEPT ![t] = arg[t]]
        /\ UNCHANGED <<current, state, ready, tcb, registered>>
    BY <1>4 DEF WaitSignalled, At, Goto
  <2> QED  BY <1>0, <2>1, RoomGoes DEF EventsOK
<1>5. CASE ClearSignal(t) \/ DestroyTimer(t)
  <2>1. AfterWait(arg[t]) \in {"run", "destroy", "free"}
    BY <1>0, EventFacts DEF AfterWait, TypeOK
  <2>2. PICK p \in {"run", "destroy", "free", "unregister"} :
          /\ pc[t] # "resched"
          /\ pc' = [pc EXCEPT ![t] = p] /\ arg' = [arg EXCEPT ![t] = arg[t]]
          /\ UNCHANGED <<current, state, ready, tcb, registered>>
    BY <1>5, <2>1 DEF ClearSignal, DestroyTimer, At, Goto
  <2> QED  BY <1>0, <2>2, RoomGoes DEF EventsOK
<1>6. CASE UnregisterEvent(t)
  <2>1. /\ pc[t] = "unregister" /\ registered' = registered \ {arg[t]}
        /\ pc' = [pc EXCEPT ![t] = "run"] /\ arg' = [arg EXCEPT ![t] = Join(t)]
        /\ UNCHANGED <<current, state, ready, tcb>>
    BY <1>6 DEF UnregisterEvent, At, Goto
  <2>2. PICK u \in Task : arg[t] = Delay(u)
    BY <1>0, <2>1, EventKinds DEF CallsOK, TypeOK
  <2>3. \A v \in Task : v # t => arg[v] # arg[t]
    BY <1>0, <2>2 DEF CallsApart
  <2>4. \A v \in Task : v # t /\ pc[v] \in {"wait", "clear"} => arg[v] \in registered'
    BY <1>0, <2>1, <2>3 DEF EventsOK
  <2>5. /\ \A v \in Task : v # t => pc'[v] = pc[v] /\ arg'[v] = arg[v]
        /\ pc'[t] = "run"
    BY <1>0, <2>1 DEF TypeOK
  <2> QED  BY <2>1, <2>4, <2>5, RoomMoves
<1> QED
  BY <1>1, <1>2, <1>3, <1>4, <1>5, <1>6 DEF ContinuesCall

(* event_notify_irq and task_end_irq.                                      *)
LEMMA RoomDrains ==
  ASSUME TypeInv, LifeOK, RoomOK, Drain
  PROVE  RoomOK'
<1> USE DEF lists, calls
<1>0. TypeOK /\ EndOK /\ TableOK /\ QueuedOK /\ ActiveOK /\ CreatorOK /\ EventsOK
  BY DEF TypeInv, LifeOK, RoomOK
<1>1. CASE UNCHANGED <<current, state, ready, tcb, registered, pc, arg>>
  BY <1>1, RoomStutters
<1>2. CASE ReleaseWaiter /\ ~UNCHANGED <<current, state, ready, tcb, registered, pc, arg>>
  <2> DEFINE u  == Head(waiting[draining])
             st == [state EXCEPT ![u] = Transition(state[u], "NOTIFY")]
  <2>1. /\ draining \in Event /\ waiting[draining] # << >> /\ waiting[draining] \in Seq(Task)
        /\ state[u] = "WAIT" /\ state' = st /\ Reschedule(u, st)
        /\ UNCHANGED <<current, tcb, registered, pc, arg>>
    BY <1>0, <1>2 DEF ReleaseWaiter, Fail, TypeOK
  <2>2. u \in Task
    BY <2>1, TailListProperties
  <2>3. Transition(state[u], "NOTIFY") = "READY"
    BY <2>1 DEF Transition
  <2> HIDE DEF u
  <2>4. u \in Thread /\ u # Idle
    BY <2>2, EventFacts
  <2>5. /\ state'[u] = "READY" /\ st[u] = "READY"
        /\ \A v \in Task : v # u => state'[v] = state[v]
    BY <1>0, <2>1, <2>3, <2>4, EventFacts DEF TypeOK
  <2>6. ready' = Scheduled(ready, u)
    BY <2>1, <2>4, <2>5 DEF Reschedule
  <2>7. Members(ready') = Members(ready) \cup {u}
    <3>1. ready \in Seq(Task) /\ \A v \in Task : Prio[v] \in Int
      BY <1>0, PrioType DEF TypeOK, Thread
    <3> QED  BY <2>2, <2>6, <3>1, ScheduledProperties
  <2>8. TableOK' /\ ActiveOK' /\ CreatorOK' /\ EventsOK'
    BY <1>0, <2>1, <2>2, <2>5 DEF TableOK, ActiveOK, CreatorOK, EventsOK
  <2>9. QueuedOK'
    <3>1. \A v, w \in Task : Creates(v, w) => Creates(v, w)'
      BY <2>1 DEF Creates
    <3> QED  BY <1>0, <2>1, <2>5, <2>7, <3>1 DEF QueuedOK
  <2> QED  BY <2>8, <2>9 DEF RoomOK
<1>3. CASE ExitTask /\ ~UNCHANGED <<current, state, ready, tcb, registered, pc, arg>>
  <2> DEFINE c == current
  <2>1. /\ state' = [state EXCEPT ![c] = Transition(state[c], "EXIT")]
        /\ UNCHANGED <<current, ready, tcb, registered, pc, arg>>
    BY <1>3 DEF ExitTask, Fail
  <2>2. draining \in Event /\ draining.kind = "join"
    BY <1>0, <1>3 DEF ExitTask, Drained, TypeOK
  <2>3. c \in Task /\ state[c] = "ACTIVE"
    BY <1>0, <2>2, EventFacts DEF EndOK
  <2> HIDE DEF c
  <2>4. Transition(state[c], "EXIT") = "END"
    BY <2>3 DEF Transition
  <2>5. state'[c] = "END" /\ \A v \in Task : v # c => state'[v] = state[v]
    BY <1>0, <2>1, <2>3, <2>4, EventFacts DEF TypeOK
  <2>6. TableOK' /\ ActiveOK' /\ CreatorOK' /\ EventsOK'
    BY <1>0, <2>1, <2>3, <2>5 DEF TableOK, ActiveOK, CreatorOK, EventsOK
  <2>7. QueuedOK'
    <3>1. \A v, w \in Task : Creates(v, w) => Creates(v, w)'
      BY <2>1 DEF Creates
    <3> QED  BY <1>0, <2>1, <2>5, <3>1 DEF QueuedOK
  <2> QED  BY <2>6, <2>7 DEF RoomOK
<1> QED
  BY <1>1, <1>2, <1>3 DEF Drain, NotifyDone

(* A context switch that passes the check, after which no task is being    *)
(* created: the new one, unlisted, would have failed it.                   *)
LEMMA RoomSwitches ==
  ASSUME TypeInv, LifeOK, RoomOK, PendSV
  PROVE  RoomOK'
<1> USE DEF lists, calls
<1>0. TypeOK /\ CallsOK /\ TableOK /\ EventsOK
  BY DEF TypeInv, LifeOK, RoomOK
<1>1. CASE Fail("Invalid Transition") \/ Fail("Invalid task")
  BY <1>1, RoomStutters DEF Fail
<1>2. CASE ~(Fail("Invalid Transition") \/ Fail("Invalid task"))
  <2>1. PICK next \in {IF Queue = << >> THEN Idle ELSE Head(Queue)},
             parked \in {[state EXCEPT ![current] = Left]} :
          /\ Left # Invalid
          /\ CanMove(parked[next], "CONTEXT_SWITCH")
          /\ state' = [parked EXCEPT ![next] = Transition(parked[next], "CONTEXT_SWITCH")]
          /\ UNCHANGED <<tcb, registered, pc, arg>>
    BY <1>2, PendSVCases
  <2>2. current \in Thread /\ state \in [Thread -> TaskState \cup {"FREE"}]
    BY <1>0 DEF TypeOK
  <2>3. \A v \in Thread : parked[v] = IF v = current THEN Left ELSE state[v]
    BY <2>1, <2>2
  <2>4. \A v \in Thread :
          state'[v] = IF v = next THEN Transition(parked[v], "CONTEXT_SWITCH") ELSE parked[v]
    BY <2>1, <2>2
  <2>5. \A v \in Thread : parked[v] = "FREE" <=> state[v] = "FREE"
    BY <2>1, <2>3, SwitchTransition DEF Left
  <2>6. \A v \in Thread : state'[v] = "FREE" <=> state[v] = "FREE"
    <3>1. \A v \in Thread :
            v = next => Transition(parked[v], "CONTEXT_SWITCH") # Invalid
      BY <2>1 DEF CanMove
    <3> QED  BY <2>4, <2>5, <3>1, SwitchTransition
  <2>7. TableOK'
    BY <1>0, <2>1, <2>6, EventFacts DEF TableOK
  <2>8. \A v \in Task : state'[v] # "FREE" =>
          CASE state'[v] = "ACTIVE" -> v = current' /\ v \notin Members(ready')
            [] state'[v] = "READY"  -> v # current' /\ v \in Members(ready')
            [] state'[v] = "WAIT"   -> v # current' /\ v \notin Members(ready')
            [] OTHER                -> v # current' /\ v \notin Members(ready')
    BY <1>2, <2>1, <2>7, PendSVChecks DEF TableOK, ValidTask
  <2>9. QueuedOK' /\ ActiveOK'
    BY <2>8 DEF QueuedOK, ActiveOK
  <2>10. LifeOK'
    BY <2>7, LifeSwitches DEF TableOK, TableOverflowed
  <2>11. CreatorOK'
    <3> SUFFICES ASSUME NEW v \in Task, pc'[v] = "resched" PROVE FALSE
      BY DEF CreatorOK
    <3>1. PICK u \in Task : arg'[v] = Join(u)
      BY <1>0, <2>1 DEF CallsOK
    <3>2. state'[u] = "READY" /\ u \notin Members(ready')
      BY <2>10, <3>1 DEF LifeOK, CreationOK
    <3> QED  BY <2>8, <3>2
  <2>12. EventsOK'
    BY <1>0, <2>1 DEF EventsOK
  <2> QED  BY <2>7, <2>9, <2>11, <2>12 DEF RoomOK
<1> QED  BY <1>1, <1>2

LEMMA RoomNext ==
  ASSUME NoShell, RoomForAll, TypeInv, LifeOK, RoomOK, [Next]_vars
  PROVE  RoomOK'
<1> USE DEF lists, calls
<1>1. ASSUME NEW t \in Task, BeginsCall(t) PROVE RoomOK'
  BY <1>1, RoomBegins
<1>2. ASSUME NEW t \in Task, ContinuesCall(t) PROVE RoomOK'
  BY <1>2, RoomContinues
<1>3. CASE Drain
  BY <1>3, RoomDrains
<1>4. CASE IrqNotify \/ SliceExpires \/ \E t \in Task : DelayExpires(t)
  BY <1>4, RoomStutters DEF IrqNotify, SliceExpires, DelayExpires
<1>5. CASE PendSV
  BY <1>5, RoomSwitches
<1>6. CASE WatchdogReset
  <2>1. Init'
    BY <1>6, ResetIsInit
  <2>2. (Init => RoomOK)'
    BY RoomInit, PTL
  <2> QED  BY <2>1, <2>2
<1>7. CASE UNCHANGED vars
  BY <1>7, RoomStutters DEF vars
<1> QED
  BY <1>1, <1>2, <1>3, <1>4, <1>5, <1>6, <1>7 DEF Next

(* The queue a switch takes the next task from, without the two races: the *)
(* next task is its head, and the others wait in it, each once.            *)
LEMMA SwitchQueue ==
  ASSUME TypeInv, LifeOK, Left # Invalid, ~NotifiedBeforeSwitch,
         NEW next, next = IF Queue = << >> THEN Idle ELSE Head(Queue),
         NEW rest, rest = IF Queue = << >> THEN << >> ELSE Tail(Queue)
  PROVE  /\ Members(Queue) = Members(rest) \cup (IF next = Idle THEN {} ELSE {next})
         /\ next \notin Members(rest)
         /\ next \in Thread
         /\ Members(Queue) = Members(ready) \cup
              (IF current \in Task /\ state[current] = "ACTIVE" THEN {current} ELSE {})
<1>1. /\ current \in Thread /\ ready \in Seq(Task) /\ Queue \in Seq(Task)
      /\ NoDuplicates(ready) /\ \A v \in Members(ready) : state[v] = "READY"
      /\ \A v \in Task : Prio[v] \in Int /\ v \in Thread /\ v # Idle
  BY QueueType, PrioType, EventFacts
     DEF TypeInv, TypeOK, LifeOK, NodesOK, ReadyListOK
<1>2. /\ NoDuplicates(Queue)
      /\ Members(Queue) = Members(ready) \cup
           (IF current \in Task /\ state[current] = "ACTIVE" THEN {current} ELSE {})
  <2>1. CASE Left = "READY" /\ current # Idle
    <3>1. current \in Task /\ state[current] = "ACTIVE"
      BY <1>1, <2>1, SwitchTransition DEF Thread, Left, Invalid
    <3>2. current \notin Members(ready)
      BY <1>1, <3>1
    <3> QED  BY <1>1, <2>1, <3>1, <3>2, ScheduledProperties DEF Queue
  <2>2. CASE ~(Left = "READY" /\ current # Idle)
    <3>1. ~(current \in Task /\ state[current] = "ACTIVE")
      BY <1>1, <2>2 DEF Left, Transition
    <3> QED  BY <1>1, <2>2, <3>1 DEF Queue
  <2> QED  BY <2>1, <2>2
<1>3. CASE Queue = << >>
  <2>1. next = Idle /\ rest = << >>
    BY <1>3
  <2> QED  BY <1>1, <1>2, <1>3, <2>1, MembersEmpty, EventFacts
<1>4. CASE Queue # << >>
  <2>1. next = Head(Queue) /\ rest = Tail(Queue)
    BY <1>4
  <2>2. /\ Head(Queue) \in Task
        /\ Members(Queue) = Members(Tail(Queue)) \cup {Head(Queue)}
        /\ Head(Queue) \notin Members(Tail(Queue))
    BY <1>1, <1>2, <1>4, TailListProperties
  <2> QED  BY <1>1, <1>2, <2>1, <2>2
<1> QED  BY <1>3, <1>4

(* Then every task of the table passes assert_task_valid.                  *)
LEMMA ChecksPass ==
  ASSUME TypeInv, LifeOK, RoomOK, Left # Invalid,
         ~NotifiedBeforeSwitch, ~CreationInterrupted,
         NEW next, next = IF Queue = << >> THEN Idle ELSE Head(Queue),
         NEW rest, rest = IF Queue = << >> THEN << >> ELSE Tail(Queue),
         NEW parked, parked = [state EXCEPT ![current] = Left],
         NEW st, st = [parked EXCEPT ![next] = Transition(parked[next], "CONTEXT_SWITCH")],
         NEW t \in tcb
  PROVE  ValidTask(t, st, next, rest)
<1>0. /\ TypeOK /\ NodesOK /\ WaitersOK /\ QueuedOK /\ ActiveOK /\ CreatorOK /\ EventsOK
      /\ t \in Task /\ t \in Thread /\ t # Idle /\ state[t] # "FREE"
  BY EventFacts DEF TypeInv, TypeOK, LifeOK, RoomOK, TableOK
<1>1. /\ Members(Queue) = Members(rest) \cup (IF next = Idle THEN {} ELSE {next})
      /\ next \notin Members(rest)
      /\ next \in Thread
      /\ Members(Queue) = Members(ready) \cup
           (IF current \in Task /\ state[current] = "ACTIVE" THEN {current} ELSE {})
  BY SwitchQueue
<1>2. state \in [Thread -> TaskState \cup {"FREE"}] /\ current \in Thread
  BY <1>0 DEF TypeOK
<1>3. parked[t] = (IF t = current THEN Left ELSE state[t])
      /\ st[t] = (IF t = next THEN Transition(parked[t], "CONTEXT_SWITCH") ELSE parked[t])
  BY <1>0, <1>1, <1>2
<1>4. InWaitQueue(t) <=> state[t] = "WAIT"
  <2>1. ASSUME state[t] = "WAIT" PROVE InWaitQueue(t)
    <3>1. PICK e \in Event : t \in Members(waiting[e])
      BY <1>0, <2>1 DEF NodesOK, WaitingListsOK
    <3>2. pc[t] = "clear" /\ arg[t] = e
      BY <1>0, <3>1 DEF WaitersOK
    <3> QED  BY <1>0, <3>1, <3>2 DEF EventsOK, InWaitQueue
  <2>2. ASSUME InWaitQueue(t) PROVE state[t] = "WAIT"
    BY <1>0, <2>2 DEF InWaitQueue, NodesOK, WaitingListsOK, TypeOK
  <2> QED  BY <2>1, <2>2
<1>5. t \in Members(ready) => state[t] = "READY"
  BY <1>0 DEF NodesOK, ReadyListOK
<1>6. t = current => state[t] # "READY" /\ Left = Transition(state[t], "CONTEXT_SWITCH")
  BY <1>0 DEF NotifiedBeforeSwitch, Left
<1>7. CASE t = next
  <2>1. t \in Members(Queue) /\ t \notin Members(rest)
    BY <1>0, <1>1, <1>7
  <2>2. state[t] # "WAIT" /\ parked[t] = "READY"
    <3>1. CASE t \in Members(ready)
      BY <1>3, <1>5, <1>6, <3>1
    <3>2. CASE t = current /\ state[t] = "ACTIVE"
      BY <1>3, <1>6, <3>2 DEF Transition
    <3> QED  BY <1>1, <2>1, <3>1, <3>2
  <2>3. st[t] = "ACTIVE"
    BY <1>3, <1>7, <2>2 DEF Transition
  <2> QED  BY <1>4, <1>7, <2>1, <2>2, <2>3 DEF ValidTask
<1>8. CASE t # next
  <2>1. st[t] = parked[t] /\ (t \in Members(rest) <=> t \in Members(Queue))
    BY <1>1, <1>3, <1>8
  <2>2. CASE t = current
    <3>1. /\ state[t] = "ACTIVE" => parked[t] = "READY"
          /\ state[t] = "WAIT" => parked[t] = "WAIT"
          /\ state[t] \in {"ACTIVE", "WAIT", "END"}
          /\ state[t] = "END" => parked[t] = "END"
      BY <1>3, <1>6, <2>2 DEF Transition
    <3>2. t \in Members(Queue) <=> state[t] = "ACTIVE"
      BY <1>0, <1>1, <1>5, <1>6, <2>2
    <3> QED  BY <1>4, <1>8, <2>1, <3>1, <3>2 DEF ValidTask
  <2>3. CASE t # current
    <3>1. parked[t] = state[t] /\ state[t] # "ACTIVE"
      BY <1>0, <1>3, <2>3 DEF ActiveOK
    <3>2. t \in Members(Queue) <=> t \in Members(ready)
      BY <1>1, <2>3
    <3>3. state[t] = "READY" => t \in Members(ready)
      <4>1. \A v \in Task : ~Creates(v, t)
        BY <1>0, EventFacts DEF CreatorOK, CreationInterrupted, Creates
      <4> QED  BY <1>0, <2>3, <4>1 DEF QueuedOK
    <3> QED  BY <1>4, <1>5, <1>8, <2>1, <3>1, <3>2, <3>3 DEF ValidTask
  <2> QED  BY <2>2, <2>3
<1> QED  BY <1>7, <1>8

(* The kernel's check of every task in PendSV_Handler fails only when the  *)
(* task that blocked was notified before the switch, or when the switch    *)
(* came between the two services of task_new: without the shell's start    *)
(* and stop, and when no table can be full.                                *)
THEOREM ChecksFailByRaceOnly ==
  ASSUME NoShell, RoomForAll
  PROVE  Spec => ChecksFailOnlyByRace
<1>1. Init => TypeInv /\ LifeInv /\ RoomOK
  BY TypeInit, LifeInit, RoomInit DEF LifeInv
<1>2. TypeInv /\ LifeInv /\ RoomOK => LifeOK
  BY RoomLeavesNoneOut DEF LifeInv
<1>3. TypeInv /\ LifeInv /\ RoomOK /\ [Next]_vars => (TypeInv /\ LifeInv /\ RoomOK)'
  BY <1>2, TypeNext, LifeNext, RoomNext
<1>4. ASSUME TypeInv, LifeOK, RoomOK, [Next]_vars, halt = "none", halt' = "Invalid task"
      PROVE  NotifiedBeforeSwitch \/ CreationInterrupted
  <2> USE DEF lists, calls
  <2>1. ASSUME NEW t \in Task, BeginsCall(t) PROVE FALSE
    BY <1>4, <2>1 DEF BeginsCall, Yield, Wait, StartDelay, NewTask, JoinTask, NotifyEvent,
                      EndTask, FindTask
  <2>2. ASSUME NEW t \in Task, ContinuesCall(t) PROVE FALSE
    BY <1>4, <2>2
       DEF ContinuesCall, RescheduleNew, RegisterEvent, WaitSignalled, WaitBlocks,
           ClearSignal, FreeTask, DestroyTimer, UnregisterEvent, StartTask, StopTask, Fail
  <2>3. CASE Drain
    BY <1>4, <2>3 DEF Drain, ReleaseWaiter, NotifyDone, ExitTask, Fail
  <2>4. CASE PendSV
    <3>1. PICK next, rest, parked, st :
            /\ next = IF Queue = << >> THEN Idle ELSE Head(Queue)
            /\ rest = IF Queue = << >> THEN << >> ELSE Tail(Queue)
            /\ parked = [state EXCEPT ![current] = Left]
            /\ st = [parked EXCEPT ![next] = Transition(parked[next], "CONTEXT_SWITCH")]
            /\ Left # Invalid
            /\ \E t \in tcb : ~ValidTask(t, st, next, rest)
      BY <1>4, <2>4 DEF PendSV, Fail
    <3> QED  BY <1>4, <3>1, ChecksPass
  <2> QED
    BY <1>4, <2>1, <2>2, <2>3, <2>4
       DEF Next, DelayExpires, IrqNotify, SliceExpires, WatchdogReset, vars
<1>5. TypeInv /\ LifeInv /\ RoomOK /\ [Next]_vars =>
        [halt = "none" /\ halt' = "Invalid task" =>
           NotifiedBeforeSwitch \/ CreationInterrupted]_vars
  BY <1>2, <1>4
<1> QED
  BY <1>1, <1>3, <1>5, PTL DEF Spec, ChecksFailOnlyByRace
=============================================================================
