------------------------------- MODULE Mutex --------------------------------
(***************************************************************************)
(* A mutex of core/mutex.h: a lock word, a nesting depth and an event.     *)
(*                                                                         *)
(* Tasks of one priority use it, so a switch may come between any two      *)
(* memory accesses, and each access of lock or depth is a step; the        *)
(* services of the event are steps because they run with interrupts        *)
(* disabled.  A task in waiting is blocked and does not run.               *)
(*                                                                         *)
(* The virtual LEDs are drawn by a task (main.c:145), which tries the      *)
(* mutex as it locks it, access by access, and by a timer's callback, that *)
(* is in a handler: there mutex_lock_try, the drawing and mutex_unlock are *)
(* one step, since tasks do not run meanwhile.  A service call in a        *)
(* handler escalates to a HardFault (fault), as SVC has the priority of    *)
(* the handler.                                                            *)
(***************************************************************************)
EXTENDS Integers, FiniteSets

CONSTANTS
  Task,      \* the tasks that use the mutex
  Id,        \* task_t.id, an index of the TCB table
  Drawing,   \* handlers use the mutex too, as they do the LCD's
  Nesting,   \* bound: how deep one task nests its locks
  MaxDepth   \* bound: no lock is begun when depth has reached it

ASSUME MutexAssumption ==
  /\ Id \in [Task -> Nat]
  /\ Drawing \in BOOLEAN
  /\ Nesting \in Nat \ {0}
  /\ MaxDepth \in Nat \ {0}

VARIABLES
  lock,      \* spinlock_t: 0, or the id of a holder
  depth,     \* how often the holder has locked it again
  signal,    \* tasks.signal
  waiting,   \* the tasks in tasks.waiting
  pc,        \* where in a function of the mutex a task is
  loaded,    \* the value of depth a task has in a register, 0 when none
  held,      \* locks a task has been given, less its unlocks
  fault,     \* a handler has called a service
  users      \* the tasks that have ever asked for a lock

event == <<signal, waiting>>
vars  == <<lock, depth, event, pc, loaded, held, fault, users>>

Unlocked == 0                         \* SPINLOCK_UNLOCKED
IsrId    == -1                        \* 0xffffffff, as a signed word

LockId(t) == ((Id[t] * 4) \div 65536) * 65536 + 65535   \* (tid << 2) | 0xffff

Place == {"out", "increment", "try", "once", "wait", "clear",
          "decrement", "release", "look", "notify"}

Init ==
  /\ lock = Unlocked
  /\ depth = 0
  /\ signal = 0
  /\ waiting = {}
  /\ pc = [t \in Task |-> "out"]
  /\ loaded = [t \in Task |-> 0]
  /\ held = [t \in Task |-> 0]
  /\ fault = FALSE
  /\ users = {}

At(t, place) == ~fault /\ t \notin waiting /\ pc[t] = place

Goto(t, place) == pc' = [pc EXCEPT ![t] = place]

Entered(t) ==
  /\ Goto(t, "out")
  /\ held' = [held EXCEPT ![t] = @ + 1]

-----------------------------------------------------------------------------
(* Is the lock word this task's?  Then depth is loaded next.               *)
Begin(t, otherwise) ==
  /\ At(t, "out")
  /\ held[t] < Nesting
  /\ depth < MaxDepth
  /\ IF lock = LockId(t)
       THEN Goto(t, "increment") /\ loaded' = [loaded EXCEPT ![t] = depth]
       ELSE Goto(t, otherwise) /\ UNCHANGED loaded
  /\ users' = users \cup {t}
  /\ UNCHANGED <<lock, depth, event, held, fault>>

(* mutex_lock, and mutex_lock_try by a task.                               *)
Lock(t)    == Begin(t, "try")
LockTry(t) == Begin(t, "once")

Increment(t) ==
  /\ At(t, "increment")
  /\ depth' = loaded[t] + 1
  /\ loaded' = [loaded EXCEPT ![t] = 0]
  /\ Entered(t)
  /\ UNCHANGED <<lock, event, fault, users>>

(* spinlock_try_lock_value, a compare-and-swap; after which to go on if it *)
(* fails: in mutex_lock to wait, in mutex_lock_try to return false.        *)
CompareAndSwap(t, otherwise) ==
  /\ IF lock = Unlocked
       THEN lock' = LockId(t) /\ Entered(t)
       ELSE Goto(t, otherwise) /\ UNCHANGED <<lock, held>>
  /\ UNCHANGED <<depth, event, loaded, fault, users>>

TryLock(t) == At(t, "try") /\ CompareAndSwap(t, "wait")
TryOnce(t) == At(t, "once") /\ CompareAndSwap(t, "out")

(* event_wait: the service event_wait_irq, then the signal is cleared.     *)
EventWait(t) ==
  /\ At(t, "wait")
  /\ waiting' = IF signal = 0 THEN waiting \cup {t} ELSE waiting
  /\ Goto(t, "clear")
  /\ UNCHANGED <<lock, depth, signal, loaded, held, fault, users>>

ClearSignal(t) ==
  /\ At(t, "clear")
  /\ signal' = 0
  /\ Goto(t, "try")
  /\ UNCHANGED <<lock, depth, waiting, loaded, held, fault, users>>

-----------------------------------------------------------------------------
Always(d) == TRUE                                                \* mutant
Outermost(d) == d = 0

(* mutex_unlock by a task that holds the mutex: depth is loaded and tested.*)
Unlock(t) ==
  /\ At(t, "out")
  /\ held[t] > 0
  /\ held' = [held EXCEPT ![t] = @ - 1]
  /\ IF Outermost(depth)
       THEN Goto(t, "release") /\ UNCHANGED loaded
       ELSE Goto(t, "decrement") /\ loaded' = [loaded EXCEPT ![t] = depth]
  /\ UNCHANGED <<lock, depth, event, fault, users>>

Decrement(t) ==
  /\ At(t, "decrement")
  /\ depth' = loaded[t] - 1
  /\ loaded' = [loaded EXCEPT ![t] = 0]
  /\ Goto(t, "out")
  /\ UNCHANGED <<lock, event, held, fault, users>>

(* spinlock_unlock.                                                        *)
Release(t) ==
  /\ At(t, "release")
  /\ lock' = Unlocked
  /\ Goto(t, "look")
  /\ UNCHANGED <<depth, event, loaded, held, fault, users>>

NobodyWaits == FALSE                                             \* mutant
SomeoneWaits == waiting # {}                        \* event_task_waiting

Look(t) ==
  /\ At(t, "look")
  /\ Goto(t, IF SomeoneWaits THEN "notify" ELSE "out")
  /\ UNCHANGED <<lock, depth, event, loaded, held, fault, users>>

(* event_notify: every waiter becomes ready.                               *)
Notify(t) ==
  /\ At(t, "notify")
  /\ signal' = 1
  /\ waiting' = {}
  /\ Goto(t, "out")
  /\ UNCHANGED <<lock, depth, loaded, held, fault, users>>

-----------------------------------------------------------------------------
(***************************************************************************)
(* virtled_draw in a handler: mutex_lock_try with the id of handlers, and  *)
(* mutex_unlock when it succeeded.  A task's LockTry has an id of its own. *)
(***************************************************************************)
HandlerEnters == lock \in {Unlocked, IsrId}

HandlerDraws ==
  /\ Drawing /\ ~fault
  /\ HandlerEnters
  /\ IF lock = IsrId \/ Outermost(depth)
       THEN lock' = lock /\ depth' = depth
       ELSE lock' = IsrId /\ depth' = depth - 1
  /\ fault' = (lock = Unlocked /\ Outermost(depth) /\ SomeoneWaits)
  /\ UNCHANGED <<event, pc, loaded, held, users>>

Continues(t) ==
  \/ Increment(t) \/ TryLock(t) \/ TryOnce(t) \/ EventWait(t) \/ ClearSignal(t)
  \/ Decrement(t) \/ Release(t) \/ Look(t) \/ Notify(t)

Next ==
  \/ \E t \in Task : Lock(t) \/ LockTry(t) \/ Unlock(t) \/ Continues(t)
  \/ HandlerDraws

Spec == Init /\ [][Next]_vars

(***************************************************************************)
(* Fairness: time slicing lets every task that is not blocked go on with   *)
(* its call, and a task that has the mutex gives it back.  No task need    *)
(* lock it again, and no handler need run.                                 *)
(***************************************************************************)
FairSpec ==
  Spec /\ \A t \in Task : WF_vars(Continues(t)) /\ WF_vars(Unlock(t))

-----------------------------------------------------------------------------
(* Properties.                                                             *)

TypeOK ==
  /\ lock \in Int
  /\ depth \in Nat
  /\ signal \in {0, 1}
  /\ waiting \subseteq Task
  /\ pc \in [Task -> Place]
  /\ loaded \in [Task -> Nat]
  /\ held \in [Task -> Nat]
  /\ fault \in BOOLEAN
  /\ users \subseteq Task

Inside(t) == held[t] > 0

(***************************************************************************)
(* As long as only one task, besides handlers, has used the mutex: between *)
(* its calls the lock word is taken exactly while it holds the mutex,      *)
(* depth counts the locks beyond the first, it never blocks on itself      *)
(* (mutex.h:25, :55), and no handler is let in while it is inside, in its  *)
(* calls too (mutex.h:38, :49).                                            *)
(***************************************************************************)
OneUser == \A t, u \in users : t = u

NestingCounted ==
  OneUser =>
    /\ waiting = {} /\ ~fault
    /\ \A t \in users : pc[t] = "out" =>
         IF Inside(t) THEN lock = LockId(t) /\ depth = held[t] - 1
                      ELSE lock = Unlocked /\ depth = 0
    /\ HandlerEnters => \A t \in Task : ~Inside(t)

(***************************************************************************)
(* A task that waits is woken by the next unlock that frees the lock word, *)
(* whatever the races on depth have done (mutex.h:56-58).                  *)
(***************************************************************************)
UnlockWakes ==
  \A t, u \in Task :
    (t \in waiting /\ pc[u] = "release") ~> (t \notin waiting \/ fault)

-----------------------------------------------------------------------------
(* What the code's texts say, and the code does not do.                    *)

(* Whoever returns from mutex_lock has got the lock (mutex.h:33).          *)
MutualExclusion == \A t, u \in Task : Inside(t) /\ Inside(u) => t = u

(* A task that waits in mutex_lock for those inside is cleared by their    *)
(* notification (mutex.h:33).                                              *)
WaitersCleared ==
  \A t \in Task : (t \in waiting) ~> (t \notin waiting \/ fault)

(* The lock word is free when no task is inside the mutex or in one of its *)
(* functions: locks and unlocks are synchronized (spinlock.h:17-21).       *)
FreeWhenUnused ==
  (\A t \in Task : pc[t] = "out" /\ ~Inside(t)) => lock # 65535

(* A handler may use mutex_lock_try (mutex.h:40) and unlock what it got.   *)
HandlerMayUnlock == ~fault

=============================================================================
