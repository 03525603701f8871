---------------------------- MODULE MutexProofs -----------------------------
(***************************************************************************)
(* As long as one task uses a mutex, with handlers that try it, the lock   *)
(* word and the depth say how often the task has locked it, and no handler *)
(* is let in meanwhile.  With a second task neither holds.                 *)
(***************************************************************************)
EXTENDS Mutex, TLAPS

(* What lock, depth and the register hold at each point of the functions.  *)
PlaceInv(t) ==
  CASE pc[t] = "out" ->
         IF held[t] > 0 THEN lock = LockId(t) /\ depth = held[t] - 1
                        ELSE lock = Unlocked /\ depth = 0
    [] pc[t] = "increment" ->
         lock = LockId(t) /\ held[t] > 0
           /\ depth = held[t] - 1 /\ loaded[t] = depth
    [] pc[t] = "try"  -> lock = Unlocked /\ depth = 0 /\ held[t] = 0
    [] pc[t] = "once" -> lock = Unlocked /\ depth = 0 /\ held[t] = 0
    [] pc[t] = "decrement" ->
         lock = LockId(t) /\ held[t] > 0
           /\ depth = held[t] /\ loaded[t] = depth
    [] pc[t] = "release" -> lock = LockId(t) /\ depth = 0 /\ held[t] = 0
    [] pc[t] = "look"    -> lock = Unlocked /\ depth = 0 /\ held[t] = 0
    [] OTHER -> FALSE

(* Types, and the value that a decrement will store.                       *)
TypeInv ==
  /\ TypeOK
  /\ \A t \in Task : pc[t] = "decrement" => loaded[t] > 0

Inv ==
  /\ TypeInv
  /\ \A t \in Task \ users : pc[t] = "out" /\ held[t] = 0
  /\ OneUser =>
       /\ waiting = {} /\ ~fault
       /\ users = {} => lock = Unlocked /\ depth = 0
       /\ \A t \in users : PlaceInv(t)

(* No id of a task makes a lock word that is free or a handler's.          *)
LEMMA LockIds ==
  ASSUME NEW t \in Task
  PROVE  LockId(t) \in Nat /\ LockId(t) # Unlocked /\ LockId(t) # IsrId
<1> DEFINE quarter == (Id[t] * 4) \div 65536
<1>1. Id[t] \in Nat
  BY MutexAssumption
<1>2. quarter \in Nat
  BY <1>1
<1> HIDE DEF quarter
<1>3. quarter * 65536 + 65535 \in Nat /\ quarter * 65536 + 65535 > 0
  BY <1>2
<1>4. LockId(t) = quarter * 65536 + 65535
  BY DEF LockId, quarter
<1> QED
  BY <1>3, <1>4 DEF Unlocked, IsrId

LEMMA InitInv == Init => Inv
<1> SUFFICES ASSUME Init
             PROVE  Inv
  OBVIOUS
<1>1. TypeOK
  <2>1. pc \in [Task -> Place] /\ loaded \in [Task -> Nat]
          /\ held \in [Task -> Nat]
    BY DEF Init, Place
  <2>2. lock \in Int /\ depth \in Nat
    BY DEF Init, Unlocked
  <2>3. signal \in {0, 1} /\ waiting \subseteq Task /\ users \subseteq Task
    BY DEF Init
  <2>4. fault \in BOOLEAN
    BY DEF Init
  <2> QED
    BY <2>1, <2>2, <2>3, <2>4 DEF TypeOK
<1>2. \A t \in Task : pc[t] = "out" /\ held[t] = 0
  BY DEF Init
<1>3. /\ users = {} /\ lock = Unlocked /\ depth = 0
      /\ waiting = {} /\ ~fault
  BY DEF Init
<1> QED
  BY <1>1, <1>2, <1>3 DEF Inv, TypeInv

LEMMA StepType == TypeInv /\ [Next]_vars => TypeInv'
<1> SUFFICES ASSUME TypeInv, [Next]_vars
             PROVE  TypeInv'
  OBVIOUS
<1> USE MutexAssumption DEF TypeInv
<1>1. \A t \in Task : LockId(t) \in Nat
  BY LockIds
<1>2. ASSUME NEW t \in Task, Lock(t) \/ LockTry(t) \/ Unlock(t) \/ Continues(t)
      PROVE  TypeInv'
  <2>1. CASE Lock(t) \/ LockTry(t)
    BY <2>1 DEF Lock, LockTry, Begin, At, Goto, TypeOK, Place, event
  <2>2. CASE Unlock(t)
    BY <2>2 DEF Unlock, Outermost, At, Goto, TypeOK, Place, event
  <2>3. CASE Increment(t)
    BY <2>3 DEF Increment, Entered, At, Goto, TypeOK, Place, event
  <2>4. CASE TryLock(t) \/ TryOnce(t)
    BY <1>1, <2>4
       DEF TryLock, TryOnce, CompareAndSwap, Entered, At, Goto, TypeOK, Place, event
  <2>5. CASE EventWait(t)
    BY <2>5 DEF EventWait, At, Goto, TypeOK, Place
  <2>6. CASE ClearSignal(t)
    BY <2>6 DEF ClearSignal, At, Goto, TypeOK, Place
  <2>7. CASE Decrement(t)
    BY <2>7 DEF Decrement, At, Goto, TypeOK, Place, event
  <2>8. CASE Release(t)
    BY <2>8 DEF Release, At, Goto, TypeOK, Place, event, Unlocked
  <2>9. CASE Look(t)
    BY <2>9 DEF Look, SomeoneWaits, At, Goto, TypeOK, Place, event
  <2>10. CASE Notify(t)
    BY <2>10 DEF Notify, At, Goto, TypeOK, Place
  <2> QED
    BY <1>2, <2>1, <2>2, <2>3, <2>4, <2>5, <2>6, <2>7, <2>8, <2>9, <2>10
       DEF Continues
<1>3. CASE HandlerDraws
  <2>1. lock' \in Int /\ depth' \in Nat
    BY <1>3 DEF HandlerDraws, Outermost, IsrId, TypeOK
  <2>2. fault' \in BOOLEAN
    BY <1>3 DEF HandlerDraws
  <2>3. UNCHANGED <<signal, waiting, pc, loaded, held, users>>
    BY <1>3 DEF HandlerDraws, event
  <2> QED
    BY <2>1, <2>2, <2>3 DEF TypeOK
<1>4. CASE UNCHANGED vars
  <2>1. UNCHANGED <<lock, depth, signal, waiting, pc, loaded, held, users>>
    BY <1>4 DEF vars, event
  <2>2. fault' \in BOOLEAN
    BY <1>4, Zenon DEF vars, TypeOK
  <2> QED
    BY <2>1, <2>2 DEF TypeOK
<1> QED
  BY <1>2, <1>3, <1>4 DEF Next

(* Each step of the one task re-establishes what its next place asks for.  *)
LEMMA StepInv == Inv /\ [Next]_vars => Inv'
<1> SUFFICES ASSUME Inv, [Next]_vars
             PROVE  Inv'
  OBVIOUS
<1> USE MutexAssumption
<1>1. TypeInv'
  BY StepType DEF Inv
<1>2. \A t \in Task : LockId(t) \in Nat /\ LockId(t) # Unlocked
                        /\ LockId(t) # IsrId
  BY LockIds
<1>3. ASSUME NEW t \in Task, Lock(t) \/ LockTry(t) \/ Unlock(t) \/ Continues(t)
      PROVE  Inv'
  <2>1. users' = users \cup {t}
    BY <1>3 DEF Lock, LockTry, Begin, Unlock, Continues, Increment, TryLock, TryOnce,
       CompareAndSwap, EventWait, ClearSignal, Decrement, Release, Look, Notify, At, Inv
  <2>2. \A u \in Task \ users' : pc'[u] = "out" /\ held'[u] = 0
    <3>1. ASSUME NEW u \in Task, u # t
          PROVE  pc'[u] = pc[u] /\ held'[u] = held[u]
      BY <1>3, <3>1 DEF Lock, LockTry, Begin, Unlock, Continues, Increment, TryLock,
         TryOnce, CompareAndSwap, EventWait, ClearSignal, Decrement, Release, Look, Notify,
         Goto, Entered, Inv, TypeInv, TypeOK
    <3> QED
      BY <2>1, <3>1 DEF Inv
  <2>3. ASSUME OneUser'
        PROVE  waiting' = {} /\ ~fault' /\ users' = {t} /\ PlaceInv(t)'
    <3>1. users' = {t} /\ OneUser
      BY <2>1, <2>3 DEF OneUser
    <3>2. /\ LockId(t) \in Nat /\ LockId(t) # Unlocked /\ LockId(t) # IsrId
          /\ TypeOK /\ waiting = {} /\ ~fault
      BY <1>2, <3>1 DEF Inv, TypeInv
    <3>3. PlaceInv(t)
      <4>1. CASE t \in users
        BY <3>1, <4>1 DEF Inv
      <4>2. CASE t \notin users
        <5>1. users = {}
          BY <2>1, <3>1, <4>2
        <5>2. pc[t] = "out" /\ held[t] = 0 /\ lock = Unlocked /\ depth = 0
          BY <3>1, <4>2, <5>1 DEF Inv
        <5> QED
          BY <5>2 DEF PlaceInv
      <4> QED
        BY <4>1, <4>2
    <3>4. LockId(t)' = LockId(t)
      BY DEF LockId
    <3> SUFFICES waiting' = {} /\ ~fault' /\ PlaceInv(t)'
      BY <3>1
    <3>5. CASE Lock(t) \/ LockTry(t)
      BY <3>2, <3>3, <3>4, <3>5
         DEF Lock, LockTry, Begin, At, Goto, PlaceInv, TypeOK, Place, event
    <3>6. CASE Unlock(t)
      BY <3>2, <3>3, <3>4, <3>6
         DEF Unlock, Outermost, At, Goto, PlaceInv, TypeOK, Place, event
    <3>7. CASE Increment(t)
      BY <3>2, <3>3, <3>4, <3>7
         DEF Increment, Entered, At, Goto, PlaceInv, TypeOK, Place, event
    <3>8. CASE TryLock(t) \/ TryOnce(t)
      BY <3>2, <3>3, <3>4, <3>8
         DEF TryLock, TryOnce, CompareAndSwap, Entered, At, Goto, PlaceInv, TypeOK, Place,
             event
    <3>9. CASE EventWait(t) \/ ClearSignal(t) \/ Notify(t)
      BY <3>3, <3>9 DEF EventWait, ClearSignal, Notify, At, PlaceInv
    <3>10. CASE Decrement(t)
      BY <3>2, <3>3, <3>4, <3>10
         DEF Decrement, At, Goto, PlaceInv, TypeOK, Place, event
    <3>11. CASE Release(t)
      BY <3>2, <3>3, <3>4, <3>11
         DEF Release, At, Goto, PlaceInv, TypeOK, Place, event, Unlocked
    <3>12. CASE Look(t)
      BY <3>2, <3>3, <3>4, <3>12
         DEF Look, SomeoneWaits, At, Goto, PlaceInv, TypeOK, Place, event
    <3> QED
      BY <1>3, <3>5, <3>6, <3>7, <3>8, <3>9, <3>10, <3>11, <3>12 DEF Continues
  <2> QED
    BY <1>1, <2>2, <2>3 DEF Inv
<1>4. CASE HandlerDraws
  <2>1. UNCHANGED <<signal, waiting, pc, loaded, held, users>>
    BY <1>4 DEF HandlerDraws, event
  <2>2. OneUser' => OneUser
    BY <2>1 DEF OneUser
  <2>3. ASSUME OneUser
        PROVE  lock' = lock /\ depth' = depth /\ ~fault'
    <3>1. HandlerEnters => depth = 0
      BY <1>2, <2>3 DEF Inv, TypeInv, TypeOK, OneUser, PlaceInv, HandlerEnters
    <3> QED
      BY <1>4, <2>3, <3>1 DEF HandlerDraws, Outermost, SomeoneWaits, Inv
  <2> QED
    BY <1>1, <2>1, <2>2, <2>3 DEF Inv, PlaceInv, LockId
<1>5. CASE UNCHANGED vars
  <2>1. UNCHANGED <<lock, depth, waiting, pc, loaded, held, users>>
    BY <1>5 DEF vars, event
  <2>2. ~fault => ~fault'
    BY <1>5 DEF vars
  <2> QED
    BY <1>1, <2>1, <2>2 DEF Inv, OneUser, PlaceInv, LockId
<1> QED
  BY <1>3, <1>4, <1>5 DEF Next

LEMMA InvMeans == Inv => TypeOK /\ NestingCounted
<1> SUFFICES ASSUME Inv
             PROVE  TypeOK /\ NestingCounted
  OBVIOUS
<1>1. \A t \in Task : LockId(t) # Unlocked /\ LockId(t) # IsrId
  BY LockIds
<1>2. ASSUME OneUser
      PROVE  HandlerEnters => \A t \in Task : ~Inside(t)
  BY <1>1, <1>2 DEF Inv, TypeInv, TypeOK, PlaceInv, HandlerEnters, Inside
<1>3. NestingCounted
  BY <1>2 DEF Inv, PlaceInv, NestingCounted, Inside
<1> QED
  BY <1>3 DEF Inv, TypeInv

(* However many tasks race on it, depth never falls below 0.               *)
THEOREM MutexTypes == Spec => []TypeOK
BY InitInv, StepInv, InvMeans, PTL DEF Spec

(* The mutex of one task is a recursive lock: lock word and depth count    *)
(* its nesting, it never blocks on itself, and no handler draws while it   *)
(* is inside.                                                              *)
THEOREM OneTaskNests == Spec => []NestingCounted
BY InitInv, StepInv, InvMeans, PTL DEF Spec

=============================================================================
