------------------------------- MODULE Alarms -------------------------------
(***************************************************************************)
(* What the timers of device/systimer.c promise: a timer runs when exactly *)
(* its period has passed since it was started, a repeating one again and   *)
(* again, and it does not run once it is stopped.                          *)
(***************************************************************************)
EXTENDS Integers

CONSTANTS
  Timer,
  Repeating,   \* the timers that start again when they have run
  Periods      \* Periods[t]: the periods t may be started with

Off == -1

VARIABLE left   \* left[t]: the ticks before t runs, or Off

Init == left = [t \in Timer |-> Off]

Start(t) ==
  /\ left[t] = Off
  /\ \E p \in Periods[t] : left' = [left EXCEPT ![t] = p]

Stop(t) ==
  /\ left[t] # Off
  /\ left' = [left EXCEPT ![t] = Off]

Run(t) ==
  /\ left[t] = 0
  /\ IF t \in Repeating
       THEN \E p \in Periods[t] : left' = [left EXCEPT ![t] = p]
       ELSE left' = [left EXCEPT ![t] = Off]

(* Time does not pass while a timer is due.                                *)
Tick ==
  /\ \A t \in Timer : left[t] # 0
  /\ left' = [t \in Timer |-> IF left[t] = Off THEN Off ELSE left[t] - 1]

Next == Tick \/ \E t \in Timer : Start(t) \/ Stop(t) \/ Run(t)

Spec == Init /\ [][Next]_left

=============================================================================
