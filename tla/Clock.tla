------------------------------- MODULE Clock --------------------------------
(***************************************************************************)
(* usec_time and msec_time of device/systimer.c: the sum of what the       *)
(* update interrupt has counted and of two hardware counters, read one     *)
(* after another, in an order C leaves open, while they count on.  Tasks   *)
(* call them with interrupts on and PendSV_Handler with interrupts off.    *)
(***************************************************************************)
EXTENDS Integers

CONSTANTS
  MasterPeriod, \* SYSTIMERM_PERIOD: microseconds of a count of the slave
  SlavePeriod,  \* SYSTIMERS_PERIOD: milliseconds of a lap of the slave
  LastUsec      \* the time at which the behaviours end (a bound)

ASSUME ClockAssumption ==
  /\ MasterPeriod \in Nat \ {0} /\ SlavePeriod \in Nat \ {0}
  /\ LastUsec \in Nat

VARIABLES
  usec,        \* microseconds since systimer_enable
  msecCounter, \* msec_counter; usec_counter, read at once, is 1000 times as much
  lapOver,     \* the update interrupt is pending
  unread,      \* the terms of the sum that the call has still to read
  sum,         \* of the terms it has read, in microseconds
  masked,      \* the call was made with interrupts off
  calledAt,    \* the time of the call
  crossed,     \* how many laps ended in the call, or were not counted before
  told         \* how far the last result was behind its call and ahead of its end

clockVars == <<usec, msecCounter, lapOver, unread, sum, masked, calledAt, crossed, told>>

Exact == [behind |-> 0, ahead |-> 0, crossed |-> 0]

ClockInit ==
  /\ usec = 0
  /\ msecCounter = 0
  /\ lapOver = FALSE
  /\ unread = {}
  /\ sum = 0
  /\ masked = FALSE
  /\ calledAt = 0
  /\ crossed = 0
  /\ told = Exact

-----------------------------------------------------------------------------
MasterCnt == usec % MasterPeriod
SlaveCnt  == (usec \div MasterPeriod) % SlavePeriod

Wraps == (usec + 1) % (MasterPeriod * SlavePeriod) = 0

(* The master counts; the slave counts its wraps, and requests the update  *)
(* interrupt when it wraps itself.  That is served long before it does so  *)
(* again: a lap is more than a minute.                                     *)
CountUp ==
  /\ usec < LastUsec
  /\ ~(Wraps /\ lapOver)
  /\ usec' = usec + 1
  /\ lapOver' = (lapOver \/ Wraps)
  /\ crossed' = IF unread # {} /\ Wraps THEN crossed + 1 ELSE crossed
  /\ UNCHANGED <<msecCounter, unread, sum, masked, calledAt, told>>

LapShort == SlavePeriod - 1                                      \* mutant

Lap == SlavePeriod

(* What systimers_slave_UE_callback adds; no call sees only one of its     *)
(* counters changed.                                                       *)
UpdateInterrupt ==
  /\ lapOver
  /\ ~(unread # {} /\ masked)
  /\ msecCounter' = msecCounter + Lap
  /\ lapOver' = FALSE
  /\ UNCHANGED <<usec, unread, sum, masked, calledAt, crossed, told>>

Terms(function) ==
  IF function = "usec_time" THEN {"counter", "slave", "master"} ELSE {"counter", "slave"}

CallTime(function, irqOff) ==
  /\ unread = {}
  /\ unread' = Terms(function)
  /\ sum' = 0
  /\ masked' = irqOff
  /\ calledAt' = usec
  /\ crossed' = IF lapOver THEN 1 ELSE 0
  /\ UNCHANGED <<usec, msecCounter, lapOver, told>>

Value(term) ==
  CASE term = "counter" -> msecCounter * MasterPeriod
    [] term = "slave"   -> SlaveCnt * MasterPeriod
    [] term = "master"  -> MasterCnt

(* A term is read; the last one ends the call.                             *)
ReadTerm(term) ==
  /\ term \in unread
  /\ unread' = unread \ {term}
  /\ sum' = sum + Value(term)
  /\ told' = IF unread' # {} THEN told
             ELSE [behind |-> calledAt - sum', ahead |-> sum' - usec, crossed |-> crossed]
  /\ UNCHANGED <<usec, msecCounter, lapOver, masked, calledAt, crossed>>

ClockNext ==
  \/ CountUp
  \/ UpdateInterrupt
  \/ \E function \in {"usec_time", "msec_time"}, irqOff \in BOOLEAN : CallTime(function, irqOff)
  \/ \E term \in {"counter", "slave", "master"} : ReadTerm(term)

ClockSpec == ClockInit /\ [][ClockNext]_clockVars

-----------------------------------------------------------------------------
(* Whatever the order of the reads and whenever the interrupt comes, the   *)
(* time told is right to a millisecond, but for one lap of the counter,    *)
(* too many or too few, for each that ended in the call or had not been    *)
(* counted when it began (systimer.c:46-54, 253-256).                      *)
TimeTold ==
  \E laps \in -told.crossed .. told.crossed :
    LET off == laps * SlavePeriod * MasterPeriod
    IN  told.behind - off < MasterPeriod /\ told.ahead + off < MasterPeriod

(* A time is not more than a millisecond before the call that told it: the *)
(* difference of two times is added to a run time as if it could not be    *)
(* negative (context_switch.c:85).  It is not so.                          *)
NeverBehind == told.behind < MasterPeriod

=============================================================================
