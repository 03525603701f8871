-------------------------------- MODULE Adc ---------------------------------
(***************************************************************************)
(* app/src/adc_task.c: the task starts a sequence of two conversions, of   *)
(* the temperature and of the reference voltage, waits for an event and    *)
(* shows two stored values.                                                *)
(*                                                                         *)
(* External, the converter as adc_task_init sets it up: EOCSelection is    *)
(* DISABLE, 0, which asks for one interrupt at the end of the sequence and *)
(* not for one after each conversion (adc_task.c:61-70).  It has one data  *)
(* register and there is no DMA, so that the second conversion overwrites  *)
(* the first, and the interrupt reads the second only.                     *)
(***************************************************************************)
EXTENDS Integers, Sequences

Channels == <<"temperature", "reference">>       \* by rank

VARIABLES
  task,       \* where adc_task is
  signal,     \* adc_event.signal
  rank,       \* the conversion of the sequence that goes on, 0 if none does
  valIdx,     \* val_idx
  values,     \* adc_values: their channels, and how many starts ago
  shown       \* the values shown last

adcVars == <<task, signal, rank, valIdx, values, shown>>

Unset == [channel |-> "none", age |-> 0]

AdcInit ==
  /\ task = "start"
  /\ signal = FALSE
  /\ rank = 0
  /\ valIdx = 0
  /\ values = [i \in 0 .. 1 |-> Unset]
  /\ shown = << >>

-----------------------------------------------------------------------------
(* Ages are counted up to 2 (a bound of the model).                        *)
Older(v) == IF v.channel = "none" \/ v.age = 2 THEN v ELSE [v EXCEPT !.age = @ + 1]

(* HAL_ADC_Start_IT.  The two conversions take microseconds and task_delay *)
(* a quarter of a second: none is going on.                                *)
StartConversions ==
  /\ task = "start" /\ rank = 0
  /\ rank' = 1
  /\ values' = [i \in 0 .. 1 |-> Older(values[i])]
  /\ task' = "wait"
  /\ UNCHANGED <<signal, valIdx, shown>>

EventWaitClearsFirst ==                                          \* mutant
  /\ task = "wait"
  /\ task' = "blocked"
  /\ signal' = FALSE
  /\ UNCHANGED <<rank, valIdx, values, shown>>

(* event_wait: the task is blocked if the signal is not set, and clears it *)
(* when it runs again.                                                     *)
EventWait ==
  /\ task = "wait"
  /\ task' = IF signal THEN "clear" ELSE "blocked"
  /\ UNCHANGED <<signal, rank, valIdx, values, shown>>

KeepSignal ==                                                    \* mutant
  /\ task = "clear"
  /\ task' = "use"
  /\ UNCHANGED <<signal, rank, valIdx, values, shown>>

ClearSignal ==
  /\ task = "clear"
  /\ signal' = FALSE
  /\ task' = "use"
  /\ UNCHANGED <<rank, valIdx, values, shown>>

(* The first value is taken for the temperature, the second for the        *)
(* reference.                                                              *)
UseValues ==
  /\ task = "use"
  /\ shown' = values
  /\ task' = "delay"
  /\ UNCHANGED <<signal, rank, valIdx, values>>

DelayOver ==
  /\ task = "delay"
  /\ task' = "start"
  /\ UNCHANGED <<signal, rank, valIdx, values, shown>>

(* HAL_ADC_ConvCpltCallback, with the value in the data register.          *)
NextIdx(i) == (i + 1) % 2

Callback(channel) ==
  /\ values' = [values EXCEPT ![valIdx] = [channel |-> channel, age |-> 0]]
  /\ signal' = TRUE
  /\ task' = IF task = "blocked" THEN "clear" ELSE task
  /\ valIdx' = NextIdx(valIdx)

(* A conversion before the last one ends: its value stays in the data      *)
(* register until the next one's takes its place.                          *)
ConversionEnds ==
  /\ rank \in 1 .. Len(Channels) - 1
  /\ rank' = rank + 1
  /\ UNCHANGED <<task, signal, valIdx, values, shown>>

SequenceEnds ==
  /\ rank = Len(Channels)
  /\ rank' = 0
  /\ Callback(Channels[rank])
  /\ UNCHANGED shown

AdcNext ==
  \/ StartConversions \/ EventWait \/ ClearSignal \/ UseValues \/ DelayOver
  \/ ConversionEnds \/ SequenceEnds

AdcSpec == AdcInit /\ [][AdcNext]_adcVars /\ WF_adcVars(AdcNext)

-----------------------------------------------------------------------------
(* Whatever the task shows, one of its two values was converted since its  *)
(* last start, and the other one a start earlier, or never in the first    *)
(* round: no notification is consumed by the wrong wait, and none is left  *)
(* over for the next (adc_task.c:31-40, 112-117).                          *)
New(v)   == v.channel # "none" /\ v.age = 0
Prior(v) == v = Unset \/ v.age = 1

ReadingsAlternate ==
  shown # << >> => \E i \in 0 .. 1 : New(shown[i]) /\ Prior(shown[1 - i])

(* A clear of the event erases notifications, and still the task never     *)
(* waits for one that was erased (adc_task.c:32, event.h:35-39).           *)
ReadingsGoOn == []<>(task = "use")

-----------------------------------------------------------------------------
(* What the code's comments say, and the code does not do.                 *)

(* T is computed from the first value, by the formula of the temperature   *)
(* sensor (adc_task.c:33-38).                                              *)
TemperatureShown == shown # << >> => shown[0].channel = "temperature"

(* V is computed by a division by the second value (adc_task.c:40-42).     *)
ReferenceKnown == shown # << >> => shown[1].channel # "none"

=============================================================================
