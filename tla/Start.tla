------------------------------- MODULE Start --------------------------------
(***************************************************************************)
(* From reset to the first task: start-up code, SystemClock_Config of      *)
(* config/init.c, the display's clock of device/lcd.c, os_start of         *)
(* core/kernel.c, with the millisecond tick of core/systick.c that bounds  *)
(* the waits for oscillators.  An oscillator that is switched on may be    *)
(* ready at any time, or never.                                            *)
(***************************************************************************)
EXTENDS Integers

CONSTANTS
  TickRange, \* the ticks a uint32_t counts
  Timeout    \* the ticks after which a wait ends (HSE_TIMEOUT_VALUE and the like)

ASSUME StartAssumption ==
  TickRange \in Nat \ {0} /\ Timeout \in Nat /\ Timeout < TickRange - 1

Oscillator == {"HSE", "PLL", "PLLSAI"}

VARIABLES
  bootAt,    \* where start-up is: the loop it is about to enter, or a step
  looping,   \* it is in that loop
  systick,   \* __systick
  tickstart, \* its value when the loop was entered
  oscOn,     \* which oscillators are switched on
  oscReady,  \* the ready flags
  sysclk     \* the source of the system clock

startVars == <<bootAt, looping, systick, tickstart, oscOn, oscReady, sysclk>>

(* The data segment and the bss are set, and SystemInit has chosen the     *)
(* internal oscillator, so that the PLL is free to be configured.          *)
StartInit ==
  /\ bootAt = "reset"
  /\ looping = FALSE
  /\ systick = 0 /\ tickstart = 0
  /\ oscOn = {} /\ oscReady = {}
  /\ sysclk = "HSI"

-----------------------------------------------------------------------------
(* The waits of SystemClock_Config and BSP_LCD_ClockConfig: an oscillator  *)
(* is switched on or off, and its flag has to follow.  A late one ends     *)
(* start-up for good, but not that of the display.                         *)
Wait(osc, on, then, late) == [osc |-> osc, on |-> on, then |-> then, late |-> late]

Waits ==
  [hse     |-> Wait("HSE", TRUE, "pll_off", "failed"),
   pll_off |-> Wait("PLL", FALSE, "pll_on", "failed"),
   pll_on  |-> Wait("PLL", TRUE, "overdrive", "failed"),
   lcd_off |-> Wait("PLLSAI", FALSE, "lcd_on", "display"),
   lcd_on  |-> Wait("PLLSAI", TRUE, "display", "display")]

Goto(place) == bootAt' = place

(* HAL_Init (external) starts the tick and then calls HAL_MspInit, which   *)
(* configures the clock.                                                   *)
HalInit ==
  /\ bootAt = "reset" /\ Goto("hse")
  /\ UNCHANGED <<looping, systick, tickstart, oscOn, oscReady, sysclk>>

SwitchOsc ==
  /\ bootAt \in DOMAIN Waits /\ ~looping
  /\ LET w == Waits[bootAt]
     IN  oscOn' = IF w.on THEN oscOn \cup {w.osc} ELSE oscOn \ {w.osc}
  /\ tickstart' = systick
  /\ looping' = TRUE
  /\ UNCHANGED <<bootAt, systick, oscReady, sysclk>>

FlagFollows ==
  /\ looping
  /\ (Waits[bootAt].osc \in oscReady) = Waits[bootAt].on
  /\ Goto(Waits[bootAt].then) /\ looping' = FALSE
  /\ UNCHANGED <<systick, tickstart, oscOn, oscReady, sysclk>>

LateIfAhead(now, start) == now > start + Timeout                 \* mutant

(* The difference of two ticks, although they may wrap.                    *)
Late(now, start) == (now - start) % TickRange > Timeout

(* The flag may have followed after it was read.                           *)
TimesOut ==
  /\ looping /\ Late(systick, tickstart)
  /\ Goto(Waits[bootAt].late) /\ looping' = FALSE
  /\ UNCHANGED <<systick, tickstart, oscOn, oscReady, sysclk>>

(* HAL_PWREx_EnableOverDrive, and HAL_RCC_ClockConfig, which may fail.     *)
OverDrive ==
  /\ bootAt = "overdrive"
  /\ Goto("select") \/ Goto("failed")
  /\ UNCHANGED <<looping, systick, tickstart, oscOn, oscReady, sysclk>>

SelectPll ==
  /\ bootAt = "select"
  /\ \/ sysclk' = "PLL" /\ Goto("lcd_off")
     \/ UNCHANGED sysclk /\ Goto("failed")
  /\ UNCHANGED <<looping, systick, tickstart, oscOn, oscReady>>

(* The rest of display_init, the timers and task_control_init; then        *)
(* task_main_hoist with interrupts off; then the services.                 *)
After == [display |-> "hoist", hoist |-> "services", services |-> "main"]

OsStart ==
  /\ bootAt \in DOMAIN After /\ Goto(After[bootAt])
  /\ UNCHANGED <<looping, systick, tickstart, oscOn, oscReady, sysclk>>

(* SysTick_Handler.                                                        *)
IncTick ==
  /\ bootAt \notin {"reset", "hoist"}
  /\ systick' = (systick + 1) % TickRange
  /\ UNCHANGED <<bootAt, looping, tickstart, oscOn, oscReady, sysclk>>

(* A flag follows its oscillator.                                          *)
OscSettles ==
  /\ \/ \E o \in oscOn \ oscReady : oscReady' = oscReady \cup {o}
     \/ \E o \in oscReady \ oscOn : oscReady' = oscReady \ {o}
  /\ UNCHANGED <<bootAt, looping, systick, tickstart, oscOn, sysclk>>

Proceed == HalInit \/ SwitchOsc \/ FlagFollows \/ TimesOut \/ OverDrive \/ SelectPll \/ OsStart

StartNext == Proceed \/ IncTick \/ OscSettles

(* The processor runs, and a loop looks at the tick far more often than it *)
(* is counted.                                                             *)
StartSpec ==
  StartInit /\ [][StartNext]_startVars /\ SF_startVars(Proceed) /\ WF_startVars(IncTick)

-----------------------------------------------------------------------------
(* Start-up reaches main or gives up, whatever the oscillators do and      *)
(* wherever the tick wraps (init.c:62-96, lcd.c:96-130): each of its waits *)
(* is bounded by a tick that interrupts count.                             *)
BootEnds == <>(bootAt \in {"main", "failed"})

(* The display has its clock when tasks run; it may not, since             *)
(* BSP_LCD_ClockConfig returns nothing.                                    *)
DisplayClocked == bootAt = "main" => "PLLSAI" \in oscReady

(* A start-up that gave up is tried again; the watchdog, which would do    *)
(* it, is only enabled by a later step (kernel.c:57).                      *)
FailureRetried == bootAt = "failed" ~> bootAt # "failed"

=============================================================================
