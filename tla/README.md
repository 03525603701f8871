# simple_os in TLA+

A specification and verification project for *simple_os*, a preemptive
multitasking kernel for the STM32F7 (one Cortex-M7 core): TLA+ modules that
model its code, TLC configurations that check them on small instances, and
proofs checked by TLAPS that hold for every instance.  Paths such as
`core/task.c` are below `src/os`.

## 1. The system

| Part | Files | State | Operations | Interacts through |
|---|---|---|---|---|
| Tasks | core/task.c, types/task_type.h | control blocks: state, priority, id, list node, join event | new, start, stop, delay, yield, end, join, free, the self check | events, scheduler, timers, table |
| Task table, idle task | core/task_control.c | `TCB[16]`, `idle_task` | add, remove, get, each | tasks, self check, shell |
| Events | core/event.h, event_control.c | `signal`, `waiting`; `event_list[32]` | wait, notify, register, unregister | scheduler, task states |
| Priority scheduler | core/scheduler_priority.c | `ready_list`, slice timer | reschedule, unschedule, next ready | PendSV, timers |
| Context switch, services | core/context_switch.c, service.c, kernel.h | `current_task`, PendSV pending, PRIMASK | SVC, PendSV | everything |
| Start | core/kernel.c, startup_stm32f746xx.S, config/init.c, device/lcd.c | oscillators, system clock, `__os_started` | reset, SystemClock_Config, os_start, _exit | tick, display, services, watchdog |
| Tick | core/systick.c | `__systick` | count | the waits of start-up |
| Lists | util/list.h | intrusive nodes | insert, remove, insert by condition | scheduler, events, timers |
| Mutexes, spinlocks | core/mutex.h, spinlock.h, mlock.c | lock word, depth, event | lock, try, unlock | events; malloc, LCD, serial port |
| Timers | device/systimer.c | two lists, 16-bit counter, compare register | start, stop, interrupt | events, scheduler, watchdog |
| Serial port, ring buffer | device/vcp.c, util/ring_buffer.c | two rings, two events, data register | gets, puts, interrupt | events, mutexes, shell |
| Watchdog | services/watchdog.c | hardware countdown | refresh from a timer | timers |
| Shell | services/shell.c | line buffer, argv | start, stop, ps, bt, ... | serial port, tasks |
| Application | app/src | main, ADC and demo tasks | | all of the above |
| Clock | device/systimer.c | two hardware counters, `msec_counter`, `usec_counter` | usec_time, msec_time, the update interrupt | context switch, shell |
| ADC task | app/src/adc_task.c | `adc_values`, `val_idx`, an event | start, callback | event, the ADC's interrupt at the end of a sequence of two conversions |
| Alternative schedulers | core/scheduler_round_robin.c, scheduler_trivial.c | a list or a cursor | as the scheduler | not built by default |
| Memory | core/memory.h, newlib/_sbrk.c | blocks, `current_heap_end` | malloc_aligned, free_aligned, _sbrk | tasks |
| Priority heap | util/heap.c | an array and its size | insert, remove head | built, used by nothing |
| Formatted output | util/os_printf.c | buffer, position | the conversions of os_vsniprintf | display, shell |
| Backtrace | diag/backtrace.c | the frame, the entries found | unwind | shell's `bt` |
| C library files | newlib/_syscalls.c | `openfiles[]` | open, close, read, write, lseek, stat, unlink, rename | the debugger's host |
| Display | os_printf.c, display.c, vt100.c, lcd.c | cursor, pixels | print | mutex |
| Third party | rest of newlib, diag, config | | | |

What is hard in it:

* *Interleaving.* Tasks run unprivileged and ask for services with `svc`; a
  protected service runs with interrupts off, but between two services, and
  between a service and the PendSV exception it pends, any interrupt handler
  may run.  The code that relies on two services in a row, or on a PendSV that
  follows at once, is where it goes wrong.
* *Wake-ups.* An event is a flag and a list; `event_wait` registers, tests and
  blocks, and clears the flag in three separate steps.
* *Time slicing.* A ready task that does not outrank the current one depends on
  a timer that is started and stopped at every switch.
* *Limits.* Two fixed tables whose "full" results no caller looks at; 8-bit
  indices of a heap; fixed buffers for lines and for formatted output.
* *Clocks.* A time is the sum of three counters, read one after another while
  they count on and an interrupt moves the one to the other.
* *Partial failure.* The C library keeps the position of a file beside the
  host's own, and an open is three calls to the host, each of which may fail.
* *Operators at the shell.* `start` and `stop` act on any task in any state.

`PROJECT.json` lists each hazard at its line with the properties that cover it.

## 2. Modules

| Module | What it is |
|---|---|
| `TaskStates` | `task_state_transition` as a function of state and action |
| `TaskLists` | list operations on sequences: insertion by priority, removal |
| `Kernel` | tasks, events, scheduler, context switch, composed as one state machine; properties |
| `MCKernel` | finite instances: tasks `m` (main), `a`, `b`, the idle task, one driver event `rx` |
| `TaskListsProofs` | what the list operations return and preserve |
| `Lists` | abstract: lists as sequences, a node in one of them at most |
| `LinkedList` | `util/list.h`, the links themselves, refining `Lists` |
| `KernelProofs` | theorems about `Kernel` |
| `Mutex`, `MCMutex`, `MutexProofs` | `core/mutex.h` access by access: tasks that lock it or try to, and the handlers that try |
| `ByteQueue` | abstract: a bounded first-in first-out queue |
| `RingBuffer`, `RingBufferProofs` | `util/ring_buffer.c` access by access, refining `ByteQueue` |
| `Vcp`, `VcpProofs` | `device/vcp.c`: the shell's task, the interrupt handler, transmitter and receiver |
| `Alarms` | abstract: timers that run when exactly their period has passed |
| `SysTimer`, `MCSysTimer`, `SysTimerProofs` | `device/systimer.c` and `services/watchdog.c`, refining `Alarms` |
| `Clock` | `usec_time` and `msec_time`, term by term, against the counters and the update interrupt |
| `Start` | from reset to `main`: the clocks, their time-outs, the tick, `os_start` |
| `Schedulers`, `SchedulersProofs` | the round-robin and the trivial scheduler, with the calls that change task states; its ready list is a `LinkedList` |
| `PriorityQueue` | abstract: a bounded bag from which the first leaves first |
| `Heap` | `util/heap.c` with its 8-bit indices, refining `PriorityQueue` |
| `Memory` | `core/memory.h` and `_sbrk`, over any `malloc` |
| `OsPrintf` | the conversions of `util/os_printf.c` and the bound of its buffer |
| `Backtrace` | `diag/backtrace.c`: unwinding, instruction by instruction |
| `Adc` | `app/src/adc_task.c` against the interrupt at the end of the two conversions |
| `Shell` | line editing of `vcp.c`, parsing and choice of a command of `shell.c` |
| `Files` | the file calls of `newlib/_syscalls.c` over the debugger's host |
| `MCParts` | instances of `LinkedList`, of `RingBuffer` and of the modules from `Clock` on |
| `PartsProofs` | theorems about `LinkedList`, `Memory`, `Adc`, `Clock`, `Shell`, `Files`, `Heap`, `OsPrintf` and `Backtrace` |

The parts are separate state machines that meet at events.  `Kernel` proves what
an event promises (no lost wake-up between its service and the block), and
`Mutex` and `Vcp` use an event by that promise: a signal and a set of waiters.
`SysTimer` answers what `Kernel` assumes of timers, that one which is started
does expire; `Vcp` keeps of its two rings how many bytes they hold, and
`RingBuffer` says what these bytes are.  `Kernel` works on sequences, and
`LinkedList` shows that the pointers of `util/list.h` are such sequences;
`Schedulers` works on the pointers, because it tells by a node's own links whether
a task is ready.  `Adc` uses an event as `Mutex` and `Vcp` do.  The modules from
`Clock` on, `LinkedList` and `RingBuffer` share no state, and are small: `MCParts` is one
state machine whose behaviours are each of one of them, so that one run checks them all.

### How Kernel corresponds to the code

`current` is `current_task`; `state[t]` is `t->state`, with `"FREE"` for a
control block that is not allocated; `ready` and `waiting[e]` are the lists;
`signal[e]` the flag; `tcb` and `registered` the contents of the two tables;
`pendSV` the pending bit of the exception; `slice` and `timer[t]` say whether
the scheduler's timer and the timer of `t`'s `task_delay` are in a timer list.

Kernel calls that consist of several services are followed by a control point
`pc[t]` and the event they are about, `arg[t]` (a task is named by its join
event).  A task steps only when it is current, no switch is pending, no
notification loop is running and no assertion has failed (`Runs`).

| Code | Actions |
|---|---|
| `task_yield` | `Yield` |
| `event_wait` | `Wait`, then `RegisterEvent`, then `WaitSignalled` or `WaitBlocks`, then `ClearSignal` |
| `task_delay` | `StartDelay`, the steps of `event_wait`, `DestroyTimer`, `UnregisterEvent` |
| `task_new` | `NewTask` (allocation, table), `RescheduleNew` |
| `task_join`, `task_free` | `JoinTask`, the steps of `event_wait`, `FreeTask` |
| `event_notify`, `event_notify_irq` | `NotifyEvent` or an interrupt, then `ReleaseWaiter` per waiter, `NotifyDone` |
| `task_end` | `EndTask`, `ReleaseWaiter` per joiner, `ExitTask` |
| shell `start`, `stop` | `FindTask`, `StartTask` or `StopTask` |
| interrupts | `IrqNotify` (serial port, ADC), `DelayExpires`, `SliceExpires` |
| `PendSV_Handler` | `PendSV`, with the self check `assert_all_tasks_valid` |
| failed assertion | `Fail`: the state stays as it was before the step and `halt` names the assertion |
| watchdog reset | `WatchdogReset`, back to `Init` |

Abstractions.  A protected service is one step, since nothing can run in it.
The loop of `event_notify_irq` is one step per waiter, with everything else
locked out; no other step can see the intermediate states, but the invariants
do.  Names, stacks, run times and register contexts are left out.  Only the
serial port and the ADC notify static events from interrupts, and any static
event may stand for theirs.  `task_delay` allocates its timer in the step that
starts it.  `task_join` is called with a task that exists and that no other
task joins: a second joiner would use freed memory, about which C says nothing.
`"Use after free"` is the model's name for the outcomes of reading a freed
control block; the runs reach it only where no property depends on what
follows.  The shell is one given task.

### How the other modules correspond to the code

*Mutex.*  `lock`, `depth`, `signal` and `waiting` are the fields of `mutex_t`
and its event; `loaded[t]` is the register that holds `depth` between its load
and its store.  Each access is a step of its own, because tasks of one priority
may be switched anywhere.  `mutex_lock` is `Lock`, then `Increment`, or `TryLock`
and, as long as it fails, `EventWait` and `ClearSignal`; `mutex_lock_try` of a task, which
`task_lcd_led` draws with (main.c:145, virtled.c:116), is `LockTry`, then `Increment` or
`TryOnce`; `mutex_unlock` is `Unlock`, then `Decrement`, or `Release`, `Look` and `Notify`.
`HandlerDraws` is `virtled_draw` in a timer's callback, with `mutex_lock_try` and
`mutex_unlock`, one step because no task runs in it.  The event's place in the kernel's event
table is left out: the mutexes of the application fit.  `held[t]` counts the locks
a task has and `users` the tasks that ever called; no code reads them.

*RingBuffer.*  `start`, `end` and `ring` (buffer) are the fields.  Insertion is
`InsertBegin` (the assertion), `InsertStore`, `InsertPublish`; removal is
`RemoveBegin`, `RemoveAdvance`.  The functions without effect are operators.

*Vcp.*  One step per service of the task or access to what it shares with the
handler; `IRQHandler` is one step, which runs before the task's next one, as an
interrupt does.  `os_puts_vcp` is `Put`, `InsertByte` for all bytes but the first,
`SendFirst`, `TxWait`, `TxClear`, `PutReturns`; `vcp_tx_byte` is a put of one byte;
`vcp_rx_byte` is `Get`, then `RxWait` and `RxClear` when the ring is empty, then
`RxRemove`.  `os_gets_vcp` is any sequence of these.  `Shift`, `Shifted` and
`Receive` are the port.  No handler, but only the shell's task, uses the port.
`early` says that the call under way began before the port was idle; no code
reads it.

*SysTimer.*  `systimers` and `rollovers` are the lists, of records of a timer and
its `exec_at`; `cnt`, `ccr`, `cc1ie`, `cc1` and `update` are the counter, the
compare register and the bits of the registers; `pc`, `systime` and `serving` are
where the handler is, its local variable and the timer whose callback it runs.
`StartDelay`, `StartRepeating` and `StopTimer` are the services.  The handler is
`Enter`, then for every timer that is due `RemoveDue`, `Callback`, `Rearm`, then
`LoopEnds`, `ClearCC1`, then `SwapLists` and `ClearUpdate` or `NoUpdate`.  `unfed`
is the watchdog's countdown, `owed` a clock of the properties that no code reads.
Of the hardware it is assumed that a compare value which is written while the
counter has it matches: the code depends on it when a timer is due in the very
tick of the wrap.  The handler clears a status bit in one step.

*LinkedList.*  `next` and `prev` are the fields of `list_t`; the actions are the
functions of `util/list.h`, one step each, since every caller has interrupts off.
`gotNode` is what the last removal returned, `misused` the assertion of the insertions.
`list_insert_condition` checks the node it is given only when it goes to the rear, and
`InsertCondition` does as it does; but with `OnlyUnlinked`, as in the run and in the
theorems, it is given unlinked nodes.  That is what its two callers see to: the
scheduler, for which `Kernel` shows it (`ListsAgree`), and the timers, which
`systimer_start_irq` does not start when they are in a list.  `Contents`
is the sequence of items that a walk from the head meets (`WalkMeets`); the
refinement maps every head to it.  A walk that never came back to its head would
meet none, which the refinement would show.

*Schedulers.*  `scheduler` is the build's choice.  As in `Kernel` a service is one
step; `task_new` is `NewTask`, then `ScheduleNew`.  `Switch` is the whole handler with
the self check, and `Halt` what a failed assertion of it leads to.  Why a task
waits is left out: `BlockTask`, `Wake`.  `creating` is a local variable of `task_new`,
`passed` counts for a property.

*Clock.*  `usec` stands for both hardware counters, which are functions of it.
`CallTime` begins a call and `ReadTerm` reads one term of its sum; C leaves their
order open, so that every order is tried.  `UpdateInterrupt` waits for the end of a
call that has interrupts off, as those of PendSV_Handler have.

*Start.*  `bootAt` is the loop or the call start-up is at.  `SwitchOsc` switches an
oscillator and reads the tick, `FlagFollows` and `TimesOut` are the two ends of the
loop, `OscSettles` is the oscillator.  HAL_Init and the HAL calls that take no time
are external and one step each.

*Adc.*  The steps of `adc_task`, with its `event_wait` as `EventWait` and `ClearSignal`;
`ConversionEnds` and `SequenceEnds` are the converter, the latter with its interrupt.
`adc_task_init` asks for one interrupt at the end of a sequence (`EOCSelection` DISABLE,
adc_task.c:70), for two conversions and for no DMA, so that the one data register has the
second channel's value when the callback reads it.  `values` tells of a reading whose it
is and how many starts ago it was converted, in place of its volts.

*Heap.*  `size`, `data` and `cmp` are the fields.  The first step of an operation changes
the array (`HeapInsert`, `HeapRemoveHead`); then `HeapifyUp` is a turn of the loop and
`Heapify` a call of the recursive function, with `sifted` their index, and no other operation
begins until `sifting` is "no".  `Index8` converts to `heap_index_t`, and `outside` says that
an access missed the array.

*Memory.*  `MallocAligned` and `FreeAligned` are the functions; where `malloc` puts a
block is any free place, or, when `_sbrk` has room, the end of the heap.  `Fill` is the
owner of a block, who may write all of it; `stored` is what is in memory.

*OsPrintf.*  A step is one conversion, with its argument; `used` is the position in
the buffer and `text` what it wrote.  A float is a number of hundredths.

*Backtrace.*  `Entered` and the records of `Index` are what gcc leaves, external: a stack is
what each call adds to that of its caller (`Pushed`).  `Turn` interprets an unwinding
instruction for the registers `vrs`, `Execute` is the loop of these turns and
`SearchIndex` that of the search; a step is a turn of the loop of `_backtrace_unwind`.

*Shell.*  A step is one byte from the terminal: `TypeCell` a letter or a word,
`TypeReturn` with `shell_parse` and the choice of the command, and the control
characters.  `screen` is what the terminal shows, kept to compare with.  The
loop of `ansi_esc` never loops (vcp.c:204-218): no byte is both below 0x40 and
above 0x7e, so that one byte is eaten.

*Files.*  `openfiles` is the table, `host` the debugger's handles, `length` its files.
Opening is two steps, because nothing keeps other tasks out of it:
`OpenChoosesSlot` (newslot), then `OpenEnds` with the calls to the host; the
others are one step.  A call of the host fails if its name is in `HostFails`, but
the close and the length of one `_stat` do not fail both.  The branch for
EOVERFLOW (_syscalls.c:761) cannot be taken.  In a semihosting build
`initialise_monitor_handles` runs twice, from `__initialize_args` and from
display.c:46, and forgets the first three handles of the terminal, which are no part
of `HostHandle`; `FilesInit` is the state after the second.

`Mutant` definitions, marked by a comment, are wrong versions of the operator
that follows them.  They are used by nothing: each stands for a bug that a named
property must detect when it replaces the right definition.

## 3. Properties and runs

Every property has its statement and the code behind it in a comment in
the module of its component.

| Run | Instance | Shows |
|---|---|---|
| `KernelCore.cfg` | all calls but the shell's, interrupts; priorities MEDIUM, MEDIUM, HIGH; tables large enough | `NoLostWakeup`, `ListsAgree`, `PriorityRespected`, `SliceArmed`, `JoinedHasEnded`, `ReleasedByNotify`, `ChecksFailOnlyByRace` hold |
| `KernelShell.cfg` | wait, delay, new, and `start`/`stop` by task `b`, interrupts | `ListAssertionsHold`, the assertions of event.h:68 and of an insertion into a waiting list (list.h:119), whatever is stopped and started |
| `KernelLive.cfg` | two tasks of the highest priority, all task calls, fairness | `TopTasksRun`, `DelayReturns` |
| `KernelIrqRace.cfg` | wait, interrupts | `TaskChecksHold` fails |
| `MutexShared.cfg` | three tasks, nesting of two, handlers, fairness | `NestingCounted`, `UnlockWakes` |
| `MutexExclusion.cfg` | two tasks | `MutualExclusion` fails |
| `VcpPort.cfg` | rings of four places, strings of up to five bytes, fairness | `NeverSleepsOnBytes`, `TransmissionGoesOn`, `SentWhenReturned`, `PutsReturn` |
| `VcpStaleSent.cfg` | strings of up to two bytes | `StringSent` fails |
| `TimerExact.cfg` | two delays, slice and watchdog, a counter that wraps at 8, no tick inside the handler or a service, fairness | `NothingFails`, `ImplementsAlarms`, `TimersRun` |
| `TimerWrap.cfg` | one delay, services during which the counter advances | `NoneLeftBehind` fails |
| `AdcChannels.cfg` | the ADC task and its interrupt | `TemperatureShown` fails |
| `Parts.cfg` | one small instance of each of the twelve modules `MCParts` combines, fairness | the properties of the table that follows |

| Part | Properties in `Parts.cfg` | What they say |
|---|---|---|
| `LinkedList` | `LinksAgree`, `ImplementsLists` | links are paired and no list loses or shares a node; the functions do to a list what `Lists` says |
| `RingBuffer` | `PlacesApart`, `ImplementsQueue` | the two sides never use the same place; it is a first-in first-out queue |
| `Heap` | `ImplementsPriorityQueue` | nothing is lost or made up, and one of the first leaves |
| `Memory` | `BlocksApart` | blocks neither overlap nor destroy the pointers to be freed |
| `OsPrintf` | `PrintsAsAsked` | numbers read back as the argument, and the buffer holds what is written |
| `Backtrace` | `CallersListed` | the listing begins with the calls that were made |
| `Adc` | `ReadingsAlternate`, `AdcTaskGoesOn` | of the two values shown one is new and the other of the start before; the task never waits for good |
| `Shell` | `RunsWhatIsShown` | the command and argument are those of the line on the screen |
| `Files` | `HandlesKept`, `PositionsAgree`, `ExclusiveCreates` | descriptors have handles, positions agree with the host's, an exclusive open creates |
| `Clock` | `TimeTold` | a time is right to a millisecond, but for laps that end meanwhile |
| `Start` | `StartUpEnds` | start-up reaches `main` or gives up |
| `Schedulers` | `TurnComes`, `SearchEndsOnTask`, `StopsOnlyByRace`, `ReadyTasksRun` | every ready task has its turn; the search never ends on an empty slot; only two races fail the self check |

`TypeOK`, `ReadySorted` of `Kernel` and `ListsInOrder` of `SysTimer` are not in the
configurations: those of `Kernel`, `Mutex` and `SysTimer` are proved, and the others are parts
of the proofs' invariants.  Any of them can be added to
the configuration of its component.

Those in which a property fails are disagreements between the code and its own
assertions or documentation; `PROJECT.json` has the line and the sequence of
events of each.  The modules state others, at the end of their properties, that
TLC refutes in the same way; they are no part of `PROJECT.json`.  A configuration
that is a file is kept; the others are a run's configuration with the change
named, in which the property is the only one:

| Configuration | Refutes | Because |
|---|---|---|
| `KernelLowPrio.cfg` | `IdleGivesWay` | priority LOW, -1, is below that of the idle task, 0: a task of it runs only when the idle task gives way, which the idle loop never does |
| `KernelCore`, `Calls` "new", "yield" | `TaskChecksHold` | a switch comes between the two services of `task_new` |
| `KernelShell`, `Calls` "new", "yield", "stop" | `TransitionsValid` | the shell's `stop` is used on the shell's task |
| `KernelStopJoiner.cfg` | `FreedTasksUnlisted` | a joiner is stopped and started and frees a task that has not ended |
| `KernelCore`, `MaxTasks` 2, `Calls` "new", "join", "end" | `CreatedTasksCanBeFreed` | the task table is full (`MaxTasks` 2) |
| `KernelEventsFull.cfg` | `BlockedTasksCounted` | the event table is full (`MaxEvents` 1) |
| `MutexLostWakeup.cfg` | `WaitersCleared` | the holder unlocks between compare-and-swap and wait |
| `MutexShared`, `MCTwoTasks`, `MCTwoIds`, `Nesting` 1, `MaxDepth` 4, `Drawing` FALSE, `Spec` | `FreeWhenUnused` | an update of `depth` is lost |
| the same, `Drawing` TRUE | `HandlerMayUnlock` | a handler that unlocks calls a service |
| `Parts` | `UsedAndRemainder` | the remainder of an empty ring is 0 |
| `RingAlmostFull.cfg` | `AlmostFullInTime` | the comparison is the wrong way round |
| `VcpStaleReceived.cfg` | `CheckedFirst` | a signal is left by a byte that was read without waiting |
| `VcpPort`, `MaxLength` 1, `Spec` | `ReceiverKeepsUp` | the handler does not test for room |
| `VcpLongString.cfg` | `StringFits` | the string is inserted before any of it is sent |
| `TimerExact`, `Delay` {d}, `Slow` "callback", `Spec` | `NoneLeftBehind` | the counter advances in a callback and passes the next timer |
| `TimerExact`, `Delay` {d}, `DelayPeriods <- MCLong`, `Spec` | `NeverEarly` | a delay of more than 16 bits is truncated |
| `Parts`, `OnlyUnlinked` FALSE | `LinksAgree` | a linked node is linked again, without a check, before an item |
| `Parts`, `HalfRange` 12 | `NeverStrays` | the index of a child overflows in a heap of more than 64 places |
| `Parts` | `NeverRefused` | the heap can be exhausted, and the result of `malloc` is used all the same |
| `Parts` | `UnsignedHasNoSign` | `%u` is printed by the signed conversion |
| `Parts` | `FractionHasAllDigits` | leading zeros of a fraction are dropped |
| `Parts`, `Plain` FALSE | `FitsBuffer` | "%%" and unknown conversions are written without a test for room |
| `Parts`, `Chains <- MCLeafChains` | `CallersListed` | a function that makes no call leaves its return address in a register |
| `Parts` | `ReferenceKnown` | in the first round one value only is stored: a division by 0 |
| `Parts` | `NoStaleArgument` | `argv` is not reset between lines |
| `Parts`, `MaxLine` 4 | `StaysInBuffer` | the buffer's last byte is not kept for the terminator |
| `Parts`, `HostFails` with "flen" or with "open" | `ExclusiveCreates` | a failed `_stat` is taken for a file that is not there |
| `Parts`, `FileCaller` {"t", "u"} | `HandlesKept` | two opens choose the same slot |
| `Parts`, `FlagSets` with {"wronly", "append"} | `PositionsAgree` | the host appends, the position does not know |
| `Parts`, `FlagSets` with {"rdwr", "creat"} | `OpenKeepsContents` | O_CREAT alone truncates a file |
| `Parts` | `NeverBehind` | a lap of the counter that ends during a call |
| `Parts` | `DisplayClocked` | the display's wait ends late, and nobody is told |
| `Parts` | `FailureRetried` | the watchdog is only enabled once the services run |

**Bounds.**  No counter is bounded: the state space is finite because tasks,
events and lists are.  Three tasks are enough for every relation the properties
speak of: one that runs, one of equal and one of higher priority, so that a
switch for preemption and one for the slice both occur; a joiner, a joined task
and a third one that interferes; two waiters of one event.  One static event
stands for the drivers', beside the join and delay events of every task.  With
`MaxTasks = 4` and `MaxEvents = 8` the tables never fill; the runs on full
tables make them 2 and 1.  Tasks are created, freed and created again.

In `Mutex` the constants `Nesting` and `MaxDepth` stop a task from locking
without end: with 2 a task may lock what it has locked, while another races with
it on a depth of 0, 1 or 2.  The port's rings
need room for a string that fits, one that just fits and one that does not, and
for one more received byte than fits.  A counter that wraps at 8 lets every
pair of a period and a starting tick occur, with periods of 0 to 7, so that
timers fall in either list, in the same tick, and in the tick of the wrap;
two delays are enough to start one between the other and the slice.

The parts of `Parts.cfg`, in the order of the table above.  Two lists of three
items, two of them of one key, give every insertion before, between and behind,
and a removal from either list.  A ring of four places is full, empty, wrapped and
partly filled; three different bytes show any change of order.  A heap of seven is three full levels; its keys
have a tie, and indices keep their 8 bits.  Memory is 52 bytes with an alignment of
8 and requests that need no rounding and some: it fills up, and freed places are
used again.  A buffer of 24 characters is filled by two numbers, and the numbers
include the extremes of 32 bits.  Call chains have up to four calls of functions
that push what gcc makes them push, one entry more than fits.  A reading's age is
counted to 2 (`Older`).  A line has three cells of a buffer of five: words,
spaces and digits in any order, erased and typed again.  Four descriptors leave
one to open beside the terminal's three, there are as many handles as may be
shared or not, a file has up to two bytes and a position moves between them.  The
clock's counters have periods of 2 and end at 9, after two laps
(`LastUsec`).  The tick wraps at 8, with time-outs of 3.  The other schedulers
have three tasks and a table of four, so that the search meets an empty slot.
`passed` stops counting at `MaxTasks`.

**Fairness** (`Fairness` in `Kernel.tla`).  A service that has begun goes on
and the watchdog does not stop: weak fairness of `Drain` and `WatchdogReset`.
An interrupt that comes due while interrupts are off stays pending, handlers
leave time for PendSV, and a slice of 5 ms is long enough for a step of the
running task: strong fairness of `PendSV`, `SliceExpires`, `DelayExpires` and of
the steps of a call in progress, which other handlers may disable again and
again.  A task need not make another call, so nothing is assumed of
`BeginsCall`, and no driver need interrupt.  That a timer that is started does
expire is assumed here; that `device/systimer.c` delivers it, when no tick falls inside
its handler or a service, is what `SysTimer` shows.  (That is more than that they take less than a
tick: one that begins just before a tick is excluded too, and `TimerWrap.cfg` shows
what it may do.)

In `Mutex` tasks of one priority share the processor by slices, so that each goes
on with its call and, having finished its work, unlocks: weak fairness of
`Continues(t)` and `Unlock(t)`.  In `Vcp` the transmitter sends and its interrupt is
taken (weak), and the task goes on with its call between interrupts, which may
come again and again (strong).  In `SysTimer` the handler goes on (weak), and the
counter counts, whatever services run between two ticks (strong).

In `Adc` the task, the converter and its interrupt go on (weak).  In `Start` the
processor goes on, strongly, since the tick changes a wait's answer far more
seldom than the loop asks for it, and the tick's interrupt comes (weak); an
oscillator need never be ready.  In `Schedulers` PendSV is taken and the slice timer
is periodic (weak of both); a task need not call anything.  `MCParts` takes these
over, for the behaviours of each.

`CHECK_DEADLOCK FALSE` is set where an assertion of the code has stopped the
system, where tasks wait for a mutex nobody will release, where the calls of the instance leave a system in
which every task waits for good, or where only the named violation is asked for.

## 4. Proofs

For any set of tasks, events and priorities, any table sizes and any subset of
the calls (`KernelAssumption`), with no fairness:

| Theorem | Statement |
|---|---|
| `TypeCorrect` | `Spec => []TypeOK` |
| `NoWakeupIsLost` | `Spec => []NoLostWakeup` |
| `ReadyStaysSorted` | `Spec => []ReadySorted` |
| `HighestRuns` | `Spec => []PriorityRespected` |
| `EqualsShareTime` | `Spec => []SliceArmed` |
| `OnlyNotifyReleases` | `Spec => ReleasedByNotify` |
| `ListsStayTrue` | `Spec => []ListsAgree` |
| `ListAssertionsStayTrue` | `Spec => []ListAssertionsHold` |
| `JoinedTasksEnded` | `Spec => [](TableOverflowed \/ JoinedHasEnded)`, without the shell's `start` and `stop` (`NoShell`) |
| `ChecksFailByRaceOnly` | `Spec => ChecksFailOnlyByRace`, under `NoShell` and with tables that hold every task and event (`RoomForAll`) |

*Types.*  `TypeOK` alone is not inductive: `RescheduleNew`, `FreeTask` and the
shell's services use the task in `arg[t]`, so `TypeInv` adds `CallsOK`, which
says what `arg` may be at each control point.

*Wake-ups.*  `NoLostWakeup` is inductive with the types: a signal is set only
by a notification that then empties the list, and a task enters a list only
having found the signal clear.

*Scheduler.*  `ReadySorted`, `PriorityRespected` and `SliceArmed` are proved
together (`SchedInv`): the last two hold after a context switch because the
first does, the head of a sorted list being its maximum.  Every step of the
kernel is first shown to be, for the scheduler's variables, one of five:
nothing (or a switch requested), a reschedule, a removal, a context switch, a
reset.  The lemmas on lists (`ScheduledProperties`, `UnlinkedProperties`,
`TailListProperties`, `AppendListProperties`) are in `TaskListsProofs`; the
insertion point, a CHOOSE of the least index, needs that a non-empty set of
naturals has a least element, from the well-foundedness of `<`.

*Releases.*  An event whose waiters are being released is signalled
(`DrainsSignalled`), and of all the steps only `ReleaseWaiter` takes a task from
WAIT to READY (`ReadiedIsReleased`).

*Lists and calls.*  What the lists hold follows from where the tasks are in their calls,
so one invariant, `LifeOK`, carries both: a listed waiter is at the end of its
`event_wait` of that event; a task that `task_new` has not yet rescheduled is READY
in no list; of two tasks at most one creates or joins a third; a joiner that is
past its wait has seen the task end, since a join event is signalled only by the
end of its task; a delay's timer and its entry in `event_list` exist only during the
call.  A task notified between its blocking and the switch breaks none of
this, because `PendSV` then ends in a failed assertion: the kernel's check of the whole table
is what the proof of that step (`LifeSwitches`) rests on.  A task missing in the
table is not checked, which is why all is stated until the table
overflows (`OverflowStays`).  `LifeOK` needs `NoShell`, that is, neither
`start` nor `stop` in `Calls`: the shell may make a joiner return before its task
has ended, and `JoinedHasEnded` fails then (see the table above).

*Lists, whatever the shell does.*  `ListsAgree` and the assertions of the lists hold with
`start` and `stop` too, from an invariant that says less of the calls (`SafeOK`):
nobody but its creator, which has then not left the processor, puts a new task in the
ready list; no call refers to a freed task, and no two to one task; a task in a
waiting list is at the end of its `event_wait`; and the current task is not WAIT unless
a switch is due.  Where the shell's calls could break the rest, the next switch
ends in a failed check, as above.

*Checks.*  `RoomOK` gives the tables room: `TCB` holds every task that is not free and
`event_list` every event in use, by counting, since each holds its members once;
a READY task that does not run is in the ready list or has its creator about to put it there;
and only the current task is ACTIVE.  So when `PendSV_Handler` finds a task it objects to, it is the
current one, notified after it blocked, or the one it was creating.  The theorem
is about the pairs of states in which `halt` changes (an action property).  With
the shell's calls more races fail the check, and with a full table what the handler
checks is no longer every task; both assumptions are therefore needed.

For the other components, again for all values of the constants:

| Theorem | Statement |
|---|---|
| `MutexTypes`, `OneTaskNests` | `[]TypeOK`, `[]NestingCounted` of `Mutex` |
| `SidesApart`, `RingIsQueue` | `[]PlacesApart` and `ImplementsQueue` of `RingBuffer` |
| `TimerTypes`, `TimersInOrder` | `[]TypeOK`, `[]ListsInOrder` of `SysTimer` |
| `PromptTimersNeverFail`, `TimersAreAlarms` | `[]NothingFails` and `ImplementsAlarms` of `SysTimer`, when no tick falls inside the handler or a service (`Prompt`), no delay is longer than a lap of the counter (`ShortDelays`) and the watchdog's timer is faster than the watchdog (`FedInTime`) |
| `TurnsCome`, `SearchEndsOnTasks`, `StopsByRaceOnly` | `[]TurnComes`, `[]SearchEndsOnTask`, `StopsOnlyByRace` of `Schedulers` |
| `TimeStaysTold` | `[]TimeTold` of `Clock` |
| `ReadingsStayAlternate` | `[]ReadingsAlternate` of `Adc` |
| `ShownIsRun` | `[]RunsWhatIsShown` of `Shell`, for lines that leave a byte of the buffer for the terminator (`LinesFit`) |
| `LinksStayPaired`, `LinksAreLists` | `[]LinksAgree` and `ImplementsLists` of `LinkedList`, when `list_insert_condition` is given no linked node (`OnlyUnlinked`) |
| `HeapIsQueue`, `HeapStaysValid` | `ImplementsPriorityQueue`, `[](HeapValid /\ NeverStrays)` of `Heap`, when every index of a child fits `heap_index_t` (`IndicesFit`) |
| `NumbersPrinted` | `[]PrintsAsAsked` of `OsPrintf`, when the format is `Plain`, the buffer has more than one byte, an int has 32 bits or less (`IntHas32Bits`) and each float fits an int with the places asked for (`FloatsFit`) |
| `CallersFound` | `[]CallersListed` of `Backtrace`, for a program whose functions are `Compiled` as gcc does with a frame pointer |
| `MemoryStaysApart` | `[]BlocksApart` of `Memory` |
| `DescriptorsHaveHandles` | `[]HandlesKept` of `Files`, for one caller |
| `PositionsStayEqual` | `[]PositionsAgree` of `Files`, for one caller that never appends |
| `ExclusiveOpensCreate` | `[]ExclusiveCreates` of `Files`, for one caller and a host whose opens and lengths do not fail |
| `BytesWake`, `CompletionComes`, `PutSends` | `[]NeverSleepsOnBytes`, `[]TransmissionGoesOn`, `[]SentWhenReturned` of `Vcp` |

*Mutex.*  The invariant says what lock word, depth and register hold at each
place of the one user's calls (`PlaceInv`), and nothing once there is a second
user; that no handler is let in is part of it.  That a task's lock value is neither 0
nor a handler's is `LockIds`.

*Ring buffer.*  `Inv` adds to `PlacesApart` what the producer has stored but not yet
published.  The refinement maps the ring to the sequence `Queued`; each step
leaves it as it is, appends the inserted byte or drops its head, which comes
down to the arithmetic of indices modulo the size, proved as lemmas.

*Serial port.*  `Waits` says what the task relies on wherever it may come to block:
it blocks for a byte only with an empty ring, and between its test and its wait
a byte has set the signal.  `Sending` follows a string from the data register to
the completion, as long as no completion was pending before.

*Timers.*  The order of both lists is inductive with the types, however slow the handler
is.  `Exact` is the rest: an entry is in the list of its lap and its `exec_at` is as
far ahead of the counter as the timer still owes, also between the wrap and the
exchange of the lists (`AtWrap`); when the counter wraps the old list is empty;
outside the loop the compare register holds the head's time, and the flag is set
when that time has come, which is why the flag may be cleared only where the head is
not due; the timer being served is in no list; and the watchdog's countdown and what its
timer owes add up to its period.  It is inductive under the three
assumptions.  `FedInTime` are the code's numbers, 200 ms against 250 ms; without `Prompt` or
`ShortDelays` TLC refutes `NoneLeftBehind` and `NeverEarly` (see the table above).  The refinement maps each timer to what it owes; a step of the handler is
a stutter or an alarm that goes off.

*Schedulers.*  `SchedulersAssumption` says that there are finitely many tasks, that
the table has room for all, and that names are distinct.  The invariant represents the
round-robin list by the ring it is, a sequence `r` that is quantified over, and says that what a task
has let pass and its place in the ring add up to at most the number of tasks.  For the trivial
search the distance is counted in slots of the table (`Ahead`), from where the search
stands.  That the search ends on a task needs that the current task's slot is never
emptied while it runs, and `StopsByRaceOnly` the states the table's tasks may
have when no switch is due (`CurrentInv`).

*Clock.*  The counters in hardware are functions of `usec`, and `msec_counter` is what the
update interrupt has counted of their laps.  For a call under way, the
invariant says that its sum is one of values the terms read so far had at
some moment of the call (`CallInv`), whichever terms these are; so the order of the
reads needs no case of its own.

*ADC.*  `AdcInv` says of the value stored last and of the other one how old they are
wherever task and converter are, and where the signal is set; that each start brings one
value rests on the sequence's being over when the next start comes, a quarter of a second
later, which the model's guard of `StartConversions` says.  Which channel a value is
of the invariant need not say: it is always the second, and what the task takes
for the temperature is the reference (`TemperatureShown`, section 3).

*Shell.*  The bytes of the buffer left of the cursor are the text on the
screen (`ShellInv`).  What `shell_parse` finds there, the pieces between spaces up to
the first NUL, is then computed twice, from the buffer and from the text, and the lemmas say where
the first piece ends and the second begins in each.

*Linked list.*  That links are paired is inductive as it is, with their types, as long as
`list_insert_condition` is given unlinked nodes (`OnlyUnlinked`); a
removal or insertion changes the links of up to three nodes, which may coincide.
That the links are lists needs more: the invariant is that some sequences, no two
of which share an item, say where every link leads (`Hold`), and that the other
items point to themselves.  A walk meets one sequence only (`OneWalk`), and such a
sequence is no longer than there are items, so `Contents` finds it (`ContentsFound`).  Each
operation is then an `InsertAt` or a `RemoveAt` of these sequences (`InsertHolds`,
`RemoveHolds`), which at the ends of a list are the operations of `Lists`.

*Heap.*  While a thing moves, `HeapOrder` says that everything else is in order: going up
only the thing may come before its parent, going down only its children before it, and its
children stand no higher than its parent.  With the array's elements in use being the
first `size` (`HeapTyped`), this is inductive.  The refinement counts how often a thing is in
the array; a swap counts the same (`CountsSwapped`), so a turn is a stutter, and the first step
of an operation is the whole of it.  That nothing comes before the head is an induction on indices,
by a least counterexample (`HeadIsFirst`).  `IndicesFit` is 64 places or less with the code's 8
bits; with more TLC refutes `NeverStrays` (see the table above).

*Formatted output.*  The recursive functions that count and write digits are first shown
to exist (`RecursionDefines`, by a least counterexample), so that their equations may be used.
The digits of a number then read as it (`DigitsRead`), and a bound on it is one on
their number (`MorePlaces`), which says that every conversion stays within what
was reserved for it (`IntLength`, `FloatLength`).  The invariant `PrintInv` adds that while
the format goes on a byte is left beside the terminator's.  A buffer of one byte is written
beyond (os_printf.c:84-89), and the conversion of a float that does not fit is undefined in C.

*Backtrace.*  `Compiled` says what the listing rests on: the index is in the order of
addresses, each function has room for a call, and each is compiled as gcc does with
a frame pointer (Makefile:60).  One that calls another saves r7, r14 and any of r4 to
r11, has up to 256 bytes of locals or none, and restores them under a mask, or as r4 and
those that follow it with r14 (`KeepsFrame`); one that calls none need not save r14, if it
restores under a mask, but is only the inmost (`IsLeaf`).  The number of functions, of
calls, recursive ones included, the size of the buffer and what is read off the stack are
arbitrary.  The search then finds the function an address is in, as the span between its
ends shrinks in every turn (`SearchFinds`); the stack still has what each call pushed
(`StackKeeps`); and the instructions of each shape, executed one by one, bring back the
caller's r7 and the address to return to (`PopsBack`, `Unwinds`).  The invariant `TraceInv` says that
after n turns the entries are the first n expected and the frame is that of the next
call.  A leaf that saves r4 to r7 is no such function, and TLC shows that its caller is
missed (section 3).

*Memory.*  The invariant adds that a block lies in what `malloc` gave for it, these do
not overlap, and a pointer word is where the block's bytes are not.  It needs
nothing of `malloc` but that it gives free memory.

*Files.*  `FilesInv` says which handle each descriptor has, that only descriptors 1 and 2
share one, and that a chosen slot stays free while an open is under way, which
is what a second caller would break.  `PositionInv` adds that no handle of a
file appends.  The three assumptions are needed: without each of them TLC refutes one
of the properties (see the table above).

Only model-checked: `StartUpEnds` and the other liveness properties, since fairness is out
of the prover's reach.

## 5. Plan

The plan was one component after another in the order of section 1, each modelled, checked
and then proved; that is done.  Open:

1. Abstract components that others use: an event that promises "a waiter returns
   only after a notification", implemented by `Kernel`; a lock, implemented by
   `Mutex` for one user.
2. Proofs about what the task and event tables hold once they are full.

## 6. Not modelled

* Code without a state that a property could be about: register and stack
  saving in the context switch, its run-time accounting, the copy of the stack by
  `task_main_hoist`, names of tasks, the text the shell's commands print.
* Pixels: `device/lcd.c` beyond its clock, `vt100.c`, what the application draws, and
  the arithmetic of the ADC's temperature.
* `spinlock_lock` and `HAL_Delay`, which nothing calls.
* The trace ports of `diag/`, which write bytes and keep nothing; stubs of
  `newlib/` that only return an error; `newlib/_startup.c` and the parsing of
  arguments, whose place `Reset_Handler` takes.
* Tables of `config/`: interrupt vectors, pins, options of the HAL.  The HAL itself
  is a submodule and external.

`newlib/_syscalls.c` is modelled as a build with OS_USE_SEMIHOSTING has it; the
Makefile's line that chooses such a build is commented out.
