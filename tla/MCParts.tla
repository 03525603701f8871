------------------------------ MODULE MCParts -------------------------------
(***************************************************************************)
(* Instances of the small parts that share no state with one another: the  *)
(* linked list, the ring buffer, the heap, memory, formatted output, the   *)
(* backtrace, the ADC task, the shell's lines, the C library's files, the  *)
(* clock, start-up and the other schedulers.  A behaviour is one of one    *)
(* part, while the others stay in an initial state.                        *)
(***************************************************************************)
EXTENDS LinkedList, RingBuffer, Heap, Memory, OsPrintf, Backtrace, Adc, Shell, Files, Clock,
        Start, Schedulers

CONSTANTS h1, h2, x1, x2, x3, main, t1, t2

VARIABLE part

(* Two lists of three items, two of which compare equal; a heap of things  *)
(* with equal keys.                                                        *)
MCHeads    == {h1, h2}
MCItems    == {x1, x2, x3}
MCKeys     == (x1 :> 1) @@ (x2 :> 1) @@ (x3 :> 2)
MCHeapKeys == (x1 :> 1) @@ (x2 :> 2) @@ (x3 :> 2)

(* Numbers at the limits, and of any number of digits that matters.        *)
MCValues == {MinInt, -MaxInt, -10, -1, 0, 7, 10, 255, MaxInt}

(* What gcc generates for functions that save r7 and lr, with and without  *)
(* local variables, or r4 to r7 and lr; for one that calls no other and    *)
(* saves r7, or r4 to r7; and then one that cannot be unwound, and         *)
(* task_end.                                                               *)
Function(address, saves, room, insn) ==
  [start |-> address, saves |-> saves, room |-> room, insn |-> insn]

MCIndex ==
  << Function(100, <<7, 14>>, 0, <<128, 151, 132, 8>>),
     Function(110, <<7, 14>>, 8, <<129, 1, 151, 1, 132, 8, 176, 176>>),
     Function(120, <<4, 5, 6, 7, 14>>, 0, <<128, 151, 171, 176>>),
     Function(130, <<7>>, 0, <<128, 151, 128, 8>>),
     Function(140, <<4, 5, 6, 7>>, 0, <<128, 151, 163, 176>>),
     Function(150, << >>, 0, << >>),
     Function(160, <<7, 14>>, 0, <<128, 151, 132, 8>>) >>

(* Calls of up to four functions, recursive ones too, maybe with one that  *)
(* calls no other; and those that end in one that saves r4 to r7.          *)
Callers      == UNION {[1 .. n -> 1 .. 3] : n \in 1 .. 4}
MCChains     == Callers \cup {<<4>> \o c : c \in Callers}
MCLeafChains == {<<5>> \o c : c \in Callers}

MCWild == {ExcPsp, ExcMsp, 0, 1, 103, 155}

(* Two tasks beside the main one, and room for one more.                   *)
MCTasks == {main, t1, t2}

ASSUME ThreadsApart == SchedulersAssumption

Parts == {"list", "ring", "heap", "memory", "print", "trace", "adc", "shell", "files", "clock",
          "start", "sched"}

partVars ==
  <<listVars, ringVars, heapVars, memoryVars, printVars, traceVars, adcVars, shellVars,
    filesVars, clockVars, startVars, schedVars>>

Init ==
  /\ part \in Parts
  /\ ListInit /\ MemoryInit /\ PrintInit /\ AdcInit /\ ShellInit /\ ClockInit /\ StartInit
  /\ RingInit  /\ (part # "ring" => inserted = CHOOSE c \in Byte : TRUE)
  /\ HeapInit  /\ (part # "heap" => cmp = "max")
  /\ TraceInit /\ (part # "trace" => calls = <<1>> /\ wild = 0)
  /\ SchedInit /\ (part # "sched" => scheduler = "trivial")
  /\ FilesInit /\ (part # "files" => openfiles[2].handle = 2 /\ ~Exists("f"))

(* A step of part p is none of the others.                                 *)
Only(p) ==
  /\ part = p /\ UNCHANGED part
  /\ p # "list"   => UNCHANGED listVars
  /\ p # "ring"   => UNCHANGED ringVars
  /\ p # "heap"   => UNCHANGED heapVars
  /\ p # "memory" => UNCHANGED memoryVars
  /\ p # "print"  => UNCHANGED printVars
  /\ p # "trace"  => UNCHANGED traceVars
  /\ p # "adc"    => UNCHANGED adcVars
  /\ p # "shell"  => UNCHANGED shellVars
  /\ p # "files"  => UNCHANGED filesVars
  /\ p # "clock"  => UNCHANGED clockVars
  /\ p # "start"  => UNCHANGED startVars
  /\ p # "sched"  => UNCHANGED schedVars

AdcStep == Only("adc") /\ AdcNext
PendSV  == Only("sched") /\ Switch
Slice   == Only("sched") /\ SliceExpires
Boot    == Only("start") /\ Proceed
Tick    == Only("start") /\ IncTick

Next ==
  \/ Only("list") /\ ListNext
  \/ Only("ring") /\ RingNext
  \/ Only("heap") /\ HeapNext
  \/ Only("memory") /\ MemoryNext
  \/ Only("print") /\ PrintNext
  \/ Only("trace") /\ TraceNext
  \/ Only("shell") /\ ShellNext
  \/ Only("files") /\ FilesNext
  \/ Only("clock") /\ ClockNext
  \/ Only("start") /\ StartNext
  \/ Only("sched") /\ SchedNext
  \/ AdcStep

(* The fairness of AdcSpec, of SchedSpec and of StartSpec.    *)
Spec ==
  /\ Init /\ [][Next]_<<part, partVars>>
  /\ WF_<<part, partVars>>(AdcStep)
  /\ WF_<<part, partVars>>(PendSV) /\ WF_<<part, partVars>>(Slice)
  /\ SF_<<part, partVars>>(Boot) /\ WF_<<part, partVars>>(Tick)

(* ReadingsGoOn, of the behaviours that are of the ADC task, BootEnds, of   *)
(* those that are of start-up, and ReadyTasksRun, of the schedulers'.      *)
AdcTaskGoesOn == part = "adc" => ReadingsGoOn
StartUpEnds   == part = "start" => BootEnds
SchedulerRuns == part = "sched" => ReadyTasksRun

=============================================================================
