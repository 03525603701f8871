------------------------------ MODULE MCKernel ------------------------------
(***************************************************************************)
(* Instances of Kernel for TLC: a main task, two tasks it may create, the  *)
(* idle task and one driver event, with the priorities of task_type.h.     *)
(***************************************************************************)
EXTENDS Kernel

CONSTANTS m, a, b, idle, rx

PriIdle   == 0
PriLow    == -1
PriMedium == 0
PriHigh   == 1

MCTask == {m, a, b}
MCTwoTasks == {m, a}
MCName == {rx}

(* The default priority for main and a, the shell's priority for b.        *)
MCPrio == (m :> PriMedium) @@ (a :> PriMedium) @@ (b :> PriHigh)
            @@ (idle :> PriIdle)

(* Two equals: both are top tasks.                                         *)
MCEqualPrio == (m :> PriHigh) @@ (a :> PriHigh) @@ (idle :> PriIdle)

(* a has the priority of the application's Greedy tasks.                   *)
MCLowPrio == (m :> PriMedium) @@ (a :> PriLow) @@ (b :> PriMedium)
               @@ (idle :> PriIdle)

(* All different, so that no slice ends between two services.              *)
MCStrictPrio == (m :> PriMedium) @@ (a :> PriHigh) @@ (b :> PriHigh + 1)
                  @@ (idle :> PriIdle)
=============================================================================
