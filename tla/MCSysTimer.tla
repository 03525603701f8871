----------------------------- MODULE MCSysTimer -----------------------------
(* Instances of SysTimer: the counter wraps at 8.                          *)
EXTENDS SysTimer

CONSTANTS d, e, slice, watchdog

MCPeriod == [t \in {slice, watchdog} |-> IF t = slice THEN 2 ELSE 3]
MCDelays == 0 .. 7
MCLong   == {9}

=============================================================================
