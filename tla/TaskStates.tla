----------------------------- MODULE TaskStates -----------------------------
(***************************************************************************)
(* The life cycle of a task: task_state_transition of os/core/task.c.      *)
(* A pair the switch statement has no arm for ends in the assertion        *)
(* "Invalid Transition"; here it is the result Invalid.                    *)
(***************************************************************************)

TaskState  == {"INACTIVE", "ACTIVE", "READY", "WAIT", "END"}
TaskAction == {"START", "STOP", "CONTEXT_SWITCH", "WAIT", "NOTIFY", "EXIT"}

Invalid == "invalid"

Transition(s, a) ==
  CASE s = "INACTIVE" /\ a = "START"          -> "READY"
    [] s = "ACTIVE"   /\ a = "STOP"           -> "INACTIVE"
    [] s = "ACTIVE"   /\ a = "CONTEXT_SWITCH" -> "READY"
    [] s = "ACTIVE"   /\ a = "WAIT"           -> "WAIT"
    [] s = "ACTIVE"   /\ a = "EXIT"           -> "END"
    [] s = "READY"    /\ a = "STOP"           -> "INACTIVE"
    [] s = "READY"    /\ a = "CONTEXT_SWITCH" -> "ACTIVE"
    [] s = "WAIT"     /\ a = "STOP"           -> "INACTIVE"
    [] s = "WAIT"     /\ a = "CONTEXT_SWITCH" -> "WAIT"
    [] s = "WAIT"     /\ a = "NOTIFY"         -> "READY"
    [] s = "END"      /\ a = "CONTEXT_SWITCH" -> "END"
    [] OTHER                                  -> Invalid

CanMove(s, a) == Transition(s, a) # Invalid

=============================================================================
