----------------------------- MODULE TaskLists -----------------------------
(***************************************************************************)
(* The intrusive lists of os/util/list.h as the kernel uses them: a list   *)
(* is the sequence of the tasks linked from its head.                      *)
(***************************************************************************)
EXTENDS Integers, Sequences, SequencesExt

CONSTANT Prio   \* Prio[t] is the priority of task t, task_t.priority

(***************************************************************************)
(* list_insert_condition with scheduler_insert_condition: the new task     *)
(* goes before the first listed task of strictly lower priority, and to    *)
(* the rear when there is none, hence after its equals.                    *)
(***************************************************************************)
Outranks(t, u) == Prio[t] > Prio[u]

InsertionPoint(q, t) ==
  LET lower == {i \in DOMAIN q : Outranks(t, q[i])}
  IN  IF lower = {} THEN Len(q) + 1
      ELSE CHOOSE i \in lower : \A j \in lower : i <= j

Scheduled(q, t) == InsertAt(q, InsertionPoint(q, t), t)

(***************************************************************************)
(* list_remove: the node leaves the list that holds it, whichever it is,   *)
(* and a node in no list is left as it is.                                 *)
(***************************************************************************)
UnlinkedNever(q, t) == q                                         \* mutant

Unlinked(q, t) ==
  IF \E i \in DOMAIN q : q[i] = t
    THEN RemoveAt(q, CHOOSE i \in DOMAIN q : q[i] = t)
    ELSE q

Members(q) == {q[i] : i \in DOMAIN q}

NoDuplicates(q) == \A i, j \in DOMAIN q : q[i] = q[j] => i = j

Sorted(q) == \A i, j \in DOMAIN q : i < j => Prio[q[i]] >= Prio[q[j]]

=============================================================================
