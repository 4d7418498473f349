--------------------------- MODULE TaskLifecycle ---------------------------
(***************************************************************************)
(* What the factory promises about the life of a task: the graph of        *)
(* STATUS_TRANSITIONS (apps/forge-site control plane, repeated in          *)
(* factory/scripts/task_lib.py), as an abstract state machine that says    *)
(* nothing of requests, queues or workers.                                 *)
(***************************************************************************)

CONSTANTS
  Tasks,          \* task ids (TASK-NNN)
  BirthStatuses   \* the statuses callers create tasks in

Statuses ==
  {"planning", "proposed", "claimed", "in_progress", "review", "done", "failed"}

\* A task id no row exists for.
Absent == "absent"

Transitions ==
  [ planning    |-> {"proposed", "failed"},
    proposed    |-> {"claimed", "failed", "planning"},
    claimed     |-> {"in_progress", "failed", "proposed"},
    in_progress |-> {"review", "failed"},
    review      |-> {"done", "failed", "in_progress"},
    done        |-> {},
    failed      |-> {"proposed", "planning"} ]

CanTransition(from, to) == from = to \/ to \in Transitions[from]

-----------------------------------------------------------------------------

VARIABLE status

Init == status = [t \in Tasks |-> Absent]

Create(t) ==
  /\ status[t] = Absent
  /\ \E s \in BirthStatuses : status' = [status EXCEPT ![t] = s]

Move(t) ==
  /\ status[t] # Absent
  /\ \E s \in Statuses :
       /\ CanTransition(status[t], s)
       /\ status' = [status EXCEPT ![t] = s]

Next == \E t \in Tasks : Create(t) \/ Move(t)

Spec == Init /\ [][Next]_status
=============================================================================
