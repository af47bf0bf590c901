----------------------------- MODULE TaskStates -----------------------------
(***************************************************************************)
(* The statuses of a task and the moves between them, as declared by       *)
(* domain/tasks/task.py.  Every module that writes a task row uses these.  *)
(***************************************************************************)

Statuses == {"CREATED", "PLANNING", "RUNNING", "WAITING_FOR_TOOL",
             "WAITING_FOR_APPROVAL", "VERIFYING",
             "COMPLETED", "FAILED", "CANCELLED"}

TerminalStatuses == {"COMPLETED", "FAILED", "CANCELLED"}

\* Fault: only the statuses in which the employee works are picked up again.
ResumableWhileWorking == {"CREATED", "PLANNING", "RUNNING"}

\* What list_resumable selects: a task parked on an approval is not in it.
ResumableStatuses ==
  {"CREATED", "PLANNING", "RUNNING", "WAITING_FOR_TOOL", "VERIFYING"}

\* ALLOWED_TRANSITIONS, read as a relation.  Nothing leaves a terminal status.
CanTransition(from, to) ==
  \/ from = "CREATED" /\ to \in {"PLANNING", "RUNNING", "FAILED", "CANCELLED"}
  \/ from = "PLANNING" /\ to \in {"RUNNING", "FAILED", "CANCELLED"}
  \/ from = "RUNNING" /\ to \in {"WAITING_FOR_TOOL", "WAITING_FOR_APPROVAL", "VERIFYING",
                                 "PLANNING", "COMPLETED", "FAILED", "CANCELLED"}
  \/ /\ from \in {"WAITING_FOR_TOOL", "WAITING_FOR_APPROVAL"}
     /\ to \in {"RUNNING", "FAILED", "CANCELLED"}
  \/ from = "VERIFYING" /\ to \in {"COMPLETED", "PLANNING", "RUNNING", "FAILED", "CANCELLED"}
=============================================================================
