--------------------------- MODULE TaskLifecycle ---------------------------
(***************************************************************************)
(* The frozen task state machine of the Mac Core                           *)
(* (queue/state_machine.py, domain/enums.py): pure operators, shared by    *)
(* every module that moves a task.                                         *)
(***************************************************************************)

Status == {"Created", "Validating", "Queued", "Running", "WaitingForTool",
           "WaitingForApproval", "Retrying", "Completed", "Failed",
           "Cancelled", "Archived"}

\* Mutant: a failed task may be put back into the queue in place.
ReopeningTransitions ==
  [ Created            |-> {"Validating", "Cancelled"},
    Validating         |-> {"Queued", "WaitingForApproval", "Failed", "Cancelled"},
    Queued             |-> {"Running", "Cancelled"},
    Running            |-> {"WaitingForTool", "WaitingForApproval", "Retrying",
                            "Completed", "Failed", "Cancelled"},
    WaitingForTool     |-> {"Queued", "Retrying", "Failed", "Cancelled"},
    WaitingForApproval |-> {"Queued", "Failed", "Cancelled"},
    Retrying           |-> {"Queued", "Failed", "Cancelled"},
    Completed          |-> {"Archived"},
    Failed             |-> {"Queued", "Archived"},
    Cancelled          |-> {"Archived"},
    Archived           |-> {} ]

\* _ALLOWED_TRANSITIONS: the statuses a task may move to, by its status.
AllowedTransitions ==
  [ Created            |-> {"Validating", "Cancelled"},
    Validating         |-> {"Queued", "WaitingForApproval", "Failed", "Cancelled"},
    Queued             |-> {"Running", "Cancelled"},
    Running            |-> {"WaitingForTool", "WaitingForApproval", "Retrying",
                            "Completed", "Failed", "Cancelled"},
    WaitingForTool     |-> {"Queued", "Retrying", "Failed", "Cancelled"},
    WaitingForApproval |-> {"Queued", "Failed", "Cancelled"},
    Retrying           |-> {"Queued", "Failed", "Cancelled"},
    Completed          |-> {"Archived"},
    Failed             |-> {"Archived"},
    Cancelled          |-> {"Archived"},
    Archived           |-> {} ]

\* ensure_transition: a caller that gets InvalidTransitionError changes nothing,
\* so the check is a guard of the step.
EnsureTransition(current, target) == target \in AllowedTransitions[current]

\* Mutant: a task waiting for a retry no longer blocks a duplicate.
DedupeStatusesWithoutRetrying ==
  {"Created", "Validating", "Queued", "Running", "WaitingForTool",
   "WaitingForApproval"}

\* _ACTIVE_DEDUPE_STATUSES: a task in one of these blocks a new task with its
\* dedupe_key.
ActiveDedupeStatuses ==
  {"Created", "Validating", "Queued", "Running", "WaitingForTool",
   "WaitingForApproval", "Retrying"}

\* The statuses of a task that has ended; nothing but archiving follows them.
EndedStatuses == {"Completed", "Failed", "Cancelled", "Archived"}

\* QueueRepository.retry accepts a task in one of these.
RetryableStatuses == {"Failed", "Cancelled"}
=============================================================================
