\* Two approvals of one task, approved and then rejected.
SPECIFICATION Spec
CONSTANTS
  Workers = {w1}
  IdempotencyKeys = {}
  DedupeKeys = {}
  Priorities = {1}
  AttemptLimits = {1}
  CallerReasons <- CallReasons
  None = None
  LeaseSeconds = 1
  LockWait = 1
  MaxTasks = 1
  MaxEvents = 5
  MaxTime = 2
  Clients = {c1}
  Lifetimes = {1}
  MaxApprovals = 2
INVARIANT
  RejectionsCancelWaitingTasks
CHECK_DEADLOCK FALSE
