\* Two tasks and two approvals: requests in flight, decisions, cancels, expiry.
SPECIFICATION Spec
CONSTANTS
  Workers = {w1}
  IdempotencyKeys = {}
  DedupeKeys = {}
  Priorities = {1}
  AttemptLimits = {1}
  CallerReasons <- CallReasons
  None = None
  LeaseSeconds = 1
  LockWait = 1
  MaxTasks = 2
  MaxEvents = 5
  MaxTime = 2
  Clients = {c1}
  Lifetimes = {1}
  MaxApprovals = 2
INVARIANTS
  ApprovalTypeOK
  DecisionsMatchEvents
  DecisionsInTime
  CloudTasksRunOnlyAfterApproval
PROPERTIES
  DecisionsAreFinal
  ImplementsQueue
CHECK_DEADLOCK FALSE
