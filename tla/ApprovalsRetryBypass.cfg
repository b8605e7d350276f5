\* A retry of cancelled cloud work.
SPECIFICATION Spec
CONSTANTS
  Workers = {w1}
  IdempotencyKeys = {}
  DedupeKeys = {}
  Priorities = {1}
  AttemptLimits = {1}
  CallerReasons <- CallReasons
  None = None
  LeaseSeconds = 1
  LockWait = 1
  MaxTasks = 2
  MaxEvents = 5
  MaxTime = 1
  Clients = {c1}
  Lifetimes = {1}
  MaxApprovals = 2
INVARIANT
  CloudWorkRunsOnlyAfterApproval
CHECK_DEADLOCK FALSE
