\* Creation, keys and retries: three tasks, one worker, short lives.
SPECIFICATION QueueSpec
CONSTANTS
  Workers = {w1}
  IdempotencyKeys = {"i1"}
  DedupeKeys = {"d1"}
  Priorities = {1}
  AttemptLimits = {1}
  CallerReasons <- CallReasons
  None = None
  LeaseSeconds = 1
  LockWait = 0
  MaxTasks = 3
  MaxEvents = 5
  MaxTime = 2
INVARIANTS
  QueueTypeOK
  IdempotentCreation
  OneActivePerDedupeKey
  ChildrenOfUnsuccessfulTasks
PROPERTIES
  EndedTasksStayEnded
CHECK_DEADLOCK FALSE
