\* Leases, recovery and histories: two tasks of two priorities, two workers.
SPECIFICATION QueueSpec
CONSTANTS
  Workers = {w1, w2}
  IdempotencyKeys = {}
  DedupeKeys = {}
  Priorities = {1, 2}
  AttemptLimits = {1, 2}
  CallerReasons <- CallReasons
  None = None
  LeaseSeconds = 1
  LockWait = 1
  MaxTasks = 2
  MaxEvents = 6
  MaxTime = 3
SYMMETRY Symmetry
INVARIANTS
  HistoryExplainsStatus
  SnapshotsAreCurrent
  LostTasksFailAtTheLimit
  LeaseBelongsToLastLeaser
PROPERTIES
  RecoveryOnlyAfterExpiry
  NoOvertaking
CHECK_DEADLOCK FALSE
