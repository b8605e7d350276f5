\* Tools: two tasks, two projects, one approval; results: three puts by two
\* threads, two faults; audit: three rows and one damage.
SPECIFICATION ServicesSpec
CONSTANTS
  Workers = {w1}
  IdempotencyKeys = {}
  DedupeKeys = {}
  Priorities = {1}
  AttemptLimits = {1}
  CallerReasons <- CallReasons
  None = None
  LeaseSeconds = 1
  LockWait = 0
  MaxTasks = 2
  MaxEvents = 4
  MaxTime = 1
  Clients = {c1}
  Lifetimes = {0, 1}
  MaxApprovals = 1
  Classifications = {"INTERNAL", "PROTECTED"}
  MaxProjects = 2
  Putters = {p1, p2}
  NoFile = NoFile
  MaxPuts = 3
  MaxStoreFaults = 2
  Contents = {"a", "b"}
  MaxAppends = 3
  MaxDamages = 1
INVARIANTS
  ServicesTypeOK
  ToolWorkAvoidsProtectedProjects
  ToolUploadsRunOnlyAfterApproval
  FilesAreWhole
  ReturnedPutsVerify
  ManifestsHaveObjects
  DamageIsLocated
PROPERTIES
  ImplementsApprovals
  LatePutsChangeNothing
CHECK_DEADLOCK FALSE
