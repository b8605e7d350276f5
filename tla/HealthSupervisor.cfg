\* The supervisor that launchd keeps alive and the health command the installer
\* runs at the same moment; one failure or kill, one change of the world.
SPECIFICATION Spec
CONSTANTS
  Processes = {"supervise", "health"}
  Keep = {"supervise"}
  Loop = {"supervise"}
  Once = {"health"}
  Skip = {"health"}
  None = None
  MaxFailures = 1
  MaxChanges = 1
INVARIANTS
  SupervisionTypeOK
  WorkersFindTheirTables
PROPERTIES
  KeptProcessesComeUp
  HealthConverges
CHECK_DEADLOCK FALSE
