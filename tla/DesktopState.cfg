\* Two connects that may overlap, two visible tasks, of which a list holds one,
\* and a hidden one, one failure.
SPECIFICATION Spec
CONSTANTS
  Attempts = {a1, a2}
  Tasks = {t1, t2, t3}
  Hidden = {t3}
  ListLimit = 1
  None = None
  MaxLog = 3
  MaxConns = 2
  MaxFailures = 1
SYMMETRY Symmetry
INVARIANTS
  DesktopTypeOK
  OnlyOvertakenAnswersLeaveStaleRows
  OneConsumerAtATime
  OpenConnectionsAreCurrent
  AwaitedStreamsEnd
CHECK_DEADLOCK FALSE
