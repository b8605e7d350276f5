\* One desktop and one failure; pages hold every event there is.
SPECIFICATION Spec
CONSTANTS
  Clients = {c1}
  None = None
  BatchSize = 2
  PageSize = 3
  QueueCapacity = 2
  WireCapacity = 1
  ChannelCapacity = 1
  MaxEvents = 3
  MaxFailures = 1
INVARIANTS
  DeliveryTypeOK
  AcknowledgedReachesConnections
PROPERTIES
  ImplementsLog
CHECK_DEADLOCK FALSE
