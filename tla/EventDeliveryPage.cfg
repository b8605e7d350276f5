\* More events than a page holds.
SPECIFICATION Spec
CONSTANTS
  Clients = {c1}
  None = None
  BatchSize = 2
  PageSize = 1
  QueueCapacity = 2
  WireCapacity = 1
  ChannelCapacity = 1
  MaxEvents = 3
  MaxFailures = 1
PROPERTIES
  NothingIsSkipped
CHECK_DEADLOCK FALSE
