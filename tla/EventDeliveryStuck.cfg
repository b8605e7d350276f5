\* The connection is lost while its queue is full.
SPECIFICATION FairSpec
CONSTANTS
  Clients = {c1}
  None = None
  BatchSize = 2
  PageSize = 3
  QueueCapacity = 1
  WireCapacity = 1
  ChannelCapacity = 1
  MaxEvents = 3
  MaxFailures = 1
PROPERTIES
  EveryEventArrives
CHECK_DEADLOCK FALSE
