\* A failure, and as many events as queue, socket and channel can hold up the
\* dispatcher with; a page holds them all.
SPECIFICATION FairSpec
CONSTANTS
  Clients = {c1}
  None = None
  BatchSize = 1
  PageSize = 4
  QueueCapacity = 1
  WireCapacity = 1
  ChannelCapacity = 1
  MaxEvents = 4
  MaxFailures = 1
PROPERTIES
  EventsReachClients
  EventsAreDelivered
CHECK_DEADLOCK FALSE
