SPECIFICATION DeliverySpec
CONSTANTS
  Conns = {h1, h2}
  Clients = {c1}
  Filters = {f1}
  Levels = {4}
  None = None
  Overlap = FALSE
  Messages = {m1}
  Subscriber = c1
  TheFilter = f1
  MaxQueue = 1
INVARIANT QueuedWhileOffline
CHECK_DEADLOCK FALSE
