SPECIFICATION DeliverySpec
CONSTANTS
  Conns = {h1, h2, h3}
  Clients = {c1}
  Filters = {f1}
  Levels = {4}
  None = None
  Overlap = FALSE
  Messages = {m1, m2}
  Subscriber = c1
  TheFilter = f1
  MaxQueue = 2
SYMMETRY MCSymmetry
INVARIANTS DeliveryTypeOK ReceivedAtMostOnce ReceivedInOrder NothingStranded DeliveredWhileUp
CHECK_DEADLOCK FALSE
