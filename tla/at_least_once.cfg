SPECIFICATION FairPublishing
CONSTANTS
  Conns = {h1, h2}
  Clients = {c1}
  Filters = {f1}
  Levels = {4}
  None = None
  Overlap = TRUE
  m1 = m1
  m2 = m2
  one = 1
  two = 0
  Messages <- MCTwoMessages
  QoSOf <- MCQoSTwo
  Publisher = c1
  PacketIds = {1}
  Retain = {m1, m2}
  Clear = {m2}
INVARIANT AcknowledgedIsRouted
PROPERTY AcknowledgedGetsRouted
CHECK_DEADLOCK FALSE
