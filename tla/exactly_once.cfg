SPECIFICATION PublishingSpec
CONSTANTS
  Conns = {h1, h2, h3}
  Clients = {c1}
  Filters = {}
  Levels = {4}
  None = None
  Overlap = FALSE
  m1 = m1
  m2 = m2
  one = 2
  two = 2
  Messages <- MCTwoMessages
  QoSOf <- MCQoSTwo
  Publisher = c1
  PacketIds = {1}
  Retain = {}
  Clear = {}
SYMMETRY MCSymmetry
INVARIANTS PublishingTypeOK RoutedAtMostOnce AcknowledgedIsRouted
CHECK_DEADLOCK FALSE
