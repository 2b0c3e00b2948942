SPECIFICATION Spec
CONSTANTS
  plus = plus
  hash = hash
  both = both
  other = other
  Clients = {c1, c2}
  Filters <- MCFilters
  Topics <- MCTopics
  Matching <- MCMatching
  QoS = {0, 1}
  None = None
SYMMETRY MCSymmetry
INVARIANTS TypeOK HighestQoSWins SessionIsRouted UnsubscribedStaysOut
