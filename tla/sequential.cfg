SPECIFICATION Spec
CONSTANTS
  Conns = {h1, h2, h3}
  Clients = {c1}
  Filters = {f1}
  Levels = {4, 5}
  None = None
  Overlap = FALSE
SYMMETRY Symmetry
INVARIANTS ConnectedIsRegistered WillExactlyWhenUnclean RestoredSubscriptions NoOrphanRoutes
PROPERTY ImplementsService
CHECK_DEADLOCK FALSE
