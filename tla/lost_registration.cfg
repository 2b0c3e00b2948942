SPECIFICATION Spec
CONSTANTS
  Conns = {h1, h2}
  Clients = {c1}
  Filters = {}
  Levels = {4}
  None = None
  Overlap = TRUE

INVARIANT ConnectedIsRegistered
CHECK_DEADLOCK FALSE
