SPECIFICATION FairSpec
CONSTANTS
  Conns = {h1, h2}
  Clients = {c1}
  Filters = {}
  Levels = {5}
  None = None
  Overlap = TRUE
INVARIANTS TypeOK RegistryFresh StoreAgreesWithRegistry WillAtMostOnce NothingLeaks
PROPERTIES EndedConnectionsFinish WillIsSent
CHECK_DEADLOCK FALSE
