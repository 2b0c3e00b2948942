CONSTANTS
    None = None
    Base = 3
    MaxPacket = 60
    AuthEnabled = TRUE
    AllowAnonymous = FALSE
    Users <- MCUsers
    Hashed <- MCHashed
    Tombstoned <- MCTombstoned
    Scripts <- MCScripts

SPECIFICATION Spec

INVARIANTS
    StreamTypeOK
    RequestsAnswered
    PassedOnIntact

PROPERTY ImplementsChannel

CHECK_DEADLOCK FALSE
