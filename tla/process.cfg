CONSTANTS
    c1 = c1
    c2 = c2
    Conns = {c1, c2}
    MaxConnections = 1
    Forwarders <- MCForwarders
    Mqtt <- MCMqtt
    Workers = 2
    MaxMessages = 2
    Patient = TRUE

SPECIFICATION Spec

INVARIANTS
    TypeOK
    SlotsAreHeld
    OvertakenOnlyWhileSending

PROPERTY ShutdownDrains

CHECK_DEADLOCK FALSE
