SPECIFICATION FairSpec
CONSTANTS
    Clients = {i1, i2}
    Endpoints = {e1, e2}
    None = None
    TunAddress = 1
    HighestAddress = 4
    IdleTimeout = 1
    MaxAttempts = 2
    MaxLives = 2
    MaxInFlight = 1
INVARIANT
    EndsAgree
PROPERTY
    HandshakeCompletes
CHECK_DEADLOCK FALSE
