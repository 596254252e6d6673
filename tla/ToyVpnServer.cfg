SPECIFICATION BusySpec
CONSTANTS
    Endpoints = {e1, e2}
    TunAddress = 1
    HighestAddress = 5
    IdleTimeout = 1
    CheckInterval = 0
INVARIANTS
    TypeOK
    TablesAgree
    NoMisdelivery
    OnlyAdmittedServed
PROPERTIES
    NoReturn
    SenderSurvivesCheck
    ImplementsLease
    StaleSessionsGo
    StopEnds
CHECK_DEADLOCK FALSE
