SPECIFICATION FairSpec
CONSTANTS
    MaxStarts = 2
    MaxGoodbyes = 2
    Patient = TRUE
INVARIANTS
    TypeOK
    NoUseAfterClose
    NoGhostConnection
PROPERTIES
    MainThreadReturns
    StopReleases
    ConnectingEnds
    DisconnectConfirmed
CHECK_DEADLOCK FALSE
