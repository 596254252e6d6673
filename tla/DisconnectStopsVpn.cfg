SPECIFICATION FairSpec
CONSTANTS
    MaxStarts = 1
    MaxGoodbyes = 0
    Patient = TRUE
PROPERTY
    DisconnectStopsVpn
CHECK_DEADLOCK FALSE
