SPECIFICATION FairSpec
CONSTANTS
    Addresses = {a1, a2}
    NoAddress = NoAddress
    MaxPackets = 2
    DequeueBulkSize = 2
INVARIANTS
    TypeOK
    CaptureUnbroken
PROPERTIES
    PacketsAreTaken
    MarkersTakeEffect
    StopReturns
CHECK_DEADLOCK FALSE
