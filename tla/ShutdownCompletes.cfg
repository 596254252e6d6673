SPECIFICATION FairSpec
CONSTANTS
    Addresses = {a1}
    NoAddress = NoAddress
    MaxPackets = 2
    DequeueBulkSize = 2
PROPERTY
    ShutdownCompletes
CHECK_DEADLOCK FALSE
