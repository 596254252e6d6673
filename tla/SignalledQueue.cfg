SPECIFICATION SignalSpec
CONSTANTS
    Consumers = {k1}
    BlockSize = 2
    InitialIndexSize = 2
    PoolSize = 1
    MaxDequeue = 3
    MaxItems = 4
    MaxOvercommit = 2
INVARIANTS
    LookUpFinds
CHECK_DEADLOCK FALSE
