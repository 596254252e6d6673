SPECIFICATION Spec
CONSTANTS
    Consumers = {k1, k2}
    BlockSize = 2
    InitialIndexSize = 2
    PoolSize = 1
    MaxDequeue = 3
    MaxItems = 6
    MaxOvercommit = 2
SYMMETRY Symmetry
INVARIANTS
    BlocksOwned
    AssertionsHold
    AllBlocksReturned
PROPERTIES
    ImplementsFifo
CHECK_DEADLOCK FALSE
