SPECIFICATION Spec
CONSTANTS
    Threads = {t1, t2, t3}
    Nodes = {n1, n2}
    NoNode = NoNode
INVARIANTS
    TypeOK
    OwnedOnce
    NothingLost
