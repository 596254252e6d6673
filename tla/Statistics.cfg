SPECIFICATION StatisticsSpec
CONSTANTS
    Wire <- MCWire
    UnquotableNames = {"quote"}
    BatchSize = 2
    Window = 1
    TopCount = 1
    Nothing = Nothing
    MaxPackets = 3
    MaxTime = 2
    MaxConnects = 1
INVARIANT
    ShownIsWhatArrived
CHECK_DEADLOCK FALSE
