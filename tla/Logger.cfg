SPECIFICATION Spec
CONSTANTS
    Threads = {main, worker}
    Main = main
    Severities = {1, 2}
    Pieces = 2
    MaxLines = 2
INVARIANTS
    OneThreadPerLine
    LinesAccountedFor
CHECK_DEADLOCK FALSE
