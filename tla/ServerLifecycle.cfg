SPECIFICATION FairSpec
CONSTANTS
    Tokens = {"--port=80", "-i", "-s", "-f", "-h", "-x", "-lp", "1200x", "80", "-5", "eth0"}
    MaxTokens = 7
    MaxRuns = 2
INVARIANTS
    TypeOK
    ConfiguredWhileServing
    LeavesHostAsFound
    ForeignRulesStay
    ParsesGrammar
PROPERTIES
    InterruptEnds
CHECK_DEADLOCK FALSE
