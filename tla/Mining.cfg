SPECIFICATION FairSpec
CONSTANTS
    w1 = w1
    w2 = w2
    s1 = s1
    s2 = s2
    Workers <- MCWorkers
    Submitters <- MCSubmitters
    Mode = "on"
    Rigs <- MCRigs
    NStreams = 1
    FailAbort = 2
    MaxFails = 2
    MaxPrompts = 2
    MaxFound = 2
    MaxAttempts = 1
INVARIANTS
    NothingLost
    PromptsDense
PROPERTIES
    MiningEnds
CHECK_DEADLOCK FALSE
