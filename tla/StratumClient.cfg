SPECIFICATION FairSpec
CONSTANTS
    t1 = t1
    t2 = t2
    Net = Net
    None = None
    Submitters <- MCSubmitters
    Down <- MCDown
    Tags <- MCTags
    NPools = 2
    MaxShares = 2
    MaxSessions = 2
    WireCap = 1
    MaxPending = 1
    Evict = 1
INVARIANTS
    SharesAccounted
    SessionsAreClean
PROPERTIES
    ClientLives
CHECK_DEADLOCK FALSE
