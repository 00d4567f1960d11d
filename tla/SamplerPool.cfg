SPECIFICATION FairSpec
CONSTANTS
    NStreams = 4
    WantedGroups = 3
    Groups <- MCGroups
    Lo <- MCLo
    Hi <- MCHi
    MaxSteps = 2
INVARIANTS
    TypeOK
    NoWorkerOutlivesCall
    ResultIsExact
PROPERTIES
    CallsReturn
    ImplementsSampleStep
CHECK_DEADLOCK FALSE
