SPECIFICATION PrecheckSpec
CONSTANTS
    B_FLOOR = 1
    B_FREE = 2
    PIN_FREE = 0
    PIN_REJECT = 2
    Detector = 2
    Sunset = 1
    Named <- MCNamed
    MaxNames = 3
    MaxHeight = 2
INVARIANTS
    MaskIsLastMention
    VerdictsAreExact
CHECK_DEADLOCK FALSE
