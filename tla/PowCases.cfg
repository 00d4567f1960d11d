CONSTANTS
    Base = 4
    HashLen = 3
    MaxTarget = 70
    Vocab = 4
    MaxLogit = 2
    Cap = 2
    Margin = 3
    Thresholds <- MCThresholds
    Atol = 1
    Window = 2
    Width = 1
    MaxBytes = 6
    MaxDepth = 3
SPECIFICATION Spec
INVARIANTS
    TargetsAreConsensus
    SamplesTheReference
    NeverOverCredits
    AdmissionBindsPrefix
    NonceSurvivesCarrier
    StartsSound
CHECK_DEADLOCK FALSE
