SPECIFICATION EngineSpec
CONSTANTS
    Window = 3
    MaxBatches = 3
INVARIANTS
    SamplerSeesItsStep
    CallsAreWhole
CHECK_DEADLOCK FALSE
