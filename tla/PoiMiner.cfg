SPECIFICATION Spec
CONSTANTS
    NGroups = 2
    Seqs = {0}
    Jobs <- MCJobs
    Window = 2
    PromptLens = {1, 2}
    SelfVdfTick = 0
    DefaultTick = 3
    NormativeTick = 1
    MaxJobs = 2
    KeepJobs = 1
    MaxSwitches = 3
    MaxProofs = 1
    MaxRefused = 1
INVARIANTS
    ProofsAreTrue
    WindowsArePure
