CONSTANTS
    q1 = q1
    q2 = q2
    q3 = q3
    Reqs <- MCReqs
    Order <- MCOrder
    Prompt <- MCPrompt
    Kind <- MCKind
    Modes <- MCModes
    MaxReqs = 3
    MaxLen = 6
    MaxOut <- MCMaxOut
    Chunk = 2
    MaxGen <- MCMaxGen
    MaxEvents = 1
    None = None
    Placeholder = Placeholder
SPECIFICATION Spec
INVARIANTS
    OutputsAreText
    SamplerSeesOwn
    PromptScoresWhole
    BatchIsOwn
CHECK_DEADLOCK FALSE
