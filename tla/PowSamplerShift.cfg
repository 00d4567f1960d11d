CONSTANTS
    None = None
    mine = mine
    audit = audit
    chat = chat
    r0 = r0
    r1 = r1
    r2 = r2
    Reqs <- MCReqs
    PowReqs <- MCReqs
    ShareReqs <- MCReqs
    AuditReqs = {}
    GreedyReqs = {}
    ChunkedReqs = {}
    Rows <- MCRows
    RowOrder <- MCRowOrder
    W = 2
    PromptLen = 1
    MaxTokens = 3
    MaxSid = 3
    Configs <- MCDefault
SPECIFICATION Spec
INVARIANT ProofsAreOwn
CHECK_DEADLOCK FALSE
