CONSTANTS
    None = None
    mine = mine
    audit = audit
    chat = chat
    r0 = r0
    r1 = r1
    r2 = r2
    Reqs <- MCReqs
    PowReqs <- MCPowReqs
    ShareReqs = {mine}
    AuditReqs = {audit}
    GreedyReqs = {chat}
    ChunkedReqs = {audit}
    Rows <- MCRows
    RowOrder <- MCRowOrder
    W = 2
    PromptLen = 1
    MaxTokens = 4
    MaxSid = 4
    Configs <- MCConfigs
SPECIFICATION Spec
INVARIANTS
    RowsAreSound
    WindowsArePure
    NonceAdmitsOneWindow
    CopiesAgree
    FastpathProofsAreOwn
    AuditIsKept
CHECK_DEADLOCK FALSE
