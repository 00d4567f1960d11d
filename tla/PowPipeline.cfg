CONSTANTS
    Environments <- MCEnvironments
    QueueMax = 1
    Hwm = 1
    ReqIds = {0, 1}
    Workers = {w}
    TableMax = 1
    PruneCount = 1
    MaxJobs = 2
    MaxConns = 2
    MaxProofs = 1
    None = None
SPECIFICATION FairSpec
INVARIANTS
    ChannelsApart
    LabelNotOlder
PROPERTIES
    PipelineLives
