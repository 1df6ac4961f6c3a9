CONSTANTS
    Operations = {o1, o2, o3}
    SandboxIds = {s1}
    ExecutionIds = {x1}
    Nobody = Nobody
    Kinds = {"create", "execute", "destroy"}
    RetryIds = FALSE
    PathCounts = {0}
    IdentityBlocks = 1
    MaxConnections = 2
    MaxResults = 2
    MaxResultBytes = 4
    OutputBytes = 1
    FileBytes = 1
    ExecutionBytes = 1
    SandboxBytes = 1
SPECIFICATION FairSpec
CHECK_DEADLOCK FALSE
PROPERTY EveryRequestEnds
