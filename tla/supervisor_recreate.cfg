CONSTANTS
    Operations = {o1, o2, o3, o4}
    SandboxIds = {s1}
    ExecutionIds = {x1}
    Nobody = Nobody
    Kinds = {"create", "execute", "destroy"}
    RetryIds = TRUE
    PathCounts = {0}
    IdentityBlocks = 1
    MaxConnections = 3
    MaxResults = 2
    MaxResultBytes = 4
    OutputBytes = 1
    FileBytes = 1
    ExecutionBytes = 1
    SandboxBytes = 1
SPECIFICATION Spec
SYMMETRY Perms
CHECK_DEADLOCK FALSE
INVARIANT ResultsSurvive
