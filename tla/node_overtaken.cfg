CONSTANTS
    Workers = {w1}
    Me = w1
    Executions = {e1}
    Sandboxes = {s1}
    Results = {r1}
    Slots = {k1}
    NoWorker = NoWorker
    NoSandbox = NoSandbox
    NoResult = NoResult
    NoExecution = NoExecution
    LeaseDuration = 1
    RecoveryWindow = 1
    LegacyWindow = 1
    LegacyLeases = {}
    CredentialTTLs = {9}
    DefaultCapacity = 1
    MaxCapacity = 2
    SweepLimit = 2
    MaxCredentials = 1
    MaxGeneration = 1
    MaxTime = 4
    MaxStrays = 0
    MaxRestarts = 0
SPECIFICATION NodeSpec
SYMMETRY NodeSymmetry
CHECK_DEADLOCK FALSE
INVARIANTS ReleasedIsClean
