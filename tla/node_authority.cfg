CONSTANTS
    Workers = {w1}
    Me = w1
    Executions = {e1, e2}
    Sandboxes = {s1, s2}
    Results = {r1}
    Slots = {k1}
    NoWorker = NoWorker
    NoSandbox = NoSandbox
    NoResult = NoResult
    NoExecution = NoExecution
    LeaseDuration = 1
    RecoveryWindow = 1
    LegacyWindow = 1
    LegacyLeases = {}
    CredentialTTLs = {9}
    DefaultCapacity = 1
    MaxCapacity = 2
    SweepLimit = 2
    MaxCredentials = 1
    MaxGeneration = 1
    MaxTime = 3
    MaxStrays = 1
    MaxRestarts = 1
SPECIFICATION NodeSpec
SYMMETRY NodeSymmetry
CHECK_DEADLOCK FALSE
INVARIANTS NodeTypeOK WatchdogInTime CompletedIsGenuine NoOrphan
