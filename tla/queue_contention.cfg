CONSTANTS
    w1 = w1  w2 = w2  e1 = e1  e2 = e2  s1 = s1  s2 = s2  r1 = r1  r2 = r2
    NoWorker = NoWorker
    NoSandbox = NoSandbox
    NoResult = NoResult
    Executions <- TwoExecutions
    LeaseDuration = 1
    RecoveryWindow = 1
    LegacyWindow = 1
    LegacyLeases = {2}
    DefaultCapacity = 1
    MaxCapacity = 2
    SweepLimit = 1
    Workers <- TwoWorkers
    Sandboxes <- OneSandbox
    Results <- OneResult
    CredentialTTLs = {2}
    MaxCredentials = 1
    MaxGeneration = 1
    MaxTime = 4
SPECIFICATION Spec
SYMMETRY ContentionSymmetry
INVARIANTS
    TypeOK
    SchemaChecks
    OccupancyBound
PROPERTIES
    ImplementsLifecycle
