CONSTANTS
    w1 = w1  w2 = w2  e1 = e1  e2 = e2  s1 = s1  s2 = s2  r1 = r1  r2 = r2
    NoWorker = NoWorker
    NoSandbox = NoSandbox
    NoResult = NoResult
    Executions <- TwoExecutions
    LeaseDuration = 1
    RecoveryWindow = 1
    LegacyWindow = 1
    LegacyLeases = {2}
    DefaultCapacity = 1
    MaxCapacity = 2
    SweepLimit = 1
    Workers <- OneWorker
    Sandboxes <- TwoSandboxes
    Results <- TwoResults
    CredentialTTLs = {2}
    MaxCredentials = 2
    MaxGeneration = 2
    MaxTime = 5
SPECIFICATION FairSpec
INVARIANTS
    BoundedAuthority
    AcceptedIsStored
PROPERTIES
    TerminalIsForever
    OwnershipIsFinal
    DeadlinesAreKept
    RevokedIsPowerless
    EveryLeaseSettles
