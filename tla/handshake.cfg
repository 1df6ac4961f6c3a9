CONSTANTS
    Main = main
    Descendants = {d1}
    PID1 = pid1
    MaxExecutions = 2
    MaxEvents = 1
SPECIFICATION FairSpec
CHECK_DEADLOCK FALSE
INVARIANTS
    TypeOK
    WorkloadIsCharged
    CleanBetween
    NoLostWakeup
    ResultIsGenuine
PROPERTIES EveryExecutionEnds
