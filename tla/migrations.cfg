SPECIFICATION FairSpec
CONSTANTS
    Runs = {r1, r2}
    Sources <- MCSources
CHECK_DEADLOCK FALSE
INVARIANTS
    TypeOK
    HistoryIsSchema
    ConfirmedIsApplied
PROPERTIES
    StatusIsSettled
    LockIsReleased
