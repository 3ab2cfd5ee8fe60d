CONSTANTS
    Keys = {k1}
    Tasks = {t1, t2}
    MaxDepth = 2
    Requests <- RowsAndBlocked
    RowOutcomes <- EveryOutcome
    NoKey = NoKey
SPECIFICATION FairSpec
CHECK_DEADLOCK FALSE
INVARIANTS
    CancelledPartsNeverRan
    EveryRowCounted
PROPERTIES
    OnlyForward
    AcceptedTasksComplete
