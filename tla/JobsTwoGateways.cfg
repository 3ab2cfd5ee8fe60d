CONSTANTS
    Keys = {k1, k2}
    Tasks = {t1, t2}
    MaxDepth = 2
    Requests <- OneRowEach
    RowOutcomes <- OneOutcome
    NoKey = NoKey
SPECIFICATION Spec
SYMMETRY Symmetry
CHECK_DEADLOCK FALSE
INVARIANTS
    TypeOK
    LinesMatchParts
    CompletedOnce
    SleepersHaveReason
    CancelLosesNoWakeup
