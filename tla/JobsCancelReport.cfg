CONSTANTS
    Keys = {k1}
    Tasks = {t1}
    MaxDepth = 1
    Requests <- OneRowEach
    RowOutcomes <- OneOutcome
    NoKey = NoKey
SPECIFICATION Spec
CHECK_DEADLOCK FALSE
INVARIANTS
    CancelShowsInSummary
