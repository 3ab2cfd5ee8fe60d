CONSTANTS
    Tags = {t1, t2}
    Contents = {c1}
    None = None
    HasCollector = TRUE
    FormalMayFail = TRUE
    MaxEdits = 2
SPECIFICATION Spec
CHECK_DEADLOCK FALSE
INVARIANTS
    DoneMeansWritten
