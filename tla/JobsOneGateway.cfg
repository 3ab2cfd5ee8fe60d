CONSTANTS
    Keys = {k1}
    Tasks = {t1, t2, t3}
    MaxDepth = 2
    Requests <- OneRowEach
    RowOutcomes <- OneOutcome
    NoKey = NoKey
SPECIFICATION Spec
SYMMETRY Symmetry
CHECK_DEADLOCK FALSE
INVARIANTS
    DepthBounded
    Exclusive
PROPERTIES
    NoOvertaking
    ImplementsService
