CONSTANTS
    Keys = {k1}
    Tasks = {t1, t2}
    Rows = {r1, r2}
    Machines = {m1}
    r1 = r1
    r2 = r2
    r3 = r3
    t3 = t3
    k1 = k1
    k2 = k2
    m1 = m1
    m2 = m2
    Blocked = Blocked
    RowKind <- AllCall
    MachineOf <- OneMachine
    Plans <- AllToK1
    Marks <- EveryMark
SPECIFICATION PartsSpec
SYMMETRY Symmetry
CHECK_DEADLOCK FALSE
INVARIANTS
    NoRowSentTwice
    RecordsAreTrue
    ScaleRecordsAreTrue
