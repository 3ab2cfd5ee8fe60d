CONSTANTS
    Keys = {k1, k2}
    Tasks = {t1, t2}
    Rows = {r1}
    Machines = {m1}
    r1 = r1
    r2 = r2
    k1 = k1
    k2 = k2
    m1 = m1
    m2 = m2
    Blocked = Blocked
    RowKind <- AllCall
    MachineOf <- OneMachine
    Plans <- ByIdOrUrl
    Marks <- NoMarks
SPECIFICATION Spec
SYMMETRY Symmetry
CHECK_DEADLOCK FALSE
INVARIANTS
    NoRowSentTwice
