CONSTANTS
    Keys = {k1, k2}
    Tasks = {t1, t2}
    MaxDepth = 2
SPECIFICATION MonitorSpec
SYMMETRY Symmetry
INVARIANTS
    CancelWakesSleepers
PROPERTIES
    ImplementsQueue
