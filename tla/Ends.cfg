CONSTANTS
    N = 2
    MaxRetries = 1
    VerifyFirst = 1
    Owners = {kwDerive}
    Runs = {1}
    Threads = {1, 2}
    NoRun = NoRun
    g1 = g1
    g2 = g2
    Auto = Auto
    Coroutines = {1, 2}
    Tags = {tag1}
    Contents = {content1}
    None = None
    Tasks = {1, 2, 3}
    Unlocked = Unlocked
    Clear = Clear
    Torn = Torn
SPECIFICATION FairParts
CHECK_DEADLOCK FALSE
INVARIANTS
    CallsAreTrue
PROPERTIES
    WorkEnds
