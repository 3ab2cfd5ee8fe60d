CONSTANTS
    Tags = {tag1, tag2}
    Contents = {c1, c2}
    None = None
    HasCollector = TRUE
    FormalMayFail = FALSE
    MaxEdits = 3
    Gateways = {g1, g2}
    Channels = {ch1}
    Sites = {site1}
    Zones = {z1}
    Depths = {0, 1, 2}
    MaxLocations = 2
    Tasks = {t1, t2, t3}
    Unlocked = Unlocked
    Clear = Clear
    Torn = Torn
    MaxTasks = 2
    MaxRecords = 2
    MaxClears = 1
    MaxCrashes = 1
    MaxAttempts = 3
    Window = 4
    MaxTime = 10
    Names = {name1, name2}
    MaxGateways = 2
    SmallForms = {"route"}
    CacheMax = 2
    MaxMappings = 4
    Slots = {slot1, slot2}
    MaxLogouts = 1
    theName = name1
    theSlot = slot1
SPECIFICATION PartsSpec
SYMMETRY Symmetry
CHECK_DEADLOCK FALSE
INVARIANTS
    PartsTypeOK
    ImportIsTrue
    RoutesAreSafe
    PlansAgree
    LockoutIsFair
    GatewaysAreSound
    MappingsAreTrue
PROPERTIES
    TasksAreKept
