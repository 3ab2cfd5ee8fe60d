CONSTANTS
    Owners = {kwDerive}
    Runs = {r1, r2}
    Threads = {c1, c2}
    NoRun = NoRun
    CanCancel = TRUE
    MaxFail = 1
    MaxToken = 2
    MaxEpoch = 1
    theRun = r1
    Gateways = {g1, g2}
    AnyGateway = AnyGateway
    Jobs = {j1, j2}
    Ops = {"kw", "scale", "saveRoute", "deleteGw"}
    MaxVersion = 2
    Rows = {row1, row2}
    Savers = {v1, v2}
    Derivers = {d1, d2}
    Values = {Emptied, Base, Typed}
    Emptied = Emptied
    Base = Base
    MaxEdits = 2
    Ids = {1, 2}
    PageSize = 1
    NewRequests = 3
    MaxChats = 1
    MaxMessages = 2
    Slots = {s1, s2}
SPECIFICATION PartsSpec
SYMMETRY Symmetry
CHECK_DEADLOCK FALSE
INVARIANTS
    PartsTypeOK
    PanelsTellTheTruth
    PreviewsAreFresh
    SavedMeansStored
    TableIsSettled
    RepliesAreInTurn
PROPERTIES
    StatusNeverRegresses
