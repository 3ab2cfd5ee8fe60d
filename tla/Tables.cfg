CONSTANTS
    PartCount = 2
    RowCount = 1
    RefTables = {t1, t2}
    NoTable = NoTable
    MaxChanges = 1
    MaxLists = 2
    Names = {n1, n2}
    Unnamed = Unnamed
    Files <- TwoFiles
    SqlPage = 1
    MaxUploads = 2
    Tags = {1, 2, 3}
    Conditions = {Blank, Some}
    Blank = Blank
    Hits <- TwoConditions
    Tables = {{1}, {1, 2, 3}}
    MaxConditions = 2
    PageSize = 2
    ExportCap = 2
    MaxWrites = 1
    Slots = {s1, s2}
    MaxEpoch = 1
    theTable = t1
    theSlot = s1
    n1 = n1
    n2 = n2
    Some = Some
SPECIFICATION PartsSpec
SYMMETRY Symmetry
CHECK_DEADLOCK FALSE
INVARIANTS
    AnswersAreTrue
    ListsAreCurrent
    FilesKeepTheirResults
    ResultsFitTheSearch
PROPERTIES
    ProgressNeverFalls
