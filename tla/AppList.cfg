SPECIFICATION Spec
CONSTANTS
    Users = {"u1"}
    Accounts = {"u1"}
    Nobody = "none"
    Ids = {1, 2}
    Titles = {"a"}
    BadTitle = ""
    DefaultLimit = 1
    MaxLimit = 1
    MayFail = TRUE
    Tables <- SomeTables
    Inputs = {}
    Me = "u1"
    PageSize = 1
    MaxPage = 2
    Searches <- SomeSearches
    Slots <- AppSlots
    MaxMutations = 2
    Updates <- Archive
    MaxFaults = 1
INVARIANTS
    TypeOK
    CreatedOnce
    ListIsCurrent
ACTION_CONSTRAINT Calm
