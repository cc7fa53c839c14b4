SPECIFICATION ApiSpec
CONSTANTS
    Slots = {r1, r2}
    Users = {"u1", "u2"}
    Accounts = {"u1"}
    Nobody = "none"
    Ids = {1, 2, 3, 4}
    Titles = {"a", "b"}
    BadTitle = ""
    DefaultLimit = 2
    MaxLimit = 3
    MayFail = TRUE
    Tables <- TwoOwners
    Inputs <- SomeInputs
INVARIANTS
    ApiTypeOK
    AnswersHold
    PagesCover
PROPERTIES
    OwnersWrite
