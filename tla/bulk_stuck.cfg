SPECIFICATION FairSpec
CONSTANTS
    Runs <- FiveRuns
    FilterStatuses <- Filters
    HalfPage = 2
    Created <- SomeCreated
    CalcCount <- OneCalc
    InitialRuns <- AllFive
    PageSize = 5
    MoreSize = 1
    AppCap = 2
    NetCap = 1
    Decodes = FALSE
    Counts = {2}
    Commands = {}
    ImportFiles = 1
    MaxKeys = 3
    MaxSurprises = 0
PROPERTIES
    EffectsAreSent
CHECK_DEADLOCK FALSE
