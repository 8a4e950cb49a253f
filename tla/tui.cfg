SPECIFICATION FairSpec
CONSTANTS
    Runs <- TwoRuns
    FilterStatuses <- Filters
    HalfPage = 2
    Created <- SomeCreated
    CalcCount <- OneCalc
    InitialRuns <- NoneOrOne
    PageSize = 1
    MoreSize = 1
    AppCap = 2
    NetCap = 1
    Decodes = TRUE
    Counts = {1}
    Commands <- SomeCommands
    ImportFiles = 1
    MaxKeys = 3
    MaxSurprises = 1
INVARIANTS
    TuiTypeOK
    ListIndexed
    NothingSkipped
PROPERTIES
    ConfirmedIsShown
    LoadingEnds
CHECK_DEADLOCK FALSE
