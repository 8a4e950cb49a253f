SPECIFICATION FairSpec
CONSTANTS
    Runs = {r1}
    Calcs = {c1}
    RunOf <- OneRun
    MaxAttempts = 2
    MaxActors = 2
    MaxConcurrent = 1
    MailboxCap = 1
    Outcomes = {"succeeded", "transient", "permanent"}
    LateBeats = FALSE
    Limits <- OneError
INVARIANTS
    TypeOK
    WatchdogCanSee
    PendingIsFresh
PROPERTIES
    NoStarvation
