SPECIFICATION ApiSpec
CONSTANTS
    Runs = {r1}
    Calcs = {c1}
    RunOf <- OneRun
    MaxAttempts = 1
    MaxActors = 2
    MaxConcurrent = 2
    MailboxCap = 1
    Outcomes = {"succeeded", "transient", "permanent"}
    LateBeats = FALSE
    Limits <- OneOfEach
PROPERTIES
    ResultsKept
    AloneHasResult
