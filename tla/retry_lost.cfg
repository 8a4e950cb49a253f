SPECIFICATION FairSpec
CONSTANTS
    Runs = {r1}
    Calcs = {c1}
    RunOf <- OneRun
    MaxAttempts = 1
    MaxActors = 2
    MaxConcurrent = 1
    MailboxCap = 1
    Outcomes = {"succeeded", "transient"}
    LateBeats = FALSE
    Limits <- NoFaults
PROPERTIES
    RetriesFinish
