SPECIFICATION FairSpec
CONSTANTS
    Runs = {r1}
    Calcs = {c1, c2, c3}
    RunOf <- OneRun
    MaxAttempts = 1
    MaxActors = 2
    MaxConcurrent = 2
    MailboxCap = 1
    Outcomes = {"succeeded", "permanent"}
    LateBeats = FALSE
    Limits <- NoFaults
INVARIANTS
    SettledRunIsRight
PROPERTIES
    RunStatusCatchesUp
    ImplementsLifecycle
