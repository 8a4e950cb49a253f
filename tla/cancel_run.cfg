SPECIFICATION Spec
CONSTANTS
    Runs = {r1}
    Calcs = {c1}
    RunOf <- OneRun
    MaxAttempts = 1
    MaxActors = 1
    MaxConcurrent = 1
    MailboxCap = 1
    Outcomes = {"succeeded"}
    LateBeats = FALSE
    Limits <- OneCancel
PROPERTIES
    CancelledDoesNotStart
