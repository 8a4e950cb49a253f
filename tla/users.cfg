SPECIFICATION Spec
CONSTANTS
    Runs = {r1}
    Calcs = {c1, c2}
    RunOf <- OneRun
    MaxAttempts = 1
    MaxActors = 2
    MaxConcurrent = 2
    MailboxCap = 2
    Outcomes = {"succeeded", "permanent"}
    LateBeats = TRUE
    Limits <- Users
INVARIANTS
    SingleRunner
PROPERTIES
    TerminalIsFinal
