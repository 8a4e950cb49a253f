SPECIFICATION FairSpec
CONSTANTS
    Emitters = {e1, e2}
    BusCap = 1
    ReplayLimit = 2
    WireCap = 1
    MaxEvents = 3
    MaxConnects = 2
    MaxRestarts = 1
    MaxErrors = 1
INVARIANTS
    EventTypeOK
    LossesAnnounced
    OnlyTheGapLoses
PROPERTIES
    SeqsGrow
    EventsGetThrough
CHECK_DEADLOCK FALSE
