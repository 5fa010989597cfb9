\* Every stage of the pipe from the server to the engine holds one item.  A session that
\* ended is at rest.
SPECIFICATION SessionFairSpec
CONSTANTS
    Answers = {"NewClient", "Returning", "InvalidKey", "Error"}
    BACKED_DEPTH = 1
    EVENTS_DEPTH = 1
    MayShutdown = TRUE
    MayDrop = TRUE
    MayDie = TRUE
    INBOUND_QUEUE_DEPTH = 1
    OUTBOUND_QUEUE_DEPTH = 1
    MaxRetries = 1
INVARIANTS
    SessionTypeOK
    DeadIsFinal
PROPERTIES
    StartReturns
    PumpReturns
    SessionReleases
    ServerLossStopsWrites
    DeathEnds
CHECK_DEADLOCK FALSE
