\* A local program that never reads what the engine writes to it.
SPECIFICATION PumpFairSpec
CONSTANTS
    Answers = {"NewClient", "Returning", "InvalidKey", "Error"}
    BACKED_DEPTH = 1
    EVENTS_DEPTH = 1
    MayShutdown = TRUE
    MayDrop = FALSE
    MayDie = TRUE
    INBOUND_QUEUE_DEPTH = 1
    OUTBOUND_QUEUE_DEPTH = 1
    MaxRetries = 1
PROPERTIES
    ParkEnds
CHECK_DEADLOCK FALSE
