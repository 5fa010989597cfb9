\* An owner that reads and may call shutdown(), also during an outage.
SPECIFICATION FairSpec
CONSTANTS
    Answers = {"NewClient", "Returning", "InvalidKey", "Error"}
    BACKED_DEPTH = 2
    EVENTS_DEPTH = 1
    MayShutdown = TRUE
    MayDrop = FALSE
    MayDie = TRUE
PROPERTIES
    ShutdownEnds
CHECK_DEADLOCK FALSE
