\* Two handles, the second cloned from the first; a command queue of one.
SPECIFICATION EngineFairSpec
CONSTANTS
    Handles = {h1, h2}
    First = h1
    Initial = s0
    Adders = {h2}
    CMD_QUEUE_DEPTH = 1
    EVENT_QUEUE_DEPTH = 1
    MaxRaises = 1
INVARIANTS
    EngineTypeOK
    AddedIsBound
PROPERTIES
    StopReleases
CHECK_DEADLOCK FALSE
