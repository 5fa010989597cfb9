\* Both catch-ups exceed what the socket buffers.
SPECIFICATION MCFairSpec
CONSTANTS
    A = a
    B = b
    Body <- BothLarge
    CAPACITY = 3
    IDLE = 4
    ABSOLUTE = 40
    SLOW = 1
INVARIANTS
    NobodyDeadlocks
