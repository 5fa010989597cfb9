\* The bounds are the least ones that a timely link keeps up with.  Steps take up to
\* two ticks: some links keep up, on others timeouts race late chunks.
SPECIFICATION MCFairSpec
CONSTANTS
    A = a
    B = b
    Body <- OneLarge
    CAPACITY = 3
    IDLE = 6
    ABSOLUTE = 15
    SLOW = 2
INVARIANTS
    NobodyDeadlocks
    StallBounded
    LiveIsComplete
PROPERTIES
    Recovers
