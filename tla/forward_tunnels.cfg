SPECIFICATION FairSpec

CONSTANTS
    Ends = {"A", "B"}
    MaxConns <- TwoFromA
    MaxChunks <- Ordered
    SocketIds <- DistinctIds
    CONN_WRITE_QUEUE_DEPTH = 1
    Caps = {1, 2}
    Failing = {1, 3}

INVARIANTS
    TypeOK
    TunnelsIsolated
    CloseAfterData
    DestinationsBounded
    LiveIsRegistered

PROPERTIES
    AcceptsAnswered
    EndReachesPeer

CHECK_DEADLOCK FALSE
