\* The client pings, the server echoes, recoveries are handed over at any time
\* and either end may be shut down.
\* Both ends may stop for good, so the system may come to rest.
SPECIFICATION Spec
CONSTANTS
    Client = client
    Server = server
    Sizes = {}
    Overhead = 1
    EntryOverhead = 1
    MAX_BACKUP_BYTES = 100
    DISCONNECT_BUFFER_BYTES = 100
    DEFAULT_MAX_PROTO_LENGTH = 100
    WRITE_QUEUE_DEPTH = 2
    EVENT_QUEUE_DEPTH = 2
    I32_LIMIT = 100
    Keepalive = {client}
    Draining = {}
    Stoppable = {client, server}
    Unreliable = {1, 2}
    MaxWrites <- Writes22
    MaxSockets = 3
INVARIANTS
    DeadIsLast
    WaitingIsUnanswered
CHECK_DEADLOCK FALSE
