\* One packet up and two down, an event queue of one; two sockets may break at any
\* step, the third one holds.
SPECIFICATION FairSpec
CONSTANTS
    Client = client
    Server = server
    Sizes = {1}
    Overhead = 1
    EntryOverhead = 1
    MAX_BACKUP_BYTES = 100
    DISCONNECT_BUFFER_BYTES = 100
    DEFAULT_MAX_PROTO_LENGTH = 100
    WRITE_QUEUE_DEPTH = 2
    EVENT_QUEUE_DEPTH = 1
    I32_LIMIT = 100
    Keepalive = {}
    Draining = {server}
    Stoppable = {}
    Unreliable = {1, 2}
    MaxWrites <- Writes12
    MaxSockets = 3
INVARIANTS
    TypeOK
    ExactlyOnce
    NoCryptoMismatch
    SocketDownOnce
    HeaderAccepted
PROPERTIES
    Delivery
    ImplementsLink
