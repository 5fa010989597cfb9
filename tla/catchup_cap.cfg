\* Backup, budget and frame cap in the proportion of the source, 64 + 64 and 128 MiB;
\* a packet fills the backup, another one the budget.
SPECIFICATION Spec
CONSTANTS
    Client = client
    Server = server
    Sizes = {8}
    Overhead = 2
    EntryOverhead = 2
    MAX_BACKUP_BYTES = 10
    DISCONNECT_BUFFER_BYTES = 10
    DEFAULT_MAX_PROTO_LENGTH = 20
    WRITE_QUEUE_DEPTH = 2
    EVENT_QUEUE_DEPTH = 1
    I32_LIMIT = 100
    Keepalive = {}
    Draining = {server}
    Stoppable = {}
    Unreliable = {1, 2}
    MaxWrites <- Writes40
    MaxSockets = 2
INVARIANTS
    CatchupFits
