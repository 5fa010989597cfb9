\* Budgets a few bytes wide and a socket queue of two frames: trimming, skipped
\* writes and sockets killed by a full queue all happen.
SPECIFICATION Spec
CONSTANTS
    Client = client
    Server = server
    Sizes = {1, 2}
    Overhead = 1
    EntryOverhead = 1
    MAX_BACKUP_BYTES = 4
    DISCONNECT_BUFFER_BYTES = 3
    DEFAULT_MAX_PROTO_LENGTH = 7
    WRITE_QUEUE_DEPTH = 2
    EVENT_QUEUE_DEPTH = 1
    I32_LIMIT = 100
    Keepalive = {}
    Draining = {server}
    Stoppable = {}
    Unreliable = {1, 2}
    MaxWrites <- Writes40
    MaxSockets = 2
INVARIANTS
    RetainsWindow
    LedgerBound
PROPERTIES
    OfflineKeepsBackup
