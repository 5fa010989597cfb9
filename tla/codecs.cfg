SPECIFICATION Spec

CONSTANTS
    BYTE = 4
    NONCE_BYTES = 3
    MAC_BYTES = 2
    LEN_BYTES = 2
    MAX_LENGTH = 4
    MAX_PORT = 3
    ID_LEN = 2
    PASSKEY_LEN = 1
    MARKER <- MCMarker
    ALPHANUM <- MCAlphanum
    RANDOM_BYTE = 5
    FILL = 2

INVARIANTS
    RelayKeepsNewer
    FramesReadBack
    StreamInStep
    TunnelsAsWritten
    HandshakeFindsKey
    UniformIds
