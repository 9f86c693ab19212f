SPECIFICATION FairSpec
CONSTANTS
    DTLS_TIMEOUT_INIT = 1
    DTLS_TIMEOUT_MAX = 64
    DTLS_TIMEOUT_MULTIPLIER = 2
    HANDSHAKE_TIMEOUT_S = 120
    READ_TIMEOUT_S = 1
    MaxPass = 2
INVARIANTS TypeOK DeadlineKept RetransmitsToTheEnd SilenceRetries
PROPERTY Terminates
CHECK_DEADLOCK FALSE
