SPECIFICATION Spec
CONSTANTS
    a = a
    b = b
    Zero = a
    Cell <- MCCell
    Datagram <- MCDatagram
    DTLS_RX_SLOTS = 3
    DTLS_MAX_DGRAM = 2
    ReadSizes = {1, 2}
    WANT_READ = WANT_READ
    MaxCalls = 5
    MaxReads = 5
INVARIANTS TypeOK SlotOwnership
PROPERTY ImplementsQueue
CHECK_DEADLOCK FALSE
