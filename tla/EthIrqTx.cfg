SPECIFICATION Spec
CONSTANTS
    DTLS_RX_IRQ = TRUE
    ETHMAC_RX_SLOTS = 2
    ETHMAC_TX_SLOTS = 2
    RingCapacity = 2
    ArpTries = 1
    ArpPolls = 2
    Traffic = {"query"}
    MaxFrames = 1
INVARIANTS WireIntact
CHECK_DEADLOCK FALSE
