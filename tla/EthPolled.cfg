SPECIFICATION Spec
CONSTANTS
    DTLS_RX_IRQ = FALSE
    ETHMAC_RX_SLOTS = 2
    ETHMAC_TX_SLOTS = 2
    RingCapacity = 2
    ArpTries = 2
    ArpPolls = 2
    Traffic = {"udp", "query", "junk"}
    MaxFrames = 3
INVARIANTS WireIntact
PROPERTIES FrameProcessedOnceInSession
CHECK_DEADLOCK FALSE
