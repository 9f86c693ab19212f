SPECIFICATION FairSpec
CONSTANTS
    DTLS_RX_IRQ = TRUE
    ETHMAC_RX_SLOTS = 2
    ETHMAC_TX_SLOTS = 1
    RingCapacity = 2
    ArpTries = 1
    ArpPolls = 2
    Traffic = {"udp", "query"}
    MaxFrames = 2
INVARIANTS TypeOK HandlerReady
PROPERTIES FrameProcessedOnceInSession BootCompletes IsrDrains IsrReturns
CHECK_DEADLOCK FALSE
