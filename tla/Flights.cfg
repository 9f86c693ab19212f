SPECIFICATION FairSpec
CONSTANTS
    Last = 3
    Split = {2}
    Parts = 2
    DTLS13_RETRANS_RN_SIZE = 3
    MaxUpsets = 4
    MaxLead = 4
    MaxSent = 20
INVARIANTS TypeOK AckedIsKept
PROPERTY Completes
CHECK_DEADLOCK FALSE
