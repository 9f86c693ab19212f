SPECIFICATION FairSpec
CONSTANTS
    Last = 3
    Split = {2}
    Parts = 2
    DTLS13_RETRANS_RN_SIZE = 3
    MaxUpsets = 2
    MaxLead = 4
    MaxSent = 8
PROPERTY AckCompletes
CHECK_DEADLOCK FALSE
