SPECIFICATION FairSpec
CONSTANTS
    Client = {a}
    NoPeer = NoPeer
    MaxTimeouts = 1
    MaxSends = 3
    MaxSessions = 2
PROPERTY ServesNext
CHECK_DEADLOCK FALSE
