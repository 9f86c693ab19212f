SPECIFICATION FairSpec
CONSTANTS
    Client = {a, b}
    NoPeer = NoPeer
    MaxTimeouts = 2
    MaxSends = 4
    MaxSessions = 3
INVARIANTS TypeOK SessionWithPeer QueueIsPeers
PROPERTY AcceptReturns
CHECK_DEADLOCK FALSE
