CONSTANTS
    p1 = p1
    p2 = p2
    p3 = p3
    PeerIds <- MCPeerIds
    MaxPeers = 2
    MaxCreates = 2
    SsrcStart = 42
    U32 <- MCU32
    NalTimestamps = {0}

SPECIFICATION FairSpec
PROPERTY ClosedPeersReaped
