CONSTANTS
    p1 = p1
    p2 = p2
    p3 = p3
    PeerIds <- MCPeerIds
    MaxPeers = 2
    MaxCreates = 3
    SsrcStart = 42
    U32 <- MCU32
    NalTimestamps <- MCNalTimestamps

SPECIFICATION Spec
SYMMETRY Symmetry
VIEW LiveView
INVARIANT TypeOK
INVARIANT CapacityBound
INVARIANT SsrcUnique
PROPERTY BroadcastSnapshot
PROPERTY AbstractSpec
