CONSTANTS
    k1 = k1
    k2 = k2
    k3 = k3
    i1 = i1
    i2 = i2
    i3 = i3
    Clients <- MCLiveClients
    PeerIds <- MCLivePeerIds
    MaxPeers = 1

SPECIFICATION FairSpec
CHECK_DEADLOCK FALSE
INVARIANTS RegistryStaysCleared AdmittedSocketsClosedAtExit
PROPERTIES PeerReleasedAfterClose ClosedSocketReleasesPeer
