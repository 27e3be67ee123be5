CONSTANTS
    Addrs = {"a", "b"}
    MoneroPeers = {}
    Callers = {"a", "b"}
    MaxOutgoingPeers = 1
    MaxIncomingPeers = 0
    MaxFailed = 1
SPECIFICATION AllSpec
CHECK_DEADLOCK FALSE
INVARIANTS
    ConnectionsAreCounted DialsAreSafe
PROPERTIES
    PeersAreTold NodesConnect
