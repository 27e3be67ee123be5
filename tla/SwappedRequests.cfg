CONSTANTS
    Clients = {"p"}
    Downloader = "loop"
    Downloads = TRUE
    Blocks = {"g", "a", "u", "b"}
    Zero = "zero"
    Links <- ForkLinks
    PeerHas <- AllHas
    PeerTip <- AllTip
    Cached = {}
    Notifies = FALSE
    Bound = 80
    NotifyBound = 25
    Capacity = 100
    RequestedSize = 16
SPECIFICATION Spec
CHECK_DEADLOCK FALSE
INVARIANTS HonestPeerIsKept
