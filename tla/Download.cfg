CONSTANTS
    Clients = {"p"}
    Downloader = "loop"
    Downloads = TRUE
    Blocks = {"g", "a", "u", "b"}
    Zero = "zero"
    Links <- ForkLinks
    PeerHas <- AllHas
    PeerTip <- AllTip
    Cached = {"g"}
    Notifies = TRUE
    Bound = 1
    NotifyBound = 1
    Capacity = 3
    RequestedSize = 16
    None = None
SPECIFICATION AllSpec
CHECK_DEADLOCK FALSE
INVARIANTS
    QueueWithinBound EveryAnswerIsExpected RequestsGoThrough SharesArriveWhole
PROPERTIES
    BlocksArrive
