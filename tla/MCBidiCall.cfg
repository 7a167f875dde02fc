\* A ring of two under a stream of four, a window of two for three requests: a half close,
\* a cancel, a switch to buffered mode or a failure at any step, for both styles of server.
SPECIFICATION BidiFairSpec
CONSTANTS
    Cap = 2
    MaxSent = 4
    Window = 2
    MaxAsked = 3
    Servers = {"at_once", "with_reply"}
    Timeouts = {TRUE, FALSE}
INVARIANTS
    RequestsIntact
    NewestKept
    InOrder
    LossAccounted
    CancelStopsDraining
PROPERTIES
    HalfCloseHeard
    HostLearnsFailure
    NewestArrives
