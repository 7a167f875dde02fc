\* Both dispatch modes.  Two slots per channel and four requests, so that the channel
\* and the pump's hand are full at once; three replies, so that a write meets a full one.
SPECIFICATION FairSpec
CONSTANTS
    Cap = 2
    MaxIn = 4
    MaxOut = 3
INVARIANTS
    RequestIntact
    DoneMeansAll
    ResponseIntact
PROPERTIES
    StatusReachesClient
    HostHearsEnd
    PumpFinishes
