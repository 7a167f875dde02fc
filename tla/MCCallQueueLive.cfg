\* With a deadline set, and a host that may never accept or complete anything.
SPECIFICATION FairSpec
CONSTANTS
    Workers = {w1, w2}
    Hosts = {h1}
    MaxCalls = 2
    MaxRefused = 1
    Limits = {1}
    Deadlines = {1}
    DefaultLimit = 1
    DefaultDeadline = 1
    Forever = 2
PROPERTIES
    EveryClientReleased
    StopReturns
    ImplementsLifecycle
