\* Three RPCs at the door of a queue of one: what is let in, and in which order it
\* is handed out.
SPECIFICATION Spec
CONSTANTS
    Workers = {w1, w2}
    Hosts = {h1}
    MaxCalls = 3
    MaxRefused = 1
    Limits = {1}
    Deadlines = {1}
    DefaultLimit = 1
    DefaultDeadline = 1
    Forever = 2
INVARIANTS
    HandedOutInOrder
    EveryCallQueued
    OvershootBounded
