\* Two host threads race the reaper for two calls while the settings change.
SPECIFICATION Spec
CONSTANTS
    Workers = {w1, w2}
    Hosts = {h1, h2}
    MaxCalls = 2
    MaxRefused = 1
    Limits = {0, 1, 2}
    Deadlines = {0, 1}
    DefaultLimit = 1
    DefaultDeadline = 1
    Forever = 2
SYMMETRY ThreadSymmetry
INVARIANTS
    TypeOK
    Custody
    CountersExact
    NeverReapedEarly
    NothingLeft
