SPECIFICATION FairSpec
CHECK_DEADLOCK FALSE
CONSTANTS
    Threads = {t1, t2}
    Owner = t1
    Wishes = {"nil", "proxy"}
    MaxSets = 2
    MaxPanics = 1
    Wrappers = {1, 2}
INVARIANT HandedNotOwned
