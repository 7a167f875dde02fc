SPECIFICATION FairSpec
CHECK_DEADLOCK FALSE
CONSTANTS
    Calls = {c1, c2, c3}
    PoolSize = 2
INVARIANTS NothingAfterStop StopFromHandlerHangs
PROPERTY StopReturns
