SPECIFICATION Spec
CONSTANTS
    t1 = t1
    t2 = t2
    t3 = t3
    NoTask = NoTask
    Task <- MCTask
    Unclonable <- MCUnclonable
    Count = 2
INVARIANTS
    CrashedWorkersAreReplaced
CHECK_DEADLOCK FALSE
