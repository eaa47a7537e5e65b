SPECIFICATION FairSpec
CONSTANTS
    t1 = t1
    t2 = t2
    t3 = t3
    NoTask = NoTask
    Task <- MCTask
    Unclonable <- MCUnclonable
    Count = 2
INVARIANTS
    TypeOK
    AnswersAreOwn
    OnlyFaultsLoseSlots
    CloseStopsThreads
PROPERTIES
    TasksSettle
CHECK_DEADLOCK FALSE
