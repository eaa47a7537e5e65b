SPECIFICATION FairSpec
CONSTANTS
    first = first
    second = second
    Caller <- MCCaller
    MaxEvents = 4
INVARIANTS
    CancelPrevails
    StatusTellsAnswer
    ReferenceCoversRunner
PROPERTIES
    EveryTaskIsAnswered
CHECK_DEADLOCK FALSE
