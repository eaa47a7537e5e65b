SPECIFICATION Spec
CONSTANTS
    first = first
    second = second
    Caller <- MCCaller
    MaxEvents = 4
INVARIANTS
    CancelledTaskRejects
CHECK_DEADLOCK FALSE
