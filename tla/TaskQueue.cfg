CONSTANTS
  w1 = w1
  w2 = w2
  MaxTasks = 4
  Priority <- MCPriority
  Concurrency = 2
  Signalled <- MCSignalled
  Limited <- MCLimited
  Waiter <- MCWaiter
SPECIFICATION FairSpec
INVARIANTS
  SlotsAreCounted
  WorkConserving
  CloseDrains
PROPERTIES
  StartsInOrder
  CancelledNeverAnswers
  EverybodyIsAnswered
CHECK_DEADLOCK FALSE
