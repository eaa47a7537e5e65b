CONSTANTS
  c1 = c1
  c2 = c2
  h1 = h1
  h2 = h2
  NoCall = NoCall
  NoHandle = NoHandle
  Call <- MCCall
  Handle <- MCHandle
  Pooled <- MCPooled
  kindsOf <- MCKindsOf
  MaxConns = 3
  PoolMax = 2
  MaxInstances = 2
  MaxStatements = 2
SPECIFICATION FairSpec
INVARIANTS
  TypeOK
  StoreIsExact
  NothingLeaks
  ServerTransactionsAreAlone
  AnswersTellOutcome
PROPERTIES
  IsolatesCalls
  EveryCallIsAnswered
CHECK_DEADLOCK FALSE
