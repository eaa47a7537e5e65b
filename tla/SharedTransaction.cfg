CONSTANTS
  c1 = c1
  c2 = c2
  h1 = h1
  h2 = h2
  NoCall = NoCall
  NoHandle = NoHandle
  Call <- MCCall
  Handle <- MCHandle
  Pooled <- MCPooled
  kindsOf <- MCKindsOf
  MaxConns = 3
  PoolMax = 2
  MaxInstances = 2
  MaxStatements = 2
SPECIFICATION Spec
CHECK_DEADLOCK FALSE
INVARIANTS
  AcknowledgedWritesLast
