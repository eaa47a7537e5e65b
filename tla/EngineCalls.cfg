CONSTANTS
  c1 = c1
  c2 = c2
  c3 = c3
  f1 = f1
  f2 = f2
  NoDatabase = NoDatabase
  Caller <- MCCaller
  Fingerprint <- MCFingerprint
  MaxRecords = 3
  MaxTime = 1
  MaxClients = 2
  LruEnabled = TRUE
  MaxIdlePools = 1
SPECIFICATION FairSpec
INVARIANTS
  RegTypeOK
  RefsAreHolders
  InUseStaysOpen
  NoPoolLeaks
PROPERTIES
  CollectsOldestIdle
  SharesPools
  EveryCallIsAnswered
