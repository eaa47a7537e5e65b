CONSTANTS
  k1 = k1
  k2 = k2
  k3 = k3
  f1 = f1
  f2 = f2
  o1 = o1
  o2 = o2
  NoDatabase = NoDatabase
  Client <- MCClient
  Caller <- MCCaller
  Fingerprint <- MCFingerprint
  configOf <- MCConfigOf
  Op <- MCOp
  MaxRecords = 2
  MaxTime = 0
  MaxClients = 2
  LruEnabled = TRUE
  MaxIdlePools = 1
SPECIFICATION Spec
SYMMETRY Symmetry
INVARIANTS
  TypeOK
  UndisturbedClientsAreCounted
  OnlyInvalidationLosesPools
