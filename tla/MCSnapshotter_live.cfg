SPECIFICATION CollectedSpec
CONSTANTS
  Clients = {c1, c2}
  Keys = {k1}
  Temps = {t1, t2}
  Nobody = Nobody
  NoKey = NoKey
  NoDir = NoDir
  MaxId = 1
  MaxFaults = 1
  MaxCrashes = 1
  AsyncRemove = TRUE
  HookMayFail = FALSE
PROPERTY TransactionsEnd
PROPERTY GarbageCollected
CHECK_DEADLOCK FALSE
