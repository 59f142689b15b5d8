SPECIFICATION Spec
CONSTANTS
  Clients = {c1, c2}
  Keys = {k1, k2}
  Temps = {t1, t2, t3}
  Nobody = Nobody
  NoKey = NoKey
  NoDir = NoDir
  MaxId = 2
  MaxFaults = 1
  MaxCrashes = 1
  AsyncRemove = FALSE
  HookMayFail = TRUE
SYMMETRY Symmetry
INVARIANT UniqueIds
INVARIANT ParentsCommitted
PROPERTY ImplementsStore
CHECK_DEADLOCK FALSE
