SPECIFICATION Spec
CONSTANTS
  Clients = {c1, c2}
  Keys = {k1, k2}
  Temps = {t1, t2, t3}
  Nobody = Nobody
  NoKey = NoKey
  NoDir = NoDir
  MaxId = 2
  MaxFaults = 0
  MaxCrashes = 1
  AsyncRemove = FALSE
  HookMayFail = FALSE
SYMMETRY Symmetry
PROPERTY CleanupSparesLive
CHECK_DEADLOCK FALSE
