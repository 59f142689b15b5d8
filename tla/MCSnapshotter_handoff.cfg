SPECIFICATION Spec
CONSTANTS
  Clients = {c1, c2}
  Keys = {k1, k2}
  Temps = {t1, t2, t3}
  Nobody = Nobody
  NoKey = NoKey
  NoDir = NoDir
  MaxId = 2
  MaxFaults = 0
  MaxCrashes = 0
  AsyncRemove = FALSE
  HookMayFail = FALSE
SYMMETRY Symmetry
INVARIANT HandoffsOfLive
CHECK_DEADLOCK FALSE
