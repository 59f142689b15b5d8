SPECIFICATION Spec
CONSTANTS
  Replicas = {r1, r2}
  Nobody = Nobody
  MaxTries = 3
  MaxErrors = 0
  MaxLosses = 1
  MaxRestarts = 1
  MaxAgings = 1
SYMMETRY Symmetry
INVARIANT SettledTrusted
INVARIANT OneConflict
CHECK_DEADLOCK FALSE
