SPECIFICATION FairSpec
CONSTANTS
  Replicas = {r1, r2}
  Nobody = Nobody
  MaxTries = 1
  MaxErrors = 1
  MaxLosses = 1
  MaxRestarts = 0
  MaxAgings = 1
PROPERTY EventuallyTrusted
CHECK_DEADLOCK FALSE
