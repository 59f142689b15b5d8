SPECIFICATION FairSpec
CONSTANTS
  Replicas = {r1, r2}
  Nobody = Nobody
  MaxTries = 2
  MaxErrors = 0
  MaxLosses = 2
  MaxRestarts = 0
  MaxAgings = 0
PROPERTY AlwaysLedAgain
CHECK_DEADLOCK FALSE
