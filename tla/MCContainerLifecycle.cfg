SPECIFICATION Spec
CONSTANTS
  Slots = 3
  Hosts <- MCHosts
  MaxKids = 1
  MaxGen = 1
  MaxEvents = 3
INVARIANT StartOnce
INVARIANT KillAllReachesForks
PROPERTY ImplementsOCI
PROPERTY StartReturns
PROPERTY EventuallyDeleted
CHECK_DEADLOCK FALSE
