SPECIFICATION Spec
CONSTANTS
  MaxFaults = 2
  Confs <- MCConfs
 
INVARIANT SavedBeforeRun
INVARIANT UserNamespaceFirst
INVARIANT MountSourcesMatch
INVARIANT HookOrder
INVARIANT ReturnsAfterInit
INVARIANT FailureRemovesCgroup
PROPERTY CreateReturns
PROPERTY NoOrphan
CHECK_DEADLOCK FALSE
