SPECIFICATION Spec
CONSTANTS
  crConfs <- CriuConfs
  crFaults = 2
  dvConfs <- DeviceConfs
  dvMetas <- DeviceMetas
  dvDevices <- DeviceNodes
  dvQuerySize = 1
  dvRetries = 2
  dvFaults = 1
  fzConfs <- FreezerConfs
  fzTries = 4
  fzThawEvery = 3
  fzFaults = 1
  cmConfs <- CgroupConfs
  cmSubsystems <- Subsystems
  cmLevels = 3
  cmJoinTries = 2
  cmRemoveTries = 2
  cmFaults = 2
  rsConfs <- ResourceConfs
  rsUpdates <- ResourceUpdates
  rsMaxUpdates = 2
  rsSecond = 1000
  rsPercent = 10
  rsDefPeriod = 100
  rsByte = 4
  rsMax = 1000
  rsFaults = 1
  rtConfs <- RootfsConfs
  rtTries = 2
  rtFaults = 1
  rwConfs <- RwConfs
  rwTries = 2
  rwFaults = 1
  cbConfs <- ClonedConfs
  cbSize = 2
  cbFaults = 2
  scConfs <- SeccompConfs
  scNumbers <- SeccompNumbers
  scNative = "amd64"
  scBit = 16
  scSkip = 5
  scPipe = 1
  scSize = 2
  scFaults = 1
INVARIANT CriuCleansUp
INVARIANT ExternalsMatch
INVARIANT DevicesMatchRules
INVARIANT DevicesWindow
INVARIANT FreezerRestored
INVARIANT CgroupNoStray
INVARIANT LimitsJoined
INVARIANT UpdateExact
INVARIANT UnitNotTighter
 
 
 
 
INVARIANT FilterAsProfiled
 
PROPERTY CallsReturn
CHECK_DEADLOCK FALSE
