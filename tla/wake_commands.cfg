SPECIFICATION FairSpec
CONSTANTS
  Contents = {c1}
  Never = Never
  Configs = {"on"}
  DrawOutcomes <- DrawsFailClean
  AckOutcomes <- AcksMayBeLost
  NvsFaults = FALSE
  OfflineThreshold = 0
  FailureCap = 1
  RecoveryPowerCycles = 2
  MaxCmds = 2
  MaxResets = 0
INVARIANT FailedDrawsRetried
PROPERTIES
  RefreshAckedAfterDraw
  CommandsComplete
