SPECIFICATION Spec
CONSTANTS
  Contents = {c1, c2}
  Never = Never
  Configs = {"on", "off"}
  DrawOutcomes <- DrawsSucceed
  AckOutcomes <- AcksSucceedOrFail
  NvsFaults = FALSE
  OfflineThreshold = 1
  FailureCap = 3
  RecoveryPowerCycles = 3
  MaxCmds = 1
  MaxResets = 3
INVARIANTS
  RetainedDescribesPanel
  ShowsLatestStableReading
  TimerFollowsLatestCheck
PROPERTIES
  OfflineOnlyAfterRealMisses
  RecoveryNeedsResets
