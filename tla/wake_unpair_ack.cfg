SPECIFICATION Spec
CONSTANTS
  Contents = {c1}
  Never = Never
  Configs = {"on"}
  DrawOutcomes <- DrawsSucceed
  AckOutcomes <- AcksSucceedOrFail
  NvsFaults = FALSE
  OfflineThreshold = 1
  FailureCap = 2
  RecoveryPowerCycles = 3
  MaxCmds = 1
  MaxResets = 0
INVARIANT FailedUnpairAckKeepsBond
