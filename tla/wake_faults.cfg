SPECIFICATION Spec
CONSTANTS
  Contents = {c1}
  Never = Never
  Configs = {"absent"}
  DrawOutcomes <- DrawsSucceed
  AckOutcomes <- AcksMayBeLost
  NvsFaults = TRUE
  OfflineThreshold = 0
  FailureCap = 1
  RecoveryPowerCycles = 2
  MaxCmds = 2
  MaxResets = 1
INVARIANT SleepsOnlyPaired
PROPERTIES
  UnpairOnlyAfterAck
  WakeAdvances
