SPECIFICATION LiveSpec
CONSTANTS
  Configs <- Recalibrated
  Readings <- SteadyCup
  TestPulses = {2}
  NoPulse = 0
  UiKinds = {}
  WebKinds = {"TEST", "CLOSE"}
  Levels = {TRUE, FALSE}
  Outside = {"pwm", "update", "config"}
  Stable = 1
  Stale = 1
  MaxPour = 3
  Window = 1
  Recovery = 1
  TestTime = 1
  Debounce = 1
  Hold = 2
  QueueLen = 1
INVARIANTS
  UpdateShut
PROPERTIES
  PourEnds
