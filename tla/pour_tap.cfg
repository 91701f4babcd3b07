SPECIFICATION Spec
CONSTANTS
  Configs <- Calibrated
  Readings <- TapReadings
  TestPulses = {2}
  NoPulse = 0
  UiKinds = {"START_HALF"}
  WebKinds = {"START", "TEST"}
  Levels = {TRUE, FALSE}
  Outside = {"setup", "unlock", "stop", "wifi", "reset"}
  Stable = 2
  Stale = 4
  MaxPour = 5
  Window = 2
  Recovery = 3
  TestTime = 2
  Debounce = 1
  Hold = 2
  QueueLen = 1
INVARIANTS
  WatchedPour
PROPERTIES
  StopShuts
  ContactStartsOnce
  TapPromise
