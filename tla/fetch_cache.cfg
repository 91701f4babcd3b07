SPECIFICATION Spec
CONSTANTS
  Scales = {s1, s2}
  Firmwares = {f1, f2}
  AckFirmwares = {f2}
  RevMod = 4
  NoThreshold = NoThreshold
  MaxEdits = 3
INVARIANTS
  WritesHitTheirCharacteristic
  NameOfItsRevision
PROPERTIES
  CommandSurvivesRead
  FetchReturns
