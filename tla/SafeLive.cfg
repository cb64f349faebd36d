SPECIFICATION FairSpec
CONSTANTS
  Joint = {w1}
  Position = {w1}
  ZeroOnActivate = {w1}
  Guarded = {w1}
  StatusTimeout = 1
  BrakeTime = 2
  ActivationWait = 1
  StallTime = 1
  OtherReads = "never"
  Lossy = FALSE
PROPERTIES FaultStops ReleaseEnds
