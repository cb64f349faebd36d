SPECIFICATION Spec
CONSTANTS
  Joint = {w1}
  Position = {}
  ZeroOnActivate = {}
  Guarded = {}
  StatusTimeout = 1
  BrakeTime = 2
  ActivationWait = 1
  StallTime = 1
  OtherReads = "after"
  Lossy = FALSE

PROPERTIES BrakeBeforeRelease
