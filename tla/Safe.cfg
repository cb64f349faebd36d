SPECIFICATION Spec
CONSTANTS
  Joint = {yaw}
  Position = {yaw}
  ZeroOnActivate = {yaw}
  Guarded = {}
  StatusTimeout = 2
  BrakeTime = 1
  ActivationWait = 1
  StallTime = 1
  OtherReads = "after"
  Lossy = TRUE
INVARIANTS StoppedUnlessActive UnclaimedIsReleased NoLeftoverCommand Inductive
PROPERTIES StopIsLatched KeepsPromise SilenceBound
