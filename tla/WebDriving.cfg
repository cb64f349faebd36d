SPECIFICATION Spec
CONSTANTS
  Client = {alice, bob}
  NoOne = NoOne
  Side = {left, right}
  Reading = {200, 260, 320}
  NoData = NoData
  Linear <- Forth
  Angular <- Turning
  StopDistance = 250
  ReactionTime = 200
  Deceleration = 2000
  GuardCap = 300
  RequireData = TRUE
  CommandTimeout = 2
  DriverTimeout = 3
  SensorTimeout = 2
SYMMETRY SwapClients
INVARIANTS DriveSafety DeadMan MovedByDriver NoResume
PROPERTIES SafeTwists
