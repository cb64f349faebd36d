SPECIFICATION Spec
CONSTANTS
  Client = {alice}
  NoOne = NoOne
  Side = {left}
  Reading = {100, 300, 400}
  NoData = NoData
  Linear <- Full
  Angular <- Straight
  StopDistance = 250
  ReactionTime = 200
  Deceleration = 2000
  GuardCap = 300
  RequireData = TRUE
  CommandTimeout = 1
  DriverTimeout = 2
  SensorTimeout = 1
PROPERTIES RoomToStop
