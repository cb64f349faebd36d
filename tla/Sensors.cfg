SPECIFICATION Spec
CONSTANTS
  FaultWarn = 2
  FaultRepeat = 3
  MinRange = 2
  MaxRange = 6
  Distances <- NoEchoOrWall
  Sees <- SomeSights
  CanBreak = {"left"}
  MaxLine = 2
  Wire = 6
  Mishaps = 2
  TurnOn = 2
  Samples = 3
  Tolerance = 1
  Rates = {0, 1, 3}
  StaleTimeout = 6
  ReconnectPeriod = 2
  Troubles = 4
INVARIANTS BridgeSafety ImuSafety
PROPERTIES PortServed BiasFromStill Recovers
CHECK_DEADLOCK FALSE
