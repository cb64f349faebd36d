SPECIFICATION FairSpec
CONSTANTS
  Motor = {1, 2}
  Wheels = {"left"}
  Gizmo = {"yaw"}
  Nobody = "nobody"
  Commands = {"check", "preflight", "watch", "identify", "jog", "stop", "bench"}
  Files <- SomeFiles
  Kinds = {"good", "fast", "stuck", "runaway"}
  Loads = {0, 3}
  Profile <- UpAndDown
  Repeat = 1
  Velocities <- SomeVelocities
  Duration = 4
  MaxVelocity = 6
  MaxTravel = 4
  Margin = 2
  MaxCurrent = 2
  FullSpeed = 5
  BrakeTicks = 1
  ListenTicks = 1
  PauseTicks = 1
  Queue = 2
  BenchMotor = {2}
  Frames <- FewFrames
  Mishaps <- AFewMishaps
  PositionSpeed = 2
  FullDuty = 1
  Timeout = 2
  MaxPosition = 30
INVARIANTS ToolSafety EndsReleased SupervisedMoves
PROPERTIES WrittenAsAnswered ComesToRest
CHECK_DEADLOCK FALSE
