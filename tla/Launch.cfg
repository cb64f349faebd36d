SPECIFICATION LaunchSpec
CONSTANTS
  ControlNode = "ros2_control_node"
  Spawners = {"diff_drive_controller"}
  Respawned = {"stm32_bridge"}
  Plain = {}
  Mishaps = 3
INVARIANTS LaunchSafety
PROPERTIES HalfStartEnds ComesBack
CHECK_DEADLOCK FALSE
