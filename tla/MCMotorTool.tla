----------------------------- MODULE MCMotorTool -----------------------------
(* Instances of MotorTool for TLC. *)
EXTENDS MotorTool, TLC

\* A good file, one that is not valid, and one without the gizmo whose motor is missing.
SomeFiles == {("left" :> 2) @@ ("yaw" :> 1), ("left" :> 1) @@ ("yaw" :> 1), "left" :> 3}

\* Half a leg: standing still, then at --speed.
UpAndDown == <<0, 1>>
SomeVelocities == {2, -1, 7}    \* the last one is refused
FewFrames == {Speed(1), ZeroCurrent, [mode |-> "brake", value |-> 1], [mode |-> "duty", value |-> -1],
              [mode |-> "position", value |-> 1], [mode |-> "position_speed", value |-> 2, speed |-> -1],
              [mode |-> "position_speed", value |-> 0, speed |-> 0],
              [mode |-> "origin", value |-> "temporary"], [mode |-> "origin", value |-> "permanent"],
              [mode |-> "origin", value |-> "default"]}

AFewMishaps == [c \in Commands |-> IF c = "stop" THEN 2 ELSE 1]
=============================================================================
