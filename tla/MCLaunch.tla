------------------------------- MODULE MCLaunch -------------------------------
(* RobotLaunch with one spawner and the sensor bridge. *)
EXTENDS RobotLaunch
=============================================================================
