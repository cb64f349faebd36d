------------------------------- MODULE MCSensors -------------------------------
(* The two sensor drivers for TLC: they share nothing, so a behaviour runs one of them. *)
EXTENDS SensorBridge, ImuNode, TLC

VARIABLE device

\* No echo and a wall; one sensor sees each.
NoEchoOrWall == {-1, 3}
SomeSights == ("left" :> {3}) @@ ("right" :> {-1})

\* The other one is not there.
Init ==
  /\ SensorInit /\ ImuInit
  /\ \/ device = "board" /\ ~there
     \/ device = "imu" /\ ~plugged

Next ==
  /\ UNCHANGED device
  /\ \/ device = "board" /\ SensorNext /\ UNCHANGED imuVars
     \/ device = "imu" /\ ImuNext /\ UNCHANGED sensorVars

\* SensorFairness and ImuFairness, each where its device runs.
Spec ==
  /\ Init /\ [][Next]_<<device, sensorVars, imuVars>>
  /\ WF_sensorVars(device = "board" /\ Reader)
  /\ WF_sensorVars(device = "board" /\ (Destroy \/ Destroyed))
  /\ WF_imuVars(device = "imu" /\ (Elapse \/ Poll))
=============================================================================
