----------------------------- MODULE RobotLaunch -----------------------------
(***************************************************************************)
(* robot.launch.py and iot-robot.service: what starts the robot, what ends *)
(* it, and who stops the motors when it ends.                              *)
(*                                                                         *)
(* The launch is run by systemd or from a terminal.  Its processes fail,   *)
(* hang and are killed, and so is the launch itself; the CAN link and the  *)
(* motors' power come and go; and the user stops and starts the robot.     *)
(* launch handles one event at a time, so nothing else happens in it while *)
(* send_motor_stop waits.                                                  *)
(***************************************************************************)
EXTENDS Naturals, Sequences

CONSTANTS
  ControlNode,  \* ros2_control_node
  Spawners,     \* of joint_state_broadcaster, diff_drive_controller, gizmo_controller
  Respawned,    \* stm32_bridge, camera
  Plain,        \* robot_state_publisher, twist_mux, web_controller, the IMU
  Mishaps       \* how many things go wrong

Process == {ControlNode} \cup Spawners \cup Respawned \cup Plain

ASSUME LaunchAssumption ==
  /\ ControlNode \notin Spawners \cup Respawned \cup Plain
  /\ Spawners \cap (Respawned \cup Plain) = {} /\ Respawned \cap Plain = {}
  /\ Mishaps \in Nat

VARIABLES
  by,       \* who runs the launch: "systemd" or "terminal"
  mock,     \* the launch argument
  unit,     \* iot-robot.service: "off", "active", "stop" (SIGINT sent), "kill" (what is left),
            \* "brake" and "release" (ExecStopPost), "wait" (RestartSec)
  wanted,   \* the service has been started and not stopped since
  pc,       \* the launch: "none", "setup", "check", "up", "brake" and "release" (send_motor_stop)
  stage,    \* its shutdown: "none", or the last signal sent to its processes
  sigint,   \* a SIGINT the launch has not handled yet
  failed,   \* the launch logged an error and exits with 1
  proc,     \* its processes: "none" (not started), "run", "serving", "stuck", "latched" (a control
            \* node whose components were stopped after an error), "dead" (the launch has not
            \* handled it yet), "wait" (respawn_delay), "gone"
  events,   \* the ProcessExited events the launch has not handled yet
  up,       \* the CAN link
  powered,  \* the motors
  motor,    \* the last command they took: "turn", "hold" (zero speed), "free"
  stray,    \* a control node whose launch was killed
  budget,   \* mishaps left
  fault,    \* ghost: something failed in this launch before it began to shut down
  cut       \* ghost: the last stop could not send its frames, or a stray node died without any

service == <<unit, wanted>>
launch == <<pc, stage, sigint, failed>>
bus == <<up, powered, motor>>
vars == <<by, mock, service, launch, proc, events, bus, stray, budget, fault, cut>>

is_shutdown == stage # "none"
Alive == {p \in Process : proc[p] \in {"run", "serving", "stuck", "latched"}}
Mishap == budget > 0 /\ budget' = budget - 1

-----------------------------------------------------------------------------
(* The motors *)

\* stop_motors: zero speed, then release; the bus may be gone at each.
Sent(frame) ==
  IF up THEN /\ motor' = IF powered THEN frame ELSE motor
             /\ cut' = (frame # "free" /\ cut)
        ELSE cut' = TRUE /\ UNCHANGED motor

\* The plugin's own stop, when its node ends in order and its components are not latched.
PluginStops == motor' = IF up /\ powered /\ ~mock THEN "free" ELSE motor

\* A controller commands a speed.
Drive ==
  /\ (proc[ControlNode] = "serving" \/ stray) /\ ~mock /\ up /\ powered /\ motor' = "turn"
  /\ UNCHANGED <<by, mock, service, launch, proc, events, up, powered, stray, budget, fault, cut>>

Link ==
  /\ \/ up /\ Mishap
     \/ ~up /\ UNCHANGED budget
  /\ up' = ~up
  /\ UNCHANGED <<by, mock, service, launch, proc, events, powered, motor, stray, fault, cut>>

\* The hardware E-stop S1 cuts the power of the drives.
Power ==
  /\ \/ powered /\ Mishap
     \/ ~powered /\ UNCHANGED budget
  /\ powered' = ~powered /\ motor' = "free"
  /\ UNCHANGED <<by, mock, service, launch, proc, events, up, stray, fault, cut>>

-----------------------------------------------------------------------------
(* launch_setup *)

Begin ==
  /\ pc' = "setup" /\ stage' = "none" /\ sigint' = FALSE /\ failed' = FALSE
  /\ proc' = [p \in Process |-> "none"] /\ events' = <<>> /\ fault' = FALSE

StartAll == proc' = [p \in Process |-> "run"] /\ pc' = "up" /\ UNCHANGED <<stage, failed, fault>>

\* An exception before anything has been started ends the launch.
Refuse == pc' = "none" /\ failed' = TRUE /\ fault' = TRUE /\ stage' = "int" /\ UNCHANGED proc

\* load_motors, check_motor_plugin: motors.yaml is wrong, or the plugin is not installed.
LaunchSetup ==
  /\ pc = "setup"
  /\ \/ Mishap /\ Refuse
     \/ \E check_can \in BOOLEAN :
          /\ IF mock \/ ~check_can THEN StartAll
             ELSE pc' = "check" /\ UNCHANGED <<stage, failed, fault, proc>>
          /\ UNCHANGED budget
  /\ UNCHANGED <<by, mock, service, sigint, events, bus, stray, cut>>

\* check_can: the link is up and every motor in use reports status.
CheckCan ==
  /\ pc = "check"
  /\ IF up /\ powered THEN StartAll ELSE Refuse
  /\ UNCHANGED <<by, mock, service, sigint, events, bus, stray, budget, cut>>

-----------------------------------------------------------------------------
(* The processes *)

Signalled == is_shutdown \/ (by = "terminal" /\ sigint)

\* A failure nobody asked for is what ends the launch.
Exits(p, code) ==
  /\ proc' = [proc EXCEPT ![p] = "dead"]
  /\ events' = Append(events, [of |-> p, code |-> code])
  /\ fault' = (fault \/ (~Signalled /\ code # 0 /\ p \notin Respawned \cup Plain))
  /\ UNCHANGED <<by, mock, service, launch, up, powered, stray, cut>>

\* The controller manager loads the plugin and activates its components.
Load ==
  /\ proc[ControlNode] = "run"
  /\ \/ /\ mock \/ (up /\ powered)
        /\ proc' = [proc EXCEPT ![ControlNode] = "serving"] /\ UNCHANGED budget
     \/ /\ Mishap
        /\ proc' = [proc EXCEPT ![ControlNode] = "stuck"]
  /\ UNCHANGED <<by, mock, service, launch, events, bus, stray, fault, cut>>

\* A component that cannot be activated ends the node.
LoadFails ==
  /\ proc[ControlNode] = "run" /\ ~mock /\ ~(up /\ powered)
  /\ Exits(ControlNode, 1) /\ UNCHANGED <<motor, budget>>

\* Without a link or without power no status arrives: once it is missing for status_timeout_ms the
\* components stop and latch, and command nothing any more.  An outage may be over before that, and
\* the link may be back for some frames of the stop.
SilenceStops == motor' \in IF powered THEN {motor, "hold", "free"} ELSE {motor}
NodeLatches ==
  /\ proc[ControlNode] = "serving" /\ ~mock /\ ~(up /\ powered)
  /\ proc' = [proc EXCEPT ![ControlNode] = "latched"] /\ SilenceStops
  /\ UNCHANGED <<by, mock, service, launch, events, up, powered, stray, budget, fault, cut>>
StrayLatches ==
  /\ stray /\ ~mock /\ ~(up /\ powered)
  /\ stray' = FALSE /\ SilenceStops /\ cut' = (cut \/ ~up)
  /\ UNCHANGED <<by, mock, service, launch, proc, events, up, powered, budget, fault>>

\* A crash or SIGKILL, or an end nobody asked for.
NodeFails ==
  /\ ControlNode \in Alive /\ Mishap
  /\ \/ Exits(ControlNode, 1) /\ UNCHANGED motor
     \/ proc[ControlNode] = "serving" /\ Exits(ControlNode, 0) /\ PluginStops
     \/ proc[ControlNode] = "latched" /\ Exits(ControlNode, 0) /\ UNCHANGED motor

\* It ends in order on SIGINT or SIGTERM, or not before SIGKILL.
NodeEnds ==
  /\ ControlNode \in Alive /\ Signalled
  /\ \/ proc[ControlNode] \in {"run", "serving"} /\ Exits(ControlNode, 0) /\ PluginStops
     \/ proc[ControlNode] = "latched" /\ Exits(ControlNode, 0) /\ UNCHANGED motor
     \/ stage = "kill" /\ Exits(ControlNode, 1) /\ UNCHANGED motor
  /\ UNCHANGED budget

\* A spawner waits for the controller manager, CONTROLLER_MANAGER_TIMEOUT at most.  Its controller
\* may be active before the components latch, or not.
SpawnerEnds(s) ==
  /\ s \in Alive
  /\ \/ proc[ControlNode] \in {"serving", "latched"} /\ Exits(s, 0) /\ UNCHANGED budget
     \/ proc[ControlNode] = "serving" /\ Mishap /\ Exits(s, 1)
     \/ (proc[ControlNode] \notin {"run", "serving"} \/ Signalled) /\ Exits(s, 1) /\ UNCHANGED budget
  /\ UNCHANGED motor

OtherFails(p) ==
  /\ p \in Alive /\ ~Signalled /\ Mishap /\ Exits(p, 1) /\ UNCHANGED motor

OtherEnds(p) ==
  /\ p \in Alive /\ Signalled /\ \E code \in {0, 1} : Exits(p, code)
  /\ UNCHANGED <<motor, budget>>

-----------------------------------------------------------------------------
(* launch *)

\* is_shutdown is set at once, and every process gets SIGINT.
ShutDown == stage' = IF is_shutdown THEN stage ELSE "int"
Raise == failed' = TRUE /\ ShutDown

OnSigint ==
  /\ pc = "up" /\ sigint /\ sigint' = FALSE /\ ShutDown
  /\ UNCHANGED <<by, mock, service, pc, failed, proc, events, bus, stray, budget, fault, cut>>

\* Those still alive 5 s later get SIGTERM, and SIGKILL after 5 s more.
Escalate ==
  /\ pc = "up" /\ Alive # {} /\ stage \in {"int", "term"}
  /\ stage' = IF stage = "int" THEN "term" ELSE "kill"
  /\ UNCHANGED <<by, mock, service, pc, sigint, failed, proc, events, bus, stray, budget, fault, cut>>

shutdown_if_failed_Never(code) == UNCHANGED <<stage, failed>>
shutdown_if_failed(code) ==
  IF code # 0 /\ ~is_shutdown THEN Raise ELSE UNCHANGED <<stage, failed>>

\* on_control_node_exit after its stop frames.
AfterStop(code) ==
  CASE is_shutdown -> UNCHANGED <<stage, failed>>
    [] ~is_shutdown /\ code # 0 -> Raise
    [] OTHER -> ShutDown /\ UNCHANGED failed

SendsStop_UnlessShutDown == ~mock /\ ~is_shutdown
SendsStop == ~mock

AfterExit(p) == IF p \in Respawned /\ ~is_shutdown THEN "wait" ELSE "gone"

\* The next ProcessExited. A SIGINT is handled before the exits it causes.
OnProcessExit ==
  /\ pc = "up" /\ events # <<>> /\ ~sigint
  /\ LET p == Head(events).of
         code == Head(events).code
     IN IF p = ControlNode /\ SendsStop
          THEN pc' = "brake" /\ UNCHANGED <<stage, failed, proc, events>>
          ELSE /\ proc' = [proc EXCEPT ![p] = AfterExit(p)]
               /\ events' = Tail(events) /\ UNCHANGED pc
               /\ CASE p = ControlNode -> AfterStop(code)
                    [] p \in Spawners -> shutdown_if_failed(code)
                    [] OTHER -> UNCHANGED <<stage, failed>>
  /\ UNCHANGED <<by, mock, service, sigint, bus, stray, budget, fault, cut>>

\* send_motor_stop: an OSError is only logged, and ends it.
SendMotorStop ==
  /\ pc \in {"brake", "release"}
  /\ IF pc = "brake" /\ up
       THEN Sent("hold") /\ pc' = "release" /\ UNCHANGED <<stage, failed, proc, events>>
       ELSE /\ Sent("free") /\ pc' = "up"
            /\ proc' = [proc EXCEPT ![ControlNode] = "gone"] /\ events' = Tail(events)
            /\ AfterStop(Head(events).code)
  /\ UNCHANGED <<by, mock, service, sigint, up, powered, stray, budget, fault>>

\* respawn_delay is over, or the launch is.
Respawn(p) ==
  /\ pc = "up" /\ proc[p] = "wait"
  /\ proc' = [proc EXCEPT ![p] = IF is_shutdown THEN "gone" ELSE "run"]
  /\ UNCHANGED <<by, mock, service, launch, events, bus, stray, budget, fault, cut>>

\* Nothing runs any more.
End ==
  /\ pc = "up" /\ is_shutdown /\ events = <<>> /\ \A p \in Process : proc[p] = "gone"
  /\ pc' = "none" /\ sigint' = FALSE
  /\ UNCHANGED <<by, mock, service, stage, failed, proc, events, bus, stray, budget, fault, cut>>

\* SIGKILL of the launch: its processes go on without it.  A latched node commands nothing.
Orphans ==
  /\ pc' = "none" /\ stage' = "int" /\ sigint' = FALSE /\ failed' = TRUE
  /\ stray' = (stray \/ proc[ControlNode] \in {"run", "serving", "stuck"})
  /\ proc' = [p \in Process |-> "gone"] /\ events' = <<>> /\ fault' = TRUE

Killed ==
  /\ pc # "none" /\ Mishap /\ Orphans
  /\ UNCHANGED <<by, mock, service, bus, cut>>

-----------------------------------------------------------------------------
(* The user and systemd *)

Run ==
  /\ by = "terminal" /\ pc = "none" /\ Begin
  /\ UNCHANGED <<by, mock, service, bus, stray, budget, cut>>

CtrlC ==
  /\ by = "terminal" /\ pc # "none" /\ ~sigint /\ ~is_shutdown /\ sigint' = TRUE
  /\ UNCHANGED <<by, mock, service, pc, stage, failed, proc, events, bus, stray, budget, fault, cut>>

\* A control node left over is killed, or ends in order.
StrayEnds ==
  /\ by = "terminal" /\ stray /\ stray' = FALSE
  /\ \/ cut' = TRUE /\ UNCHANGED motor
     \/ up /\ PluginStops /\ UNCHANGED cut
  /\ UNCHANGED <<by, mock, service, launch, proc, events, up, powered, budget, fault>>

SystemctlStart ==
  /\ by = "systemd" /\ unit = "off" /\ unit' = "active" /\ wanted' = TRUE /\ Begin
  /\ UNCHANGED <<by, mock, bus, stray, budget, cut>>

\* SIGINT to the main process only.
SystemctlStop ==
  /\ by = "systemd" /\ wanted /\ wanted' = FALSE
  /\ CASE unit = "active" -> unit' = "stop" /\ sigint' = (pc # "none")
       [] unit = "wait" -> unit' = "off" /\ UNCHANGED sigint
       [] OTHER -> UNCHANGED <<unit, sigint>>
  /\ UNCHANGED <<by, mock, pc, stage, failed, proc, events, bus, stray, budget, fault, cut>>

\* TimeoutStopSec is over.
StopTimeout ==
  /\ unit = "stop" /\ pc # "none" /\ Orphans
  /\ UNCHANGED <<by, mock, service, bus, budget, cut>>

OnMainExit ==
  /\ unit \in {"active", "stop"} /\ pc = "none" /\ unit' = "kill"
  /\ UNCHANGED <<by, mock, wanted, launch, proc, events, bus, stray, budget, fault, cut>>

\* What is left of the control group gets SIGKILL.
KillRest == stray' = FALSE

Rests == IF wanted THEN "wait" ELSE "off"
AfterKill == "brake"

KillGroup ==
  /\ unit = "kill" /\ KillRest /\ unit' = AfterKill
  /\ UNCHANGED <<by, mock, wanted, launch, proc, events, bus, budget, fault, cut>>

\* cubemars_tool stop: nothing when the link is not up.
ExecStopPost ==
  /\ unit \in {"brake", "release"}
  /\ IF unit = "brake" /\ up
       THEN Sent("hold") /\ unit' = "release"
       ELSE Sent("free") /\ unit' = Rests
  /\ UNCHANGED <<by, mock, wanted, launch, proc, events, up, powered, stray, budget, fault>>

Restarts_OnFailure == failed
Restarts == TRUE

RestartSec ==
  /\ unit = "wait" /\ Restarts
  /\ unit' = "active" /\ Begin
  /\ UNCHANGED <<by, mock, wanted, bus, stray, budget, cut>>

-----------------------------------------------------------------------------
LaunchInit ==
  /\ by \in {"systemd", "terminal"} /\ mock \in BOOLEAN
  /\ unit = "off" /\ wanted = FALSE
  /\ pc = "none" /\ stage = "none" /\ sigint = FALSE /\ failed = FALSE
  /\ proc = [p \in Process |-> "none"] /\ events = <<>>
  /\ up = TRUE /\ powered = TRUE /\ motor = "free" /\ stray = FALSE
  /\ budget = Mishaps /\ fault = FALSE /\ cut = FALSE

LaunchStep == LaunchSetup \/ CheckCan \/ OnSigint \/ Escalate \/ OnProcessExit \/ SendMotorStop \/ End
UnitStep == StopTimeout \/ OnMainExit \/ KillGroup \/ ExecStopPost \/ RestartSec
Outside == Drive \/ Link \/ Power \/ Killed \/ Run \/ CtrlC \/ StrayEnds \/ SystemctlStart \/ SystemctlStop

LaunchNext ==
  \/ LaunchStep
  \/ UnitStep
  \/ Outside
  \/ Load \/ LoadFails \/ NodeLatches \/ StrayLatches \/ NodeFails \/ NodeEnds
  \/ \E s \in Spawners : SpawnerEnds(s)
  \/ \E p \in Respawned \cup Plain : OtherFails(p) \/ OtherEnds(p)
  \/ \E p \in Respawned : Respawn(p)

\* launch and systemd go on with what they have begun; the processes get on, and none
\* survives SIGKILL. Nothing from outside must happen, and no outage must be long enough to latch.
LaunchFairness ==
  /\ WF_vars(LaunchStep) /\ WF_vars(UnitStep)
  /\ WF_vars(Load \/ LoadFails) /\ WF_vars(NodeEnds)
  /\ \A s \in Spawners : WF_vars(SpawnerEnds(s))
  /\ \A p \in Respawned \cup Plain : WF_vars(OtherEnds(p))
  /\ \A p \in Respawned : WF_vars(Respawn(p))

LaunchSpec == LaunchInit /\ [][LaunchNext]_vars /\ LaunchFairness

-----------------------------------------------------------------------------
(* Properties *)

\* Types; only bridges and cameras wait to be started again, and none does once the launch is over.
LaunchTypeOK ==
  /\ by \in {"systemd", "terminal"} /\ mock \in BOOLEAN /\ wanted \in BOOLEAN
  /\ unit \in {"off", "active", "stop", "kill", "brake", "release", "wait"}
  /\ pc \in {"none", "setup", "check", "up", "brake", "release"}
  /\ stage \in {"none", "int", "term", "kill"} /\ {sigint, failed, up, powered, stray, fault, cut} \subseteq BOOLEAN
  /\ proc \in [Process -> {"none", "run", "serving", "stuck", "latched", "dead", "wait", "gone"}]
  /\ \A i \in DOMAIN events : proc[events[i].of] = "dead" /\ events[i].code \in {0, 1}
  /\ \A p \in Process : proc[p] = "wait" => p \in Respawned /\ pc # "none"
  /\ motor \in {"turn", "hold", "free"} /\ budget \in 0 .. Mishaps

\* Once the launch has dealt with the end of ros2_control_node (however it ended, and also
\* while the launch shuts down) the motors are released, unless the bus refused the frames or
\* a control node of a killed launch drives them (on_control_node_exit, send_motor_stop).
LaunchStopsMotors ==
  proc[ControlNode] = "gone" /\ pc = "up" /\ ~mock /\ ~stray => motor = "free" \/ cut

\* When the service rests, stopped or before its next start, the motors are released unless
\* the bus refused it: nothing of the robot can still command them after ExecStopPost, whoever
\* died first (iot-robot.service: KillMode, ExecStopPost).
RestsReleased == by = "systemd" /\ unit \in {"off", "wait"} => motor = "free" \/ cut

\* Under systemd a control node never drives the motors beside one of a launch before.
OneCommander == by = "systemd" /\ proc[ControlNode] = "serving" => ~stray

\* A launch reports failure only if something failed before it began to shut down: the exits
\* its own signals cause are expected (shutdown_if_failed, on_control_node_exit).
ExpectedExits == failed => fault

\* A spawner that fails ends the launch, whatever its processes do meanwhile: the robot is never
\* left half started (shutdown_if_failed).  That a spawner which waits for a hanging controller
\* manager fails at all is its own timeout, which LaunchFairness stands for.
HalfStartEnds ==
  (\E i \in DOMAIN events : events[i].of \in Spawners /\ events[i].code # 0) ~> (pc = "none")

\* However the robot ended, the service brings it back completely once link and motors answer
\* and nothing more goes wrong, until somebody stops it (Restart=always).  Only components that
\* stopped after an error stay stopped while the launch goes on: that stop is latched until somebody
\* restarts the robot (docs/hardware.md, deploy/README.md), and none of it counts as back.
AllUp ==
  /\ pc = "up" /\ ~is_shutdown
  /\ proc[ControlNode] = "serving" /\ \A s \in Spawners : proc[s] = "gone"
ComesBack ==
  (wanted /\ budget = 0 /\ up /\ powered /\ proc[ControlNode] # "latched") ~> (AllUp \/ ~wanted)

\* Whoever dies first, the motors are left released, by a launch that reports what happened.
LaunchSafety == LaunchTypeOK /\ LaunchStopsMotors /\ RestsReleased /\ OneCommander /\ ExpectedExits
=============================================================================
