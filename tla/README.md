# Verification of iot-ros

TLA+ models, model-checking runs and machine-checked proofs for the robot software in this
repository: a differential-drive robot on ROS 2 Jazzy with CubeMars motors on a CAN bus, an STM32
for the ultrasonic sensors, an IMU, a camera on a two-axis gizmo, two follow behaviours and a web
page to drive it. Paths are relative to the repository; `P` is its `src/` directory of packages.

The question behind the project is one a builder of a robot has to answer: **what moves it, and
what makes sure that it stops.** The models run from the motors upward: the hardware component that owns
them, the tool that turns them one by one, the sensors the robot must not drive without, the web
node that lets people drive, the E-stop it shares with others, the person it follows, the follow
behaviours it starts and stops, and the launch and the service around all of it.

## 1. Inventory

| Component | State it keeps | Operations | Interacts with | Hard part | Correct when |
|---|---|---|---|---|---|
| `P/external/cubemars_hardware_safe` (`SafeSystem`; `WheelSystem`, `GizmoSystem` derive from it) | lifecycle, `active_`, `stopped_`, CAN socket, per joint: fault, last status, over-effort time, release state, command | `on_configure/activate/deactivate/cleanup/shutdown/error`, `perform_command_mode_switch`, `read`, `write` | controller manager, motors over CAN, the upstream plugin, the other component on the same loop | blocking stops inside a control loop; stale commands; silent motors; lost frames | a component that is not active drives nothing; an unclaimed joint is released; nothing left over is obeyed |
| `iot_robot_web` `RobotBridge`, driving | driver lock, last command, last publication, E-stop, mode, ranges | `drive`, `release`, `set_estop`, `aim_gizmo`, `set_mode`, `on_range`, `on_drive_timer` | browsers, `/cmd_vel/web`, ultrasonic topics, `/e_stop` | two threads, dead-man, several clients, disconnects | one driver; motion ends without commands; no command survives an E-stop; forward only with eyes |
| `iot_robot_web` E-stop mirror | `estop`, `estop_known`, `EchoFilter.outstanding` | `publish_estop`, `on_estop`, heartbeat, startup timer | every `/e_stop` publisher, twist_mux | own echoes; no order between publishers; restarts | page and twist_mux agree |
| `iot_robot_web` follow modes | `mode`, `mode_status`, `follow`, `mode_lock`, tasks | `change_mode`, `stop_follow`, `FollowProcess.start/stop/kill`, `follow_status`, `shutdown`, signals | `ros2 launch` children, ROS graph, driver lock | concurrent tasks, cancellation, children that hang or die, crashes | one follower, of the shown mode; none outlives the node |
| `iot_robot_web` `FrameHub` | viewers, encoder task, last JPEG | add/remove viewer, `run`, `reset`, `close` | image subscription, mode | frames of the mode before | a viewer sees the mode's topic |
| `iot_robot_web` `person_action` | pending service call | enroll, forget | person detector | late answers | the page is told what happened |
| `iot_robot_behavior` `target_follower` | target, `last_seen`, bearing | `on_target`, `control_loop` | TF, detectors, `/cmd_vel/follower` | lost targets, TF failures | no forward motion towards an old target |
| `iot_robot_behavior` twist_mux configuration, diff_drive_controller | priorities, timeouts, lock | mux, time out | all velocity sources | order of topics, fallback to the follower | E-stop blocks all; a silent source loses the robot |
| `iot_robot_perception` `person_detector`, `reid` | gallery, gesture timer, last people | `on_image`, `on_enroll`, `on_forget` | camera, TF, web node | gaps in the images, gallery drift | the gesture takes its time; one person is learned |
| `iot_robot_perception` `ball_detector` | none | `on_image` | camera | numeric | — |
| `iot_robot_drivers` `stm32_bridge`, `stm32_protocol` | connection, faults, pending bytes | connect, read, parse, publish | serial port, ultrasonic topics | partial lines, reconnects | a failed sensor never reads as "clear" |
| `iot_robot_drivers` `lsm9ds1`, its node | connection, bias, sample times | connect, poll, bias estimate | I2C | half-frozen sensor, motion during calibration | no old samples |
| `iot_robot_drivers` `cubemars_tool`, `motor_config` | motor file, bus | check, wiggle, identify, jog, stop | CAN, person at the terminal | every way out of a move | brake and release, a runaway only released |
| `iot_robot_bringup` launch, `deploy/` | processes | spawn, stop, restart | all of the above, systemd | order of starts, exits | the motors are stopped when the control node is gone |
| `fake_*`, simulation, description, `camera_ros`, the pages | — | — | — | test doubles, geometry, vendored, or input only | — |

`PROJECT.json` lists every component with its status and every hazard at its line, with the
properties that would catch it, or a note that says why none does.

## 2. Modules

| Module | Models | Extended by |
|---|---|---|
| `SafeSystem` | one hardware component: lifecycle, control cycle, watchdog, stall guard, stops and releases | `MCSafeSystem`, `SafeSystemProof` |
| `MotorPromise` | the abstract specification: motors run only while the component is on | instanced by `SafeSystem` as `Promise` |
| `WebDrive` | driver lock, dead-man, obstacle guard, E-stop, `/cmd_vel/web` | `MCWebDrive`, `WebDriveProof` |
| `EstopMirror` | web nodes, other publishers and twist_mux on `/e_stop` | `MCEstopMirror`, `EstopMirrorProof` |
| `FollowModes` | `change_mode` tasks, follow launches, status, shutdown | `MCFollowModes`, `FollowModesProof` |
| `ServoMotor` | a CubeMars motor as `fake_cubemars.py` and the frames of `cubemars.py` describe it | `MotorTool` |
| `MotorTool` | `cubemars_tool` and `motor_config` on a bus with motors, and the launch's preflight | `MCMotorTool`, `MotorToolProof` |
| `SensorBridge` | `stm32_bridge`, its protocol, the wire and the board (`fake_stm32.py`) | `MCSensors`, `SensorsProof` |
| `ImuNode` | the LSM9DS1 driver, its node and the chip | `MCSensors`, `SensorsProof` |
| `PersonDetector` | gestures, gallery and services of `person_detector`, and the web node's `person_action` | `MCPerson`, `PersonProof` |
| `TargetFollower` | `target_follower`, up to the time-out of the base | `MCPerson`, `PersonProof` |
| `RobotLaunch` | `robot.launch.py`, `iot-robot.service`, and the stop each of them sends | `MCLaunch`, `RobotLaunchProof` |

A module `MC…` gives the constants of a module their values for a run and holds nothing
else. Definitions named `X_…` beside an `X` are the slips its properties are tested against. A module `…Proof` holds its theorems (section 4).

### SafeSystem (`P/external/cubemars_hardware_safe/src/safe_system.cpp`)

Every lifecycle callback is an action. The controller manager serialises the callbacks of one
component, so they do not overlap, but `wait_for_status`, `zero_joints` and `stop_motors` sleep for
many milliseconds. These are split at their sleeps (`WaitPoll`, `ZeroPoll`, `EndStop`), and motors,
bus, queue and controllers move in between. `Read` and `Write` are one call each; `Tick` is a
period of the loop. The two components share one control loop: `Pause`/`Resume` is the other
component blocking it, with `OtherReads` the order in which the manager calls their reads.

Data is reduced to what the code tells apart: `motor[j]` is what the last frame told the motor
(off, zero speed, a fresh command or a stale one), `cmd[j]` is NaN or was written since or before
the last stop, and a status frame is healthy, faulty or high-effort. `unreached` records the motors whose
last release was lost on the bus.

Outside `src/`'s own code: the motors, the bus, the controller manager and the upstream plugin,
which sends frames only for joints a controller holds.

### WebDrive (`P/iot_robot_web/iot_robot_web/web_controller.py`, `logic.py`)

Browsers reach `RobotBridge` from the asyncio thread and messages and timers from the ROS thread.
Every method holds `self.lock` from beginning to end, so each is one action and every order is
possible. A `Tick` is a period of the drive timer; `due` lets its handler run once in a tick, at
any point of it. A twist carries the client it comes from and whether an E-stop came after it was
asked for; four ghost variables (`cut`, `asked`, `control`, `trust`) remember what the properties
talk about. `Guarded` computes `guard_command` in mm and mm/s.

### EstopMirror

A channel per publisher and subscriber: messages of one publisher arrive in order, nothing orders
those of two. `EchoFilter` forgets what is older than its timeout: with `Slow`, `Remembered` may drop any
prefix. twist_mux's lock is the last message it received, and it restarts as "released".

### FollowModes (`web_controller.py`, `follow_process.py`)

An action is what a coroutine does from one `await` to the next, so the places where other
coroutines can run are exactly those of the code: waiting for `mode_lock` (`wait`), for the launch
to exit after SIGINT (`int`), for the kill to be reaped (`reap`), for the output reader (`read`) and
for the pipes of a new process (`start`). `stop_follow` is shared by the tasks and by `serve()`, as
in the code. A cancellation ends a task at any of these points but `read`, where
`FollowProcess.stop` swallows it and `change_mode` goes on. The launches obey SIGINT, ignore it,
exit by themselves or die leaving nodes behind. The clock is abstracted: every timeout may expire at
any time, which includes the timeout of 0 after SIGTERM.

### ServoMotor and MotorTool (`P/iot_robot_drivers`: `cubemars.py`, `fake_cubemars.py`, `cubemars_tool.py`, `motor_config.py`)

`ServoMotor` is one motor as a record and a function per frame: what it is commanded, its encoder
and origin, its fault, and the ticks since the last frame; `Turning`, `Move`, `Quieter` and `Expire` are what one
period does to it, its own CAN timeout included. A bench program may leave a motor in any mode, position-speed included, and
without its origin. `MotorTool` runs a subcommand: `Begin` opens the bus, `Hear` and
`Decide` listen for status frames and for another program, `SendMove`/`Supervise`/`Arrive` are the
loop of a move, `Brake`/`Braked`/`Free` every way out of it, `Answer` and `Write` the file, in two steps with a file `Stage` leaves beside it.
`scan` and `motor_config` go through IDs and joints in
sorted order; where a loop goes through a set or a dictionary, every order is possible.
A tick is a period of 20 ms. The user interrupts and kills the tool, the link drops and may come back (`lost` is the error that waits in an open socket
meanwhile: `Deaf` while the tool listens, `Torn` in a move), and a motor may run too fast, be stuck or turn against its command. Speeds and encoder positions are small
integers; only their signs, their sums over a move and their relation to the margins matter.

### SensorBridge and ImuNode

The bridge's reader thread is split where it blocks or another thread can come in: open, flush,
read, close, wait. A line is two halves on the wire, so that a line can be cut; a reading is "no
echo", a distance or out of range. The board repeats a warning as its firmware does, and forgets
it on a reset; opening the port does not reset it. `blind` counts the pings that were published as
open space though the sensor failed. `ImuNode` polls once per action and reads both halves of the
chip; angular rates are integers on one axis. Each half can be frozen, or lose its configuration, alone.

### PersonDetector and TargetFollower

Appearances are points on a line: two looks match when they are close enough, so a gallery can
drift from look to look. `Frame` is `on_image` as a whole: matching, learning, the gesture and the
target. The services are answered from the executor thread; the page's wait, the answer that is
handed to the asyncio thread and the give-up are steps of their own. `TargetFollower` sees a
bearing and a range out of a few classes; TF may fail at any look.

### RobotLaunch

`launch` handles one event at a time: `OnProcessExit` takes the next exit and, when it is that of
`ros2_control_node`, nothing else happens in the launch until `SendMotorStop` has sent its frames
or given up. Every process may fail, hang or be killed, and so may the launch, whose processes then
go on without it (`stray`). The unit's states are those systemd goes through after the main process
ended: the rest of the control group is killed, `ExecStopPost` runs, and `RestartSec` passes.
Without link or power a serving node's components may stop and latch (`NodeLatches`): the node goes on running but commands
nothing until it is started again, and `AllUp` does not count it. A shorter outage leaves it serving. The
motors' own CAN timeout is left out here, so that nothing but the software's stops releases them.
The tool's stop and the plugin's own stop are a step each; their detail is in `MotorTool` and `SafeSystem`.

## 3. Runs

| Run | Shows | Bounds |
|---|---|---|
| `safe` | `StoppedUnlessActive`, `UnclaimedIsReleased`, `NoLeftoverCommand`, `StopIsLatched`, `SilenceBound` (how many cycles a silent motor can go unnoticed), `KeepsPromise` (the refinement of `MotorPromise`) and `Inductive`, the invariant of the proofs | one position joint with zeroing, lossy bus, the other component reads after |
| `safe_live` | `FaultStops`, `ReleaseEnds` | one joint, fair, lossless |
| `safe_shared` | **violated** `BrakeBeforeRelease`: next to a component whose stop takes as long, a release skips the braking | one joint |
| `web_drive` | `DriveSafety` (one driver, forward only with eyes), `DeadMan`, `MovedByDriver`, `NoResume`, `SafeTwists` (nothing during an E-stop; forward only with the room the guard keeps: all that is needed to stop, or the cap where that is more) | two browsers, two sensors; a speed within the cap and one beyond it |
| `web_fast` | **violated** `RoomToStop`: at full speed the cap of 0.3 m is shorter than the stop | one sensor |
| `estop` | `MirrorSafety`, `OnlyReleasedByPage`; an engaged page locks twist_mux (`EngagedLocks`) and is shown by the other page (`EngagedShown`) | a lone node with three messages in flight; two nodes, a button, restarts and slow nodes with one |
| `estop_race` | **violated** `NeverContradicts`: page and terminal at the same time | one page, one terminal |
| `follow` | `FollowSafety` (nothing of another mode is alive), `Served`, `FailureShown`, `GoneAfterExit` | two requests, three modes |
| `motor_tool` | `ToolSafety` (one motor at a time, never beside another program), `EndsReleased`, `SupervisedMoves` (a runaway is let go, a gizmo joint keeps within its travel, a wiggle returns), `WrittenAsAnswered`, `ComesToRest` | two motors, every subcommand, one mishap (two for `stop`) |
| `sensors` | `BridgeSafety` (each loss spoils one line, no fault is forgotten or invented for longer than the board's own delay), `PortServed`, `ImuSafety` (nothing of a settling chip, half a frozen chip is noticed), `BiasFromStill`, `Recovers` | two sides, three lines on the wire, two losses; four troubles of the chip |
| `person` | `GallerySafety`, `FoundAsEnrolled`, `GestureEnrols`, `PagesTold` (a page that asks always hears a result, and no late answer is set on the future it gave up), `FollowerSafety` (drives for a target just seen, a search ends) | two people with three looks, two pages; three bearings and ranges |
| `launch` | `LaunchSafety` (released whoever dies first; under systemd never two control nodes; failure is reported only for a failure), `HalfStartEnds` (a failed spawner ends the launch), `ComesBack` (the service brings the robot back, but for a stop its components latched) | one spawner, one respawned node, three mishaps |

A property with several parts is a conjunction of named invariants, each defined and explained in its module.

The violated runs are disagreements between code and documentation; `PROJECT.json` quotes the line
of each under "findings".

**Why the bounds are enough.** The joints of a component interact only through the shared
lifecycle, the shared stop and the shared queue; the runs take one joint of each kind, and the theorems
hold for any number of joints, so a release that treats two of them differently is covered by the proof. Timeouts of one or two ticks keep
the orders apart (before, at and after the deadline) and their values matter only relative to each
other. The web node compares clients for equality only, so two browsers are any two. A third message in
flight lets the echo filter hold two different values and the next one. The second mode request meets
a launch that is starting, running or stopping; a process is named by the request that starts it, so
requests bound launches too. `motor_tool`: a leg of a move, a brake and the listening are
a tick or two, so every step of a move can meet the mishap. Two motors are needed for a move of the wrong one; the three
files to begin with are a good one, an invalid one, and one without a gizmo and with a motor that is not there. `sensors`:
`FaultWarn` 2 and `FaultRepeat` 3 pings keep the first warning and its repetitions apart; a
wire of six halves takes a warning for each side and the reading behind them, and a loss may take any run of these halves; `StaleTimeout` 6 is longer than `TurnOn` and a reconnection together, as in the code. `person`:
two looks of one person make a gallery that can drift, one learned look (`RecentSize`) is the
first one to be dropped; `EnrollDuration` 2 and `Forgive` 1 put a missed detection inside, at the end of and beyond what is forgiven.
`launch`: three mishaps are the death of the control node, the death of the launch and a lost link in any order. Bounds are the constants `InFlight` and
`Task`, and the caps `SilenceCap` and the timeouts in the models of time.

Deadlock is checked wherever the system never stops. It is switched off where it may: the requests
of `follow` are bounded and its server may end, the tool of `motor_tool` ends, the bridge is
destroyed, the pages of `person` ask once, and a robot that is stopped need not be started.

**Fairness.** `SafeSystem`: the controller manager calls read and write in every period and a
blocking call ends, so ticks, the polls of the waits and the loop's steps are weakly fair; nothing
is assumed of controllers, operators or the bus. `EstopMirror`: messages of reliable topics arrive
and steady-clock timers fire; the heartbeat is strongly fair because the bounded channel may
refuse it now and then. `FollowModes`: the event loop runs what is ready and its timeouts expire; the
telemetry task runs while a page is open (with no page nobody sees a status). Launches are not
fair: `Served` holds although they may ignore SIGINT for ever, and `GoneAfterExit` states as its
premise that they obey it in the end. `MotorTool`: time passes and the tool's process runs, neither
for ever without the other. Nobody is made to answer (`Answer` is in no fairness condition, because `input()` waits for its
user), so `ComesToRest` asks `identify` to end or to stay at its question with every motor released, and does not ask
`watch` to end at all, which runs until it is interrupted. `Sensors`: the reader thread is scheduled and its waits are bounded, the node's
destruction goes on once begun, and the IMU's timer fires; nothing is assumed of the board, the
wire or the chip but what each property states as its premise. `Person`: time passes for a page
that waits, because `wait_for` is a timer of the event loop. `Launch`: launch and systemd go on with
what they have begun, processes end after SIGKILL and the controller manager gets on unless it
hangs (a mishap); users, crashes, link, power and latching are free. That a spawner which waits for a hanging controller
manager fails in the end is its own timeout, and only this fairness.

## 4. Proofs

Each theorem holds for every value of the constants that the named `ASSUME` of its component admits:
any number of joints, browsers, requests, motors, people, processes and mishaps, and any timeouts and
thresholds. The proofs follow one pattern. An inductive invariant adds to the property what the code
relies on without saying so; TLC checked it on the instance of its run before it was proved; a lemma per
action says that the action keeps it; a theorem concludes `Spec => []…`; and the properties of
section 3 follow from it. Safety needs none of the fairness.

**`SafeSystemProof`.** `TypeCorrect`, then `InductiveCorrect`. `StoppedUnlessActive` alone is not inductive: a
deactivation calls the stop only `unless stopped_`, so the stop could be skipped, or write to a closed
socket, unless one also knows that an active component has its socket and is not latched
(`StopNotSkipped`). `NoLeftoverCommand` needs that the commands themselves hold nothing stale as
soon as frames are written (`active`, or during `zero_joints`). `Inductive` is the conjunction of
these and of which calls may be in progress in which state. From it `StopsWhenInactive`,
`ReleasesUnclaimed`, `NeverSkipsStop`, `DropsLeftovers`; `Latched`, an action property, with the fact that only an
active component writes commands; and `Implements`, the refinement `Spec => MotorPromise`: `on` is "active, or in
a call that stops the motors", `driven` the motors whose last frame does not release them, `lost` is
`unreached`. Each step maps to `TurnOn`, `Run`, `TurnOff`, `Rest` or a stutter. `WatchdogBounds` is
`SilenceBound`: as long as frames are read late, a dead motor looks alive. Its invariant has two parts. `Blocked` says that the calls which keep
the loop from draining the socket are no longer than a brake and begin at their place in the cycle; `HeardLate`
that a queued frame waits no longer than the socket went undrained (the cycle, this component's stop
and the other's), and that a status that is not too old therefore hides no more silence than that.

**`WebDriveProof`.** `DriveTypes`, then `InductiveHolds`: the command is the driver's own, is no older than the lock has
been idle, and is gone with an E-stop; the timer has dropped every command it found too old; what was
published last is the command while it is live; what moves the base was published within the
base's own timeout. `OneDriver` is not inductive without these, because the lock is freed by time, and
only `DriverTimeout > CommandTimeout` (in the assumption, as `driver_timeout` and `command_timeout` are)
ensures that motion ends before another can take it. From it `DeadManHolds`, `MovedByTheDriver`, `NothingResumes`,
`OnePersonDrives` and `EstopHoldsThroughout`. `TwistsAreSafe` is `SafeTwists` for every speed and all
parameters, the shipped ones included: what the timer publishes forward has passed the guard for that very speed, whose
threshold is the least of the room it needs and the cap. At 0.2 m/s (0.3 m) that is the whole way to stop; at 0.4 m/s
(0.37 m) or turbo it is the 0.3 m of `web_controller.py:302` and no more, so that the documented promise `RoomToStop` is
false, which the run `web_fast` shows. `DriveIsSafe` alone has a hypothesis, `GuardOn`, because a stop distance of 0.0 switches the guard
off on purpose (`web_controller.yaml:31`).

**`EstopMirrorProof`.** `MirrorTypes` for any nodes and publishers: no filter remembers more than can be on its way. For
a node that is alone, neither slow nor restarted (`Lone`), `LoneMirrorsHolds`: what `EchoFilter` remembers is,
message by message, what is on its way back to it, and `estop` is the last word twist_mux will hear. That equality of
the two queues is the invariant; `EchoesAccounted` and `Mirrors` (`MirrorIsSafe`) and `ReleasedByPage` follow. Nothing of the kind holds with
a second publisher, as the run `estop_race` shows.

**`FollowModesProof`.** `FollowInductiveHolds`: the waiters of `mode_lock` are exactly the tasks between their first and their
last `await`, each once, and only the first is past waiting (`LockOK`); nothing is known of a launch that is not forked yet; and
while the server serves, whatever is alive is the launch `follow` names, known to whoever will stop it, and dead once the
task that stops it is past the kill (`OneLaunch`). `OnlyCurrent` alone says nothing of where a stopping task stands, so it does
not survive the fork of the next launch. `FollowIsSafe` is `FollowSafety`, for any number of requests, modes and needs.

**`MotorToolProof`.** `ToolInductiveHolds` for any motors, profiles, speeds, files and number of mishaps. `EndsReleased` says
something only when the tool is done; before, one has to know which motors can be driven at all (`DrivesOne`,
`RestsBetween`), which releases the ending still owes (`EndsTheMove`), and that `stop` has every known or
reporting motor in its list (`StopsAll`). "Never beside a program that commands the motors" needs that such a program is still to be heard while the
tool listens (`OtherIsHeard`), hence `ListenTicks > 0`. `ToolIsSafe`, `ToolReleases`, and `FileIsAsAnswered`, an action property, for which what was staged is valid
(`StagedIsValid`) must be known before the rename.

`SupervisionHolds` and `MovesAreSupervised` are `SupervisedMoves`, in three arguments. A runaway: only the motor on the move can
be astray (`OnlyTheMoved`), and the frame that tells of it is in the socket or has been read (`ToldInTime`), because the tool
drains the socket before it lets the next tick pass. A jog: while nothing else goes wrong (`Undisturbed`, `OnCourse`), its
travel is at most the ticks so far times the fastest speed the supervision lets pass (`JogTravel`), and the
ticks are the travel limit divided by the speed, rounded up. A wiggle: `WiggleTravel` gives the encoder after each tick of a round, the sum of the profile on the way
out and the sum less its first terms on the way back; the sum is a recursive function, whose existence and bounds follow from
the least length for which they would fail (`WFMin`). `SupervisionAssumption` names what the code takes for granted: the socket holds a frame of
every motor (SocketCAN holds hundreds); full speed is further off than any speed the tool
sends (the comment of `RUNAWAY_MARGIN`, `cubemars_tool.py:43`, and the cap `--max-velocity`); the brake
takes time (`stop_motors`); and a move of `identify` (5 degrees by default) stays where a status
frame can report it (3200 degrees, `fake_cubemars.py:64`).

**`SensorsProof`.** *IMU.* `ImuInductiveHolds`: the samples the driver has still to discard and those the chip has measured since it was turned
on make up `TurnOn` (`CountedDown`), one more when a sample is waiting; a half that lost its configuration
delivers none; a half is at most `StaleTimeout` old after a poll. `ImuIsSafe` follows. `BiasIsStill`: two samples within the tolerance of
the mean of their window are within two of one another, whatever the mean is; what needs an argument is that the sum of a window
of any length exists and is a number, and that a bias once taken is kept.

*Bridge.* For any wire, line length, warning schedule and number of mishaps, and losses of any run of halves. `BridgeTypesHold` is its type, `pending` included: no more than what a line
may be long. `BackInStep` (`OneLinePerLoss`) counts seams, the places where a half is followed by one of another line:
spoilt lines, seams still to come and an overlong rest are together at most the losses and one for
the flush (`InStep`). While nothing was lost, every line is handled as it was sent (`Intact`), so what
the bridge will believe of a sensor once it has read the wire is what the board last reported: that is `GhostsAreLaid`
(`NoGhostFault`). `BridgeIsSafe` adds `BlindTracked`: the readings on the wire number the failed pings one after the other, a
warning precedes those it is due with, and the readings that passed for open space are no more than the pings
before the first of them, less those a warning covered. That invariant was checked on 680 605 states before it was proved.

**`PersonProof`.** `PersonInductiveHolds` relates the detector's clock of the gesture to the time hands were really up: it has counted
at least as long (`GestureTimed`), so `GestureEnrols` (`HandsEnrol`) holds however often the detection misses
them for less than it forgives. With it go the contents of the gallery (`GalleryIsSafe`), and whose request each answer
belongs to. `PagesHearOnce` is the small one: a late answer is never set on a future that is done, for which
`asyncio_future` looks first; without that look `set_result` would raise, not tell the page twice. `EnrolledAreFound` uses that the enrolled looks are kept beside the learned ones and `Update <= Match`. The
second half is `TargetFollower`: `FollowerInductiveHolds` says for each command in effect when its target was seen,
by the age of the command; `FollowerIsSafe` follows for any `LostTimeout < SearchTimeout`.

**`RobotLaunchProof`.** `LaunchInductiveHolds`: one exit event per process; an exit with an error was nobody's wish or was signalled;
while `send_motor_stop` waits, the event at hand is the exit of the control node; systemd starts a launch only when
the one before and its stray nodes are gone. `LaunchIsSafe` follows for any processes and any number of mishaps:
`OneCommander` is not inductive without knowing what each state of the unit leaves alive.

Every safety invariant and every action property of a passing run is such a theorem.

**Only model-checked.** Liveness: `FaultStops`, `ReleaseEnds`, `EngagedLocks`, `EngagedShown`, `Served`, `FailureShown`,
`GoneAfterExit`, `ComesToRest`, `PortServed`, `Recovers`, `PagesTold` (of which `PagesHearOnce` proves the safety part), `HalfStartEnds`
and `ComesBack`. The prover handles no fairness argument and no ENABLED. Where a proof needs an induction over data
(the samples of a bias, the profile of a move, the halves on the wire), it takes the least number for which the claim would fail,
because the library's induction theorems have an operator as a parameter.

The properties the violated runs refute are of course no theorems; `TwistsAreSafe` proves what the code keeps of one of them, `RoomToStop`.

No module declares a recursive operator.

## 5. What is not modelled

* Geometry, image processing and neural networks (real arithmetic): the bearings and distances of
  `person_detector` and `ball_detector`, the angles of `target_follower` beyond their signs. Logging, HTTP
  and MJPEG delivery, the values in the telemetry, DDS discovery delays, the optional parts of the
  launch (IMU, camera), and the install scripts.
* `FrameHub`: which picture a viewer gets. Nothing that moves depends on it.
* twist_mux's priorities and diff_drive_controller: packages outside the repository. What the models take
  from them is the lock (`EstopMirror`) and the time-out of the base (`TargetFollower`).
* The simulation, the description, the vendored camera driver and the pages, whose requests are the
  inputs of the web node's models.

What the properties leave out on purpose, because the code does not promise it:

* The bridge's thread ends when the board is unplugged between opening and flushing the port
  (`reader = "dead"`); `Reconnects` excepts it.
* `NoGhostFault` and `BlindAtMost` hold while no part of a line was lost: a lost warning or "recovered" is
  wrong until the next one.
* A gallery may drift to somebody who resembles what was learned, and a gesture gathers everybody who
  raised their hands while it lasted; `GallerySafety` and `FoundAsEnrolled` say what remains true.
* A launch killed in a terminal leaves its control node, and the pre-flight check of the next one does not
  look for other commanders; `LaunchStopsMotors` excepts a robot that already has a stray node,
  and `OneCommander` is about systemd.
* Components that lost link or power for long enough stay stopped while their launch goes on, until somebody restarts
  the robot (`docs/hardware.md`, `deploy/README.md`): `ComesBack` excepts them.
* `stop` ends without a frame when its link goes down while it listens, however shortly (`Deaf` sets `cut`, which
  `EndsReleased` excepts): `recv` raises `OSError` and `main` exits. The motors' own CAN timeout releases them (`ComesToRest`).
* A status "running" may be up to a period of the graph timer old.

## 6. Plan

What is left: the liveness properties, which are out of the prover's reach; `guard_command`, `classify_range` and
`scale_command` against reference definitions over bounded inputs; and a second mishap in
every subcommand of `MotorTool`, so far in the run for `stop` alone: the theorems cover any number, but not for `ComesToRest`.
