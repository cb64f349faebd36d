------------------------------- MODULE WebDrive -------------------------------
(***************************************************************************)
(* The driving half of RobotBridge (iot_robot_web): the driver lock, the   *)
(* dead-man, the obstacle guard, the E-stop and the twists they publish on *)
(* /cmd_vel/web.                                                           *)
(*                                                                         *)
(* Two threads call it, the web thread for the clients and the ROS thread  *)
(* for messages and timers; every method holds self.lock throughout, so    *)
(* each is one action and any order of them is possible.  A Tick is one    *)
(* period of the drive timer, whose handler runs once in it.  Speeds are   *)
(* in mm/s, distances in mm, and times in the guard in ms.                 *)
(***************************************************************************)
EXTENDS Integers

CONSTANTS
  Client,          \* the browsers
  NoOne,           \* no client
  Side,            \* the ultrasonic sensors
  Reading,         \* the distances they measure
  NoData,          \* NaN, or no reading at all
  Linear,          \* the forward speeds scale_command returns
  Angular,         \* the turning speeds scale_command returns
  StopDistance,    \* obstacle_stop_distance
  ReactionTime,    \* obstacle_reaction_time
  Deceleration,    \* obstacle_deceleration, mm/s^2
  GuardCap,        \* the cap on_drive_timer puts on the stop distance
  RequireData,     \* require_ultrasonic
  CommandTimeout,  \* command_timeout, in ticks
  DriverTimeout,   \* driver_timeout, in ticks
  SensorTimeout    \* sensor_timeout, in ticks

ASSUME ConstantsAssumption ==
  /\ NoOne \notin Client
  /\ Reading \subseteq Nat /\ NoData \notin Reading
  /\ Linear \subseteq Int /\ Angular \subseteq Int /\ 0 \in Linear \cap Angular
  /\ StopDistance \in Nat /\ ReactionTime \in Nat /\ Deceleration \in Nat
  /\ GuardCap \in Nat \ {0}
  /\ RequireData \in BOOLEAN
  /\ CommandTimeout \in Nat \ {0} /\ SensorTimeout \in Nat \ {0}
  /\ DriverTimeout \in Nat /\ DriverTimeout > CommandTimeout

VARIABLES
  connected,  \* the clients with an open WebSocket
  driver,     \* driver_lock.driver
  idle,       \* ticks since driver_lock.last_command, up to the timeout
  command,    \* self.command: at most one twist
  since,      \* its age in ticks
  published,  \* self.published is not None
  guard,      \* self.guard is not None
  estop,      \* self.estop
  mode,       \* self.mode: driving, or following something
  ranges,     \* self.ranges: the distance and its age in ticks, up to stale
  due,        \* the drive timer has yet to run in this tick
  out,        \* the last twist on /cmd_vel/web
  sent,       \* it was published in this step
  cut,        \* ghost: another publisher's E-stop engaged after out was sent
  asked,      \* ghost: ticks since the last command of a driver who has not let go
  control,    \* ghost: ticks since a command of each client was accepted
  trust       \* ghost: ticks for which each sensor may still justify forward motion

bridge == <<driver, idle, command, since, published, guard, estop, mode, ranges>>
ghosts == <<cut, asked, control, trust>>
vars == <<connected, bridge, due, out, sent, ghosts>>

\* A twist, with the client it comes from and whether an E-stop came after it was asked for.
Twist == [linear : Linear \cup {0}, angular : Angular, by : Client \cup {NoOne}, old : BOOLEAN]
Zero == [linear |-> 0, angular |-> 0, by |-> NoOne, old |-> FALSE]
Moves(t) == t.linear # 0 \/ t.angular # 0
Least(a, b) == IF a < b THEN a ELSE b

Silent == sent' = FALSE /\ UNCHANGED <<out, cut>>
\* publish_twist
Publish(t) == out' = t /\ sent' = TRUE /\ cut' = FALSE

-----------------------------------------------------------------------------
(* logic.py *)

\* DriverLock.holder: a driver who was idle for too long has lost the lock.
Holder == IF idle >= DriverTimeout THEN NoOne ELSE driver

\* DriverLock.request and may_control: the lock is free, or already c's.
MayDrive(c) == Holder \in {NoOne, c}

BrakingDistance(v) ==
  IF v <= 0 THEN 0
  ELSE (v * ReactionTime) \div 1000
       + (IF Deceleration > 0 THEN (v * v) \div (2 * Deceleration) ELSE 0)

\* Mutant: the age of a reading is not checked.
Fresh_Ever(s) == ranges[s].distance

\* fresh_ranges: a stale reading is no data.
Fresh(s) == IF ranges[s].age < SensorTimeout THEN ranges[s].distance ELSE NoData

\* Mutant: a speed needs no more room than standing still.
StopAt_Fixed(v) == StopDistance

\* The distance below which on_drive_timer refuses forward speed v.
StopAt(v) ==
  Least(IF StopDistance > 0 THEN StopDistance + BrakingDistance(v) ELSE StopDistance, GuardCap)

\* guard_command: an obstacle inside the stop distance, or a side nothing is watching.
Blocked(stop) ==
  /\ stop > 0
  /\ \E s \in Side : IF Fresh(s) = NoData THEN RequireData ELSE Fresh(s) < stop
Guarded(v) == IF Blocked(StopAt(v)) THEN Least(v, 0) ELSE v

-----------------------------------------------------------------------------
(* Web thread. *)

Connect(c) ==
  /\ c \notin connected
  /\ connected' = connected \cup {c}
  /\ control' = [control EXCEPT ![c] = DriverTimeout]
  /\ Silent
  /\ UNCHANGED <<bridge, due, asked, trust>>

DriveAllowed == ~estop

\* drive: c's joystick asks for a twist; "estop" and "busy" change nothing.
Drive(c, v, w) ==
  /\ c \in connected
  /\ DriveAllowed
  /\ MayDrive(c)
  /\ driver' = c /\ idle' = 0
  /\ command' = {[linear |-> v, angular |-> w, by |-> c, old |-> FALSE]} /\ since' = 0
  /\ asked' = 0
  /\ control' = [control EXCEPT ![c] = 0]
  /\ Silent
  /\ UNCHANGED <<connected, published, guard, estop, mode, ranges, due, trust>>

\* aim_gizmo: takes and keeps the driver lock without a twist.
AimGizmo(c) ==
  /\ c \in connected
  /\ mode = "drive" /\ ~estop
  /\ MayDrive(c)
  /\ driver' = c /\ idle' = 0
  /\ control' = [control EXCEPT ![c] = 0]
  /\ Silent
  /\ UNCHANGED <<connected, command, since, published, guard, estop, mode, ranges, due,
                 asked, trust>>

\* Mutant: the stop is left to the dead-man, but the command is gone already.
LetGo_NoZero == Silent
\* What the client who lets go leaves on the topic: one zero, if it was driving.
LetGo == IF published THEN Publish(Zero) ELSE Silent

\* release, by a client whose socket stays open or has closed.
Release(c, disconnected) ==
  /\ c \in connected
  /\ disconnected \/ Holder = c
  /\ connected' = IF disconnected THEN connected \ {c} ELSE connected
  /\ IF Holder = c
     THEN /\ IF disconnected
             THEN driver' = NoOne /\ idle' = DriverTimeout
             ELSE UNCHANGED <<driver, idle>>
          /\ command' = {} /\ since' = 0 /\ guard' = FALSE
          /\ LetGo
          /\ published' = FALSE
          /\ asked' = CommandTimeout + 1
     ELSE /\ Silent
          /\ UNCHANGED <<driver, idle, command, since, guard, published, asked>>
  /\ control' = IF disconnected THEN [control EXCEPT ![c] = DriverTimeout] ELSE control
  /\ UNCHANGED <<estop, mode, ranges, due, trust>>

\* Mutant: the command survives.
DropCommand_Kept ==
  /\ command' = {[t EXCEPT !.old = TRUE] : t \in command}
  /\ guard' = FALSE /\ published' = FALSE /\ UNCHANGED since

\* apply_estop when it engages: the driver's command must not resume on release.
DropCommand == command' = {} /\ since' = 0 /\ guard' = FALSE /\ published' = FALSE

\* set_estop from the page: a zero goes out before the lock does.
SetEstop(engaged) ==
  /\ connected # {}
  /\ estop' = engaged
  /\ IF engaged
     THEN Publish(Zero) /\ DropCommand
     ELSE Silent /\ UNCHANGED <<command, since, guard, published>>
  /\ UNCHANGED <<connected, driver, idle, mode, ranges, due, asked, control, trust>>

\* set_mode, called by the mode switch.
SetMode(m) ==
  /\ mode' = m
  /\ Silent
  /\ UNCHANGED <<connected, driver, idle, command, since, published, guard, estop, ranges,
                 due, asked, control, trust>>

-----------------------------------------------------------------------------
(* ROS thread. *)

\* on_estop with the message of another publisher: no zero is sent.
OnEstop(engaged) ==
  /\ engaged # estop
  /\ estop' = engaged
  /\ IF engaged
     THEN DropCommand /\ cut' = (cut \/ Moves(out))
     ELSE UNCHANGED <<command, since, guard, published, cut>>
  /\ sent' = FALSE
  /\ UNCHANGED <<connected, driver, idle, mode, ranges, due, out, asked, control, trust>>

\* on_range
OnRange(s, d) ==
  /\ ranges' = [ranges EXCEPT ![s] = [distance |-> d, age |-> 0]]
  /\ trust' = [trust EXCEPT ![s] =
                 IF d # NoData /\ d >= StopDistance THEN SensorTimeout ELSE Least(@, 1)]
  /\ Silent
  /\ UNCHANGED <<connected, driver, idle, command, since, published, guard, estop, mode, due,
                 asked, control>>

\* Mutant: the age of the command is not checked.
Live_Ever == command
\* The command, unless it is too old.
LiveCommand == IF since >= CommandTimeout THEN {} ELSE command

\* on_drive_timer: the driver's command through the guard, or one zero and then silence.
DriveTimer ==
  /\ due
  /\ due' = FALSE
  /\ command' = LiveCommand
  /\ \/ /\ LiveCommand = {}
        /\ since' = 0 /\ guard' = FALSE /\ published' = FALSE
        /\ IF published THEN Publish(Zero) ELSE Silent
     \/ \E t \in LiveCommand :
          /\ Publish([t EXCEPT !.linear = Guarded(t.linear)])
          /\ published' = TRUE
          /\ guard' = (Guarded(t.linear) # t.linear)
          /\ UNCHANGED since
  /\ UNCHANGED <<connected, driver, idle, estop, mode, ranges, asked, control, trust>>

\* A period of the drive timer passes.
Tick ==
  /\ ~due
  /\ due' = TRUE
  /\ idle' = Least(idle + 1, DriverTimeout)
  /\ since' = IF command = {} THEN 0 ELSE Least(since + 1, CommandTimeout)
  /\ ranges' = [s \in Side |-> [ranges[s] EXCEPT !.age = Least(@ + 1, SensorTimeout)]]
  /\ asked' = Least(asked + 1, CommandTimeout + 1)
  /\ control' = [c \in Client |-> Least(control[c] + 1, DriverTimeout)]
  /\ trust' = [s \in Side |-> IF trust[s] = 0 THEN 0 ELSE trust[s] - 1]
  /\ Silent
  /\ UNCHANGED <<connected, driver, command, published, guard, estop, mode>>

-----------------------------------------------------------------------------
Init ==
  /\ connected = {} /\ driver = NoOne /\ idle = DriverTimeout
  /\ command = {} /\ since = 0 /\ published = FALSE /\ guard = FALSE
  /\ estop \in BOOLEAN  \* start_estopped
  /\ mode = "drive"
  /\ ranges = [s \in Side |-> [distance |-> NoData, age |-> SensorTimeout]]
  /\ due = TRUE
  /\ out = Zero /\ sent = FALSE
  /\ cut = FALSE /\ asked = CommandTimeout + 1
  /\ control = [c \in Client |-> DriverTimeout]
  /\ trust = [s \in Side |-> 0]

WebThread ==
  \/ \E c \in Client :
       \/ Connect(c) \/ AimGizmo(c)
       \/ \E v \in Linear, w \in Angular : Drive(c, v, w)
       \/ \E disconnected \in BOOLEAN : Release(c, disconnected)
  \/ \E engaged \in BOOLEAN : SetEstop(engaged)
  \/ \E m \in {"drive", "follow"} : SetMode(m)
RosThread ==
  \/ DriveTimer
  \/ \E engaged \in BOOLEAN : OnEstop(engaged)
  \/ \E s \in Side, d \in Reading \cup {NoData} : OnRange(s, d)

Next == WebThread \/ RosThread \/ Tick

Spec == Init /\ [][Next]_vars

-----------------------------------------------------------------------------
TypeOK ==
  /\ connected \subseteq Client
  /\ driver \in Client \cup {NoOne} /\ idle \in 0..DriverTimeout
  /\ command \in {{}} \cup {{t} : t \in Twist} /\ since \in 0..CommandTimeout
  /\ published \in BOOLEAN /\ guard \in BOOLEAN /\ estop \in BOOLEAN
  /\ mode \in {"drive", "follow"}
  /\ ranges \in [Side -> [distance : Reading \cup {NoData}, age : 0..SensorTimeout]]
  /\ due \in BOOLEAN /\ out \in Twist /\ sent \in BOOLEAN /\ cut \in BOOLEAN
  /\ asked \in 0..(CommandTimeout + 1)
  /\ control \in [Client -> 0..DriverTimeout]
  /\ trust \in [Side -> 0..SensorTimeout]

\* One person drives at a time: no two connected clients have had a command accepted within
\* driver_timeout of each other (DriverLock, logic.py:32; docs/web.md:97).
OneDriver ==
  \A c, d \in connected : c # d => control[c] = DriverTimeout \/ control[d] = DriverTimeout

\* Dead-man: the twist in effect moves the robot only while a driver who has not let go
\* asked for motion within command_timeout; except that another publisher's E-stop leaves
\* the last twist standing behind the locked twist_mux (web_controller.py:101, 404).
DeadMan == Moves(out) => cut \/ asked <= CommandTimeout

\* What moves the robot was asked for by a client who is still connected, and not before an
\* E-stop (web_controller.py:346).
MovedByDriver == Moves(out) /\ ~cut => out.by \in connected
NoResume == ~out.old

\* While the E-stop is engaged nothing but zero is published.
EstopHolds == [][estop /\ sent' => ~Moves(out')]_vars

\* Forward motion needs eyes: it outlasts neither a silent sensor by more than
\* sensor_timeout, nor a faulty one or an obstacle by more than a period of the timer.
EyesOpen == RequireData /\ out.linear > 0 /\ ~cut => \A s \in Side : trust[s] > 0 \/ due

\* The room a speed needs (web_controller.py:114, docs/web.md:85).
Needed(v) == StopDistance + BrakingDistance(v)

\* Forward motion is only published with all the room the robot needs to stop.
RoomToStop ==
  [][sent' /\ out'.linear > 0 =>
       \A s \in Side : Fresh(s) # NoData => Fresh(s) >= Needed(out'.linear)]_vars

\* What the guard keeps of that for every speed, a shipped one or any other: all of it when it
\* is within GuardCap, GuardCap when it is more, and no side that has to be watched unwatched
\* (web_controller.py:298-304). A stop distance of 0.0 turns the guard off.
RoomWithinCap ==
  [][sent' /\ out'.linear > 0 /\ StopDistance > 0 =>
       \A s \in Side :
         IF Fresh(s) = NoData THEN ~RequireData
                              ELSE Fresh(s) >= Least(Needed(out'.linear), GuardCap)]_vars

\* The driver lock and the sensors: at most one client drives, and forward only on fresh readings.
DriveSafety == TypeOK /\ OneDriver /\ EyesOpen

\* What is published: nothing while the E-stop is engaged, and forward only with the room the
\* guard keeps.
SafeTwists == EstopHolds /\ RoomWithinCap
=============================================================================
