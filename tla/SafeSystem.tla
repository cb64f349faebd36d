------------------------------ MODULE SafeSystem ------------------------------
(***************************************************************************)
(* One hardware component of cubemars_hardware_safe (WheelSystem or        *)
(* GizmoSystem): the lifecycle callbacks, the read/write cycle, the status *)
(* watchdog, the stall guard, the blocking stop of all motors and the      *)
(* non-blocking release of a joint whose controller lets go.               *)
(*                                                                         *)
(* The callbacks of one component never overlap (the controller manager    *)
(* serialises them), but three of them block for many milliseconds         *)
(* (wait_for_status, zero_joints, stop_motors): they are split at their    *)
(* sleeps, and the motors, the bus and the controllers move in between.    *)
(*                                                                         *)
(* Time is a Tick of one control cycle.  External to src/: the motors, the *)
(* bus, the controller manager and the upstream plugin, which sends a      *)
(* frame for a joint only while a controller holds it.                     *)
(***************************************************************************)
EXTENDS Naturals, FiniteSets

CONSTANTS
  Joint,           \* the joints of the component
  Position,        \* joints with a position command interface
  ZeroOnActivate,  \* joints zeroed on activation
  Guarded,         \* joints with a stall_effort
  StatusTimeout,   \* status_timeout_ms, in ticks
  BrakeTime,       \* brake_time_ms, in ticks
  ActivationWait,  \* kActivationWait, in ticks
  StallTime,       \* stall_time_ms, in ticks
  OtherReads,      \* the other component's read: never, before or after this one's
  Lossy            \* cables, power and the interface may fail

ASSUME ConstantsAssumption ==
  /\ Position \subseteq Joint
  /\ ZeroOnActivate \subseteq Joint
  /\ Guarded \subseteq Joint
  /\ StatusTimeout \in Nat \ {0}
  /\ BrakeTime \in Nat \ {0}
  /\ ActivationWait \in Nat \ {0}
  /\ StallTime \in Nat \ {0}
  /\ OtherReads \in {"never", "before", "after"}
  /\ Lossy \in BOOLEAN

VARIABLES
  lifecycle,   \* the component's lifecycle state
  socket,      \* socket_ >= 0
  active,      \* active_
  stopped,     \* stopped_
  releasing,   \* joints with joint.releasing
  releaseIn,   \* ticks to joint.release_at
  posClaimed,  \* joints with joint.position_claimed
  fault,       \* joints with joint.fault # 0
  high,        \* joints whose last raw_current is above stall_effort
  over,        \* over_effort: 0, or 1 + the ticks since over_effort_since
  age,         \* ticks since joint.last_status, up to "too old"
  call,        \* the blocking call in progress
  left,        \* ticks it may still take
  after,       \* how the callback goes on when its stop is over
  pending,     \* joints zero_joints still waits for
  cycle,       \* what the control loop does next in this tick
  paused,      \* another component already blocked the loop in this tick
  claimed,     \* joints a controller holds
  cmd,         \* joint.command_*: NaN, or written since or before the last stop
  motor,       \* the last command each motor obeys
  link,        \* motors the bus reaches
  bus,         \* the CAN interface is up
  queued,      \* joints with undrained status frames on the socket
  queuedFault, \* those with a fault code in one of them
  queuedHigh,  \* those whose last one shows an effort above stall_effort
  silent,      \* ticks since each motor's last frame reached the socket
  unreached    \* joints whose last release frame was lost

guards == <<fault, high, over, age>>
release == <<releasing, releaseIn, posClaimed>>
flow == <<call, left, after, pending>>
loop == <<cycle, paused>>
queue == <<queued, queuedFault, queuedHigh>>
world == <<link, bus, silent>>
vars == <<lifecycle, socket, active, stopped, release, guards, flow, loop, claimed, cmd,
          motor, queue, world, unreached>>

Live == {"inactive", "active"}     \* the states in which read and write are called
Outcome == {"none", "deactivated", "cleaned", "finalized", "gone", "error", "failed"}
\* How long the socket can go undrained: this component's stop, and the other's.
Blind == BrakeTime + (IF OtherReads = "never" THEN 0 ELSE BrakeTime)
SilenceCap == StatusTimeout + Blind + 3
LongestCall == IF BrakeTime > ActivationWait THEN BrakeTime ELSE ActivationWait

Least(a, b) == IF a < b THEN a ELSE b
Idle == call = "idle"
Reach == IF bus THEN link ELSE {}

\* send: a frame to the joints S; the motors it reaches obey it.
Deliver(S, m) == [j \in Joint |-> IF j \in S \cap Reach THEN m ELSE motor[j]]

\* Mutant: zero speed is never followed by zero current.
Release_Nothing(S) == UNCHANGED <<motor, unreached>>

\* The release of the joints S: the ghost records the ones that did not get it.
Release(S) ==
  /\ motor' = Deliver(S, "off")
  /\ unreached' = (unreached \cup S) \ (S \cap Reach)

Heard == IF socket THEN queued ELSE {}

\* drain_status: every buffered frame is read; a fault anywhere in the batch counts.
Drain ==
  /\ fault' = (fault \ Heard) \cup (Heard \cap queuedFault)
  /\ high' = (high \ Heard) \cup (Heard \cap queuedHigh)
  /\ age' = [j \in Joint |-> IF j \in Heard THEN 0 ELSE age[j]]
  /\ queued' = queued \ Heard
  /\ queuedFault' = queuedFault \ Heard
  /\ queuedHigh' = queuedHigh \ Heard

\* Ghost: what the controllers wrote before this moment is left over from now on.
Leftover == [j \in Joint |-> IF cmd[j] = "fresh" THEN "stale" ELSE cmd[j]]

-----------------------------------------------------------------------------
(* Stopping the motors. *)

\* The lifecycle state a callback ends in; upstream may still report an error.
Ends(next) ==
  CASE next = "deactivated" -> {"inactive", "unconfigured"}
    [] next = "finalized" -> {"finalized", "unconfigured"}
    [] next = "gone" -> {"gone"}
    [] OTHER -> {"unconfigured"}

\* The rest of the callback once its stop is over.  After a read or write error the
\* controller manager takes the joints from their controllers without a mode switch.
Settle(next) ==
  /\ lifecycle' \in Ends(next)
  /\ socket' = (socket /\ next \notin {"cleaned", "finalized", "gone"})
  /\ claimed' = IF next \in {"error", "finalized", "gone"} THEN {} ELSE claimed
  /\ call' = "idle" /\ left' = 0 /\ after' = "none"

\* stop_motors: latches stopped_, drops every pending release, then zero speed.
StopMotors(next) ==
  /\ stopped' = TRUE
  /\ releasing' = {}
  /\ \/ /\ ~socket
        /\ Settle(next)
        /\ UNCHANGED motor
     \/ /\ socket
        /\ motor' = Deliver(Joint, "zero")
        /\ call' = "stop" /\ left' = BrakeTime /\ after' = next
        /\ UNCHANGED <<lifecycle, socket, claimed>>

\* Mutant: the callback goes on without the stop.
StopUnlessStopped_Never(next) == Settle(next) /\ UNCHANGED <<stopped, releasing, motor>>

\* "if (!stopped_) stop_motors(...)" of cleanup, shutdown, error and destruction.
StopUnlessStopped(next) ==
  \/ ~stopped /\ StopMotors(next)
  \/ stopped /\ Settle(next) /\ UNCHANGED <<stopped, releasing, motor>>

\* The end of stop_motors: zero current to every motor, then the rest of the callback.
EndStop ==
  /\ call = "stop" /\ left = 0
  /\ Release(Joint)
  /\ Settle(after)
  /\ UNCHANGED <<active, stopped, release, guards, pending, loop, cmd, queue, world>>

-----------------------------------------------------------------------------
(* Lifecycle callbacks. *)

\* on_configure: a fresh socket, or none when the interface is down or upstream fails.
Configure ==
  /\ Idle /\ lifecycle = "unconfigured"
  /\ \/ bus /\ socket' = TRUE /\ lifecycle' = "inactive"
     \/ socket' = FALSE /\ UNCHANGED lifecycle
  /\ queued' = {} /\ queuedFault' = {} /\ queuedHigh' = {}
  /\ cycle' = "read"
  /\ UNCHANGED <<active, stopped, release, guards, flow, paused, claimed, cmd, motor,
                 world, unreached>>

\* on_activate up to wait_for_status; upstream may refuse, which is an error.
Activate ==
  /\ Idle /\ lifecycle = "inactive"
  /\ \/ /\ call' = "wait" /\ left' = ActivationWait
        /\ UNCHANGED <<lifecycle, socket, stopped, releasing, after, claimed, motor>>
     \/ StopUnlessStopped("failed")
  /\ UNCHANGED <<active, releaseIn, posClaimed, guards, pending, loop, cmd, queue, world,
                 unreached>>

\* Mutant: the old commands are kept.
FreshCommands_Kept == cmd

\* What on_activate makes of the commands of before a deactivation or an error.
FreshCommands == [j \in Joint |-> "nan"]
\* stopped_ from the moment the motors may be commanded again.
StoppedOnActivate == FALSE

\* The rest of on_activate up to the set-origin commands; without a joint to zero the
\* activation is complete.
StartZeroing ==
  /\ cmd' = FreshCommands
  /\ over' = [j \in Joint |-> 0]
  /\ \/ /\ ZeroOnActivate = {}
        /\ stopped' = StoppedOnActivate /\ releasing' = {}
        /\ active' = TRUE /\ lifecycle' = "active"
        /\ call' = "idle" /\ left' = 0
        /\ UNCHANGED <<socket, after, pending, claimed, motor, unreached>>
     \/ /\ ZeroOnActivate # {} /\ bus
        /\ stopped' = StoppedOnActivate /\ releasing' = {}
        /\ Release(ZeroOnActivate)
        /\ call' = "zero" /\ left' = ActivationWait /\ pending' = ZeroOnActivate
        /\ UNCHANGED <<lifecycle, socket, active, after, claimed>>
     \/ /\ ZeroOnActivate # {} /\ ~bus
        /\ StopMotors("failed")
        /\ UNCHANGED <<active, pending, unreached>>

\* One poll of wait_for_status: every motor heard recently and without a fault goes on
\* to the zeroing; at the deadline, or with a fault, the activation is an error.
WaitPoll ==
  /\ call = "wait"
  /\ Drain
  /\ LET recent == \A j \in Joint : age'[j] <= StatusTimeout
     IN  \/ /\ ~recent /\ left > 0
            /\ UNCHANGED <<lifecycle, socket, active, stopped, releasing, over, flow,
                           claimed, cmd, motor, unreached>>
         \/ /\ recent /\ fault' = {}
            /\ StartZeroing
         \/ /\ (recent /\ fault' # {}) \/ (~recent /\ left = 0)
            /\ StopUnlessStopped("failed")
            /\ UNCHANGED <<active, over, pending, cmd, unreached>>
  /\ UNCHANGED <<releaseIn, posClaimed, loop, world>>

\* One poll of zero_joints: a joint is done when its last frame reads zero.
ZeroPoll ==
  /\ call = "zero"
  /\ Drain
  /\ \E atZero \in SUBSET (Heard \cap ZeroOnActivate) :
       pending' = (pending \cup (Heard \cap ZeroOnActivate)) \ atZero
  /\ \/ /\ pending' = {}
        /\ active' = TRUE /\ lifecycle' = "active"
        /\ call' = "idle" /\ left' = 0
        /\ UNCHANGED <<socket, stopped, releasing, after, claimed, motor>>
     \/ /\ pending' # {} /\ left > 0
        /\ UNCHANGED <<lifecycle, socket, active, stopped, releasing, call, left, after,
                       claimed, motor>>
     \/ /\ pending' # {} /\ left = 0
        /\ StopMotors("failed")
        /\ UNCHANGED active
  /\ UNCHANGED <<releaseIn, posClaimed, over, loop, cmd, world, unreached>>

\* on_deactivate: always a stop.
Deactivate ==
  /\ Idle /\ lifecycle = "active"
  /\ active' = FALSE
  /\ cmd' = Leftover
  /\ StopMotors("deactivated")
  /\ UNCHANGED <<releaseIn, posClaimed, guards, pending, loop, queue, world, unreached>>

\* on_cleanup, on_shutdown and the destructor: a stop unless already stopped, then
\* the socket is closed.
TearDown(from, next) ==
  /\ Idle /\ lifecycle \in from
  /\ active' = FALSE
  /\ cmd' = Leftover
  /\ StopUnlessStopped(next)
  /\ UNCHANGED <<releaseIn, posClaimed, guards, pending, loop, queue, world, unreached>>

Cleanup == TearDown({"inactive"}, "cleaned")
Shutdown == TearDown(Live \cup {"unconfigured"}, "finalized")
Destroy == TearDown(Live \cup {"unconfigured", "finalized"}, "gone")

-----------------------------------------------------------------------------
(* The control loop. *)

\* Mutant: nobody releases the joint.
LetGo_Forgotten(drop, take) == {}

\* The joints left without a controller, which write has to release.
LetGo(drop, take) == IF active THEN drop \ take ELSE {}
\* position_claimed after controllers let go of drop and take up take.
PositionClaims(drop, take) == (posClaimed \ drop) \cup (take \cap Position)

\* perform_command_mode_switch: controllers let go of drop and take up take.
ModeSwitch(drop, take) ==
  /\ Idle /\ lifecycle \in Live
  /\ drop \subseteq claimed
  /\ take \subseteq (Joint \ claimed) \cup drop
  /\ drop \cup take # {}
  /\ claimed' = (claimed \ drop) \cup take
  /\ cmd' = [j \in Joint |-> IF j \in drop THEN "nan" ELSE cmd[j]]
  /\ posClaimed' = PositionClaims(drop, take)
  /\ releasing' = (releasing \cup LetGo(drop, take)) \ take
  /\ releaseIn' =
       [j \in Joint |-> IF j \in LetGo(drop, take) THEN BrakeTime ELSE releaseIn[j]]
  /\ UNCHANGED <<lifecycle, socket, active, stopped, guards, flow, loop, motor, queue,
                 world, unreached>>

\* efforts_ok: over_effort and its start time of every guarded joint.
StallCount(j) ==
  IF j \notin high' \cap Guarded THEN 0 ELSE IF over[j] = 0 THEN 1 ELSE over[j]
Stalled(j) == j \in high' \cap Guarded /\ over[j] > StallTime

\* Mutants: no check for silence; no check for faults.
Healthy_NoWatchdog(recvError) ==
  IF ~socket THEN ~active ELSE active => ~recvError /\ fault' = {}
Healthy_NoFault(recvError) ==
  IF ~socket THEN ~active
  ELSE active => ~recvError /\ \A j \in Joint : age'[j] <= StatusTimeout

\* motors_healthy, with recvError when the socket reports an error while active.
Healthy(recvError) ==
  IF ~socket THEN ~active
  ELSE active => ~recvError /\ fault' = {} /\ \A j \in Joint : age'[j] <= StatusTimeout

\* read: drain, watchdog, stall guard; an error of upstream stops through on_error.
Read(recvError, upstreamError) ==
  /\ Idle /\ lifecycle \in Live /\ cycle = "read"
  /\ recvError => socket /\ ~bus
  /\ Drain
  /\ \/ /\ ~Healthy(recvError) \/ (active /\ \E j \in Joint : Stalled(j))
        /\ active' = FALSE /\ cmd' = Leftover
        /\ StopMotors("error")
        /\ UNCHANGED <<over, cycle>>
     \/ /\ Healthy(recvError) /\ ~(active /\ \E j \in Joint : Stalled(j))
        /\ over' = IF active THEN [j \in Joint |-> StallCount(j)] ELSE over
        /\ \/ /\ upstreamError
              /\ active' = FALSE /\ cmd' = Leftover
              /\ StopUnlessStopped("error")
              /\ UNCHANGED cycle
           \/ /\ ~upstreamError
              /\ cycle' = "write"
              /\ UNCHANGED <<lifecycle, socket, active, stopped, releasing, call, left,
                             after, claimed, cmd, motor>>
  /\ UNCHANGED <<releaseIn, posClaimed, pending, paused, world, unreached>>

\* The joints upstream sends a command frame for: held by a controller, and with a
\* command.  A position joint holds its target while its controller is silent.
Commanded == {j \in claimed : IF j \in Position THEN j \in posClaimed ELSE cmd[j] # "nan"}

\* Mutant: the release never comes.
Due_Never == {}

\* continue_release: the joints whose brake time is over.
Due == {j \in releasing : releaseIn[j] = 0}

\* Mutant: write does not check active_.
WritesFrames_Always == TRUE

\* write sends nothing at all unless active.
WritesFrames == active

\* write: the releases under way, then upstream's command frames; an error of upstream
\* stops through on_error.
Write(upstreamError) ==
  /\ Idle /\ lifecycle \in Live /\ cycle = "write"
  /\ \/ /\ WritesFrames
        /\ ~upstreamError
        /\ motor' = [j \in Joint |->
                       CASE j \notin Reach -> motor[j]
                         [] j \in Reach \cap Commanded ->
                              IF cmd[j] = "stale" THEN "stale" ELSE "drive"
                         [] j \in (Reach \cap Due) \ Commanded -> "off"
                         [] j \in (Reach \cap releasing) \ (Due \cup Commanded) -> "zero"
                         [] OTHER -> motor[j]]
        /\ releasing' = releasing \ Due
        /\ unreached' = (unreached \cup Due) \ (Due \cap Reach)
        /\ cycle' = "done"
        /\ UNCHANGED <<lifecycle, socket, active, stopped, call, left, after, claimed, cmd>>
     \/ /\ WritesFrames
        /\ upstreamError
        /\ active' = FALSE /\ cmd' = Leftover
        /\ StopUnlessStopped("error")
        /\ UNCHANGED <<cycle, unreached>>
     \/ /\ ~WritesFrames
        /\ cycle' = "done"
        /\ UNCHANGED <<lifecycle, socket, active, stopped, releasing, call, left, after,
                       claimed, cmd, motor, unreached>>
  /\ UNCHANGED <<releaseIn, posClaimed, guards, pending, paused, queue, world>>

-----------------------------------------------------------------------------
(* The environment. *)

\* A controller writes a command to a joint it holds.
Command(j) ==
  /\ j \in claimed
  /\ cmd[j] # "fresh"
  /\ cmd' = [cmd EXCEPT ![j] = "fresh"]
  /\ UNCHANGED <<lifecycle, socket, active, stopped, release, guards, flow, loop, claimed,
                 motor, queue, world, unreached>>

\* A status frame with or without a fault code, and with the effort it shows.
Status(j, faulty, effort) ==
  /\ j \in Reach
  /\ effort => j \in Guarded
  /\ silent' = [silent EXCEPT ![j] = 0]
  /\ IF socket
     THEN /\ queued' = queued \cup {j}
          /\ queuedFault' = IF faulty THEN queuedFault \cup {j} ELSE queuedFault
          /\ queuedHigh' = IF effort THEN queuedHigh \cup {j} ELSE queuedHigh \ {j}
     ELSE UNCHANGED queue
  /\ UNCHANGED <<lifecycle, socket, active, stopped, release, guards, flow, loop, claimed,
                 cmd, motor, link, bus, unreached>>

\* A cable breaks, or the motor loses power and with it its command.
LinkDown(j) ==
  /\ Lossy /\ j \in link
  /\ link' = link \ {j}
  /\ motor' \in {motor, [motor EXCEPT ![j] = "off"]}
  /\ UNCHANGED <<lifecycle, socket, active, stopped, release, guards, flow, loop, claimed,
                 cmd, bus, silent, queue, unreached>>

LinkUp(j) ==
  /\ Lossy /\ j \notin link
  /\ link' = link \cup {j}
  /\ UNCHANGED <<lifecycle, socket, active, stopped, release, guards, flow, loop, claimed,
                 cmd, motor, bus, silent, queue, unreached>>

BusToggle ==
  /\ Lossy
  /\ bus' = ~bus
  /\ UNCHANGED <<lifecycle, socket, active, stopped, release, guards, flow, loop, claimed,
                 cmd, motor, link, silent, queue, unreached>>

\* The other component's stop_motors blocks the loop both components share.
Pause ==
  /\ Idle /\ lifecycle \in Live /\ ~paused
  /\ \/ OtherReads = "before" /\ cycle = "read"
     \/ OtherReads = "after" /\ cycle = "write"
  /\ paused' = TRUE
  /\ call' = "pause" /\ left' = BrakeTime
  /\ UNCHANGED <<lifecycle, socket, active, stopped, release, guards, after, pending, cycle,
                 claimed, cmd, motor, queue, world, unreached>>

Resume ==
  /\ call = "pause" /\ left = 0
  /\ call' = "idle"
  /\ UNCHANGED <<lifecycle, socket, active, stopped, release, guards, left, after, pending,
                 loop, claimed, cmd, motor, queue, world, unreached>>

\* One cycle's time passes: in a blocking call (whose polls are faster than a cycle),
\* or once the loop has done its cycle.
Tick ==
  /\ IF Idle THEN lifecycle \in Live => cycle = "done" ELSE left > 0
  /\ call \in {"wait", "zero"} => Heard = {}
  /\ age' = [j \in Joint |-> Least(age[j] + 1, StatusTimeout + 1)]
  /\ silent' = [j \in Joint |-> Least(silent[j] + 1, SilenceCap)]
  /\ over' = [j \in Joint |-> IF over[j] = 0 THEN 0 ELSE Least(over[j] + 1, StallTime + 1)]
  /\ releaseIn' = [j \in Joint |-> IF releaseIn[j] = 0 THEN 0 ELSE releaseIn[j] - 1]
  /\ left' = IF left = 0 THEN 0 ELSE left - 1
  /\ motor' = IF call = "stop" /\ left > 1 THEN Deliver(Joint, "zero") ELSE motor
  /\ cycle' = IF Idle THEN "read" ELSE cycle
  /\ paused' = IF Idle THEN FALSE ELSE paused
  /\ UNCHANGED <<lifecycle, socket, active, stopped, releasing, posClaimed, fault, high,
                 call, after, pending, claimed, cmd, link, bus, queue, unreached>>

-----------------------------------------------------------------------------
Init ==
  /\ lifecycle = "unconfigured"
  /\ socket = FALSE /\ active = FALSE /\ stopped = TRUE
  /\ releasing = {} /\ posClaimed = {} /\ fault = {} /\ high = {} /\ pending = {}
  /\ releaseIn = [j \in Joint |-> 0]
  /\ over = [j \in Joint |-> 0]
  /\ age = [j \in Joint |-> StatusTimeout + 1]
  /\ call = "idle" /\ left = 0 /\ after = "none"
  /\ cycle = "read" /\ paused = FALSE
  /\ claimed = {} /\ cmd = [j \in Joint |-> "nan"]
  /\ motor = [j \in Joint |-> "off"]
  /\ link = Joint /\ bus = TRUE
  /\ queued = {} /\ queuedFault = {} /\ queuedHigh = {}
  /\ silent = [j \in Joint |-> 0]
  /\ unreached = {}

Callback == Configure \/ Activate \/ WaitPoll \/ ZeroPoll \/ EndStop \/ Resume
LoopStep ==
  \/ \E recvError, upstreamError \in BOOLEAN : Read(recvError, upstreamError)
  \/ \E upstreamError \in BOOLEAN : Write(upstreamError)
Manager ==
  \/ Deactivate \/ Cleanup \/ Shutdown \/ Destroy
  \/ \E drop, take \in SUBSET Joint : ModeSwitch(drop, take)
Environment ==
  \/ \E j \in Joint : \/ Command(j) \/ LinkDown(j) \/ LinkUp(j)
                      \/ \E faulty, effort \in BOOLEAN : Status(j, faulty, effort)
  \/ BusToggle \/ Pause

Next == Callback \/ LoopStep \/ Manager \/ Environment \/ Tick

Spec == Init /\ [][Next]_vars

\* The process runs: blocking calls return and the loop keeps its rate.
Fairness ==
  /\ WF_vars(Tick)
  /\ WF_vars(WaitPoll) /\ WF_vars(ZeroPoll) /\ WF_vars(EndStop) /\ WF_vars(Resume)
  /\ WF_vars(LoopStep)
FairSpec == Spec /\ Fairness

-----------------------------------------------------------------------------
TypeOK ==
  /\ lifecycle \in Live \cup {"unconfigured", "finalized", "gone"}
  /\ socket \in BOOLEAN /\ active \in BOOLEAN /\ stopped \in BOOLEAN
  /\ releasing \subseteq Joint
  /\ releaseIn \in [Joint -> 0..BrakeTime]
  /\ posClaimed \subseteq Position
  /\ fault \subseteq Joint /\ high \subseteq Joint
  /\ over \in [Joint -> 0..(StallTime + 1)]
  /\ age \in [Joint -> 0..(StatusTimeout + 1)]
  /\ call \in {"idle", "stop", "wait", "zero", "pause"}
  /\ left \in 0..LongestCall
  /\ after \in Outcome
  /\ pending \subseteq ZeroOnActivate
  /\ cycle \in {"read", "write", "done"} /\ paused \in BOOLEAN
  /\ claimed \subseteq Joint
  /\ cmd \in [Joint -> {"nan", "fresh", "stale"}]
  /\ motor \in [Joint -> {"off", "zero", "drive", "stale"}]
  /\ link \subseteq Joint /\ bus \in BOOLEAN
  /\ queued \subseteq Joint /\ queuedFault \subseteq Joint /\ queuedHigh \subseteq Joint
  /\ silent \in [Joint -> 0..SilenceCap]
  /\ unreached \subseteq Joint

\* A component that is not active drives no motor: except during the stop itself, every
\* motor is released unless its release frame was lost on the way (safe_system.hpp:11,17:
\* "zero speed followed by zero current to every motor on deactivate, cleanup, ...").
StoppedUnlessActive ==
  ~active /\ call # "stop" => \A j \in Joint : motor[j] = "off" \/ j \in unreached

\* While the component stays active, a joint that no controller holds is being released
\* or has been (safe_system.hpp:18-21).
UnclaimedIsReleased ==
  active => \A j \in Joint \ claimed :
              motor[j] = "off" \/ j \in releasing \/ j \in unreached

\* A stop is never skipped by "if (!stopped_)" or by a closed socket while motors are
\* driven: an active component has its socket and has not latched stopped_.
StopNotSkipped == active => socket /\ ~stopped

\* No motor obeys a command written before the last deactivation or error
\* (safe_system.cpp:481).
NoLeftoverCommand == \A j \in Joint : motor[j] # "stale"

\* The watchdog: a read that keeps the component active bounds the silence of every
\* motor by the timeout, one cycle, and the time the socket may have gone undrained,
\* because buffered frames count from when they are drained, not from when they arrived
\* (safe_system.hpp:13-16).
SilenceBound ==
  [][active /\ active' /\ cycle = "read" /\ cycle' = "write" =>
       \A j \in Joint : silent[j] <= StatusTimeout + 1 + Blind]_vars

\* A stop or a release always brakes first: a motor that is driven gets zero speed before
\* zero current (docs/hardware.md:439-441).
BrakeBeforeRelease ==
  [][\A j \in Joint : motor[j] = "drive" => motor'[j] # "off" \/ j \notin link']_vars

\* The promise of the component, as an abstract specification.
Promise == INSTANCE MotorPromise WITH
  Motor <- Joint,
  on <- active \/ call = "stop",
  driven <- {j \in Joint : motor[j] # "off"},
  lost <- unreached

\* SafeSystem implements MotorPromise: it drives motors only while it is on, and turning
\* off leaves running only motors that no frame could reach (safe_system.hpp:11,17).
KeepsPromise == Promise!Spec

\* After any stop nothing is driven again without a completed activation: the stop of an
\* error is latched.
StopIsLatched ==
  [][stopped /\ stopped' => \A j \in Joint : motor'[j] = "drive" => motor[j] = "drive"]_vars

\* A fault code that reaches the socket of an active component stops it.
FaultStops == \A j \in Joint : active /\ socket /\ j \in queuedFault ~> ~active

\* A joint that loses its controller is released, or taken up again, or the component
\* stops; or the frames are lost.
ReleaseEnds == \A j \in Joint : j \in releasing ~> j \notin releasing

-----------------------------------------------------------------------------
(* The strengthening that makes the invariants inductive.  An active component has its *)
(* socket and has not latched stopped_, so its stop is never skipped; and from the     *)
(* moment zero_joints starts no command is left over.                                  *)
Inductive ==
  /\ lifecycle \in Live \/ call \in {"wait", "zero", "stop"} => socket
  /\ active => lifecycle = "active" /\ call \in {"idle", "pause"}
  /\ call = "zero" => ~stopped
  /\ StopNotSkipped
  /\ StoppedUnlessActive
  /\ UnclaimedIsReleased
  /\ active \/ call = "zero" => \A j \in Joint : cmd[j] # "stale"
  /\ NoLeftoverCommand
=============================================================================
