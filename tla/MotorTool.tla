------------------------------- MODULE MotorTool -------------------------------
(***************************************************************************)
(* cubemars_tool on a CAN bus with motors: check, watch, identify, jog and *)
(* stop, and the launch's preflight.  A tick is one period of 20 ms, in    *)
(* which every motor that is not silent sends one status frame.            *)
(*                                                                         *)
(* The tool's user answers, interrupts and kills it; the link goes down    *)
(* and comes back; another program may start to command the motors; and a  *)
(* motor may turn against its command, turn too fast, be blocked, draw too *)
(* much current, report a fault or fall silent.                            *)
(***************************************************************************)
EXTENDS ServoMotor, Sequences, FiniteSets, SequencesExt

CONSTANTS
  Motor,        \* the CAN IDs with a motor, integers
  Wheels, Gizmo,\* WHEEL_JOINTS and GIZMO_JOINTS
  Nobody,       \* no joint
  Commands,     \* the subcommands to run, "bench" for frames sent by hand
  Files,        \* the contents motors.yaml may have: functions from joints to CAN IDs
  Kinds,        \* how a motor may turn: "good", "fast", "stuck", "runaway"
  Loads,        \* and the currents it may draw while it is driven
  Profile,      \* the speeds of one leg of identify's move, one per tick
  Repeat,       \* --repeat
  Velocities, Duration, MaxVelocity, MaxTravel,  \* jog
  Margin,       \* RUNAWAY_MARGIN
  MaxCurrent,   \* --max-current
  FullSpeed,    \* of a runaway motor
  BrakeTicks, ListenTicks, PauseTicks,
  Queue,        \* status frames the tool's socket holds
  BenchMotor, Frames,   \* what the bench sends, and to which motors while they are near 0
  Mishaps       \* how many things go wrong in each subcommand

Joint == Wheels \cup Gizmo

ASSUME ToolAssumption ==
  /\ Motor \subseteq Nat /\ IsFiniteSet(Motor) /\ Nobody \notin Joint
  /\ Mishaps \in [Commands -> Nat] /\ Margin \in Nat \ {0} /\ Queue \in Nat \ {0}
  /\ \A f \in Files : DOMAIN f \subseteq Joint
  /\ Loads \subseteq Int /\ Velocities \subseteq Int /\ FullSpeed \in Nat
  /\ Profile \in Seq(Int) /\ Repeat \in Nat \ {0} /\ PauseTicks \in Nat
  /\ Duration \in Nat /\ MaxTravel \in Nat /\ BrakeTicks \in Nat /\ ListenTicks \in Nat \ {0}
  /\ BenchMotor \subseteq Motor
  /\ \A c \in Frames : \/ c.mode = "origin"
                       \/ c.mode \in {"duty", "speed", "brake", "current", "position"}
                          /\ c.value \in Int
                       \/ c.mode = "position_speed" /\ c.value \in Int /\ c.speed \in Int

VARIABLES
  motor,     \* the motors
  kind,      \* how each turns, fixed
  up,        \* the link
  other,     \* another program that commands the motors: "off", "on", or "late" when the tool
             \* cannot have heard it while it listened
  rx,        \* the tool's socket: the status frames in it
  lost,      \* and whether it still has to report that its link went down (ENETDOWN)
  pc,        \* where the tool is
  cmd,       \* its subcommand
  velocity,  \* of a jog
  left,      \* ticks left of listening or braking
  heard,     \* Heard.status: none, "ok" or "fault" for each ID
  busy,      \* Heard.commanded is not empty
  ids,       \* the IDs still to be moved, the first one is on the move
  at,        \* the tick of the move
  sent,      \* the frame of this tick is sent
  todo,      \* the IDs of a brake or a release still to be sent to
  way,       \* how the tool goes on after a release: "next" or "exit"
  assigned,  \* identify: what the user answered, joint -> ID
  file,      \* motors.yaml
  temp,      \* the sibling it is written to: "none", "half" or "whole"
  verdict,   \* what the tool said
  budget,    \* mishaps left
  start,     \* ghost: where the motor on the move was before it
  cause,     \* ghost: why the move was stopped early
  cut,       \* ghost: an ending that could not, or was not let, send its frames
  astray     \* ghost: ticks each motor ran away while the tool could see it

bus == <<motor, kind, up, other, rx, lost>>
progress == <<cmd, velocity, left, heard, busy, ids, at, todo, way, assigned>>
paper == <<file, temp, verdict>>
ghosts == <<start, cause, cut, astray>>
vars == <<bus, pc, sent, progress, paper, budget, ghosts>>

Tool == {"check", "preflight", "watch", "identify", "jog", "stop"}
Moving == {"move", "brake", "release"}

-----------------------------------------------------------------------------
(* motors.yaml: motor_config *)

\* _parse_motor: of an entry only its ID is kept, which must be in range.
ParsedMotor(id) == id \in 1..254
\* parse: the wheels are there, every entry is right and no two joints share an ID.
Valid(f) ==
  Wheels \subseteq DOMAIN f /\ (\A j \in DOMAIN f : ParsedMotor(f[j])) /\ IsInjective(f)

\* MotorConfig.in_use: what the robot drives, and the tool checks.
Usable(f) == Valid(f) /\ Gizmo \subseteq DOMAIN f
\* load_motors(required=False): the IDs of a file that can be read.
Known == IF Valid(file) THEN {file[j] : j \in DOMAIN file} ELSE {}
JointOf(id) == IF id \in Known THEN CHOOSE j \in DOMAIN file : file[j] = id ELSE Nobody

\* The answers that differ from the file, and the file with them.
Changes == {j \in DOMAIN assigned : j \in DOMAIN file /\ assigned[j] # file[j]}
Rewritten == [j \in DOMAIN file |-> IF j \in Changes THEN assigned[j] ELSE file[j]]

-----------------------------------------------------------------------------
(* Moves *)

\* The sequences of a set, and the ascending one.
Listed(S) == {list \in [1..Cardinality(S) -> S] : ToSet(list) = S}
Sorted(S) == {list \in Listed(S) : \A i, j \in DOMAIN list : i < j => list[i] < list[j]}

Backwards(s) == [i \in DOMAIN s |-> -s[i]]
Pause == [i \in 1..PauseTicks |-> 0]
\* wiggle: out and back, with a pause in between.
OutAndBack == Profile \o Backwards(Profile)
Round == Pause \o OutAndBack
Wiggle == [i \in 1..Repeat * Len(Round) - PauseTicks |->
             Round[1 + ((i + PauseTicks - 1) % Len(Round))]]

\* Mutant: the travel limit of the gizmo is forgotten.
JogTicks_Wheels(id) == Duration
\* cmd_jog: the duration, cut for a joint with hard stops.
JogTicks(id) ==
  IF JointOf(id) \in Gizmo /\ Duration * Abs(velocity) > MaxTravel
  THEN -((-MaxTravel) \div Abs(velocity))
  ELSE Duration

\* The speeds a move sends, one per tick.
Speeds == IF cmd = "identify" THEN Wiggle ELSE [i \in 1..JogTicks(Head(ids)) |-> velocity]
\* The last one sent: frames are read before and after the next.
Commanded == Speeds[IF sent THEN at ELSE at - 1]
\* The motors the ending is for.
Targets == IF cmd = "stop" THEN ids ELSE <<Head(ids)>>

\* check_following
Larger(a, b) == IF a > b THEN a ELSE b
Follows(measured, commanded) == Abs(measured - commanded) <= Larger(Margin, Abs(commanded))

\* What the supervision relies on: a frame of each motor fits into the socket (SocketCAN holds
\* hundreds), a drive at full speed is further off than any speed the tool sends, as
\* RUNAWAY_MARGIN's comment says, the move ends with a brake (brake_time), and a move of identify
\* has at least a frame and stays where a status frame can report it, however the motor turns.
ASSUME SupervisionAssumption ==
  /\ Cardinality(Motor) <= Queue /\ MaxVelocity \in Nat /\ BrakeTicks > 0 /\ Profile # <<>>
  /\ \A v \in {0} \cup ToSet(Profile) \cup {w \in Velocities : Abs(w) <= MaxVelocity} :
       FullSpeed - Abs(v) > Larger(Margin, Abs(v))
  /\ \A v \in ToSet(Profile) :
       2 * Len(Profile) * (Abs(v) + Larger(Margin, Abs(v))) <= MaxPosition

\* wiggle's supervise, and jog's show: a fault and the current only count in a wiggle.
Stopped(frame) ==
  IF cmd = "identify" /\ frame.error THEN "fault"
  ELSE IF cmd = "identify" /\ Abs(frame.amps) > MaxCurrent THEN "current"
  ELSE IF ~Follows(frame.speed, Commanded) THEN "runaway"
  ELSE "none"

-----------------------------------------------------------------------------
(* The bus *)

\* A runaway drive turns the wrong way at full speed, whatever it is told.
Actual(m, s) ==
  IF s.mode # "speed" \/ s.error THEN Turning(s)
  ELSE IF kind[m] = "runaway" THEN -FullSpeed * Toward(IF s.target = 0 THEN -s.speed ELSE s.target)
  ELSE IF kind[m] = "fast" THEN s.target + Toward(s.target) * Larger(Margin, Abs(s.target))
  ELSE Turning(s)

\* A motor against no load draws none.
Status(m, s) ==
  [id |-> m, speed |-> s.speed, error |-> s.error,
   amps |-> IF kind[m] = "runaway" /\ s.speed = 0 THEN 0 ELSE Current(s)]

\* FakeCubeMars._tick for one motor; the other program's zero speed comes first.
Ticked(m) ==
  LET told == IF other # "off" /\ up THEN Command(motor[m], Speed(0)) ELSE motor[m]
      due == Expire(told)
  IN Quieter(Move(due, Actual(m, due)))

\* A socket whose queue is full drops what comes.
Received(frames) == SubSeq(frames, 1, IF Len(frames) < Queue THEN Len(frames) ELSE Queue)

Open == pc \in {"listen", "ask"} \cup Moving

\* The user's terminal waits for nobody; a move and listening wait for their frames, or for the
\* error of a lost link.
Due ==
  CASE pc = "listen" -> rx = <<>> /\ left > 0 /\ ~lost
    [] pc = "move"   -> rx = <<>> /\ sent /\ ~lost
    [] pc = "brake"  -> todo = <<>> /\ left > 0
    [] OTHER         -> pc # "release"

Tick ==
  /\ Due
  /\ motor' = [m \in Motor |-> Ticked(m)]
  /\ IF Open /\ up
     THEN \E talking \in Sorted({m \in Motor : ~motor[m].silent}) :
            rx' = Received(rx \o [i \in DOMAIN talking |->
                                     Status(talking[i], motor'[talking[i]])])
     ELSE UNCHANGED rx
  /\ busy' = (busy \/ (pc = "listen" /\ cmd \in {"identify", "jog"} /\ other = "on" /\ up))
  /\ left' = IF pc \in {"listen", "brake"} THEN left - 1 ELSE left
  /\ todo' = IF pc = "brake" THEN Targets ELSE todo
  /\ at' = IF pc = "move" THEN at + 1 ELSE at
  /\ sent' = FALSE
  /\ astray' = [m \in Motor |->
                  IF kind[m] = "runaway" /\ motor'[m].mode # "idle" /\ motor'[m].speed # 0
                       /\ ~motor[m].silent /\ pc \in Moving /\ up
                  THEN astray[m] + 1 ELSE 0]
  /\ UNCHANGED <<kind, up, other, lost, pc, cmd, velocity, heard, ids, way, assigned, paper,
                 budget, start, cause, cut>>

-----------------------------------------------------------------------------
(* The tool *)

Finish(v) == pc' = "done" /\ verdict' = v

\* The exits of main: the socket is closed.
Stop(v) ==
  /\ Finish(v) /\ rx' = <<>> /\ lost' = FALSE
  /\ UNCHANGED <<motor, kind, up, other, sent, progress, file, temp, start, cause, astray>>

\* check_interface, the configuration and the refusals that come before the bus is opened.
Refused ==
  \/ cmd \in {"check", "preflight"} /\ ~Usable(file)
  \/ cmd = "identify" /\ ~Valid(file)
  \/ cmd = "jog" /\ Abs(velocity) > MaxVelocity
  \/ ~up
Begin ==
  /\ pc = "begin"
  /\ \/ /\ Refused \/ (cmd = "jog" /\ ~Valid(file))    \* jog --joint, or jog --id
        /\ Stop("refused")
        /\ cut' = (cut \/ cmd = "stop")    \* without a link nothing reaches the motors
     \/ /\ ~Refused
        /\ pc' = "listen" /\ left' = ListenTicks /\ rx' = <<>> /\ lost' = FALSE
        /\ UNCHANGED <<motor, kind, up, other, sent, cmd, velocity, heard, busy, ids, at, todo,
                       way, assigned, paper, ghosts>>
  /\ UNCHANGED budget

\* listen: the latest status of every motor.  preflight stops when it has heard them all.
Reporting == {id \in Motor : heard[id] # "none"}
AllHeard == cmd = "preflight" /\ Known \subseteq Reporting
Hear ==
  /\ pc = "listen" /\ ~lost /\ rx # <<>> /\ ~AllHeard
  /\ heard' = [heard EXCEPT ![Head(rx).id] = IF Head(rx).error THEN "fault" ELSE "ok"]
  /\ rx' = Tail(rx)
  /\ UNCHANGED <<motor, kind, up, other, lost, pc, sent, cmd, velocity, left, busy, ids, at, todo,
                 way, assigned, paper, budget, ghosts>>

\* preflight, and cmd_check: the motors in use that are missing, and those with a fault.
Missing == Known \ Reporting
Faulty == {id \in Known \cap Motor : heard[id] = "fault"}
Verdict == IF Missing # {} THEN "missing" ELSE IF Faulty # {} THEN "fault" ELSE "ok"

\* Mutant: the socket that listens drops all but status frames (status_only).
Busy_Unseen == FALSE
\* refuse_if_busy
Busy == busy

\* stop_motors and wiggle begin: the next IDs, and a socket of their own.  A socket that is bound
\* to a link that is down reports it.
SetOut(next, list) ==
  /\ pc' = next /\ ids' = list /\ at' = 1 /\ rx' = <<>> /\ lost' = ~up /\ sent' = FALSE
  /\ left' = IF next = "brake" THEN BrakeTicks ELSE 0
  /\ todo' = IF next = "brake" THEN list ELSE <<>>
  /\ way' = IF cmd = "identify" THEN "next" ELSE "exit"
  /\ start' = IF next = "move" THEN motor[Head(list)].encoder ELSE start
  /\ heard' = IF cmd = "stop" THEN heard ELSE [id \in Motor |-> "none"]    \* no longer used

\* Mutant: stop trusts motors.yaml.
Chosen_Known ==
  IF cmd = "stop" THEN Listed(Known) ELSE IF cmd = "jog" THEN {ids} ELSE Sorted(Reporting)
\* The IDs a command moves or stops, those of the file in its order.
Chosen ==
  IF cmd = "stop"
  THEN UNION {{known \o more : more \in Sorted(Reporting \ Known)} : known \in Listed(Known)}
  ELSE IF cmd = "jog" THEN {ids} ELSE Sorted(Reporting)

Listened == pc = "listen" /\ (AllHeard \/ (rx = <<>> /\ left = 0))

\* The link went down while it listened, for however short a time: recv raises, and main ends
\* without another frame.
Deaf ==
  /\ pc = "listen" /\ lost /\ ~Listened
  /\ Stop("failed") /\ cut' = (cut \/ cmd = "stop") /\ UNCHANGED budget

\* cmd_watch prints what it heard, and listens again, on another socket.
Watch ==
  /\ cmd = "watch" /\ Listened
  /\ left' = ListenTicks /\ heard' = [id \in Motor |-> "none"] /\ rx' = <<>> /\ lost' = ~up
  /\ UNCHANGED <<motor, kind, up, other, pc, sent, cmd, velocity, busy, ids, at, todo, way,
                 assigned, paper, budget, ghosts>>

\* The other commands report, refuse or begin to send.
Decide ==
  /\ Listened
  /\ \/ cmd \in {"check", "preflight"} /\ Stop(Verdict) /\ UNCHANGED cut
     \/ /\ cmd \in {"identify", "jog"} /\ Busy /\ Stop("busy") /\ UNCHANGED cut
     \/ /\ cmd \in {"identify", "stop"} /\ ~(cmd = "identify" /\ Busy) /\ <<>> \in Chosen
        /\ Stop("none") /\ UNCHANGED cut
     \/ /\ cmd \in {"identify", "jog", "stop"} /\ ~(cmd # "stop" /\ Busy)
        /\ \E list \in Chosen \ {<<>>} : SetOut(IF cmd = "stop" THEN "brake" ELSE "move", list)
        /\ UNCHANGED <<motor, kind, up, other, cmd, velocity, busy, assigned, paper, cause, cut,
                       astray>>
  /\ UNCHANGED budget

\* end_move: brake and release, or release only a runaway motor.
EndMove(why, then) ==
  /\ pc' = IF why = "runaway" THEN "release" ELSE "brake"
  /\ left' = BrakeTicks /\ todo' = Targets /\ way' = then

\* Nothing of a frame that cannot be sent reaches a motor.
Sent(id, c) == motor' = [m \in Motor |-> IF m = id /\ up THEN Command(motor[m], c) ELSE motor[m]]

Unmoved == <<kind, up, other, cmd, velocity, heard, busy, assigned, paper, budget, start, astray>>

\* A socket takes a frame.
Sendable == up /\ ~lost

\* send_for: the frame of this period.
SendMove ==
  /\ pc = "move" /\ ~sent /\ at <= Len(Speeds) /\ Sendable
  /\ Sent(Head(ids), Speed(Speeds[at])) /\ sent' = TRUE
  /\ UNCHANGED <<rx, lost, pc, left, ids, at, todo, way, cause, cut, Unmoved>>

\* OSError in send_for: recv reports a link that went down, and send one that is down.  It ends
\* the move as Ctrl+C does, with the frames of end_move.
Torn ==
  /\ pc = "move" /\ at <= Len(Speeds) /\ (lost \/ (~sent /\ ~up))
  /\ EndMove("link", "exit") /\ cause' = "link" /\ lost' = FALSE
  /\ UNCHANGED <<motor, rx, sent, ids, at, cut, Unmoved>>

\* send_for: a status frame.
Supervise ==
  /\ pc = "move" /\ (sent \/ at > 1) /\ rx # <<>> /\ ~lost
  /\ rx' = Tail(rx)
  /\ LET frame == Head(rx)
         why == IF frame.id = Head(ids) THEN Stopped(frame) ELSE "none"
     IN \/ why = "none" /\ UNCHANGED <<pc, left, todo, way, cause>>
        \/ why # "none" /\ EndMove(why, way) /\ cause' = why
  /\ UNCHANGED <<motor, lost, sent, ids, at, cut, Unmoved>>

\* The move is over.
Arrive ==
  /\ pc = "move" /\ ~sent /\ at > Len(Speeds)
  /\ EndMove("none", way)
  /\ UNCHANGED <<motor, rx, lost, sent, ids, at, cause, cut, Unmoved>>

\* stop_motors: zero speed to one motor of this round.
Brake ==
  /\ pc = "brake" /\ todo # <<>> /\ Sendable
  /\ Sent(Head(todo), Speed(0)) /\ todo' = Tail(todo)
  /\ UNCHANGED <<rx, lost, pc, left, sent, ids, at, way, cause, cut, Unmoved>>

\* stop_motors, once it has braked.
Braked ==
  /\ pc = "brake" /\ todo = <<>> /\ left = 0
  /\ pc' = "release" /\ todo' = Targets
  /\ UNCHANGED <<motor, rx, lost, left, sent, ids, at, way, cause, cut, Unmoved>>

\* encode_release to one motor.  After the last one the user is asked, or the tool ends.
LetGo(id) == Sent(id, ZeroCurrent)
Free ==
  /\ pc = "release" /\ todo # <<>> /\ Sendable
  /\ LetGo(Head(todo)) /\ todo' = Tail(todo)
  /\ IF Len(todo) > 1 THEN UNCHANGED <<pc, rx>>
     ELSE IF way = "next" THEN pc' = "ask" /\ UNCHANGED rx
     ELSE pc' = "done" /\ rx' = <<>>
  /\ UNCHANGED <<lost, left, sent, ids, at, way, cause, cut, Unmoved>>

\* OSError while it brakes or releases: what is left is not sent.
Unsendable ==
  /\ pc \in {"brake", "release"} /\ todo # <<>> /\ ~Sendable
  /\ Stop("failed") /\ cut' = TRUE /\ UNCHANGED budget

-----------------------------------------------------------------------------
(* identify's answers, and the file *)

\* Two motors cannot drive one joint.
Unowned(joint, id) == joint \in DOMAIN assigned => assigned[joint] = id

\* assigned with the answer in it, and no other for the same motor.
Assigned(joint, id) ==
  [j \in {k \in DOMAIN assigned : assigned[k] # id} \cup {joint} |->
     IF j = joint THEN id ELSE assigned[j]]

\* The next motor, or the result.
GoOn ==
  IF Len(ids) > 1
  THEN /\ pc' = "move" /\ ids' = Tail(ids) /\ start' = motor[ids[2]].encoder
  ELSE /\ pc' = "write" /\ UNCHANGED <<ids, start>>

Answer ==
  /\ pc = "ask"
  /\ \/ \E joint \in DOMAIN file :
          /\ Unowned(joint, Head(ids))
          /\ assigned' = Assigned(joint, Head(ids))
          /\ GoOn /\ UNCHANGED budget
     \/ GoOn /\ UNCHANGED <<assigned, budget>>                              \* skip
     \/ pc' = "write" /\ UNCHANGED <<ids, start, assigned, budget>>         \* quit
     \/ /\ budget > 0 /\ budget' = budget - 1                              \* repeat
        /\ pc' = "move" /\ start' = motor[Head(ids)].encoder
        /\ UNCHANGED <<ids, assigned>>
  /\ at' = 1 /\ sent' = FALSE /\ cause' = "none" /\ astray' = [m \in Motor |-> 0]
  /\ UNCHANGED <<bus, cmd, velocity, left, heard, busy, todo, way, paper, cut>>

\* write_can_ids: the new text is validated, written beside the file and renamed over it.
Acceptable == Valid(Rewritten)
Paper(f, t) == file' = f /\ temp' = t
\* Mutant: the file itself is opened for writing.
Stage_InPlace == Paper([j \in {} |-> 0], temp) /\ pc' = "rename" /\ UNCHANGED verdict
Stage == Paper(file, "whole") /\ pc' = "rename" /\ UNCHANGED verdict
Write ==
  /\ \/ pc = "write" /\ Changes = {} /\ Finish("matches") /\ UNCHANGED <<file, temp>>
     \/ pc = "write" /\ Changes # {} /\ Finish("not written") /\ UNCHANGED <<file, temp>>
     \/ pc = "write" /\ Changes # {} /\ Acceptable /\ Stage
     \/ pc = "rename" /\ Finish("written") /\ Paper(Rewritten, "none")
     \/ pc = "rename" /\ Finish("failed") /\ Paper(file, "none")
  /\ UNCHANGED <<bus, sent, progress, budget, ghosts>>

-----------------------------------------------------------------------------
(* What goes wrong *)

Mishap == budget > 0 /\ budget' = budget - 1

\* Ctrl+C.  During a move it ends the move; during the ending it ends that.
Interrupt ==
  /\ cmd \in Tool /\ pc # "done" /\ Mishap
  /\ \/ /\ pc = "move"
        /\ EndMove("interrupt", "exit") /\ cause' = "interrupt"
        /\ UNCHANGED <<bus, sent, cmd, velocity, heard, busy, ids, at, assigned, paper, start,
                       cut, astray>>
     \/ /\ pc # "move"
        /\ pc' = "done" /\ verdict' = "interrupted" /\ rx' = <<>> /\ lost' = FALSE /\ temp' = "none"
        /\ cut' = (cut \/ pc \in {"brake", "release"} \/ cmd = "stop")
        /\ UNCHANGED <<motor, kind, up, other, sent, progress, file, start, cause, astray>>

\* SIGKILL, or the power of the computer.
Kill ==
  /\ cmd \in Tool /\ pc # "done" /\ Mishap
  /\ Stop("killed") /\ cut' = (cut \/ pc \in Moving \/ cmd = "stop")

\* The link goes down, which an open socket has to report, or comes up again.  (A transmit queue
\* that is full ends a send the same way.)
Link ==
  /\ up => Mishap
  /\ ~up => UNCHANGED budget
  /\ up' = ~up /\ lost' = (lost \/ (up /\ Open))
  /\ other' = IF other = "on" /\ pc \in {"begin", "listen"} THEN "late" ELSE other
  /\ UNCHANGED <<motor, kind, rx, pc, sent, progress, paper, ghosts>>

\* A fault comes or is cleared, a motor falls silent, is power-cycled, or is turned by hand.
Injected(m) ==
  {Fault(m, ~m.error), [m EXCEPT !.silent = ~@], PowerCycle(m)}
    \cup (IF m.mode = "idle" THEN {Move(m, Margin + 1)} ELSE {})
\* Nobody looks at the other motors in a jog.
Exposed ==
  IF cmd = "bench" THEN BenchMotor ELSE IF cmd = "jog" THEN {Head(ids)} ELSE Motor
Inject ==
  /\ Mishap
  /\ \E m \in Exposed : \E s \in Injected(motor[m]) : motor' = [motor EXCEPT ![m] = s]
  /\ UNCHANGED <<kind, up, other, rx, lost, pc, sent, progress, paper, ghosts>>

\* Another program starts to command the motors, and sends in every period.
OtherStarts ==
  /\ other = "off" /\ cmd \in {"identify", "jog"} /\ Mishap
  /\ other' = IF up /\ (pc = "begin" \/ (pc = "listen" /\ left > 0)) THEN "on" ELSE "late"
  /\ UNCHANGED <<motor, kind, up, rx, lost, pc, sent, progress, paper, ghosts>>

\* encode_command: the bench and the tests send any command.
Bench ==
  /\ pc = "bench" /\ up
  /\ \E m \in BenchMotor, c \in Frames :
       /\ Abs(motor[m].encoder) <= 1
       /\ motor' = [motor EXCEPT ![m] = Command(@, c)]
  /\ UNCHANGED <<kind, up, other, rx, lost, pc, sent, progress, paper, budget, ghosts>>

-----------------------------------------------------------------------------
Init ==
  /\ cmd \in Commands
  /\ velocity \in IF cmd = "jog" THEN Velocities ELSE {0}
  /\ ids \in IF cmd = "jog" THEN {<<m>> : m \in Motor} ELSE {<<>>}
  /\ \E k \in IF cmd \in {"identify", "jog"} THEN Kinds ELSE {"good"} :
     \E load \in IF cmd = "identify" /\ k \in {"stuck", "runaway"} THEN Loads ELSE {0} :
     \E ignores \in {b \in BOOLEAN : b => cmd = "bench"} :
       /\ kind = [m \in Motor |-> k]
       /\ motor = [m \in Motor |->
            [PowerUp EXCEPT !.load = load, !.stuck = (k = "stuck"), !.ignore_origin = ignores,
                            !.mode = IF cmd = "stop" THEN "speed" ELSE @,    \* what a robot left on
                            !.target = IF cmd = "stop" THEN Margin ELSE 0]]
  /\ up = TRUE /\ other = "off" /\ rx = <<>> /\ lost = FALSE
  /\ pc = IF cmd = "bench" THEN "bench" ELSE "begin"
  /\ left = 0 /\ heard = [m \in Motor |-> "none"] /\ busy = FALSE
  /\ at = 1 /\ sent = FALSE /\ todo = <<>> /\ way = "next" /\ assigned = [j \in {} |-> 0]
  /\ file \in Files /\ temp = "none" /\ verdict = "none" /\ budget = Mishaps[cmd]
  /\ start = 0 /\ cause = "none" /\ cut = FALSE /\ astray = [m \in Motor |-> 0]

\* What the tool's process does without its user, and with him.
Program == Begin \/ Hear \/ Deaf \/ Watch \/ Decide \/ SendMove \/ Torn \/ Supervise \/ Arrive
           \/ Brake \/ Braked \/ Free \/ Unsendable \/ Write
ToolStep == Program \/ Answer
Next == ToolStep \/ Tick \/ Interrupt \/ Kill \/ Link \/ Inject \/ OtherStarts \/ Bench

Spec == Init /\ [][Next]_vars
\* Time passes, or the tool's process runs: neither can go on for ever without the other.  Nobody
\* has to answer identify: input() waits for as long as its user does.
FairSpec == Spec /\ WF_vars(Tick \/ Program)

-----------------------------------------------------------------------------
Idle(m) == motor[m].mode = "idle"

TypeOK ==
  /\ \A m \in Motor : /\ DOMAIN motor[m] = DOMAIN PowerUp
                       /\ motor[m].mode \in {"idle", "speed", "current", "brake", "position"}
                       /\ Abs(motor[m].encoder) <= MaxPosition /\ motor[m].quiet \in 0..Timeout + 1
  /\ kind \in [Motor -> Kinds \cup {"good"}] /\ up \in BOOLEAN /\ other \in {"off", "on", "late"}
  /\ Len(rx) <= Queue /\ lost \in BOOLEAN /\ \A i \in DOMAIN rx : rx[i].id \in Motor
  /\ pc \in {"begin", "listen", "ask", "write", "rename", "done", "bench"} \cup Moving
  /\ cmd \in Commands /\ velocity \in Velocities \cup {0} /\ left \in Nat /\ at \in Nat \ {0}
  /\ heard \in [Motor -> {"none", "ok", "fault"}] /\ {busy, sent, cut} \subseteq BOOLEAN
  /\ ids \in Seq(Nat) /\ todo \in Seq(Nat) /\ way \in {"next", "exit"}
  /\ DOMAIN assigned \subseteq Joint /\ DOMAIN file \subseteq Joint /\ temp \in {"none", "whole"}
  /\ budget \in 0..Mishaps[cmd] /\ astray \in [Motor -> Nat]
  /\ cause \in {"none", "fault", "current", "runaway", "link", "interrupt"}

\* identify and jog drive one motor at a time: the one before is released first, however its
\* move ended (wiggle and cmd_jog end in end_move on every way out).
OneAtATime ==
  cmd \in {"identify", "jog"} /\ other = "off" => Cardinality({m \in Motor : ~Idle(m)}) <= 1

\* Whatever ended the tool, a motor it drove and every motor stop was to stop is released,
\* unless the ending itself was cut short: by a link that is or was down, by Ctrl+C while it
\* brakes or by a kill.
EndsReleased ==
  pc = "done" /\ ~cut /\ other = "off" =>
    \A m \in IF cmd = "stop" THEN (Known \cap Motor) \cup Reporting ELSE Motor : Idle(m)

\* A motor that reports and turns against its command is let go before it turned for a second
\* tick.  Only a move that ended for another reason at that moment brakes it first, and so drives
\* it on for as long as the brake lasts (check_following, end_move).
RunawayCaught ==
  other = "off" => \A m \in Motor : astray[m] <= IF cause = "runaway" THEN 1 ELSE 1 + BrakeTicks

\* How far a jog takes a joint with hard stops: the travel limit, and what the supervision
\* lets pass.  A motor may turn faster than it is told by RUNAWAY_MARGIN, or by the command
\* itself, for as long as the move lasts, which is up to a tick longer than the limit takes; and
\* a runaway motor for a tick and the brake.
Slack(m) ==
  IF kind[m] = "runaway" THEN FullSpeed * (1 + BrakeTicks)
  ELSE Abs(velocity) + Larger(Margin, Abs(velocity)) * (MaxTravel \div Larger(1, Abs(velocity)) + 1)
TravelBound ==
  cmd = "jog" /\ pc \in Moving /\ JointOf(Head(ids)) \in Gizmo /\ ~motor[Head(ids)].silent
    /\ budget = Mishaps[cmd] =>
      Abs(motor[Head(ids)].encoder - start) <= MaxTravel + Slack(Head(ids))

\* A move of identify that nothing stopped ends where it started, for every motor that follows
\* its commands, whatever their scale.
WiggleReturns ==
  pc = "ask" /\ cause = "none" /\ budget = Mishaps[cmd] =>
    (motor[Head(ids)].encoder = start \/ kind[Head(ids)] = "runaway")

\* identify and jog never fight a program that already sent commands while they listened.
NoFight == other = "on" => pc \notin Moving

\* motors.yaml is replaced as a whole, by a file that is valid, in which only the joints the
\* user identified changed, to what the user answered last.
WrittenAsAnswered ==
  [][file' # file =>
       /\ Valid(file') /\ DOMAIN file' = DOMAIN file
       /\ \A j \in DOMAIN file : file'[j] = IF j \in DOMAIN assigned THEN assigned[j] ELSE file[j]]_vars

\* Every command but watch comes to its end or, identify, to a question that may be answered late
\* or never; and there, at the latest after the motors' own timeout, every motor is and stays
\* released, however the tool got there.
ComesToRest ==
  cmd \notin {"watch", "bench"} =>
    <>[](pc \in {"done", "ask"} /\ (other # "off" \/ \A m \in Motor : Idle(m)))

\* identify and jog drive one motor at a time, and none beside another program.
ToolSafety == TypeOK /\ OneAtATime /\ NoFight

\* What the supervision of a move promises: a runaway is let go, a gizmo joint keeps within its
\* travel, and a move of identify ends where it began.
SupervisedMoves == RunawayCaught /\ TravelBound /\ WiggleReturns
=============================================================================
