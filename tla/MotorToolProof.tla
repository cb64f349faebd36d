--------------------------- MODULE MotorToolProof ---------------------------
(***************************************************************************)
(* Proofs about MotorTool, for any motors, files and speeds: the tool      *)
(* drives one motor at a time, none beside a program that already commands *)
(* them, leaves none driven however it ends, and writes only answers.  A   *)
(* motor that runs away is caught, a jog stays within its travel, and a    *)
(* move of identify ends where it began.                                   *)
(***************************************************************************)
EXTENDS MotorTool, SequenceTheorems, FiniteSetTheorems, WellFoundedInduction, TLAPS

Modes == {"idle", "speed", "current", "brake", "position"}
Reach == -MaxPosition..MaxPosition
ServoRecord ==
  [encoder : Reach, origin : Int, permanent : Reach, speed : Int, error : BOOLEAN,
   mode : Modes, amps : Int, target : Int, move : Int, silent : BOOLEAN,
   ignore_origin : BOOLEAN, stuck : BOOLEAN, load : Int, quiet : 0..Timeout + 1]

\* A drive with a fault does not drive.
Servo == {s \in ServoRecord : s.error => s.mode = "idle"}
StatusFrame == [id : Motor, speed : Int, error : BOOLEAN, amps : Int]

MotorTypes == motor \in [Motor -> Servo]
BusTypes ==
  /\ kind \in [Motor -> Kinds \cup {"good"}] /\ up \in BOOLEAN /\ other \in {"off", "on", "late"}
  /\ rx \in Seq(StatusFrame) /\ Len(rx) <= Queue /\ lost \in BOOLEAN
StepTypes ==
  /\ pc \in {"begin", "listen", "ask", "write", "rename", "done", "bench"} \cup Moving
  /\ cmd \in Commands /\ velocity \in Velocities \cup {0} /\ left \in Nat /\ at \in Nat \ {0}
  /\ heard \in [Motor -> {"none", "ok", "fault"}]
  /\ busy \in BOOLEAN /\ sent \in BOOLEAN /\ cut \in BOOLEAN
  /\ ids \in Seq(Nat) /\ todo \in Seq(Nat) /\ way \in {"next", "exit"}
PaperTypes ==
  /\ DOMAIN assigned \subseteq Joint /\ DOMAIN file \subseteq Joint /\ temp \in {"none", "whole"}
  /\ budget \in 0..Mishaps[cmd] /\ astray \in [Motor -> Nat]
  /\ cause \in {"none", "fault", "current", "runaway", "link", "interrupt"}
ToolTypes == MotorTypes /\ BusTypes /\ StepTypes /\ PaperTypes

\* Which subcommand can be where, and what it works on there.
Places ==
  /\ pc = "bench" <=> cmd = "bench"
  /\ pc \in {"move", "ask", "write", "rename"} => cmd \in {"identify", "jog"}
  /\ pc \in {"brake", "release"} => cmd \in {"identify", "jog", "stop"}
  /\ pc \in Moving \cup {"ask"} => ids # <<>>
  /\ cmd # "stop" => ids \in Seq(Motor)
  /\ cmd = "stop" /\ pc \in {"brake", "release"} => way = "exit"
  /\ pc # "done" => ~cut

\* The ending is for the motor that was on the move, and is not over before its release.
EndsTheMove ==
  /\ pc = "release" => todo # <<>>
  /\ cmd # "stop" /\ pc \in {"brake", "release"} => todo \in {<<>>, <<Head(ids)>>}

\* Only the motor on the move is driven, and only during its move.
DrivesOne ==
  other = "off" /\ cmd \notin {"stop", "bench"} =>
    \A m \in Motor : Idle(m) \/ (cmd \in {"identify", "jog"} /\ ids # <<>> /\ m = Head(ids))
RestsBetween ==
  other = "off" /\ cmd \notin {"stop", "bench"} /\ pc \notin Moving /\ ~cut =>
    \A m \in Motor : Idle(m)

\* stop brakes every motor it knows or heard, and each one is released or still to be.
StopsAll ==
  cmd = "stop" /\ pc \in {"brake", "release"} =>
    /\ (Known \cap Motor) \cup Reporting \subseteq ToSet(ids)
    /\ pc = "release" => \A m \in Motor \cap ToSet(ids) : m \in ToSet(todo) \/ Idle(m)

\* A program that commands the motors was heard, or will be.
OtherIsHeard ==
  /\ other # "off" => cmd \in {"identify", "jog"}
  /\ other = "on" =>
       /\ pc \in {"begin", "listen", "done"}
       /\ pc # "done" => up
       /\ pc = "listen" => left > 0 \/ busy

\* What is beside motors.yaml may replace it.
StagedIsValid == pc = "rename" => Valid(Rewritten)

ToolInductive ==
  ToolTypes /\ Places /\ EndsTheMove /\ DrivesOne /\ RestsBetween /\ StopsAll /\ EndsReleased
    /\ OtherIsHeard /\ StagedIsValid

-----------------------------------------------------------------------------
(* Helpers of ServoMotor *)

USE MotorAssumption

LEMMA LimitedInReach == ASSUME NEW x \in Int PROVE Limited(x) \in Reach
  BY DEF Limited, Reach, Abs, Toward

LEMMA TowardType == ASSUME NEW x \in Int PROVE Toward(x) \in {-1, 0, 1} /\ Abs(x) \in Nat
  BY DEF Toward, Abs

LEMMA ServoConstants ==
  /\ Modes = {"idle", "speed", "current", "brake", "position"}
  /\ "idle" \in Modes /\ "speed" \in Modes /\ "current" \in Modes /\ "brake" \in Modes
  /\ "position" \in Modes
  /\ 0 \in Reach /\ 0 \in Int /\ PositionSpeed \in Int /\ Reach \subseteq Int /\ 0 \in 0..Timeout + 1
  BY DEF Modes, Reach

\* Releasing, a power cycle and a fault leave a motor idle; clearing a fault changes no mode.
LEMMA ReleaseServo == ASSUME NEW s \in Servo PROVE Release(s) \in Servo /\ Release(s).mode = "idle"
  <1>1. s \in ServoRecord  BY DEF Servo
  <1>2. Release(s) \in ServoRecord
    BY ONLY <1>1, ServoConstants DEF ServoRecord, Release
  <1>3. Release(s).mode = "idle"  BY <1>1 DEF ServoRecord, Release
  <1> QED  BY <1>2, <1>3 DEF Servo

LEMMA PowerCycleServo ==
  ASSUME NEW s \in Servo PROVE PowerCycle(s) \in Servo /\ PowerCycle(s).mode = "idle"
  <1> DEFINE r == Release(s)
  <1>1. r \in ServoRecord /\ r.mode = "idle" /\ s.permanent \in Reach /\ s.permanent \in Int
    BY ReleaseServo DEF Servo, ServoRecord, Reach
  <1>2. PowerCycle(s) = [r EXCEPT !.speed = 0, !.error = FALSE, !.origin = s.permanent,
                                  !.encoder = s.permanent]
    BY DEF PowerCycle, Release, Servo, ServoRecord
  <1> HIDE DEF r
  <1>3. PowerCycle(s) \in ServoRecord
    BY ONLY <1>1, <1>2, ServoConstants DEF ServoRecord
  <1>4. PowerCycle(s).mode = "idle"  BY <1>1, <1>2 DEF ServoRecord
  <1> QED  BY <1>3, <1>4 DEF Servo

LEMMA FaultServo ==
  ASSUME NEW s \in Servo, NEW code \in BOOLEAN
  PROVE  Fault(s, code) \in Servo /\ Fault(s, code).mode \in {s.mode, "idle"}
  BY ReleaseServo DEF Servo, ServoRecord, Fault, Release, Modes

\* A command frame with an integer keeps a motor a motor.
Frame(c) ==
  \/ c.mode = "origin"
  \/ c.mode \in {"duty", "speed", "brake", "current", "position"} /\ c.value \in Int
  \/ c.mode = "position_speed" /\ c.value \in Int /\ c.speed \in Int

LEMMA CommandServo ==
  ASSUME NEW s \in Servo, NEW c, Frame(c)
  PROVE  Command(s, c) \in Servo
  <1> DEFINE h == [s EXCEPT !.quiet = 0]
  <1>1. h \in Servo /\ h.error = s.error  BY DEF Servo, ServoRecord
  <1>2. CASE c.mode = "origin"
    <2>1. Command(s, c) = h \/ Command(s, c) = SetOrigin(h, c.value)  BY <1>2 DEF Command
    <2> HIDE DEF h
    <2>2. h \in ServoRecord /\ h.encoder \in Reach /\ h.encoder \in Int /\ 0 \in Reach
      BY <1>1 DEF Servo, ServoRecord, Reach
    <2>3. SetOrigin(h, c.value) \in ServoRecord  BY ONLY <2>2, 0 \in Int DEF ServoRecord, SetOrigin
    <2>4. SetOrigin(h, c.value).mode = h.mode /\ SetOrigin(h, c.value).error = h.error
      BY <2>2 DEF ServoRecord, SetOrigin
    <2> QED  BY <1>1, <2>1, <2>3, <2>4 DEF Servo
  <1>3. CASE c.mode # "origin" /\ s.error
    BY <1>1, <1>3 DEF Command
  <1>4. CASE c.mode # "origin" /\ ~s.error
    <2>1. Command(s, c) = Driven(h, c)  BY <1>4 DEF Command
    <2> HIDE DEF h
    <2>2. c.value * FullDuty \in Int  BY <1>4 DEF Frame
    <2>3. h \in ServoRecord /\ h.error = FALSE  BY <1>1, <1>4 DEF Servo, ServoRecord
    <2>4. /\ c.mode \in {"duty", "speed", "brake", "current", "position", "position_speed"}
          /\ c.value \in Int
      BY <1>4 DEF Frame
    <2>5. Driven(h, c) \in ServoRecord
      <3>1. CASE c.mode = "duty"
        BY <2>2, <2>3, <3>1 DEF ServoRecord, Driven, Modes
      <3>2. CASE c.mode = "speed"
        BY <2>3, <2>4, <3>2 DEF ServoRecord, Driven, Modes
      <3>3. CASE c.mode = "brake"
        BY <2>3, <2>4, <3>3 DEF ServoRecord, Driven, Modes
      <3>4. CASE c.mode = "current"
        BY <2>3, <2>4, <3>4 DEF ServoRecord, Driven, Modes
      <3>5. CASE c.mode \in {"position", "position_speed"}
        <4>1. MoveSpeed(c) \in Int
          BY <1>4, <3>5, ServoConstants DEF Frame, MoveSpeed, Abs
        <4> QED  BY ONLY <2>3, <2>4, <3>5, <4>1, ServoConstants DEF ServoRecord, Driven
      <3> QED  BY <2>4, <3>1, <3>2, <3>3, <3>4, <3>5
    <2>6. Driven(h, c).error = FALSE  BY <2>3, <2>4 DEF ServoRecord, Driven
    <2> QED  BY <2>1, <2>5, <2>6 DEF Servo
  <1> QED  BY <1>2, <1>3, <1>4

\* Zero current releases a motor; one with a fault is released already.
LEMMA ZeroCurrentReleases ==
  ASSUME NEW s \in Servo PROVE Command(s, ZeroCurrent).mode = "idle"
  BY DEF Servo, ServoRecord, Command, Driven, ZeroCurrent

LEMMA MoveServo ==
  ASSUME NEW s \in Servo, NEW v \in Int PROVE Move(s, v) \in Servo /\ Move(s, v).mode = s.mode
  <1>1. s.target + s.origin \in Int /\ s.encoder + v \in Int  BY DEF Servo, ServoRecord, Reach
  <1>2. Limited(s.target + s.origin) \in Reach /\ Limited(s.encoder + v) \in Reach
    BY <1>1, LimitedInReach
  <1> QED  BY <1>2 DEF Servo, ServoRecord, Move

LEMMA ExpireServo ==
  ASSUME NEW s \in Servo
  PROVE  Expire(s) \in Servo /\ Expire(s).mode \in {s.mode, "idle"}
  BY ReleaseServo DEF Expire

LEMMA QuieterServo ==
  ASSUME NEW s \in Servo PROVE Quieter(s) \in Servo /\ Quieter(s).mode = s.mode
  BY DEF Servo, ServoRecord, Quieter

LEMMA TurningType == ASSUME NEW s \in Servo PROVE Turning(s) \in Int
  <1>1. s.target \in Int /\ s.speed \in Int /\ s.move \in Int /\ s.encoder \in Int /\ s.origin \in Int
    BY DEF Servo, ServoRecord, Reach
  <1>2. Position(s) \in Int  BY <1>1 DEF Position
  <1>3. Toward(s.target - Position(s)) \in Int /\ Toward(s.speed) \in Int /\ Abs(s.speed) \div 2 \in Int
    BY <1>1, <1>2, TowardType
  <1>4. /\ Toward(s.target - Position(s)) * s.move \in Int
        /\ Toward(s.speed) * (Abs(s.speed) \div 2) \in Int
    BY <1>1, <1>3
  <1> QED  BY <1>1, <1>4 DEF Turning

LEMMA CurrentType == ASSUME NEW s \in Servo PROVE Current(s) \in Int
  BY DEF Servo, ServoRecord, Current

-----------------------------------------------------------------------------
(* Helpers of MotorTool *)

LEMMA ToolConstants ==
  /\ Motor \subseteq Nat /\ IsFiniteSet(Motor)
  /\ Margin \in Nat \ {0} /\ Queue \in Nat \ {0} /\ FullSpeed \in Nat
  /\ Profile \in Seq(Int) /\ Repeat \in Nat \ {0} /\ PauseTicks \in Nat /\ BrakeTicks \in Nat
  /\ ListenTicks \in Nat \ {0} /\ Velocities \subseteq Int
  /\ Duration \in Nat /\ MaxTravel \in Nat /\ Mishaps \in [Commands -> Nat]
  BY ToolAssumption

LEMMA ActualType ==
  ASSUME MotorTypes, NEW m \in Motor, NEW s \in Servo PROVE Actual(m, s) \in Int
  <1>1. s.target \in Int /\ s.speed \in Int  BY DEF Servo, ServoRecord
  <1>2. \A x \in Int : Toward(x) \in Int /\ Abs(x) \in Int  BY TowardType
  <1>3. Turning(s) \in Int  BY TurningType
  <1>4. Margin \in Int /\ Larger(Margin, Abs(s.target)) \in Int
    <2>1. Margin \in Int  BY ToolConstants
    <2>2. Abs(s.target) \in Int  BY ONLY <1>1, <1>2
    <2> QED  BY ONLY <2>1, <2>2 DEF Larger
  <1>5. s.target + Toward(s.target) * Larger(Margin, Abs(s.target)) \in Int
    <2>1. \A x, y, z \in Int : x + y * z \in Int  OBVIOUS
    <2> QED  BY ONLY <1>1, <1>2, <1>4, <2>1
  <1>6. /\ -FullSpeed * Toward(-s.speed) \in Int
        /\ -FullSpeed * Toward(s.target) \in Int
    <2>1. FullSpeed \in Int /\ -s.speed \in Int  BY <1>1, ToolConstants
    <2>2. \A x, y \in Int : -x * y \in Int  OBVIOUS
    <2> QED  BY ONLY <1>1, <1>2, <2>1, <2>2
  <1> QED  BY ONLY <1>3, <1>5, <1>6 DEF Actual

LEMMA StatusType ==
  ASSUME NEW m \in Motor, NEW s \in Servo PROVE Status(m, s) \in StatusFrame
  <1>1. s.speed \in Int /\ s.error \in BOOLEAN  BY DEF Servo, ServoRecord
  <1>2. Current(s) \in Int  BY CurrentType
  <1> QED  BY ONLY <1>1, <1>2, m \in Motor DEF Status, StatusFrame

\* A tick keeps a motor a motor, and starts none unless another program commands it.
LEMMA TickedServo ==
  ASSUME MotorTypes, NEW m \in Motor
  PROVE  Ticked(m) \in Servo /\ (other = "off" /\ Idle(m) => Ticked(m).mode = "idle")
  <1> DEFINE told == IF other # "off" /\ up THEN Command(motor[m], Speed(0)) ELSE motor[m]
             due == Expire(told)
  <1>1. motor[m] \in Servo  BY DEF MotorTypes
  <1>2. Command(motor[m], Speed(0)) \in Servo
    BY <1>1, CommandServo, Speed(0).mode = "speed", Speed(0).value = 0 DEF Speed, Frame
  <1>3. told \in Servo  BY <1>1, <1>2
  <1>4. other = "off" /\ Idle(m) => told.mode = "idle"  BY DEF Idle
  <1>5. Ticked(m) = Quieter(Move(due, Actual(m, due)))  BY DEF Ticked
  <1> HIDE DEF told
  <1>6. due \in Servo /\ (told.mode = "idle" => due.mode = "idle")  BY <1>3, ExpireServo
  <1> HIDE DEF due
  <1>7. Move(due, Actual(m, due)) \in Servo /\ Move(due, Actual(m, due)).mode = due.mode
    BY <1>6, ActualType, MoveServo
  <1>8. /\ Quieter(Move(due, Actual(m, due))) \in Servo
        /\ Quieter(Move(due, Actual(m, due))).mode = due.mode
    BY <1>7, QuieterServo
  <1> QED  BY <1>4, <1>5, <1>6, <1>8

\* A sequence of a finite set names its elements, and no others.
LEMMA ListedType ==
  ASSUME NEW S, IsFiniteSet(S), NEW list \in Listed(S)
  PROVE  list \in Seq(S) /\ ToSet(list) = S /\ DOMAIN list = 1..Len(list)
  <1>1. Cardinality(S) \in Nat  BY FS_CardinalityType
  <1>2. list \in [1..Cardinality(S) -> S] /\ ToSet(list) = S  BY DEF Listed
  <1>3. list \in Seq(S)  BY <1>1, <1>2
  <1> QED  BY <1>2, <1>3

LEMMA KnownFinite ==
  /\ Known \subseteq Nat /\ IsFiniteSet(Known)
  /\ Reporting \subseteq Motor /\ IsFiniteSet(Reporting) /\ IsFiniteSet(Reporting \ Known)
  <1>1. Known \subseteq 1..254
    <2>1. CASE Valid(file)
      <3>1. \A j \in DOMAIN file : file[j] \in 1..254  BY <2>1 DEF Valid, ParsedMotor
      <3> QED  BY ONLY <2>1, <3>1 DEF Known
    <2>2. CASE ~Valid(file)  BY ONLY <2>2 DEF Known
    <2> QED  BY <2>1, <2>2
  <1>2. IsFiniteSet(1..254)
    <2>1. 1 \in Int /\ 254 \in Int  OBVIOUS
    <2> QED  BY ONLY <2>1, FS_Interval, Zenon
  <1>3. Reporting \subseteq Motor  BY DEF Reporting
  <1>4. IsFiniteSet(Reporting)  BY <1>3, FS_Subset, ToolConstants
  <1>5. Reporting \ Known \subseteq Reporting  OBVIOUS
  <1>6. IsFiniteSet(Reporting \ Known)  BY <1>4, <1>5, FS_Subset
  <1>7. IsFiniteSet(Known)
    <2>1. Known \in SUBSET (1..254)  BY <1>1
    <2> QED  BY ONLY <2>1, <1>2, FS_Subset, Zenon
  <1>8. Known \subseteq Nat  BY <1>1
  <1> QED  BY <1>3, <1>4, <1>6, <1>7, <1>8

\* What is chosen: IDs, with a motor unless a stop sends to all it knows; and stop leaves none out.
LEMMA ChosenType ==
  ASSUME NEW list \in Chosen, ids \in Seq(Nat), cmd # "stop" => ids \in Seq(Motor)
  PROVE  /\ list \in Seq(Nat)
         /\ cmd # "stop" => list \in Seq(Motor)
         /\ cmd = "stop" => ToSet(list) = Known \cup Reporting
  <1>1. CASE cmd = "stop"
    <2>1. PICK known \in Listed(Known), more \in Sorted(Reporting \ Known) : list = known \o more
      <3>1. list \in UNION {{a \o b : b \in Sorted(Reporting \ Known)} : a \in Listed(Known)}
        BY ONLY <1>1, list \in Chosen DEF Chosen
      <3>2. PICK a \in Listed(Known) : list \in {a \o b : b \in Sorted(Reporting \ Known)}
        BY ONLY <3>1
      <3> QED  BY ONLY <3>2
    <2>2. more \in Listed(Reporting \ Known)  BY DEF Sorted
    <2>3. known \in Seq(Known) /\ ToSet(known) = Known  BY KnownFinite, ListedType
    <2>4. more \in Seq(Reporting \ Known) /\ ToSet(more) = Reporting \ Known
      BY <2>2, KnownFinite, ListedType
    <2>5. known \in Seq(Nat) /\ more \in Seq(Nat)
      <3>1. Known \subseteq Nat /\ Reporting \ Known \subseteq Nat  BY KnownFinite, ToolConstants
      <3>2. \A S, T : S \subseteq T => Seq(S) \subseteq Seq(T)  BY SeqMonotonic
      <3> QED  BY ONLY <2>3, <2>4, <3>1, <3>2
    <2>6. list \in Seq(Nat)  BY <2>1, <2>5, ConcatProperties
    <2>7. Range(list) = Range(known) \cup Range(more)  BY <2>1, <2>5, RangeConcatenation
    <2>8. ToSet(list) = ToSet(known) \cup ToSet(more)
      BY <2>5, <2>6, <2>7 DEF ToSet, Range
    <2> QED  BY <1>1, <2>3, <2>4, <2>6, <2>8
  <1>2. CASE cmd = "jog"  BY <1>2 DEF Chosen
  <1>3. CASE cmd \notin {"stop", "jog"}
    <2>1. list \in Listed(Reporting)  BY <1>3 DEF Chosen, Sorted
    <2>2. list \in Seq(Reporting)  BY <2>1, KnownFinite, ListedType
    <2>3. Reporting \subseteq Motor /\ Motor \subseteq Nat  BY KnownFinite, ToolConstants
    <2>4. \A S, T : S \subseteq T => Seq(S) \subseteq Seq(T)  BY SeqMonotonic
    <2>5. list \in Seq(Motor) /\ list \in Seq(Nat)  BY ONLY <2>2, <2>3, <2>4
    <2> QED  BY ONLY <1>3, <2>5
  <1> QED  BY <1>1, <1>2, <1>3

\* A move commands whole speeds.
LEMMA OutAndBackType == OutAndBack \in Seq(Int) /\ Pause \in Seq(Int) /\ Len(Pause) = PauseTicks
  <1>1. Backwards(Profile) \in Seq(Int)
    <2>1. Profile \in Seq(Int)  BY ToolConstants
    <2> QED  BY <2>1 DEF Backwards
  <1>2. Pause \in Seq(Int) /\ Len(Pause) = PauseTicks  BY ToolConstants DEF Pause
  <1> QED  BY <1>1, <1>2, ToolConstants, ConcatProperties DEF OutAndBack

LEMMA SpeedsType ==
  ASSUME velocity \in Int, NEW i \in 1..Len(Speeds) PROVE Speeds[i] \in Int
  <1>1. CASE cmd = "identify"
    <2>1. Round \in Seq(Int) /\ Len(Round) \in Nat /\ Len(Round) >= PauseTicks
      BY OutAndBackType, ConcatProperties, ToolConstants DEF Round
    <2> DEFINE r == Len(Round)
               n == Repeat * r - PauseTicks
    <2> HIDE DEF r
    <2>2. Repeat \in Nat /\ Repeat >= 1 /\ r \in Nat /\ r >= PauseTicks /\ PauseTicks \in Nat
      BY <2>1, ToolConstants DEF r
    <2>3. n \in Nat
      <3>1. Repeat * r = r + (Repeat - 1) * r /\ (Repeat - 1) * r >= 0 /\ (Repeat - 1) * r \in Int
        BY <2>2
      <3> QED  BY <2>2, <3>1
    <2>4. Speeds = [k \in 1..n |-> Round[1 + ((k + PauseTicks - 1) % r)]]
      BY <1>1 DEF Speeds, Wiggle, r
    <2> HIDE DEF n
    <2>5. Len(Speeds) = n  BY <2>3, <2>4
    <2>6. r # 0  BY <2>2, <2>5, i \in 1..n DEF n
    <2>7. (i + PauseTicks - 1) % r \in 0..r - 1  BY <2>2, <2>3, <2>5, <2>6
    <2>8. Round[1 + ((i + PauseTicks - 1) % r)] \in Int  BY <2>1, <2>2, <2>7 DEF r
    <2> QED  BY <2>4, <2>5, <2>8
  <1>2. CASE cmd # "identify"
    <2> DEFINE id == Head(ids)
               n == JogTicks(id)
    <2>1. MaxTravel \in Nat /\ Duration \in Nat  BY ToolConstants
    <2>2. n \in Nat
      <3>1. CASE JointOf(id) \in Gizmo /\ Duration * Abs(velocity) > MaxTravel
        <4> DEFINE v == Abs(velocity)
        <4>1. v \in Nat  BY TowardType
        <4>2. n = -((-MaxTravel) \div v)  BY ONLY <3>1 DEF JogTicks
        <4> HIDE DEF v, n
        <4>3. v # 0  BY ONLY <2>1, <3>1 DEF v
        <4>4. (-MaxTravel) \div v \in Int /\ (-MaxTravel) \div v <= 0  BY ONLY <2>1, <4>1, <4>3
        <4> QED  BY ONLY <4>2, <4>4
      <3>2. CASE ~(JointOf(id) \in Gizmo /\ Duration * Abs(velocity) > MaxTravel)
        BY ONLY <2>1, <3>2 DEF JogTicks
      <3> QED  BY <3>1, <3>2
    <2> HIDE DEF n
    <2>3. Speeds = [k \in 1..n |-> velocity]  BY ONLY <1>2 DEF Speeds, n
    <2> QED  BY ONLY <2>2, <2>3, velocity \in Int, i \in 1..Len(Speeds)
  <1> QED  BY <1>1, <1>2

-----------------------------------------------------------------------------
(* What the steps change *)

\* A frame that is sent reaches one motor at most.
LEMMA SentTypes ==
  ASSUME MotorTypes, NEW id, NEW c, Frame(c), Sent(id, c)
  PROVE  /\ MotorTypes'
         /\ \A m \in Motor : m # id => motor'[m] = motor[m]
         /\ up /\ id \in Motor => motor'[id] = Command(motor[id], c)
  <1>1. \A m \in Motor : motor[m] \in Servo  BY DEF MotorTypes
  <1>2. \A m \in Motor : Command(motor[m], c) \in Servo  BY <1>1, CommandServo
  <1>3. motor' = [m \in Motor |-> IF m = id /\ up THEN Command(motor[m], c) ELSE motor[m]]
    BY DEF Sent
  <1>4. motor' \in [Motor -> Servo]  BY ONLY <1>1, <1>2, <1>3
  <1> QED  BY ONLY <1>3, <1>4 DEF MotorTypes

LEMMA FramesSent ==
  /\ \A v \in Int : Frame(Speed(v))
  /\ Frame(ZeroCurrent)
  /\ \A c \in Frames : Frame(c)
  <1>1. \A v \in Int : Frame(Speed(v))  BY DEF Frame, Speed
  <1>2. Frame(ZeroCurrent)  BY DEF Frame, ZeroCurrent
  <1>3. \A c \in Frames : Frame(c)  BY ToolAssumption DEF Frame
  <1> QED  BY <1>1, <1>2, <1>3

\* What is injected drives no motor that was idle.
LEMMA InjectedServo ==
  ASSUME NEW s \in Servo, NEW t \in Injected(s)
  PROVE  t \in Servo /\ t.mode \in {s.mode, "idle"}
  <1>1. s \in ServoRecord /\ s.error \in BOOLEAN /\ Margin + 1 \in Int
    BY ToolConstants DEF Servo, ServoRecord
  <1>2. Fault(s, ~s.error) \in Servo /\ Fault(s, ~s.error).mode \in {s.mode, "idle"}
    BY <1>1, FaultServo
  <1>3. [s EXCEPT !.silent = ~@] \in Servo /\ [s EXCEPT !.silent = ~@].mode = s.mode
    <2> DEFINE q == [s EXCEPT !.silent = ~s.silent]
    <2>1. q \in ServoRecord  BY ONLY <1>1 DEF ServoRecord
    <2>2. q.mode = s.mode /\ q.error = s.error  BY ONLY <1>1 DEF ServoRecord
    <2>3. s.error => s.mode = "idle"  BY DEF Servo
    <2>4. q \in Servo  BY ONLY <2>1, <2>2, <2>3 DEF Servo
    <2> QED  BY ONLY <2>2, <2>4
  <1>4. PowerCycle(s) \in Servo /\ PowerCycle(s).mode = "idle"  BY PowerCycleServo
  <1>5. Move(s, Margin + 1) \in Servo /\ Move(s, Margin + 1).mode = s.mode  BY <1>1, MoveServo
  <1>6. \/ t = Fault(s, ~s.error) \/ t = [s EXCEPT !.silent = ~@] \/ t = PowerCycle(s)
        \/ t = Move(s, Margin + 1)
    BY DEF Injected
  <1> QED  BY ONLY <1>2, <1>3, <1>4, <1>5, <1>6

\* Only a tick, a frame and what is injected change a motor.
LEMMA MotorKept ==
  ASSUME Begin \/ Hear \/ Deaf \/ Watch \/ Decide \/ Torn \/ Supervise \/ Arrive \/ Braked \/ Unsendable \/ Answer
           \/ Write \/ Interrupt \/ Kill \/ Link \/ OtherStarts \/ UNCHANGED vars
  PROVE  motor' = motor
  BY DEF Begin, Hear, Deaf, Watch, Decide, Torn, Supervise, Arrive, Braked, Unsendable, Answer,
     Write, Interrupt, Kill, Link, OtherStarts, vars, bus, Stop, EndMove, Unmoved, SetOut

LEMMA CommandKept ==
  ASSUME [Next]_vars
  PROVE  cmd' = cmd /\ velocity' = velocity /\ kind' = kind
  <1>1. CASE ToolStep
    BY <1>1 DEF ToolStep, Program, Begin, Hear, Deaf, Watch, Decide, SendMove, Sendable, Torn,
       Supervise, Arrive, Brake, Braked, Free, Unsendable, Answer, Write, bus, progress, Stop,
       EndMove, Unmoved, SetOut
  <1>2. CASE Tick \/ Interrupt \/ Kill \/ Link \/ Inject \/ OtherStarts \/ Bench \/ UNCHANGED vars
    BY <1>2 DEF Tick, Interrupt, Kill, Link, Inject, OtherStarts, Bench, vars, bus, progress, Stop,
       EndMove
  <1> QED  BY <1>1, <1>2 DEF Next

\* The other program does not go, and an ending that was cut stays cut.
LEMMA OtherStays ==
  ASSUME [Next]_vars
  PROVE  (other' = "off" => other = "off") /\ (other \in {"off", "on"} /\ ~OtherStarts /\ ~Link => other' = other)
  <1>1. CASE ToolStep
    BY <1>1 DEF ToolStep, Program, Begin, Hear, Deaf, Watch, Decide, SendMove, Sendable, Torn,
       Supervise, Arrive, Brake, Braked, Free, Unsendable, Answer, Write, bus, Stop, EndMove,
       Unmoved, SetOut
  <1>2. CASE Tick \/ Interrupt \/ Kill \/ Inject \/ Bench \/ UNCHANGED vars
    BY <1>2 DEF Tick, Interrupt, Kill, Inject, Bench, vars, bus, Stop, EndMove
  <1>3. CASE Link \/ OtherStarts
    BY <1>3 DEF Link, OtherStarts
  <1> QED  BY <1>1, <1>2, <1>3 DEF Next

LEMMA CutStays == ASSUME [Next]_vars, ~cut' PROVE ~cut
  <1>1. CASE ToolStep
    BY <1>1 DEF ToolStep, Program, Begin, Hear, Deaf, Watch, Decide, SendMove, Sendable, Torn,
       Supervise, Arrive, Brake, Braked, Free, Unsendable, Answer, Write, ghosts, Stop, EndMove,
       Unmoved, SetOut
  <1>2. CASE Tick \/ Interrupt \/ Kill \/ Link \/ Inject \/ OtherStarts \/ Bench \/ UNCHANGED vars
    BY <1>2 DEF Tick, Interrupt, Kill, Link, Inject, OtherStarts, Bench, vars, ghosts, Stop, EndMove
  <1> QED  BY <1>1, <1>2 DEF Next

-----------------------------------------------------------------------------
(* The motors *)

LEMMA MotorTypesKept ==
  ASSUME ToolInductive, [Next]_vars PROVE MotorTypes'
  <1> USE FramesSent
  <1>0. MotorTypes  BY DEF ToolInductive, ToolTypes
  <1>1. CASE Tick
    <2>1. motor' = [m \in Motor |-> Ticked(m)]  BY <1>1 DEF Tick
    <2>2. \A m \in Motor : Ticked(m) \in Servo  BY <1>0, TickedServo
    <2> QED  BY ONLY <2>1, <2>2 DEF MotorTypes
  <1>2. CASE SendMove
    <2>1. velocity \in Int /\ at \in 1..Len(Speeds)
      BY <1>2, ToolConstants DEF SendMove, Sendable, Torn, ToolInductive, ToolTypes, StepTypes
    <2>2. Speeds[at] \in Int  BY <2>1, SpeedsType
    <2>3. Sent(Head(ids), Speed(Speeds[at]))  BY <1>2 DEF SendMove, Sendable, Torn
    <2> QED  BY <1>0, <2>2, <2>3, SentTypes
  <1>3. CASE Brake
    <2>1. Sent(Head(todo), Speed(0))  BY <1>3 DEF Brake
    <2> QED  BY <1>0, <2>1, SentTypes
  <1>4. CASE Free
    <2>1. Sent(Head(todo), ZeroCurrent)  BY <1>4 DEF Free, LetGo
    <2> QED  BY <1>0, <2>1, SentTypes
  <1>5. CASE Inject
    <2>1. PICK m \in Exposed : \E s \in Injected(motor[m]) : motor' = [motor EXCEPT ![m] = s]
      BY <1>5 DEF Inject
    <2>2. PICK s \in Injected(motor[m]) : motor' = [motor EXCEPT ![m] = s]  BY <2>1
    <2>3. CASE m \in Motor
      <3>1. motor[m] \in Servo  BY <1>0, <2>3 DEF MotorTypes
      <3>2. s \in Servo  BY <3>1, InjectedServo
      <3> QED  BY ONLY <1>0, <2>2, <2>3, <3>2 DEF MotorTypes
    <2>4. CASE m \notin Motor
      BY ONLY <1>0, <2>2, <2>4 DEF MotorTypes
    <2> QED  BY <2>3, <2>4
  <1>6. CASE Bench
    <2>1. PICK m \in BenchMotor, c \in Frames : motor' = [motor EXCEPT ![m] = Command(@, c)]
      BY <1>6 DEF Bench
    <2>2. m \in Motor  BY ToolAssumption
    <2>3. Command(motor[m], c) \in Servo  BY <1>0, <2>2, CommandServo DEF MotorTypes, Frame
    <2>4. motor' = [motor EXCEPT ![m] = Command(motor[m], c)]  BY <2>1
    <2> QED  BY ONLY <1>0, <2>2, <2>3, <2>4 DEF MotorTypes
  <1>7. CASE motor' = motor  BY <1>0, <1>7 DEF MotorTypes
  <1> QED  BY <1>1, <1>2, <1>3, <1>4, <1>5, <1>6, <1>7, MotorKept DEF Next, ToolStep, Program

\* Without another program, what starts to drive a motor is the bench, a move or a brake.
LEMMA WhoDrives ==
  ASSUME ToolInductive, [Next]_vars, other = "off", NEW m \in Motor, Idle(m), ~Idle(m)'
  PROVE  \/ cmd = "bench"
         \/ pc = "move" /\ m = Head(ids)
         \/ pc = "brake" /\ todo # <<>> /\ m = Head(todo)
  <1> USE FramesSent
  <1>0. MotorTypes /\ motor[m] \in Servo  BY DEF ToolInductive, ToolTypes, MotorTypes
  <1>1. CASE Tick
    <2>1. motor'[m] = Ticked(m)  BY <1>1 DEF Tick
    <2> QED  BY <1>0, <2>1, TickedServo DEF Idle
  <1>2. CASE SendMove
    <2>1. velocity \in Int /\ at \in 1..Len(Speeds)
      BY <1>2, ToolConstants DEF SendMove, Sendable, Torn, ToolInductive, ToolTypes, StepTypes
    <2>2. Speeds[at] \in Int  BY <2>1, SpeedsType
    <2>3. Sent(Head(ids), Speed(Speeds[at])) /\ pc = "move"  BY <1>2 DEF SendMove, Sendable, Torn
    <2> QED  BY <1>0, <2>2, <2>3, SentTypes DEF Idle
  <1>3. CASE Brake
    <2>1. Sent(Head(todo), Speed(0)) /\ pc = "brake" /\ todo # <<>>  BY <1>3 DEF Brake
    <2> QED  BY <1>0, <2>1, SentTypes DEF Idle
  <1>4. CASE Free
    <2>1. Sent(Head(todo), ZeroCurrent) /\ up  BY <1>4 DEF Free, LetGo, Sendable
    <2>2. CASE m # Head(todo)  BY <1>0, <2>1, <2>2, SentTypes DEF Idle
    <2>3. CASE m = Head(todo)
      <3>1. motor'[m] = Command(motor[m], ZeroCurrent)  BY <1>0, <2>1, <2>3, SentTypes
      <3> QED  BY <1>0, <3>1, ZeroCurrentReleases DEF Idle
    <2> QED  BY <2>2, <2>3
  <1>5. CASE Inject
    <2>1. PICK k \in Exposed : \E s \in Injected(motor[k]) : motor' = [motor EXCEPT ![k] = s]
      BY <1>5 DEF Inject
    <2>2. PICK s \in Injected(motor[k]) : motor' = [motor EXCEPT ![k] = s]  BY <2>1
    <2>3. CASE k # m
      BY ONLY <1>0, <2>2, <2>3, Idle(m), ~Idle(m)' DEF Idle, MotorTypes
    <2>4. CASE k = m
      <3>1. s.mode \in {motor[m].mode, "idle"}  BY <1>0, <2>4, InjectedServo
      <3>2. motor'[m] = s  BY ONLY <1>0, <2>2, <2>4, m \in Motor DEF MotorTypes
      <3> QED  BY ONLY <3>1, <3>2, Idle(m), ~Idle(m)' DEF Idle
    <2> QED  BY <2>3, <2>4
  <1>6. CASE Bench
    BY <1>6 DEF Bench, ToolInductive, Places
  <1>7. CASE motor' = motor  BY <1>7 DEF Idle
  <1> QED  BY <1>1, <1>2, <1>3, <1>4, <1>5, <1>6, <1>7, MotorKept DEF Next, ToolStep, Program

-----------------------------------------------------------------------------
(* The other types *)

\* What a tick puts into the socket, and what is read out of it.
LEMMA ReceivedType ==
  ASSUME NEW frames \in Seq(StatusFrame)
  PROVE  Received(frames) \in Seq(StatusFrame) /\ Len(Received(frames)) <= Queue
  <1> DEFINE n == IF Len(frames) < Queue THEN Len(frames) ELSE Queue
  <1>1. n \in Nat /\ n <= Len(frames) /\ n <= Queue /\ Len(frames) \in Nat  BY ToolConstants
  <1>2. Received(frames) = SubSeq(frames, 1, n)  BY DEF Received
  <1> HIDE DEF n
  <1>3. SubSeq(frames, 1, n) \in Seq(StatusFrame) /\ Len(SubSeq(frames, 1, n)) = n
    BY ONLY <1>1, SubSeqProperties, frames \in Seq(StatusFrame)
  <1> QED  BY ONLY <1>1, <1>2, <1>3

LEMMA TailType ==
  ASSUME NEW S, NEW q \in Seq(S), q # <<>>
  PROVE  Tail(q) \in Seq(S) /\ Len(Tail(q)) < Len(q) /\ Head(q) \in S /\ Len(q) \in Nat \ {0}
  OBVIOUS

LEMMA TailOfMany ==
  ASSUME NEW S, NEW q \in Seq(S), Len(q) > 1 PROVE Tail(q) # <<>>
  <1>1. q # <<>>  OBVIOUS
  <1>2. Tail(q) \in Seq(S) /\ Len(Tail(q)) = Len(q) - 1  BY <1>1, HeadTailProperties
  <1>3. Len(Tail(q)) # 0  BY <1>2
  <1> QED  BY <1>2, <1>3, EmptySeq

LEMMA TailOfOne ==
  ASSUME NEW S, NEW x \in S PROVE Len(<<x>>) = 1 /\ Head(<<x>>) = x /\ Tail(<<x>>) = <<>>
  <1>1. <<x>> \in Seq(S) /\ <<x>> # <<>> /\ Len(<<x>>) = 1 /\ Head(<<x>>) = x  OBVIOUS
  <1>2. Tail(<<x>>) \in Seq(S) /\ Len(Tail(<<x>>)) = 0  BY <1>1, HeadTailProperties
  <1> QED  BY <1>1, <1>2, EmptySeq

LEMMA BusTypesKept ==
  ASSUME ToolInductive, [Next]_vars PROVE BusTypes'
  <1>0. /\ MotorTypes /\ BusTypes /\ rx \in Seq(StatusFrame) /\ Len(rx) <= Queue /\ Len(rx) \in Nat
        /\ Queue \in Nat
    BY ToolConstants DEF ToolInductive, ToolTypes, BusTypes
  <1>1. kind' = kind  BY CommandKept
  <1>2. up' \in BOOLEAN /\ other' \in {"off", "on", "late"}
    <2>1. up \in BOOLEAN /\ other \in {"off", "on", "late"}  BY <1>0 DEF BusTypes
    <2>2. CASE ToolStep
      BY <2>1, <2>2 DEF ToolStep, Program, Begin, Hear, Deaf, Watch, Decide, SendMove, Sendable,
         Torn, Supervise, Arrive, Brake, Braked, Free, Unsendable, Answer, Write, bus, Stop,
         EndMove, Unmoved, SetOut
    <2>3. CASE Tick \/ Interrupt \/ Kill \/ Link \/ Inject \/ OtherStarts \/ Bench \/ UNCHANGED vars
      BY <2>1, <2>3 DEF Tick, Interrupt, Kill, Link, Inject, OtherStarts, Bench, vars, bus, Stop,
         EndMove
    <2> QED  BY <2>2, <2>3 DEF Next
  <1>3. rx' \in Seq(StatusFrame) /\ Len(rx') <= Queue
    <2>1. CASE Tick
      <3>1. CASE Open /\ up
        <4>1. PICK talking \in Sorted({m \in Motor : ~motor[m].silent}) :
                rx' = Received(rx \o [i \in DOMAIN talking |->
                                        Status(talking[i], motor'[talking[i]])])
          BY <2>1, <3>1 DEF Tick
        <4> DEFINE S == {m \in Motor : ~motor[m].silent}
                   new == [i \in DOMAIN talking |-> Status(talking[i], motor'[talking[i]])]
        <4>2. S \subseteq Motor /\ IsFiniteSet(S)  BY FS_Subset, ToolConstants
        <4>3. talking \in Listed(S)  BY <4>1 DEF Sorted
        <4> HIDE DEF S
        <4>4. talking \in Seq(S) /\ DOMAIN talking = 1..Len(talking)  BY ONLY <4>2, <4>3, ListedType
        <4>5. MotorTypes'  BY MotorTypesKept
        <4>6. \A i \in DOMAIN talking : talking[i] \in Motor  BY ONLY <4>2, <4>4
        <4>7. \A i \in DOMAIN talking : motor'[talking[i]] \in Servo
          BY ONLY <4>5, <4>6 DEF MotorTypes
        <4>8. \A i \in DOMAIN talking : Status(talking[i], motor'[talking[i]]) \in StatusFrame
          BY <4>6, <4>7, StatusType
        <4>9. new \in Seq(StatusFrame)  BY ONLY <4>4, <4>8
        <4> HIDE DEF new
        <4>10. rx \o new \in Seq(StatusFrame)  BY ONLY <1>0, <4>9, ConcatProperties
        <4> QED  BY <4>1, <4>10, ReceivedType DEF new
      <3>2. CASE ~(Open /\ up)
        BY ONLY <1>0, <2>1, <3>2 DEF Tick
      <3> QED  BY <3>1, <3>2
    <2>2. CASE Hear \/ Supervise
      <3>1. rx # <<>> /\ rx' = Tail(rx)  BY <2>2 DEF Hear, Supervise
      <3> QED  BY ONLY <1>0, <3>1, TailType
    <2>3. CASE Begin \/ Deaf \/ Watch \/ Decide \/ Free \/ Unsendable \/ Interrupt \/ Kill
      <3>1. rx' = rx \/ rx' = <<>>
        BY <2>3 DEF Begin, Deaf, Watch, Decide, Free, Unsendable, Interrupt, Kill, Stop, SetOut,
           bus, EndMove
      <3>2. <<>> \in Seq(StatusFrame) /\ Len(<<>>) = 0  OBVIOUS
      <3>3. rx' = <<>> => rx' \in Seq(StatusFrame) /\ Len(rx') = 0  BY ONLY <3>2
      <3> QED  BY ONLY <1>0, <3>1, <3>3
    <2>4. CASE SendMove \/ Torn \/ Arrive \/ Brake \/ Braked \/ Answer \/ Write \/ Link \/ Inject
                 \/ OtherStarts \/ Bench \/ UNCHANGED vars
      <3>1. rx' = rx
        BY <2>4 DEF SendMove, Sendable, Torn, Arrive, Brake, Braked, Answer, Write, Link, Inject,
           OtherStarts, Bench, vars, bus
      <3> QED  BY ONLY <1>0, <3>1
    <2> QED  BY <2>1, <2>2, <2>3, <2>4 DEF Next, ToolStep, Program
  <1>4. lost' \in BOOLEAN
    <2>1. lost \in BOOLEAN /\ up \in BOOLEAN  BY <1>0 DEF BusTypes
    <2>2. lost' = lost \/ lost' = TRUE \/ lost' = FALSE \/ lost' = ~up \/ lost' = (lost \/ (up /\ Open))
      BY DEF Next, ToolStep, Program, Begin, Hear, Deaf, Watch, Decide, SendMove, Torn, Supervise,
         Arrive, Brake, Braked, Free, Unsendable, Answer, Write, Interrupt, Kill, Link, Inject,
         OtherStarts, Bench, vars, bus, Stop, SetOut, Tick
    <2> QED  BY ONLY <2>1, <2>2
  <1> QED  BY ONLY <1>0, <1>1, <1>2, <1>3, <1>4 DEF BusTypes

\* The IDs a step works on.
LEMMA IdsKept ==
  ASSUME ToolInductive, [Next]_vars
  PROVE  /\ ids' \in Seq(Nat)
         /\ cmd # "stop" => ids' \in Seq(Motor)
         /\ ids' = ids \/ (pc = "listen" /\ Decide /\ ids' # <<>>)
              \/ (pc = "ask" /\ Answer /\ ids # <<>> /\ Len(ids) > 1 /\ ids' = Tail(ids) /\ ids' # <<>>)
  <1>0. ids \in Seq(Nat) /\ (cmd # "stop" => ids \in Seq(Motor))
    BY DEF ToolInductive, ToolTypes, StepTypes, Places
  <1>1. CASE Decide
    <2>1. ids' = ids \/ \E list \in Chosen \ {<<>>} : ids' = list
      BY <1>1 DEF Decide, Stop, SetOut, progress
    <2>2. pc = "listen"  BY <1>1 DEF Decide, Listened
    <2> QED  BY <1>0, <1>1, <2>1, <2>2, ChosenType
  <1>2. CASE Answer
    <2>1. pc = "ask" /\ (ids' = ids \/ (Len(ids) > 1 /\ ids' = Tail(ids)))
      BY <1>2 DEF Answer, GoOn
    <2>2. ids # <<>>  BY <2>1 DEF ToolInductive, Places
    <2>3. /\ ids \in Seq(Nat) => Tail(ids) \in Seq(Nat)
          /\ ids \in Seq(Motor) => Tail(ids) \in Seq(Motor)
      BY ONLY <2>2, TailType
    <2>4. Len(ids) > 1 => Tail(ids) # <<>>
      BY ONLY <1>0, TailOfMany
    <2> QED  BY ONLY <1>0, <1>2, <2>1, <2>2, <2>3, <2>4
  <1>3. CASE Begin \/ Hear \/ Deaf \/ Watch \/ SendMove \/ Torn \/ Supervise \/ Arrive \/ Brake \/ Braked \/ Free
               \/ Unsendable \/ Write
    <2>1. ids' = ids
      BY <1>3 DEF Begin, Hear, Deaf, Watch, SendMove, Sendable, Torn, Supervise, Arrive, Brake,
         Braked, Free, Unsendable, Write, Stop, progress
    <2> QED  BY ONLY <1>0, <2>1
  <1>4. CASE Tick \/ Interrupt \/ Kill \/ Link \/ Inject \/ OtherStarts \/ Bench \/ UNCHANGED vars
    <2>1. ids' = ids
      BY <1>4 DEF Tick, Interrupt, Kill, Link, Inject, OtherStarts, Bench, vars, Stop, progress
    <2> QED  BY ONLY <1>0, <2>1
  <1> QED  BY <1>1, <1>2, <1>3, <1>4 DEF Next, ToolStep, Program

LEMMA TargetsType ==
  ASSUME ids \in Seq(Nat), ids # <<>>
  PROVE  /\ Targets \in Seq(Nat) /\ Targets # <<>>
         /\ cmd = "stop" => Targets = ids
         /\ cmd # "stop" => Targets = <<Head(ids)>>
  <1>1. Head(ids) \in Nat  BY TailType
  <1>2. <<Head(ids)>> \in Seq(Nat) /\ <<Head(ids)>> # <<>>  BY <1>1
  <1> QED  BY <1>2 DEF Targets

\* The ending of a move starts with its motor, and a stop's with all it chose.
LEMMA TodoKept ==
  ASSUME ToolInductive, [Next]_vars
  PROVE  /\ todo' \in Seq(Nat)
         /\ pc' = "release" => todo' # <<>>
         /\ cmd # "stop" /\ pc' \in {"brake", "release"} => todo' \in {<<>>, <<Head(ids')>>}
  <1>0. /\ ids \in Seq(Nat) /\ todo \in Seq(Nat) /\ EndsTheMove
        /\ pc \in Moving => ids # <<>>
    BY DEF ToolInductive, ToolTypes, StepTypes, Places
  <1> DEFINE Short(q) == q \in {<<>>, <<Head(ids)>>}
  <1>1. \A q : ids # <<>> /\ Short(q) /\ q # <<>> => Tail(q) = <<>> /\ Len(q) = 1
    <2>1. ids # <<>> => Head(ids) \in Nat  BY <1>0, TailType
    <2> QED  BY <2>1, TailOfOne
  <1>2. pc \in Moving => /\ Targets \in Seq(Nat) /\ Targets # <<>>
                         /\ cmd # "stop" => Short(Targets)
    BY <1>0, TargetsType
  <1> HIDE DEF Short
  <1>3. CASE Decide
    <2>1. CASE todo' = todo /\ pc' = "done"  BY ONLY <1>0, <2>1
    <2>2. CASE \E list \in Chosen \ {<<>>} :
                 SetOut(IF cmd = "stop" THEN "brake" ELSE "move", list)
      <3>1. PICK list \in Chosen \ {<<>>} : SetOut(IF cmd = "stop" THEN "brake" ELSE "move", list)
        BY <2>2
      <3>2. list \in Seq(Nat)  BY <1>0, ChosenType DEF ToolInductive, Places
      <3>3. /\ pc' = IF cmd = "stop" THEN "brake" ELSE "move"
            /\ todo' = IF cmd = "stop" THEN list ELSE <<>>
        BY <3>1 DEF SetOut
      <3> QED  BY ONLY <3>2, <3>3
    <2>3. \/ todo' = todo /\ pc' = "done"
          \/ \E list \in Chosen \ {<<>>} : SetOut(IF cmd = "stop" THEN "brake" ELSE "move", list)
      BY <1>3 DEF Decide, Stop, Finish, progress
    <2> QED  BY ONLY <2>1, <2>2, <2>3
  <1>4. CASE Tick \/ SendMove \/ Torn \/ Supervise \/ Arrive \/ Brake \/ Braked \/ Free \/ Interrupt
    <2>1. ids' = ids
      BY <1>4 DEF Tick, SendMove, Sendable, Torn, Supervise, Arrive, Brake, Braked, Free, Interrupt,
         progress
    <2>2. CASE Tick
      <3>1. /\ pc' = pc /\ pc # "release"
            /\ todo' = IF pc = "brake" THEN Targets ELSE todo
        BY <2>2 DEF Tick, Due
      <3> QED  BY ONLY <1>0, <1>2, <2>1, <3>1 DEF EndsTheMove, Short, Moving
    <2>3. CASE SendMove \/ Torn \/ Supervise \/ Arrive
      <3>1. pc = "move" /\ ((pc' = pc /\ todo' = todo) \/ todo' = Targets)
        BY <2>3 DEF SendMove, Sendable, Torn, Supervise, Arrive, EndMove
      <3> QED  BY ONLY <1>0, <1>2, <2>1, <3>1 DEF Short, Moving
    <2>4. CASE Brake
      <3>1. pc = "brake" /\ pc' = pc /\ todo # <<>> /\ todo' = Tail(todo)  BY <2>4 DEF Brake
      <3>2. todo' \in Seq(Nat)  BY ONLY <1>0, <3>1, TailType
      <3> QED  BY ONLY <1>0, <1>1, <2>1, <3>1, <3>2 DEF EndsTheMove, Short, Moving
    <2>5. CASE Braked
      <3>1. pc = "brake" /\ todo' = Targets  BY <2>5 DEF Braked
      <3> QED  BY ONLY <1>2, <2>1, <3>1 DEF Short, Moving
    <2>6. CASE Free
      <3>1. /\ pc = "release" /\ todo # <<>> /\ todo' = Tail(todo)
            /\ (Len(todo) > 1 /\ pc' = pc) \/ pc' \in {"ask", "done"}
        BY <1>0, <2>6 DEF Free
      <3>2. todo' \in Seq(Nat) /\ Len(Tail(todo)) = Len(todo) - 1 /\ Len(todo) \in Nat
        BY ONLY <1>0, <3>1, TailType, HeadTailProperties
      <3>3. Len(todo) > 1 => Tail(todo) # <<>>  BY ONLY <1>0, TailOfMany
      <3>4. cmd # "stop" => Len(todo) = 1
        BY ONLY <1>0, <1>1, <3>1 DEF EndsTheMove, Short, Moving
      <3>5. CASE Len(todo) > 1 /\ pc' = pc
        <4>1. todo' # <<>>  BY ONLY <3>1, <3>3, <3>5
        <4>2. cmd = "stop"
          <5>1. Len(todo) # 1  BY ONLY <3>5
          <5> QED  BY ONLY <3>4, <5>1
        <4> QED  BY ONLY <3>2, <4>1, <4>2
      <3>6. CASE pc' \in {"ask", "done"}  BY ONLY <3>2, <3>6
      <3> QED  BY ONLY <3>1, <3>5, <3>6
    <2>7. CASE Interrupt
      <3>1. \/ pc = "move" /\ todo' = Targets
            \/ pc' = "done" /\ todo' = todo
        BY <2>7 DEF Interrupt, EndMove, progress
      <3> QED  BY ONLY <1>0, <1>2, <2>1, <3>1 DEF Short, Moving
    <2> QED  BY <1>4, <2>2, <2>3, <2>4, <2>5, <2>6, <2>7
  <1>5. CASE Begin \/ Hear \/ Deaf \/ Watch \/ Unsendable \/ Answer \/ Write \/ Kill
    <2>1. todo' = todo /\ pc' \notin {"brake", "release"}
      BY <1>5 DEF Begin, Hear, Deaf, Watch, Unsendable, Answer, GoOn, Write, Stage, Kill, Stop,
         Finish, progress, Listened
    <2> QED  BY ONLY <1>0, <2>1
  <1>6. CASE Link \/ Inject \/ OtherStarts \/ Bench \/ UNCHANGED vars
    <2>1. todo' = todo /\ pc' = pc /\ ids' = ids
      BY <1>6 DEF Link, Inject, OtherStarts, Bench, vars, progress
    <2> QED  BY ONLY <1>0, <2>1 DEF EndsTheMove
  <1> QED  BY <1>3, <1>4, <1>5, <1>6 DEF Next, ToolStep, Program

\* Where the tool can be, and how it goes on.
LEMMA PlacesTypes ==
  ASSUME ToolInductive, [Next]_vars
  PROVE  /\ pc' \in {"begin", "listen", "ask", "write", "rename", "done", "bench"} \cup Moving
         /\ way' \in {"next", "exit"}
  <1>0. /\ pc \in {"begin", "listen", "ask", "write", "rename", "done", "bench"} \cup Moving
        /\ way \in {"next", "exit"}
    BY DEF ToolInductive, ToolTypes, StepTypes
  <1>1. CASE Begin \/ Hear \/ Deaf \/ Watch \/ Unsendable \/ Answer \/ Write \/ Kill
    BY <1>0, <1>1 DEF Begin, Hear, Deaf, Watch, Unsendable, Answer, GoOn, Write, Stage, Kill, Stop,
       Finish, progress, bus, Moving
  <1>2. CASE Decide
    BY <1>0, <1>2 DEF Decide, Stop, Finish, SetOut, progress, Moving
  <1>3. CASE SendMove \/ Torn \/ Supervise \/ Arrive \/ Brake \/ Braked \/ Free \/ Interrupt
    BY <1>0, <1>3 DEF SendMove, Sendable, Torn, Supervise, Arrive, Brake, Braked, Free, Interrupt,
       EndMove, progress, Moving
  <1>4. CASE Tick \/ Link \/ Inject \/ OtherStarts \/ Bench \/ UNCHANGED vars
    BY <1>0, <1>4 DEF Tick, Link, Inject, OtherStarts, Bench, vars, progress, Moving
  <1> QED  BY <1>1, <1>2, <1>3, <1>4 DEF Next, ToolStep, Program

LEMMA StepTypesKept ==
  ASSUME ToolInductive, [Next]_vars PROVE StepTypes'
  <1>0. StepTypes /\ BusTypes  BY DEF ToolInductive, ToolTypes
  <1>1. cmd' \in Commands /\ velocity' \in Velocities \cup {0}  BY <1>0, CommandKept DEF StepTypes
  <1>2. ids' \in Seq(Nat) /\ todo' \in Seq(Nat)  BY IdsKept, TodoKept
  <1>3. left' \in Nat
    <2>0. left \in Nat /\ BrakeTicks \in Nat /\ ListenTicks \in Nat
      BY <1>0, ToolConstants DEF StepTypes
    <2>1. CASE Tick
      <3>1. (pc \in {"listen", "brake"} => left > 0) /\
            left' = IF pc \in {"listen", "brake"} THEN left - 1 ELSE left
        BY <2>1 DEF Tick, Due
      <3> QED  BY ONLY <2>0, <3>1
    <2>2. CASE ~Tick
      <3>1. left' \in {left, ListenTicks, BrakeTicks, 0}
        BY <2>2 DEF Next, ToolStep, Program, Begin, Hear, Deaf, Watch, Decide, SendMove, Sendable,
           Torn, Supervise, Arrive, Brake, Braked, Free, Unsendable, Answer, Write, Interrupt, Kill,
           Link, Inject, OtherStarts, Bench, vars, progress, Stop, EndMove, SetOut
      <3> QED  BY ONLY <2>0, <3>1
    <2> QED  BY <2>1, <2>2
  <1>4. at' \in Nat \ {0}
    <2>0. at \in Nat \ {0}  BY <1>0 DEF StepTypes
    <2>1. at' \in {at, at + 1, 1}
      BY DEF Next, ToolStep, Program, Begin, Hear, Deaf, Watch, Decide, SendMove, Sendable, Torn,
         Supervise, Arrive, Brake, Braked, Free, Unsendable, Answer, Write, Interrupt, Kill, Link,
         Inject, OtherStarts, Bench, vars, progress, Stop, EndMove, SetOut, Tick
    <2> QED  BY ONLY <2>0, <2>1
  <1>5. heard' \in [Motor -> {"none", "ok", "fault"}]
    <2>0. heard \in [Motor -> {"none", "ok", "fault"}]  BY <1>0 DEF StepTypes
    <2>1. CASE Hear
      <3>1. Head(rx) \in StatusFrame  BY <1>0, <2>1, TailType DEF Hear, BusTypes
      <3>2. PICK v \in {"none", "ok", "fault"} : heard' = [heard EXCEPT ![Head(rx).id] = v]
        BY <2>1 DEF Hear
      <3> QED  BY ONLY <2>0, <3>1, <3>2 DEF StatusFrame
    <2>2. CASE ~Hear
      <3>1. heard' = heard \/ heard' = [id \in Motor |-> "none"]
        BY <2>2 DEF Next, ToolStep, Program, Begin, Deaf, Watch, Decide, SendMove, Sendable, Torn,
           Supervise, Arrive, Brake, Braked, Free, Unsendable, Answer, Write, Interrupt, Kill, Link,
           Inject, OtherStarts, Bench, vars, progress, Stop, EndMove, SetOut, Tick, Unmoved
      <3> QED  BY ONLY <2>0, <3>1
    <2> QED  BY <2>1, <2>2
  <1>6. busy' \in BOOLEAN
    <2>0. busy \in BOOLEAN  BY <1>0 DEF StepTypes
    <2>1. CASE Tick  BY <2>1 DEF Tick
    <2>2. CASE ~Tick
      <3>1. busy' = busy
        BY <2>2 DEF Next, ToolStep, Program, Begin, Hear, Deaf, Watch, Decide, SendMove, Sendable,
           Torn, Supervise, Arrive, Brake, Braked, Free, Unsendable, Answer, Write, Interrupt, Kill,
           Link, Inject, OtherStarts, Bench, vars, progress, Stop, Unmoved
      <3> QED  BY ONLY <2>0, <3>1
    <2> QED  BY <2>1, <2>2
  <1>7. sent' \in BOOLEAN
    <2>0. sent \in BOOLEAN  BY <1>0 DEF StepTypes
    <2>1. sent' = sent \/ sent' = TRUE \/ sent' = FALSE
      BY DEF Next, ToolStep, Program, Begin, Hear, Deaf, Watch, Decide, SendMove, Sendable, Torn,
         Supervise, Arrive, Brake, Braked, Free, Unsendable, Answer, Write, Interrupt, Kill, Link,
         Inject, OtherStarts, Bench, vars, Stop, SetOut, Tick
    <2> QED  BY ONLY <2>0, <2>1
  <1>8. cut' \in BOOLEAN
    <2>0. cut \in BOOLEAN  BY <1>0 DEF StepTypes
    <2>1. CASE Begin \/ Deaf \/ Interrupt \/ Kill
      BY <2>0, <2>1 DEF Begin, Deaf, Interrupt, Kill, ghosts
    <2>2. CASE ~(Begin \/ Deaf \/ Interrupt \/ Kill)
      <3>1. cut' = cut \/ cut' = TRUE
        BY <2>2 DEF Next, ToolStep, Program, Hear, Watch, Decide, SendMove, Sendable, Torn,
           Supervise, Arrive, Brake, Braked, Free, Unsendable, Answer, Write, Link, Inject,
           OtherStarts, Bench, vars, Tick, ghosts
      <3> QED  BY ONLY <2>0, <3>1
    <2> QED  BY <2>1, <2>2
  <1> QED  BY ONLY <1>1, <1>2, <1>3, <1>4, <1>5, <1>6, <1>7, <1>8, PlacesTypes, ToolInductive, [Next]_vars
           DEF StepTypes

LEMMA PaperTypesKept ==
  ASSUME ToolInductive, [Next]_vars PROVE PaperTypes'
  <1>0. PaperTypes /\ cmd \in Commands /\ Mishaps[cmd] \in Nat
    BY ToolConstants DEF ToolInductive, ToolTypes, StepTypes
  <1>1. DOMAIN assigned' \subseteq Joint
    <2>0. DOMAIN assigned \subseteq Joint /\ DOMAIN file \subseteq Joint  BY <1>0 DEF PaperTypes
    <2>1. CASE Answer
      <3>1. \/ assigned' = assigned
            \/ \E joint \in DOMAIN file : assigned' = Assigned(joint, Head(ids))
        BY <2>1 DEF Answer
      <3>2. \A joint \in DOMAIN file : DOMAIN Assigned(joint, Head(ids)) \subseteq Joint
        BY ONLY <2>0 DEF Assigned
      <3> QED  BY ONLY <2>0, <3>1, <3>2
    <2>2. CASE ~Answer
      <3>1. assigned' = assigned
        BY <2>2 DEF Next, ToolStep, Program, Begin, Hear, Deaf, Watch, Decide, SendMove, Sendable,
           Torn, Supervise, Arrive, Brake, Braked, Free, Unsendable, Write, Interrupt, Kill, Link,
           Inject, OtherStarts, Bench, vars, progress, Stop, Unmoved, Tick
      <3> QED  BY ONLY <2>0, <3>1
    <2> QED  BY <2>1, <2>2
  <1>2. DOMAIN file' \subseteq Joint /\ temp' \in {"none", "whole"}
    <2>0. DOMAIN file \subseteq Joint /\ temp \in {"none", "whole"}  BY <1>0 DEF PaperTypes
    <2>1. DOMAIN Rewritten = DOMAIN file  BY DEF Rewritten
    <2>2. CASE Write
      <3>1. file' \in {file, Rewritten} /\ temp' \in {temp, "none", "whole"}
        BY <2>2 DEF Write, Stage, Paper
      <3> QED  BY ONLY <2>0, <2>1, <3>1
    <2>3. CASE ~Write
      <3>1. file' = file /\ temp' \in {temp, "none"}
        BY <2>3 DEF Next, ToolStep, Program, Begin, Hear, Deaf, Watch, Decide, SendMove, Sendable,
           Torn, Supervise, Arrive, Brake, Braked, Free, Unsendable, Answer, Interrupt, Kill, Link,
           Inject, OtherStarts, Bench, vars, paper, Stop, Unmoved, Tick
      <3> QED  BY ONLY <2>0, <3>1
    <2> QED  BY <2>2, <2>3
  <1>3. budget' \in 0..Mishaps[cmd]
    <2>0. budget \in 0..Mishaps[cmd]  BY <1>0 DEF PaperTypes
    <2>1. budget' = budget \/ (budget > 0 /\ budget' = budget - 1)
      <3>1. CASE ToolStep
        BY <3>1 DEF ToolStep, Program, Begin, Hear, Deaf, Watch, Decide, SendMove, Sendable, Torn,
           Supervise, Arrive, Brake, Braked, Free, Unsendable, Answer, Write, Unmoved
      <3>2. CASE ~ToolStep
        BY <3>2 DEF Next, Interrupt, Kill, Link, Inject, OtherStarts, Bench, vars, Tick, Mishap
      <3> QED  BY <3>1, <3>2
    <2> QED  BY ONLY <1>0, <2>0, <2>1
  <1>4. astray' \in [Motor -> Nat]
    <2>0. astray \in [Motor -> Nat]  BY <1>0 DEF PaperTypes
    <2>1. CASE Tick
      <3>1. \A m \in Motor : astray[m] + 1 \in Nat  BY ONLY <2>0
      <3>2. astray' \in [Motor -> Nat]  BY <2>1, <3>1 DEF Tick
      <3> QED  BY <3>2
    <2>2. CASE ~Tick
      <3>1. astray' = astray \/ astray' = [m \in Motor |-> 0]
        BY <2>2 DEF Next, ToolStep, Program, Begin, Hear, Deaf, Watch, Decide, SendMove, Sendable,
           Torn, Supervise, Arrive, Brake, Braked, Free, Unsendable, Answer, Write, Interrupt, Kill,
           Link, Inject, OtherStarts, Bench, vars, ghosts, Stop, Unmoved
      <3> QED  BY ONLY <2>0, <3>1
    <2> QED  BY <2>1, <2>2
  <1>5. cause' \in {"none", "fault", "current", "runaway", "link", "interrupt"}
    <2>0. cause \in {"none", "fault", "current", "runaway", "link", "interrupt"}
      BY <1>0 DEF PaperTypes
    <2>1. CASE Supervise
      <3>1. Stopped(Head(rx)) \in {"none", "fault", "current", "runaway"}  BY DEF Stopped
      <3>2. cause' \in {cause, Stopped(Head(rx)), "none"}  BY <2>1 DEF Supervise
      <3> QED  BY ONLY <2>0, <3>1, <3>2
    <2>2. CASE ~Supervise
      <3>1. cause' \in {cause, "none", "link", "interrupt"}
        BY <2>2 DEF Next, ToolStep, Program, Begin, Hear, Deaf, Watch, Decide, SendMove, Sendable,
           Torn, Arrive, Brake, Braked, Free, Unsendable, Answer, Write, Interrupt, Kill, Link,
           Inject, OtherStarts, Bench, vars, ghosts, Stop, Tick
      <3> QED  BY ONLY <2>0, <3>1
    <2> QED  BY <2>1, <2>2
  <1> QED  BY <1>1, <1>2, <1>3, <1>4, <1>5, CommandKept DEF PaperTypes

LEMMA PlacesKept ==
  ASSUME ToolInductive, [Next]_vars PROVE Places'
  <1>0. Places /\ cmd' = cmd  BY CommandKept DEF ToolInductive
  <1>1. pc' = "bench" <=> cmd' = "bench"
    <2>1. pc = "bench" <=> cmd = "bench"  BY <1>0 DEF Places
    <2>2. CASE ToolStep
      BY <1>0, <2>1, <2>2 DEF ToolStep, Program, Begin, Hear, Deaf, Watch, Decide, Listened,
         SendMove, Sendable, Torn, Supervise, Arrive, Brake, Braked, Free, Unsendable, Answer, GoOn,
         Write, Stage, Stop, Finish, SetOut, EndMove, bus
    <2>3. CASE ~ToolStep
      BY <1>0, <2>1, <2>3 DEF Next, Interrupt, Kill, Link, Inject, OtherStarts, Bench, vars, Tick,
         Stop, Finish, EndMove, Tool
    <2> QED  BY <2>2, <2>3
  <1>2. /\ pc' \in {"move", "ask", "write", "rename"} => cmd' \in {"identify", "jog"}
        /\ pc' \in {"brake", "release"} => cmd' \in {"identify", "jog", "stop"}
        /\ cmd' = "stop" /\ pc' \in {"brake", "release"} => way' = "exit"
    <2>1. /\ pc \in {"move", "ask", "write", "rename"} => cmd \in {"identify", "jog"}
          /\ pc \in {"brake", "release"} => cmd \in {"identify", "jog", "stop"}
          /\ cmd = "stop" /\ pc \in {"brake", "release"} => way = "exit"
      BY <1>0 DEF Places
    <2>2. CASE Begin \/ Hear \/ Deaf \/ Watch \/ Unsendable \/ Answer \/ Write \/ Kill
      BY <1>0, <2>1, <2>2 DEF Begin, Hear, Deaf, Watch, Unsendable, Answer, GoOn, Write, Stage,
         Kill, Stop, Finish, bus
    <2>3. CASE Decide
      BY <1>0, <2>1, <2>3 DEF Decide, Stop, Finish, SetOut
    <2>4. CASE SendMove \/ Torn \/ Supervise \/ Arrive \/ Brake \/ Braked \/ Free \/ Interrupt
      BY <1>0, <2>1, <2>4 DEF SendMove, Sendable, Torn, Supervise, Arrive, Brake, Braked, Free,
         Interrupt, EndMove
    <2>5. CASE Tick \/ Link \/ Inject \/ OtherStarts \/ Bench \/ UNCHANGED vars
      BY <1>0, <2>1, <2>5 DEF Tick, Link, Inject, OtherStarts, Bench, vars, progress
    <2> QED  BY <2>2, <2>3, <2>4, <2>5 DEF Next, ToolStep, Program
  <1>3. pc' \in Moving \cup {"ask"} => ids' # <<>>
    <2>1. pc \in Moving \cup {"ask"} => ids # <<>>  BY <1>0 DEF Places
    <2>2. CASE ids' # ids  BY <2>2, IdsKept
    <2>3. CASE ids' = ids
      <3>1. pc' \in Moving \cup {"ask"} => pc \in Moving \cup {"ask"} \/ Decide
        <4>1. CASE Begin \/ Hear \/ Deaf \/ Watch \/ Unsendable \/ Answer \/ Write \/ Kill
          BY <4>1 DEF Begin, Hear, Deaf, Watch, Unsendable, Answer, GoOn, Write, Stage, Kill, Stop,
             Finish, bus, Moving
        <4>2. CASE SendMove \/ Torn \/ Supervise \/ Arrive \/ Brake \/ Braked \/ Free \/ Interrupt
          BY <4>2 DEF SendMove, Sendable, Torn, Supervise, Arrive, Brake, Braked, Free, Interrupt,
             EndMove, Moving
        <4>3. CASE Tick \/ Link \/ Inject \/ OtherStarts \/ Bench \/ UNCHANGED vars
          BY <4>3 DEF Tick, Link, Inject, OtherStarts, Bench, vars
        <4> QED  BY <4>1, <4>2, <4>3 DEF Next, ToolStep, Program
      <3>2. Decide => pc' = "done" \/ ids' # <<>>
        BY DEF Decide, Stop, Finish, SetOut
      <3> QED  BY <2>1, <2>3, <3>1, <3>2 DEF Moving
    <2> QED  BY <2>2, <2>3
  <1>4. cmd' # "stop" => ids' \in Seq(Motor)  BY <1>0, IdsKept
  <1>5. pc' # "done" => ~cut'
    <2>1. pc # "done" => ~cut  BY <1>0 DEF Places
    <2>2. CASE ToolStep
      BY <2>1, <2>2 DEF ToolStep, Program, Begin, Hear, Deaf, Watch, Decide, Listened, SendMove,
         Sendable, Torn, Supervise, Arrive, Brake, Braked, Free, Unsendable, Answer, GoOn, Write,
         Stage, Stop, Finish, SetOut, EndMove, ghosts, bus
    <2>3. CASE ~ToolStep
      BY <2>1, <2>3 DEF Next, Interrupt, Kill, Link, Inject, OtherStarts, Bench, vars, Tick, Stop,
         Finish, EndMove, ghosts
    <2> QED  BY <2>2, <2>3
  <1> QED  BY ONLY <1>1, <1>2, <1>3, <1>4, <1>5 DEF Places

-----------------------------------------------------------------------------
(* Who is driven *)

LEMMA DrivesOneKept ==
  ASSUME ToolInductive, [Next]_vars PROVE DrivesOne'
  <1> SUFFICES ASSUME other' = "off", cmd' \notin {"stop", "bench"}, NEW m \in Motor, ~Idle(m)'
               PROVE  cmd' \in {"identify", "jog"} /\ ids' # <<>> /\ m = Head(ids')
    BY DEF DrivesOne
  <1>1. cmd' = cmd /\ other = "off" /\ cmd \notin {"stop", "bench"}  BY CommandKept, OtherStays
  <1>2. Places /\ EndsTheMove /\ DrivesOne /\ RestsBetween  BY DEF ToolInductive
  <1>3. CASE Idle(m)
    <2>1. \/ pc = "move" /\ m = Head(ids)
          \/ pc = "brake" /\ todo # <<>> /\ m = Head(todo)
      BY <1>1, <1>3, WhoDrives
    <2>2. pc \in Moving /\ ids # <<>> /\ cmd \in {"identify", "jog"}
      BY ONLY <1>1, <1>2, <2>1 DEF Places, Moving
    <2>3. ids' = ids  BY <2>2, IdsKept DEF Moving
    <2>4. CASE pc = "move" /\ m = Head(ids)  BY <1>1, <2>2, <2>3, <2>4
    <2>5. CASE pc = "brake" /\ todo # <<>> /\ m = Head(todo)
      <3>1. Head(<<Head(ids)>>) = Head(ids)  OBVIOUS
      <3>2. todo = <<Head(ids)>>  BY ONLY <1>1, <1>2, <2>5 DEF EndsTheMove
      <3>3. m = Head(ids)  BY ONLY <2>5, <3>1, <3>2
      <3> QED  BY <1>1, <2>2, <2>3, <3>3
    <2> QED  BY <2>1, <2>4, <2>5
  <1>4. CASE ~Idle(m)
    <2>1. cmd \in {"identify", "jog"} /\ ids # <<>> /\ m = Head(ids)
      BY ONLY <1>1, <1>2, <1>4, m \in Motor DEF DrivesOne
    <2>2. ids' = ids
      <3>1. CASE pc \in {"listen", "ask"}
        BY ONLY <1>1, <1>2, <1>4, <3>1, m \in Motor DEF RestsBetween, Places, Moving
      <3>2. CASE pc \notin {"listen", "ask"}  BY <3>2, IdsKept
      <3> QED  BY <3>1, <3>2
    <2> QED  BY <1>1, <2>1, <2>2
  <1> QED  BY <1>3, <1>4

\* The release of the last motor is the only way out of a move that is not cut.
LEMMA WayOut ==
  ASSUME [Next]_vars, pc \in Moving, pc' \notin Moving, ~cut'
  PROVE  Free /\ pc = "release" /\ ~(Len(todo) > 1)
  <1>1. CASE Begin \/ Hear \/ Deaf \/ Watch \/ Decide \/ Unsendable \/ Answer \/ Write \/ Kill \/ Interrupt
    BY <1>1 DEF Begin, Hear, Deaf, Watch, Decide, Listened, Unsendable, Answer, Write, Kill,
       Interrupt, EndMove, Moving
  <1>2. CASE SendMove \/ Torn \/ Supervise \/ Arrive \/ Brake \/ Braked
    BY <1>2 DEF SendMove, Sendable, Torn, Supervise, Arrive, Brake, Braked, EndMove, Moving
  <1>3. CASE Tick \/ Link \/ Inject \/ OtherStarts \/ Bench \/ UNCHANGED vars
    BY <1>3 DEF Tick, Link, Inject, OtherStarts, Bench, vars
  <1>4. CASE Free  BY <1>4 DEF Free, Moving
  <1> QED  BY <1>1, <1>2, <1>3, <1>4 DEF Next, ToolStep, Program

\* A release frees its motor and drives no other.
LEMMA FreeReleases ==
  ASSUME ToolInductive, Free, NEW m \in Motor, Idle(m) \/ m = Head(todo)
  PROVE  Idle(m)'
  <1>1. MotorTypes /\ motor[m] \in Servo  BY DEF ToolInductive, ToolTypes, MotorTypes
  <1>2. Sent(Head(todo), ZeroCurrent) /\ up  BY DEF Free, LetGo, Sendable
  <1>3. CASE m = Head(todo)
    <2>1. motor'[m] = Command(motor[m], ZeroCurrent)  BY <1>1, <1>2, <1>3, SentTypes, FramesSent
    <2> QED  BY <1>1, <2>1, ZeroCurrentReleases DEF Idle
  <1>4. CASE m # Head(todo)
    BY <1>1, <1>2, <1>4, SentTypes, FramesSent DEF Idle
  <1> QED  BY <1>3, <1>4

LEMMA RestsBetweenKept ==
  ASSUME ToolInductive, [Next]_vars PROVE RestsBetween'
  <1> SUFFICES ASSUME other' = "off", cmd' \notin {"stop", "bench"}, pc' \notin Moving, ~cut',
                      NEW m \in Motor
               PROVE  Idle(m)'
    BY DEF RestsBetween
  <1>1. cmd' = cmd /\ other = "off" /\ cmd \notin {"stop", "bench"} /\ ~cut
    BY CommandKept, OtherStays, CutStays
  <1>2. Places /\ EndsTheMove /\ DrivesOne /\ RestsBetween  BY DEF ToolInductive
  <1>3. CASE pc \in Moving
    <2>1. Free /\ pc = "release" /\ ~(Len(todo) > 1)  BY <1>3, WayOut
    <2>2. todo = <<Head(ids)>>
      BY ONLY <1>1, <1>2, <2>1 DEF EndsTheMove
    <2>3. Head(<<Head(ids)>>) = Head(ids)  OBVIOUS
    <2>4. Idle(m) \/ m = Head(ids)  BY ONLY <1>1, <1>2, m \in Motor DEF DrivesOne
    <2> QED  BY <2>1, <2>2, <2>3, <2>4, FreeReleases
  <1>4. CASE pc \notin Moving
    <2>1. Idle(m)  BY ONLY <1>1, <1>2, <1>4, m \in Motor DEF RestsBetween
    <2> QED  BY <1>1, <1>4, <2>1, WhoDrives DEF Moving
  <1> QED  BY <1>3, <1>4

LEMMA ToSetOfTail ==
  ASSUME NEW q \in Seq(Nat), q # <<>>
  PROVE  /\ ToSet(q) \subseteq {Head(q)} \cup ToSet(Tail(q))
         /\ ~(Len(q) > 1) => ToSet(q) = {Head(q)}
  <1>1. /\ Tail(q) \in Seq(Nat) /\ Len(Tail(q)) = Len(q) - 1 /\ Len(q) \in Nat /\ Len(q) # 0
        /\ \A i \in 1..Len(Tail(q)) : Tail(q)[i] = q[i + 1]
    BY HeadTailProperties, EmptySeq
  <1>2. Head(q) = q[1] /\ DOMAIN q = 1..Len(q) /\ DOMAIN Tail(q) = 1..Len(Tail(q))  BY <1>1
  <1>3. \A i \in 1..Len(q) : i = 1 \/ (i - 1 \in 1..Len(Tail(q)) /\ q[i] = Tail(q)[i - 1])
    BY ONLY <1>1
  <1>4. \A x \in ToSet(q) : x = Head(q) \/ x \in ToSet(Tail(q))
    BY ONLY <1>2, <1>3 DEF ToSet
  <1>5. ~(Len(q) > 1) => Len(q) = 1  BY ONLY <1>1
  <1>6. Len(q) = 1 => ToSet(q) = {Head(q)}  BY ONLY <1>2 DEF ToSet
  <1> QED  BY ONLY <1>4, <1>5, <1>6

\* What a stop knows and heard stays while it stops, and afterwards.
LEMMA HeardStays ==
  ASSUME [Next]_vars
  PROVE  /\ pc # "listen" => Reporting' = Reporting
         /\ pc \notin {"write", "rename"} => Known' = Known
  <1>1. pc # "listen" => heard' = heard
    BY DEF Next, ToolStep, Program, Begin, Hear, Deaf, Watch, Decide, Listened, SendMove, Sendable,
       Torn, Supervise, Arrive, Brake, Braked, Free, Unsendable, Answer, Write, Interrupt, Kill,
       Link, Inject, OtherStarts, Bench, vars, progress, Stop, Unmoved, Tick
  <1>2. pc \notin {"write", "rename"} => file' = file
    BY DEF Next, ToolStep, Program, Begin, Hear, Deaf, Watch, Decide, SendMove, Sendable, Torn,
       Supervise, Arrive, Brake, Braked, Free, Unsendable, Answer, Write, Interrupt, Kill, Link,
       Inject, OtherStarts, Bench, vars, paper, Stop, Unmoved, Tick
  <1>3. heard' = heard => Reporting' = Reporting  BY DEF Reporting
  <1>4. file' = file => Known' = Known  BY DEF Known, Valid
  <1> QED  BY ONLY <1>1, <1>2, <1>3, <1>4

LEMMA StopsAllKept ==
  ASSUME ToolInductive, [Next]_vars PROVE StopsAll'
  <1> SUFFICES ASSUME cmd' = "stop", pc' \in {"brake", "release"}
               PROVE  /\ (Known' \cap Motor) \cup Reporting' \subseteq ToSet(ids')
                      /\ pc' = "release" =>
                           \A m \in Motor \cap ToSet(ids') : m \in ToSet(todo') \/ Idle(m)'
    BY DEF StopsAll, Idle
  <1>1. cmd = "stop" /\ other = "off"  BY CommandKept DEF ToolInductive, OtherIsHeard
  <1>2. Places /\ EndsTheMove /\ StopsAll /\ ids \in Seq(Nat) /\ todo \in Seq(Nat)
    BY DEF ToolInductive, ToolTypes, StepTypes
  <1>3. CASE pc \in {"brake", "release"}
    <2>1. ids' = ids /\ Known' = Known /\ Reporting' = Reporting  BY <1>3, IdsKept, HeardStays
    <2>2. (Known \cap Motor) \cup Reporting \subseteq ToSet(ids)
      BY ONLY <1>1, <1>2, <1>3 DEF StopsAll
    <2>3. ASSUME pc' = "release", NEW m \in Motor, m \in ToSet(ids)
          PROVE  m \in ToSet(todo') \/ Idle(m)'
      <3>1. CASE pc = "brake"
        <4>1. Braked
          BY <2>3, <3>1 DEF Next, ToolStep, Program, Begin, Hear, Deaf, Watch, Decide, Listened,
             SendMove, Sendable, Torn, Supervise, Arrive, Brake, Free, Unsendable, Answer, Write,
             Interrupt, Kill, Link, Inject, OtherStarts, Bench, vars, Stop, Finish, Tick, bus
        <4>2. todo' = ids  BY <1>1, <4>1 DEF Braked, Targets
        <4> QED  BY <2>3, <4>2
      <3>2. CASE pc = "release"
        <4>1. m \in ToSet(todo) \/ Idle(m)  BY ONLY <1>1, <1>2, <2>3, <3>2 DEF StopsAll
        <4>2. Idle(m) => Idle(m)'  BY <1>1, <3>2, WhoDrives
        <4>3. CASE Free
          <5>1. todo' = Tail(todo) /\ todo # <<>>  BY <4>3 DEF Free
          <5>2. m \in ToSet(todo) => m = Head(todo) \/ m \in ToSet(todo')
            BY ONLY <1>2, <5>1, ToSetOfTail
          <5> QED  BY <4>1, <4>2, <4>3, <5>2, FreeReleases
        <4>4. CASE ~Free
          <5>1. todo' = todo
            BY <3>2, <4>4, <2>3 DEF Next, ToolStep, Program, Begin, Hear, Deaf, Watch, Decide,
               Listened, SendMove, Sendable, Torn, Supervise, Arrive, Brake, Braked, Unsendable,
               Answer, Write, Interrupt, Kill, Link, Inject, OtherStarts, Bench, vars, Tick,
               progress, Stop
          <5> QED  BY <4>1, <4>2, <5>1
        <4> QED  BY <4>3, <4>4
      <3> QED  BY <1>3, <3>1, <3>2
    <2> QED  BY <2>1, <2>2, <2>3
  <1>4. CASE pc \notin {"brake", "release"}
    <2>1. Decide
      BY <1>1, <1>2, <1>4 DEF Places, Next, ToolStep, Program, Begin, Hear, Deaf, Watch, SendMove,
         Sendable, Torn, Supervise, Arrive, Brake, Braked, Free, Unsendable, Answer, GoOn, Write,
         Stage, Interrupt, Kill, Link, Inject, OtherStarts, Bench, vars, Stop, Finish, Tick, bus
    <2>2. PICK list \in Chosen : SetOut("brake", list)
      BY <1>1, <2>1 DEF Decide, Stop, Finish
    <2>3. pc' = "brake" /\ ids' = list /\ heard' = heard  BY <1>1, <2>2 DEF SetOut
    <2>4. pc = "listen"  BY <2>1 DEF Decide, Listened
    <2>5. Known' = Known  BY <2>4, HeardStays
    <2>6. Reporting' = Reporting  BY <2>3 DEF Reporting
    <2>7. ToSet(list) = Known \cup Reporting  BY <1>1, <1>2, ChosenType
    <2> QED  BY ONLY <2>3, <2>5, <2>6, <2>7
  <1> QED  BY <1>3, <1>4

LEMMA EndsReleasedKept ==
  ASSUME ToolInductive, [Next]_vars PROVE EndsReleased'
  <1> DEFINE Bound == IF cmd = "stop" THEN (Known \cap Motor) \cup Reporting ELSE Motor
  <1> SUFFICES ASSUME pc' = "done", ~cut', other' = "off", NEW m \in Bound' PROVE Idle(m)'
    BY DEF EndsReleased
  <1>1. cmd' = cmd /\ other = "off" /\ ~cut  BY CommandKept, OtherStays, CutStays
  <1>2. Places /\ EndsTheMove /\ StopsAll /\ EndsReleased /\ ids \in Seq(Nat) /\ todo \in Seq(Nat)
    BY DEF ToolInductive, ToolTypes, StepTypes
  <1>3. m \in Motor  BY KnownFinite DEF Reporting
  <1>4. CASE cmd # "stop"
    <2>1. cmd' # "bench"  BY PlacesKept DEF Places
    <2>2. RestsBetween'  BY RestsBetweenKept
    <2> QED  BY <1>1, <1>3, <1>4, <2>1, <2>2 DEF RestsBetween, Moving, Idle
  <1>5. CASE cmd = "stop"
    <2>1. m \in (Known' \cap Motor) \cup Reporting'  BY <1>1, <1>5
    <2>2. CASE pc \in {"brake", "release"}
      <3>1. Free /\ pc = "release" /\ ~(Len(todo) > 1)  BY <2>2, WayOut DEF Moving
      <3>2. Known' = Known /\ Reporting' = Reporting  BY <2>2, HeardStays
      <3>3. m \in ToSet(ids)  BY ONLY <1>2, <1>5, <2>1, <2>2, <3>2 DEF StopsAll
      <3>4. m \in ToSet(todo) \/ Idle(m)  BY ONLY <1>2, <1>3, <1>5, <3>1, <3>3 DEF StopsAll
      <3>5. todo # <<>>  BY <3>1 DEF Free
      <3>6. m \in ToSet(todo) => m = Head(todo)  BY ONLY <1>2, <3>1, <3>5, ToSetOfTail
      <3> QED  BY <1>3, <3>1, <3>4, <3>6, FreeReleases
    <2>3. CASE pc = "done"
      <3>1. Known' = Known /\ Reporting' = Reporting  BY <2>3, HeardStays
      <3>2. Idle(m)  BY ONLY <1>1, <1>2, <1>5, <2>1, <2>3, <3>1 DEF EndsReleased
      <3> QED  BY <1>1, <1>3, <1>5, <2>3, <3>2, WhoDrives
    <2>4. CASE pc \notin {"brake", "release", "done"}
      <3>1. Decide
        BY <1>1, <1>2, <1>5, <2>4 DEF Places, Next, ToolStep, Program, Begin, Hear, Deaf, Watch,
           SendMove, Sendable, Torn, Supervise, Arrive, Brake, Braked, Free, Unsendable, Answer,
           GoOn, Write, Stage, Interrupt, Kill, Link, Inject, OtherStarts, Bench, vars, Stop,
           Finish, Tick, bus
      <3>2. <<>> \in Chosen /\ heard' = heard /\ pc = "listen"
        BY <1>5, <3>1 DEF Decide, Listened, Stop, Finish, SetOut, progress
      <3>3. ToSet(<<>>) = Known \cup Reporting  BY <1>2, <1>5, <3>2, ChosenType
      <3>4. Known' = Known  BY <3>2, HeardStays
      <3>5. Reporting' = Reporting  BY <3>2 DEF Reporting
      <3>6. ToSet(<<>>) = {}  BY DEF ToSet
      <3> QED  BY ONLY <2>1, <3>3, <3>4, <3>5, <3>6
    <2> QED  BY <2>2, <2>3, <2>4
  <1> QED  BY <1>4, <1>5

-----------------------------------------------------------------------------
(* The other program, and the file *)

LEMMA OtherIsHeardKept ==
  ASSUME ToolInductive, [Next]_vars PROVE OtherIsHeard'
  <1>0. /\ OtherIsHeard /\ cmd' = cmd
        /\ left \in Nat /\ ListenTicks \in Nat \ {0} /\ busy \in BOOLEAN
    BY CommandKept, ToolConstants DEF ToolInductive, ToolTypes, StepTypes
  <1>1. CASE OtherStarts
    <2>1. /\ other = "off" /\ cmd \in {"identify", "jog"} /\ up' = up /\ pc' = pc /\ left' = left
          /\ other' = "on" => up /\ (pc = "begin" \/ (pc = "listen" /\ left > 0))
      BY <1>1 DEF OtherStarts, progress
    <2> QED  BY ONLY <1>0, <2>1 DEF OtherIsHeard
  <1>2. CASE Link
    <2>1. /\ pc' = pc
          /\ other' = IF other = "on" /\ pc \in {"begin", "listen"} THEN "late" ELSE other
      BY <1>2 DEF Link
    <2> QED  BY ONLY <1>0, <2>1 DEF OtherIsHeard
  <1>3. CASE ~OtherStarts /\ ~Link
    <2>1. other' = other /\ up' = up
      BY <1>3 DEF Next, ToolStep, Program, Begin, Hear, Deaf, Watch, Decide, SendMove, Sendable,
         Torn, Supervise, Arrive, Brake, Braked, Free, Unsendable, Answer, Write, Interrupt, Kill,
         Inject, Bench, vars, bus, Stop, Unmoved, Tick, EndMove
    <2>2. other = "on" =>
            /\ pc' \in {"begin", "listen", "done"}
            /\ pc # "done" \/ pc' = "done"
            /\ pc' = "listen" => left' > 0 \/ busy'
      <3> SUFFICES ASSUME other = "on"
                   PROVE  /\ pc' \in {"begin", "listen", "done"}
                          /\ pc # "done" \/ pc' = "done"
                          /\ pc' = "listen" => left' > 0 \/ busy'
        OBVIOUS
      <3>0. /\ cmd \in {"identify", "jog"} /\ pc \in {"begin", "listen", "done"}
            /\ pc # "done" => up
            /\ pc = "listen" => left > 0 \/ busy
        BY ONLY <1>0, other = "on" DEF OtherIsHeard
      <3>1. CASE Begin
        <4>1. pc = "begin" /\ (pc' = "done" \/ (pc' = "listen" /\ left' = ListenTicks))
          BY <3>1 DEF Begin, Stop, Finish
        <4> QED  BY ONLY <1>0, <4>1
      <3>2. CASE Tick
        BY <3>0, <3>2 DEF Tick
      <3>3. CASE Decide
        <4>1. ~AllHeard  BY <3>0 DEF AllHeard
        <4>2. busy  BY <1>0, <3>0, <3>3, <4>1 DEF Decide, Listened
        <4>3. pc = "listen" /\ pc' = "done"
          BY <3>0, <3>3, <4>2 DEF Decide, Listened, Stop, Finish, Busy
        <4> QED  BY ONLY <4>3
      <3>4. CASE Deaf \/ Interrupt \/ Kill
        BY <3>0, <3>4 DEF Deaf, Interrupt, Kill, Stop, Finish
      <3>5. CASE ~(Begin \/ Tick \/ Deaf \/ Decide \/ Interrupt \/ Kill)
        <4>1. pc' = pc /\ left' = left /\ busy' = busy
          BY <1>3, <3>0, <3>5 DEF Next, ToolStep, Program, Hear, Watch, SendMove, Sendable, Torn,
             Supervise, Arrive, Brake, Braked, Free, Unsendable, Answer, Write, Inject, Bench, vars,
             progress
        <4> QED  BY ONLY <3>0, <4>1
      <3> QED  BY <3>1, <3>2, <3>3, <3>4, <3>5
    <2> QED  BY ONLY <1>0, <2>1, <2>2 DEF OtherIsHeard
  <1> QED  BY <1>1, <1>2, <1>3

\* The text to write depends on the answers and the file.
LEMMA RewrittenStays ==
  ASSUME file' = file, assigned' = assigned
  PROVE  Rewritten' = Rewritten /\ (Valid(Rewritten))' = Valid(Rewritten)
  <1>1. Changes' = Changes  BY DEF Changes
  <1>2. Rewritten' = Rewritten  BY <1>1 DEF Rewritten
  <1> QED  BY <1>2 DEF Valid

LEMMA StagedIsValidKept ==
  ASSUME ToolInductive, [Next]_vars PROVE StagedIsValid'
  <1> SUFFICES ASSUME pc' = "rename" PROVE Valid(Rewritten)'
    BY DEF StagedIsValid
  <1>1. CASE pc = "rename"
    <2>1. file' = file /\ assigned' = assigned
      BY <1>1 DEF Next, ToolStep, Program, Begin, Hear, Deaf, Watch, Decide, Listened, SendMove,
         Sendable, Torn, Supervise, Arrive, Brake, Braked, Free, Unsendable, Answer, Write, Finish,
         Interrupt, Kill, Link, Inject, OtherStarts, Bench, vars, progress, paper, Stop, Unmoved,
         Tick, EndMove
    <2> QED  BY <1>1, <2>1, RewrittenStays DEF ToolInductive, StagedIsValid
  <1>2. CASE pc # "rename"
    <2>1. Write
      BY <1>2 DEF Next, ToolStep, Program, Begin, Hear, Deaf, Watch, Decide, SendMove, Sendable,
         Torn, Supervise, Arrive, Brake, Braked, Free, Unsendable, Answer, GoOn, Finish, Interrupt,
         Kill, Link, Inject, OtherStarts, Bench, vars, Stop, Tick, EndMove, SetOut, bus
    <2>2. file' = file /\ assigned' = assigned /\ Valid(Rewritten)
      BY <1>2, <2>1 DEF Write, Stage, Paper, Acceptable, Finish, progress
    <2> QED  BY <2>2, RewrittenStays
  <1> QED  BY <1>1, <1>2

-----------------------------------------------------------------------------
(* The theorems *)

LEMMA ToolInit == ASSUME Init PROVE ToolInductive
  <1> DEFINE First(k, load, ignores) ==
        [PowerUp EXCEPT !.load = load, !.stuck = (k = "stuck"), !.ignore_origin = ignores,
                        !.mode = IF cmd = "stop" THEN "speed" ELSE @,
                        !.target = IF cmd = "stop" THEN Margin ELSE 0]
  <1>0. \E k \in IF cmd \in {"identify", "jog"} THEN Kinds ELSE {"good"} :
        \E load \in IF cmd = "identify" /\ k \in {"stuck", "runaway"} THEN Loads ELSE {0} :
        \E ignores \in {b \in BOOLEAN : b => cmd = "bench"} :
          kind = [m \in Motor |-> k] /\ motor = [m \in Motor |-> First(k, load, ignores)]
    BY DEF Init
  <1> HIDE DEF First
  <1>1. PICK k \in Kinds \cup {"good"}, load \in Loads \cup {0}, ignores \in BOOLEAN :
          kind = [m \in Motor |-> k] /\ motor = [m \in Motor |-> First(k, load, ignores)]
    BY ONLY <1>0
  <1> DEFINE s == First(k, load, ignores)
  <1>2. load \in Int /\ ignores \in BOOLEAN  BY ToolAssumption
  <1>3. Margin \in Int  BY ToolConstants
  <1>4. PowerUp \in ServoRecord /\ PowerUp.mode = "idle" /\ PowerUp.error = FALSE
    BY ServoConstants DEF PowerUp, ServoRecord
  <1>5. s \in Servo /\ (cmd # "stop" => s.mode = "idle")
    <2>1. s \in ServoRecord  BY ONLY <1>2, <1>3, <1>4, ServoConstants DEF ServoRecord, First
    <2>2. s.error = FALSE /\ (cmd # "stop" => s.mode = "idle")  BY ONLY <1>4 DEF ServoRecord, First
    <2> QED  BY ONLY <2>1, <2>2 DEF Servo
  <1>6. motor = [m \in Motor |-> s]  BY <1>1
  <1> HIDE DEF s
  <1>7. MotorTypes  BY ONLY <1>5, <1>6 DEF MotorTypes
  <1>8. cmd # "stop" => \A m \in Motor : Idle(m)  BY ONLY <1>5, <1>6 DEF Idle
  <1>9. BusTypes
    <2>1. Len(<<>>) = 0 /\ <<>> \in Seq(StatusFrame)  OBVIOUS
    <2>2. kind \in [Motor -> Kinds \cup {"good"}]  BY ONLY <1>1
    <2>3. rx = <<>> /\ up \in BOOLEAN /\ other = "off" /\ lost \in BOOLEAN
      BY DEF Init
    <2>4. rx \in Seq(StatusFrame) /\ Len(rx) = 0 /\ Queue \in Nat  BY <2>1, <2>3, ToolConstants
    <2> QED  BY ONLY <2>2, <2>3, <2>4 DEF BusTypes
  <1>10. ids \in Seq(Nat) /\ (cmd # "stop" => ids \in Seq(Motor))
    <2>1. CASE ids = <<>>  BY ONLY <2>1, EmptySeq
    <2>2. CASE \E m \in Motor : ids = <<m>>
      <3>1. PICK m \in Motor : ids = <<m>>  BY <2>2
      <3>2. m \in Nat  BY ToolConstants
      <3> QED  BY ONLY <3>1, <3>2
    <2>3. ids = <<>> \/ \E m \in Motor : ids = <<m>>  BY DEF Init
    <2> QED  BY ONLY <2>1, <2>2, <2>3
  <1>11. StepTypes
    <2>1. /\ pc \in {"begin", "bench"} /\ cmd \in Commands /\ velocity \in Velocities \cup {0}
          /\ left = 0 /\ at = 1 /\ heard = [m \in Motor |-> "none"]
          /\ busy = FALSE /\ sent = FALSE /\ cut = FALSE /\ todo = <<>> /\ way = "next"
      BY DEF Init
    <2>2. todo \in Seq(Nat)  BY ONLY <2>1, EmptySeq
    <2>3. heard \in [Motor -> {"none", "ok", "fault"}]  BY ONLY <2>1
    <2>4. busy \in BOOLEAN /\ sent \in BOOLEAN /\ cut \in BOOLEAN  BY ONLY <2>1
    <2>5. left \in Nat /\ at \in Nat \ {0} /\ way \in {"next", "exit"}  BY ONLY <2>1
    <2>6. pc \in {"begin", "listen", "ask", "write", "rename", "done", "bench"} \cup Moving
      BY ONLY <2>1
    <2> QED  BY ONLY <1>10, <2>1, <2>2, <2>3, <2>4, <2>5, <2>6 DEF StepTypes
  <1>12. PaperTypes
    <2>1. /\ assigned = [j \in {} |-> 0] /\ file \in Files /\ temp = "none"
          /\ budget = Mishaps[cmd] /\ cmd \in Commands /\ astray = [m \in Motor |-> 0] /\ cause = "none"
      BY DEF Init
    <2>2. DOMAIN file \subseteq Joint  BY <2>1, ToolAssumption
    <2>3. Mishaps[cmd] \in Nat  BY <2>1, ToolConstants
    <2> QED  BY ONLY <2>1, <2>2, <2>3 DEF PaperTypes
  <1>13. Places  BY <1>10 DEF Init, Places, Moving
  <1>14. EndsTheMove /\ StopsAll /\ OtherIsHeard /\ StagedIsValid /\ EndsReleased
    BY DEF Init, EndsTheMove, StopsAll, OtherIsHeard, StagedIsValid, EndsReleased
  <1>15. DrivesOne /\ RestsBetween  BY <1>8 DEF DrivesOne, RestsBetween
  <1> QED  BY <1>7, <1>9, <1>11, <1>12, <1>13, <1>14, <1>15 DEF ToolInductive, ToolTypes

LEMMA ToolInductiveStays == ToolInductive /\ [Next]_vars => ToolInductive'
  BY MotorTypesKept, BusTypesKept, StepTypesKept, PaperTypesKept, PlacesKept, TodoKept, DrivesOneKept,
     RestsBetweenKept, StopsAllKept, EndsReleasedKept, OtherIsHeardKept, StagedIsValidKept, CommandKept
     DEF ToolInductive, ToolTypes, EndsTheMove

\* The inductive invariant of cubemars_tool: only the motor on the move is driven, every ending
\* releases it or what it was to stop, and a program that commands the motors is heard.
THEOREM ToolInductiveHolds == Spec => []ToolInductive
  <1>1. Init => ToolInductive  BY ToolInit
  <1> QED  BY <1>1, ToolInductiveStays, PTL DEF Spec

LEMMA InductiveIsSafe == ToolInductive => ToolSafety
  <1> SUFFICES ASSUME ToolInductive PROVE ToolSafety
    OBVIOUS
  <1>1. TypeOK
    <2>1. MotorTypes /\ BusTypes /\ StepTypes /\ PaperTypes  BY DEF ToolInductive, ToolTypes
    <2>2. \A m \in Motor : /\ DOMAIN motor[m] = DOMAIN PowerUp
                            /\ motor[m].mode \in {"idle", "speed", "current", "brake", "position"}
                            /\ Abs(motor[m].encoder) <= MaxPosition
                            /\ motor[m].quiet \in 0..Timeout + 1
      <3> SUFFICES ASSUME NEW m \in Motor
                   PROVE  /\ DOMAIN motor[m] = DOMAIN PowerUp
                          /\ motor[m].mode \in {"idle", "speed", "current", "brake", "position"}
                          /\ Abs(motor[m].encoder) <= MaxPosition
                          /\ motor[m].quiet \in 0..Timeout + 1
        OBVIOUS
      <3>1. motor[m] \in ServoRecord  BY <2>1 DEF MotorTypes, Servo
      <3>2. motor[m].encoder \in Reach /\ motor[m].mode \in Modes /\ motor[m].quiet \in 0..Timeout + 1
        BY ONLY <3>1 DEF ServoRecord
      <3>3. Abs(motor[m].encoder) <= MaxPosition  BY <3>2 DEF Reach, Abs
      <3>4. DOMAIN motor[m] = DOMAIN PowerUp  BY <3>1 DEF ServoRecord, PowerUp
      <3> QED  BY <3>2, <3>3, <3>4 DEF Modes
    <2>3. \A i \in DOMAIN rx : rx[i].id \in Motor
      <3>1. \A i \in DOMAIN rx : rx[i] \in StatusFrame  BY ONLY <2>1 DEF BusTypes
      <3> QED  BY ONLY <3>1 DEF StatusFrame
    <2> QED  BY <2>1, <2>2, <2>3 DEF TypeOK, BusTypes, StepTypes, PaperTypes
  <1>2. OneAtATime
    <2> SUFFICES ASSUME cmd \in {"identify", "jog"}, other = "off"
                 PROVE  Cardinality({m \in Motor : ~Idle(m)}) <= 1
      BY DEF OneAtATime
    <2> DEFINE Driving == {m \in Motor : ~Idle(m)}
    <2>1. Driving \subseteq {Head(ids)}  BY DEF ToolInductive, DrivesOne
    <2>2. IsFiniteSet({Head(ids)}) /\ Cardinality({Head(ids)}) = 1  BY FS_Singleton
    <2> HIDE DEF Driving
    <2>3. Cardinality(Driving) <= Cardinality({Head(ids)})  BY ONLY <2>1, <2>2, FS_Subset
    <2> QED  BY <2>2, <2>3 DEF Driving
  <1>3. NoFight  BY DEF ToolInductive, OtherIsHeard, NoFight, Moving
  <1> QED  BY <1>1, <1>2, <1>3 DEF ToolSafety

\* identify and jog drive one motor at a time, and none beside a program that they can hear
\* command the motors, for any motors, speeds and files.
THEOREM ToolIsSafe == Spec => []ToolSafety
  BY ToolInductiveHolds, InductiveIsSafe, PTL

\* However the tool ended, unless its ending was itself cut short, every motor it drove and every
\* motor stop was to stop is released.
THEOREM ToolReleases == Spec => []EndsReleased
  <1>1. ToolInductive => EndsReleased  BY DEF ToolInductive
  <1> QED  BY <1>1, ToolInductiveHolds, PTL

\* motors.yaml only changes as a whole, to a file that is valid and holds what was answered.
THEOREM FileIsAsAnswered == Spec => WrittenAsAnswered
  <1> DEFINE AsAnswered ==
        file' # file =>
          /\ Valid(file') /\ DOMAIN file' = DOMAIN file
          /\ \A j \in DOMAIN file : file'[j] = IF j \in DOMAIN assigned THEN assigned[j] ELSE file[j]
  <1>1. ToolInductive /\ [Next]_vars => [AsAnswered]_vars
    <2> SUFFICES ASSUME ToolInductive, [Next]_vars, file' # file PROVE AsAnswered
      BY DEF AsAnswered
    <2>1. pc = "rename" /\ file' = Rewritten
      BY DEF Next, ToolStep, Program, Begin, Hear, Deaf, Watch, Decide, SendMove, Sendable, Torn,
         Supervise, Arrive, Brake, Braked, Free, Unsendable, Answer, Write, Stage, Paper, Interrupt,
         Kill, Link, Inject, OtherStarts, Bench, vars, paper, Stop, Unmoved, Tick
    <2>2. Valid(file')  BY <2>1 DEF ToolInductive, StagedIsValid
    <2>3. /\ DOMAIN file' = DOMAIN file
          /\ \A j \in DOMAIN file : file'[j] = IF j \in Changes THEN assigned[j] ELSE file[j]
      BY ONLY <2>1 DEF Rewritten
    <2>4. \A j \in DOMAIN file :
            file'[j] = IF j \in DOMAIN assigned THEN assigned[j] ELSE file[j]
      BY ONLY <2>3 DEF Changes
    <2> QED  BY <2>2, <2>3, <2>4
  <1> QED  BY <1>1, ToolInductiveHolds, PTL DEF Spec, WrittenAsAnswered

-----------------------------------------------------------------------------
(* What the supervision of a move sees, and how far the motor gets meanwhile *)

\* A runaway drive turns at full speed, if it turns.
AtFullSpeed(v) == v = FullSpeed \/ v = -FullSpeed

\* identify and jog send speeds, no faster than they may and as many as the move has.
SpeedsOnly ==
  cmd \in {"identify", "jog"} =>
    /\ \A m \in Motor : motor[m].mode \in {"idle", "speed"}
    /\ cmd = "jog" => /\ \E m \in Motor : ids = <<m>>
                      /\ pc \notin {"begin", "done"} => Abs(velocity) <= MaxVelocity
    /\ pc \in Moving => at <= Len(Speeds) + 1
    /\ pc = "move" /\ sent => at <= Len(Speeds)

\* Only identify asks.
JogEnds ==
  cmd = "jog" => pc \notin {"ask", "write", "rename"} /\ (pc \in Moving => way = "exit")

\* How a motor turns stays what it is.
Natures ==
  \A m \in Motor : /\ motor[m].stuck = (kind[m] = "stuck")
                   /\ kind[m] = "runaway" => cmd \in {"identify", "jog"}

\* A motor that runs away is the one on the move, and the frame that tells is still to be read
\* or has been: then it was let go, or what else ended the move brakes it for its time.
OnlyTheMoved ==
  other = "off" => \A m \in Motor : astray[m] > 0 =>
    /\ kind[m] = "runaway" /\ ids # <<>> /\ m = Head(ids)
    /\ pc \in Moving \cup {"ask", "done"}
Told(m) == \E i \in DOMAIN rx : rx[i].id = m /\ AtFullSpeed(rx[i].speed)
ToldInTime ==
  other = "off" => \A m \in Motor :
    /\ pc \in {"begin", "listen", "move"} => cause = "none"
    /\ pc = "move" => astray[m] <= 1 /\ (astray[m] = 1 => Told(m))
    /\ pc = "brake" => cause # "runaway" /\ astray[m] + left <= 1 + BrakeTicks
    /\ pc \in {"release", "ask", "done"} =>
         astray[m] <= IF cause = "runaway" THEN 1 ELSE 1 + BrakeTicks

\* While nothing goes wrong, the motors that wait for their move are as they were.
Calm == cmd \in {"identify", "jog"} /\ budget = Mishaps[cmd]
Pristine(m) == motor[m].encoder = 0 /\ motor[m].speed = 0 /\ Idle(m)
Waits(m) ==
  pc \in {"begin", "listen"} \/ (pc \in Moving \cup {"ask"} /\ m \in ToSet(Tail(ids)))
Ascends(list) == \A i, j \in DOMAIN list : i < j => list[i] < list[j]
Undisturbed ==
  Calm =>
    /\ up /\ other = "off"
    /\ \A m \in Motor : ~motor[m].error /\ ~motor[m].silent /\ (Waits(m) => Pristine(m))
    /\ pc \in Moving \cup {"ask"} => start = 0 /\ Ascends(ids)

\* The motor on the move was told the speed of this tick.
OnCourse ==
  Calm /\ ids # <<>> =>
    LET s == motor[Head(ids)] IN
    /\ pc = "move" /\ sent => s.mode = "speed" /\ s.target = Speeds[at] /\ s.quiet = 0
    /\ pc = "brake" /\ todo = <<>> => s.mode = "speed" /\ s.target = 0 /\ s.quiet = 0

\* How fast a motor that is told a speed turns, and no faster than that in a jog.
Effective(how, v) ==
  IF how = "stuck" THEN 0 ELSE IF how = "fast" THEN v + Toward(v) * Larger(Margin, Abs(v)) ELSE v
Fastest(v) == IF v = 0 THEN 0 ELSE Abs(v) + Larger(Margin, Abs(v))
JogTravel ==
  Calm /\ cmd = "jog" /\ pc \in Moving =>
    LET h == Head(ids) IN
    IF kind[h] = "runaway"
    THEN Abs(motor[h].encoder) <= FullSpeed * astray[h] /\ (astray[h] > 0 => motor[h].speed # 0)
    ELSE Abs(motor[h].encoder) <= (at - 1) * Fastest(velocity)

\* Where identify's move is after so many ticks of a round: still in the pause, on its way out or
\* on its way back.
Leg(how) ==
  LET f[k \in 0..Len(Profile)] == IF k = 0 THEN 0 ELSE f[k - 1] + Effective(how, Profile[k]) IN f
Excursion(how, p) ==
  LET n == Len(Profile) IN
  IF p <= PauseTicks THEN 0
  ELSE IF p <= PauseTicks + n THEN Leg(how)[p - PauseTicks]
  ELSE Leg(how)[n] - Leg(how)[p - PauseTicks - n]
Ticks(i) == (i + PauseTicks) % Len(Round)
WiggleTravel ==
  Calm /\ cmd = "identify" /\ ids # <<>> /\ kind[Head(ids)] # "runaway" =>
    LET s == motor[Head(ids)] IN
    /\ pc = "move" => s.encoder = Excursion(kind[Head(ids)], Ticks(at - 1))
    /\ pc = "brake" /\ cause = "none" => s.encoder = 0 /\ (left < BrakeTicks => s.speed = 0)
    /\ pc \in {"release", "ask"} /\ cause = "none" => s.encoder = 0 /\ s.speed = 0

-----------------------------------------------------------------------------
LEMMA SupervisionConstants ==
  /\ Cardinality(Motor) <= Queue /\ MaxVelocity \in Nat /\ BrakeTicks \in Nat /\ BrakeTicks > 0
  /\ Profile \in Seq(Int) /\ Profile # <<>> /\ Len(Profile) \in Nat \ {0}
<1>1. Profile \in Seq(Int) /\ BrakeTicks \in Nat
  BY ToolConstants
<1>2. Cardinality(Motor) <= Queue /\ MaxVelocity \in Nat /\ BrakeTicks > 0 /\ Profile # <<>>
  BY SupervisionAssumption
<1>3. Len(Profile) \in Nat \ {0}
  BY <1>1, <1>2, EmptySeq
<1> QED
  BY <1>1, <1>2, <1>3

\* How long a jog lasts: its duration, or a tick more than the travel limit takes.
LEMMA CutDuration ==
  ASSUME NEW v \in Int, NEW short \in BOOLEAN, NEW n,
         n = IF short /\ Duration * Abs(v) > MaxTravel THEN -((-MaxTravel) \div Abs(v)) ELSE Duration
  PROVE  /\ n \in Nat
         /\ short /\ v # 0 => n * Abs(v) <= MaxTravel + Abs(v) - 1 /\ n <= (MaxTravel \div Abs(v)) + 1
<1>1. Duration \in Nat /\ MaxTravel \in Nat
  BY ToolConstants
<1>2. PICK a \in Nat : a = Abs(v)
  BY TowardType
<1>3. v # 0 => a > 0
  BY <1>2 DEF Abs
<1>4. CASE short /\ Duration * Abs(v) > MaxTravel
  <2>1. a > 0
    BY <1>1, <1>2, <1>4
  <2>2. PICK q \in Int : q = (-MaxTravel) \div a
    BY <1>1, <2>1
  <2>3. a * q <= -MaxTravel /\ -MaxTravel < a * q + a /\ q <= 0
    BY ONLY <1>1, <2>1, <2>2, a \in Nat
  <2>4. PICK d \in Int : d = MaxTravel \div a
    BY <1>1, <2>1
  <2>5. a * d <= MaxTravel /\ MaxTravel < a * d + a
    BY ONLY <1>1, <2>1, <2>4, a \in Nat
  <2>6. n = -q
    BY <1>2, <1>4, <2>2
  <2>7. n * a = -(a * q) /\ n \in Nat
    BY ONLY <2>3, <2>6, q \in Int, a \in Nat
  <2>8. -q <= d + 1
    <3> SUFFICES ASSUME -q >= d + 2 PROVE FALSE
      OBVIOUS
    <3>1. -q >= d + 2
      OBVIOUS
    <3>2. a * (-q) >= a * (d + 2)
      BY ONLY <2>1, <3>1, a \in Nat, q \in Int, d \in Int
    <3>3. a * (d + 2) = a * d + a + a /\ a * (-q) = -(a * q)
      BY ONLY a \in Nat, q \in Int, d \in Int
    <3> QED BY ONLY <1>1, <2>1, <2>3, <2>5, <3>2, <3>3, a \in Nat, q \in Int, d \in Int, a * q \in Int, a * d \in Int
  <2> QED
    BY ONLY <1>1, <1>2, <2>1, <2>3, <2>4, <2>6, <2>7, <2>8, a \in Nat, q \in Int, d \in Int, a * q \in Int
<1>5. CASE ~(short /\ Duration * Abs(v) > MaxTravel)
  <2>1. n = Duration
    BY <1>5
  <2>2. ASSUME short, v # 0
        PROVE  n * a <= MaxTravel + a - 1 /\ n <= (MaxTravel \div a) + 1
    <3>1. Duration * a <= MaxTravel /\ a > 0
      BY <1>1, <1>2, <1>3, <1>5, <2>2
    <3>2. PICK d \in Int : d = MaxTravel \div a
      BY <1>1, <3>1
    <3>3. a * d <= MaxTravel /\ MaxTravel < a * d + a
      BY ONLY <1>1, <3>1, <3>2, a \in Nat
    <3>4. Duration <= d
      <4> SUFFICES ASSUME Duration >= d + 1 PROVE FALSE
        BY <1>1
      <4>1. Duration >= d + 1
        OBVIOUS
      <4>2. a * Duration >= a * (d + 1)
        BY ONLY <1>1, <3>1, <4>1, a \in Nat, d \in Int
      <4>3. a * (d + 1) = a * d + a /\ a * Duration = Duration * a
        BY ONLY <1>1, a \in Nat, d \in Int
      <4> QED BY ONLY <1>1, <3>1, <3>3, <4>2, <4>3, a \in Nat, d \in Int, a * d \in Int, Duration * a \in Int
    <3> QED BY ONLY <1>1, <2>1, <3>1, <3>2, <3>4, a \in Nat, d \in Int, Duration * a \in Int
  <2> QED BY <1>1, <1>2, <2>1, <2>2
<1> QED
  BY <1>4, <1>5

LEMMA SpeedsCount == velocity \in Int => Len(Speeds) \in Nat
<1> SUFFICES ASSUME velocity \in Int PROVE Len(Speeds) \in Nat
  OBVIOUS
<1>1. CASE cmd = "identify"
  <2>1. PICK r \in Nat : r = Len(Round) /\ r >= PauseTicks
    BY OutAndBackType, ConcatProperties, ToolConstants DEF Round
  <2>2. PICK n \in Int : n = Repeat * r - PauseTicks
    BY ToolConstants
  <2>3. n \in Nat
    <3>1. Repeat * r = r + (Repeat - 1) * r /\ (Repeat - 1) * r \in Nat
      BY ToolConstants
    <3> QED BY <2>1, <2>2, <3>1, ToolConstants
  <2>4. Speeds = [k \in 1..n |-> Round[1 + ((k + PauseTicks - 1) % r)]]
    BY <1>1, <2>1, <2>2 DEF Speeds, Wiggle
  <2> QED BY ONLY <2>3, <2>4
<1>2. CASE cmd # "identify"
  <2>2. PICK n : n = JogTicks(Head(ids))
    OBVIOUS
  <2>3. n \in Nat
    <3>1. CASE JointOf(Head(ids)) \in Gizmo
      BY <2>2, <3>1, CutDuration, TRUE \in BOOLEAN DEF JogTicks
    <3>2. CASE JointOf(Head(ids)) \notin Gizmo
      BY <2>2, <3>2, CutDuration, FALSE \in BOOLEAN DEF JogTicks
    <3> QED BY <3>1, <3>2
  <2>4. Speeds = [k \in 1..n |-> velocity]
    BY ONLY <1>2, <2>2 DEF Speeds
  <2> QED BY ONLY <2>3, <2>4
<1> QED BY <1>1, <1>2

LEMMA SpeedsCountNext == (velocity \in Int => Len(Speeds) \in Nat)'
  BY SpeedsCount, PTL

-----------------------------------------------------------------------------
(* What changes one motor *)

LEMMA MotorChanges ==
  ASSUME ToolInductive, [Next]_vars, NEW m \in Motor
  PROVE  \/ motor'[m] = motor[m]
         \/ Tick /\ motor'[m] = Ticked(m)
         \/ SendMove /\ up /\ m = Head(ids) /\ motor'[m] = Command(motor[m], Speed(Speeds[at]))
         \/ Brake /\ up /\ todo # <<>> /\ m = Head(todo) /\ motor'[m] = Command(motor[m], Speed(0))
         \/ Free /\ up /\ todo # <<>> /\ m = Head(todo) /\ motor'[m] = Command(motor[m], ZeroCurrent)
         \/ Inject /\ \E s \in Injected(motor[m]) : motor'[m] = s
         \/ Bench /\ \E c \in Frames : motor'[m] = Command(motor[m], c)
<1>0. motor \in [Motor -> Servo]
  BY DEF ToolInductive, ToolTypes, MotorTypes
<1>1. CASE Tick
  BY <1>1 DEF Tick
<1>2. CASE SendMove
  BY <1>2 DEF SendMove, Sendable, Torn, Sent
<1>3. CASE Brake
  BY <1>3 DEF Brake, Sent
<1>4. CASE Free
  BY <1>4 DEF Free, LetGo, Sent
<1>5. CASE Inject
  <2>1. PICK k \in Exposed : \E s \in Injected(motor[k]) : motor' = [motor EXCEPT ![k] = s]
    BY <1>5 DEF Inject
  <2>2. PICK s \in Injected(motor[k]) : motor' = [motor EXCEPT ![k] = s]
    BY <2>1
  <2>3. motor'[m] = IF k = m THEN s ELSE motor[m]
    BY ONLY <1>0, <2>2, m \in Motor
  <2> QED BY <1>5, <2>2, <2>3
<1>6. CASE Bench
  <2>1. PICK k \in BenchMotor, c \in Frames : motor' = [motor EXCEPT ![k] = Command(motor[k], c)]
    BY <1>6 DEF Bench
  <2>2. motor'[m] = IF k = m THEN Command(motor[m], c) ELSE motor[m]
    BY ONLY <1>0, <2>1, m \in Motor
  <2> QED BY <1>6, <2>2
<1>7. CASE motor' = motor
  BY <1>7
<1> QED
  BY <1>1, <1>2, <1>3, <1>4, <1>5, <1>6, <1>7, MotorKept DEF Next, ToolStep, Program

\* A command moves nothing by itself, and speaks for a new timeout.
LEMMA CommandKeeps ==
  ASSUME NEW s \in Servo, NEW c, Frame(c)
  PROVE  LET t == Command(s, c) IN
         /\ t.stuck = s.stuck /\ t.silent = s.silent /\ t.error = s.error
         /\ t.speed = s.speed /\ t.encoder = s.encoder /\ t.quiet = 0
<1> DEFINE h == [s EXCEPT !.quiet = 0]
<1>1. /\ h \in ServoRecord /\ h.error = s.error /\ h.stuck = s.stuck /\ h.silent = s.silent
      /\ h.speed = s.speed /\ h.encoder = s.encoder /\ h.quiet = 0
  BY DEF Servo, ServoRecord
<1>2. \/ Command(s, c) = h
      \/ c.mode = "origin" /\ Command(s, c) = SetOrigin(h, c.value)
      \/ c.mode # "origin" /\ Command(s, c) = Driven(h, c)
  BY DEF Command
<1> HIDE DEF h
<1>3. LET t == SetOrigin(h, c.value) IN
      /\ t.stuck = h.stuck /\ t.silent = h.silent /\ t.error = h.error
      /\ t.speed = h.speed /\ t.encoder = h.encoder /\ t.quiet = h.quiet
  BY <1>1 DEF ServoRecord, SetOrigin
<1>4. ASSUME c.mode # "origin"
      PROVE  LET t == Driven(h, c) IN
             /\ t.stuck = h.stuck /\ t.silent = h.silent /\ t.error = h.error
             /\ t.speed = h.speed /\ t.encoder = h.encoder /\ t.quiet = h.quiet
  <2>1. c.mode \in {"duty", "speed", "brake", "current", "position", "position_speed"}
    BY <1>4 DEF Frame
  <2> QED BY <1>1, <2>1 DEF ServoRecord, Driven
<1> QED
  BY <1>1, <1>2, <1>3, <1>4

\* A drive without a fault takes the speed it is told.
LEMMA SpeedCommand ==
  ASSUME NEW s \in Servo, NEW v \in Int
  PROVE  LET t == Command(s, Speed(v)) IN
         /\ ~s.error => t.mode = "speed" /\ t.target = v
         /\ t.mode \in {s.mode, "speed"}
<1> DEFINE h == [s EXCEPT !.quiet = 0]
<1>1. h \in ServoRecord /\ h.mode = s.mode
  BY DEF Servo, ServoRecord
<1>2. Command(s, Speed(v)) = IF s.error THEN h ELSE Driven(h, Speed(v))
  BY DEF Command, Speed
<1> HIDE DEF h
<1>3. Driven(h, Speed(v)).mode = "speed" /\ Driven(h, Speed(v)).target = v
  BY <1>1 DEF ServoRecord, Driven, Speed
<1> QED
  BY <1>1, <1>2, <1>3

LEMMA InjectedKeeps ==
  ASSUME NEW s \in Servo, NEW t \in Injected(s)
  PROVE  t.stuck = s.stuck
<1>1. s \in ServoRecord /\ s.error \in BOOLEAN
  BY DEF Servo, ServoRecord
<1>2. \A b \in BOOLEAN : Fault(s, b).stuck = s.stuck
  BY <1>1 DEF Fault, Release, ServoRecord
<1>3. [s EXCEPT !.silent = ~@].stuck = s.stuck
  BY <1>1 DEF ServoRecord
<1>4. PowerCycle(s).stuck = s.stuck
  BY <1>1 DEF PowerCycle, Release, ServoRecord
<1>5. Move(s, Margin + 1).stuck = s.stuck
  BY <1>1 DEF Move, ServoRecord
<1>6. \/ t = Fault(s, ~s.error) \/ t = [s EXCEPT !.silent = ~@] \/ t = PowerCycle(s)
      \/ t = Move(s, Margin + 1)
  BY DEF Injected
<1> QED
  BY <1>1, <1>2, <1>3, <1>4, <1>5, <1>6

\* A tick of a motor nobody else commands: it is released when its command is too old, else it
\* keeps what it was told and turns.
LEMMA TickKeeps ==
  ASSUME MotorTypes, NEW m \in Motor
  PROVE  /\ Ticked(m).stuck = motor[m].stuck
         /\ Ticked(m).silent = motor[m].silent /\ Ticked(m).error = motor[m].error
         /\ Ticked(m).mode \in {motor[m].mode, "speed", "idle"}
<1> DEFINE told == IF other # "off" /\ up THEN Command(motor[m], Speed(0)) ELSE motor[m]
           due == Expire(told)
<1>1. motor[m] \in Servo
  BY DEF MotorTypes
<1>2. /\ told \in Servo /\ told.stuck = motor[m].stuck
      /\ told.silent = motor[m].silent /\ told.error = motor[m].error
      /\ told.mode \in {motor[m].mode, "speed"}
  BY <1>1, FramesSent, CommandServo, CommandKeeps, SpeedCommand, 0 \in Int DEF Frame
<1>3. Ticked(m) = Quieter(Move(due, Actual(m, due)))
  BY DEF Ticked
<1> HIDE DEF told
<1>4. /\ due \in Servo /\ due.stuck = told.stuck /\ due.silent = told.silent
      /\ due.error = told.error /\ due.mode \in {told.mode, "idle"}
  <2>1. due \in Servo /\ due.mode \in {told.mode, "idle"}
    BY <1>2, ExpireServo
  <2> QED BY <1>2, <2>1 DEF Expire, Release, Servo, ServoRecord
<1> HIDE DEF due
<1>5. PICK v \in Int : v = Actual(m, due)
  BY <1>4, ActualType
<1>6. /\ Move(due, v) \in Servo /\ Move(due, v).mode = due.mode
      /\ Move(due, v).stuck = due.stuck /\ Move(due, v).silent = due.silent
      /\ Move(due, v).error = due.error
  <2>1. Move(due, v) \in Servo /\ Move(due, v).mode = due.mode
    BY <1>4, MoveServo
  <2> QED BY <1>4, <2>1 DEF Move, Servo, ServoRecord
<1>7. PICK t \in Servo : t = Move(due, v)
  BY <1>6
<1>8. /\ Quieter(t).mode = t.mode /\ Quieter(t).stuck = t.stuck /\ Quieter(t).silent = t.silent
      /\ Quieter(t).error = t.error
  BY DEF Quieter, Servo, ServoRecord
<1> QED
  BY <1>2, <1>3, <1>4, <1>5, <1>6, <1>7, <1>8

-----------------------------------------------------------------------------
(* What identify and jog send *)

LEMMA NaturesKept ==
  ASSUME ToolInductive, Natures, [Next]_vars PROVE Natures'
<1>1. kind' = kind /\ cmd' = cmd /\ MotorTypes
  BY CommandKept DEF ToolInductive, ToolTypes
<1>2. ASSUME NEW m \in Motor PROVE motor'[m].stuck = motor[m].stuck
  <2>1. motor[m] \in Servo
    BY <1>1 DEF MotorTypes
  <2>2. \A c : Frame(c) => Command(motor[m], c).stuck = motor[m].stuck
    BY <2>1, CommandKeeps
  <2>3. CASE SendMove /\ motor'[m] = Command(motor[m], Speed(Speeds[at]))
    <3>1. velocity \in Int /\ at \in 1..Len(Speeds)
      BY <2>3, ToolConstants DEF SendMove, Sendable, Torn, ToolInductive, ToolTypes, StepTypes
    <3>2. Speeds[at] \in Int
      BY <3>1, SpeedsType
    <3> QED BY <2>2, <2>3, <3>2, FramesSent
  <2>4. CASE Tick /\ motor'[m] = Ticked(m)
    BY <1>1, <2>4, TickKeeps
  <2>5. CASE \E s \in Injected(motor[m]) : motor'[m] = s
    BY <2>1, <2>5, InjectedKeeps
  <2>6. CASE \E c \in Frames : motor'[m] = Command(motor[m], c)
    BY <2>2, <2>6, FramesSent
  <2>7. CASE motor'[m] \in {motor[m], Command(motor[m], Speed(0)), Command(motor[m], ZeroCurrent)}
    BY <2>2, <2>7, FramesSent, 0 \in Int
  <2> QED BY <2>3, <2>4, <2>5, <2>6, <2>7, MotorChanges
<1> QED
  BY <1>1, <1>2 DEF Natures

\* The speeds of a move depend on what does not change during it.
LEMMA SpeedsStay ==
  ASSUME cmd' = cmd, velocity' = velocity, file' = file, ids' = ids
  PROVE  Speeds' = Speeds
<1>1. Known' = Known /\ (JointOf(Head(ids)))' = JointOf(Head(ids))
  BY DEF Known, JointOf, Valid
<1>2. (JogTicks(Head(ids)))' = JogTicks(Head(ids))
  BY <1>1 DEF JogTicks
<1> QED
  BY <1>2 DEF Speeds

\* A step of a move that does not end the wait for its tick.
LEMMA OnTheMove ==
  ASSUME ToolInductive, [Next]_vars, pc' \in Moving, cmd \in {"identify", "jog"}
  PROVE  \/ /\ Decide \/ Answer
            /\ pc' = "move" /\ at' = 1 /\ sent' = FALSE /\ file' = file
         \/ pc \in Moving /\ ids' = ids /\ file' = file /\ (at' = at \/ (Tick /\ pc = "move" /\ at' = at + 1))
<1>1. CASE Decide
  BY <1>1 DEF Decide, Stop, Finish, SetOut, Moving, paper
<1>2. CASE Answer
  BY <1>2 DEF Answer, GoOn, Moving, paper
<1>3. CASE ToolStep /\ ~Decide /\ ~Answer
  BY <1>3 DEF ToolStep, Program, Begin, Hear, Deaf, Watch, Listened, SendMove, Sendable, Torn,
     Supervise, Arrive, Brake, Braked, Free, Unsendable, Write, Stage, Stop, Finish, EndMove,
     Unmoved, progress, paper, bus, Moving
<1>4. CASE Tick
  BY <1>4 DEF Tick, paper
<1>5. CASE Interrupt \/ Kill \/ Link \/ Inject \/ OtherStarts \/ Bench \/ UNCHANGED vars
  BY <1>5 DEF Interrupt, Kill, Link, Inject, OtherStarts, Bench, vars, Stop, Finish, EndMove,
     progress, paper, Moving
<1> QED
  BY <1>1, <1>2, <1>3, <1>4, <1>5 DEF Next

LEMMA SpeedsOnlyKept ==
  ASSUME ToolInductive, SpeedsOnly, [Next]_vars PROVE SpeedsOnly'
<1> SUFFICES ASSUME cmd' \in {"identify", "jog"}
             PROVE  /\ \A m \in Motor : motor'[m].mode \in {"idle", "speed"}
                    /\ cmd' = "jog" => /\ \E m \in Motor : ids' = <<m>>
                                       /\ pc' \notin {"begin", "done"} => Abs(velocity') <= MaxVelocity
                    /\ pc' \in Moving => at' <= Len(Speeds') + 1
                    /\ pc' = "move" /\ sent' => at' <= Len(Speeds')
  BY DEF SpeedsOnly
<1>0. /\ cmd' = cmd /\ velocity' = velocity /\ cmd \in {"identify", "jog"} /\ velocity \in Int
      /\ MotorTypes /\ at \in Nat /\ Places
  BY CommandKept, ToolConstants DEF ToolInductive, ToolTypes, StepTypes
<1>1. ASSUME NEW m \in Motor PROVE motor'[m].mode \in {"idle", "speed"}
  <2>1. motor[m] \in Servo /\ motor[m].mode \in {"idle", "speed"}
    BY <1>0 DEF MotorTypes, SpeedsOnly
  <2>2. \A v \in Int : Command(motor[m], Speed(v)).mode \in {"idle", "speed"}
    BY <2>1, SpeedCommand
  <2>3. CASE SendMove /\ motor'[m] = Command(motor[m], Speed(Speeds[at]))
    <3>1. at \in 1..Len(Speeds)
      BY <2>3 DEF SendMove, Sendable, Torn, ToolInductive, ToolTypes, StepTypes
    <3>2. Speeds[at] \in Int
      BY <1>0, <3>1, SpeedsType
    <3> QED BY <2>2, <2>3, <3>2
  <2>4. CASE Tick /\ motor'[m] = Ticked(m)
    BY <1>0, <2>1, <2>4, TickKeeps
  <2>5. CASE \E s \in Injected(motor[m]) : motor'[m] = s
    BY <2>1, <2>5, InjectedServo
  <2>6. CASE Bench
    BY <1>0, <2>6 DEF Bench, Places
  <2>7. CASE motor'[m] \in {motor[m], Command(motor[m], Speed(0)), Command(motor[m], ZeroCurrent)}
    BY <2>1, <2>2, <2>7, ZeroCurrentReleases, 0 \in Int
  <2> QED BY <2>3, <2>4, <2>5, <2>6, <2>7, MotorChanges
<1>2. ASSUME cmd = "jog" PROVE \E m \in Motor : ids' = <<m>>
  <2>1. PICK m \in Motor : ids = <<m>>
    BY <1>0, <1>2 DEF SpeedsOnly
  <2>2. Len(ids) = 1
    BY <2>1
  <2>3. CASE Decide
    BY <1>2, <2>1, <2>3 DEF Decide, Stop, SetOut, Chosen, progress
  <2>4. CASE ~Decide
    BY <2>1, <2>2, <2>4, IdsKept
  <2> QED BY <2>3, <2>4
<1>3. ASSUME cmd = "jog", pc' \notin {"begin", "done"} PROVE Abs(velocity') <= MaxVelocity
  <2>1. CASE pc \notin {"begin", "done"}
    BY <1>0, <1>3, <2>1 DEF SpeedsOnly
  <2>2. CASE pc \in {"begin", "done"}
    <3>1. Begin /\ ~Refused
      BY <1>0, <1>3, <2>2 DEF Next, ToolStep, Program, Begin, Hear, Deaf, Watch, Decide, Listened,
         SendMove, Sendable, Torn, Supervise, Arrive, Brake, Braked, Free, Unsendable, Answer,
         Write, Interrupt, Kill, Link, Inject, OtherStarts, Bench, vars, Stop, Finish, Tick
    <3>2. ~(Abs(velocity) > MaxVelocity)
      BY <1>3, <3>1 DEF Refused
    <3>3. Abs(velocity) \in Nat /\ MaxVelocity \in Nat
      BY <1>0, TowardType, SupervisionConstants
    <3> QED BY <1>0, <3>2, <3>3
  <2> QED BY <2>1, <2>2
<1>4. ASSUME pc' \in Moving
      PROVE  at' <= Len(Speeds') + 1 /\ (pc' = "move" /\ sent' => at' <= Len(Speeds'))
  <2>1. Len(Speeds') \in Nat /\ Len(Speeds) \in Nat
    BY <1>0, SpeedsCount, SpeedsCountNext
  <2>2. CASE pc' = "move" /\ at' = 1 /\ sent' = FALSE
    BY <2>1, <2>2
  <2>3. CASE pc \in Moving /\ ids' = ids /\ file' = file
               /\ (at' = at \/ (Tick /\ pc = "move" /\ at' = at + 1))
    <3>1. Speeds' = Speeds
      BY <1>0, <2>3, SpeedsStay
    <3>2. at <= Len(Speeds) + 1 /\ (pc = "move" /\ sent => at <= Len(Speeds))
      BY <1>0, <2>3 DEF SpeedsOnly
    <3>3. CASE Tick
      <4>1. sent' = FALSE /\ (pc = "move" => sent)
        BY <3>3 DEF Tick, Due
      <4> QED BY <1>0, <2>1, <2>3, <3>1, <3>2, <4>1
    <3>4. CASE ~Tick
      <4>1. pc' = "move" /\ sent' => (pc = "move" /\ sent) \/ at <= Len(Speeds)
        BY <2>3, <3>4 DEF Next, ToolStep, Program, Begin, Hear, Deaf, Watch, Decide, Listened,
           SendMove, Sendable, Torn, Supervise, Arrive, Brake, Braked, Free, Unsendable, Answer,
           Write, Interrupt, Kill, Link, Inject, OtherStarts, Bench, vars, Stop, Finish, EndMove,
           Moving
      <4> QED BY <1>0, <2>1, <2>3, <3>1, <3>2, <3>4, <4>1
    <3> QED BY <3>3, <3>4
  <2> QED BY <1>0, <1>4, <2>2, <2>3, OnTheMove
<1> QED
  BY <1>0, <1>1, <1>2, <1>3, <1>4 DEF Moving

-----------------------------------------------------------------------------
(* The speeds of a move of identify *)

\* A round is a pause, a leg out and the leg back.
LEMMA RoundAt ==
  /\ Round \in Seq(Int) /\ Len(Round) = PauseTicks + 2 * Len(Profile) /\ Len(Round) \in Nat \ {0}
  /\ \A i \in 1..Len(Round) :
       /\ i <= PauseTicks => Round[i] = 0
       /\ i > PauseTicks /\ i <= PauseTicks + Len(Profile) =>
            i - PauseTicks \in 1..Len(Profile) /\ Round[i] = Profile[i - PauseTicks]
       /\ i > PauseTicks + Len(Profile) =>
            /\ i - PauseTicks - Len(Profile) \in 1..Len(Profile)
            /\ Round[i] = -Profile[i - PauseTicks - Len(Profile)]
<1>1. PICK n \in Nat \ {0} : n = Len(Profile)
  BY SupervisionConstants
<1>2. PICK p \in Nat : p = PauseTicks
  BY ToolConstants
<1>3. PICK out \in Seq(Int) : out = Profile
  BY SupervisionConstants
<1>4. PICK back \in Seq(Int) :
        back = Backwards(out) /\ Len(back) = n /\ \A i \in 1..n : back[i] = -out[i]
  <2>1. PICK b : b = [i \in 1..n |-> -out[i]]
    OBVIOUS
  <2>2. b = Backwards(out)
    BY <1>1, <1>3, <2>1 DEF Backwards
  <2>3. b \in Seq(Int) /\ Len(b) = n /\ \A i \in 1..n : b[i] = -out[i]
    BY <1>1, <1>3, <2>1
  <2> QED BY <2>2, <2>3
<1>5. PICK rest \in Seq(Int) : rest = Pause /\ Len(rest) = p /\ \A i \in 1..p : rest[i] = 0
  BY <1>2, OutAndBackType DEF Pause
<1>6. PICK both \in Seq(Int) : /\ both = out \o back /\ Len(both) = n + n
                               /\ \A i \in 1..n : both[i] = out[i]
                               /\ \A i \in n + 1..n + n : both[i] = back[i - n]
  <2>1. Len(out) = n
    BY <1>1, <1>3
  <2>2. PICK b : b = out \o back
    OBVIOUS
  <2>3. /\ b \in Seq(Int) /\ Len(b) = n + n
        /\ \A i \in 1..n + n : b[i] = IF i <= n THEN out[i] ELSE back[i - n]
    <3>1. /\ out \o back \in Seq(Int) /\ Len(out \o back) = Len(out) + Len(back)
          /\ \A i \in 1..Len(out) + Len(back) :
               (out \o back)[i] = IF i <= Len(out) THEN out[i] ELSE back[i - Len(out)]
      BY ConcatProperties
    <3> QED BY ONLY <1>4, <2>1, <2>2, <3>1
  <2>4. ASSUME NEW i \in 1..n PROVE b[i] = out[i]
    <3>1. i \in 1..n + n /\ i <= n
      OBVIOUS
    <3> QED BY ONLY <2>3, <3>1
  <2>5. ASSUME NEW i \in n + 1..n + n PROVE b[i] = back[i - n]
    <3>1. i \in 1..n + n /\ ~(i <= n)
      OBVIOUS
    <3> QED BY ONLY <2>3, <3>1
  <2> QED BY <2>2, <2>3, <2>4, <2>5
<1>7. PICK all \in Seq(Int) : /\ all = rest \o both /\ Len(all) = p + n + n
                              /\ \A i \in 1..p : all[i] = rest[i]
                              /\ \A i \in p + 1..p + n + n : all[i] = both[i - p]
  <2>1. PICK b : b = rest \o both
    OBVIOUS
  <2>2. /\ b \in Seq(Int) /\ Len(b) = p + (n + n)
        /\ \A i \in 1..p + (n + n) : b[i] = IF i <= p THEN rest[i] ELSE both[i - p]
    <3>1. /\ rest \o both \in Seq(Int) /\ Len(rest \o both) = Len(rest) + Len(both)
          /\ \A i \in 1..Len(rest) + Len(both) :
               (rest \o both)[i] = IF i <= Len(rest) THEN rest[i] ELSE both[i - Len(rest)]
      BY ConcatProperties
    <3> QED BY ONLY <1>5, <1>6, <2>1, <3>1
  <2>3. p + (n + n) = p + n + n
    OBVIOUS
  <2>4. ASSUME NEW i \in 1..p PROVE b[i] = rest[i]
    <3>1. i \in 1..p + (n + n) /\ i <= p
      OBVIOUS
    <3> QED BY ONLY <2>2, <3>1
  <2>5. ASSUME NEW i \in p + 1..p + n + n PROVE b[i] = both[i - p]
    <3>1. i \in 1..p + (n + n) /\ ~(i <= p)
      OBVIOUS
    <3> QED BY ONLY <2>2, <3>1
  <2> QED BY <2>1, <2>2, <2>3, <2>4, <2>5
<1>8. Round = all
  BY <1>3, <1>4, <1>5, <1>6, <1>7 DEF Round, OutAndBack
<1>9. ASSUME NEW i \in 1..p + n + n
      PROVE  /\ i <= p => all[i] = 0
             /\ i > p /\ i <= p + n => i - p \in 1..n /\ all[i] = out[i - p]
             /\ i > p + n => i - p - n \in 1..n /\ all[i] = -out[i - p - n]
  <2>1. CASE i <= p
    BY <1>5, <1>7, <2>1
  <2>2. CASE i > p /\ i <= p + n
    <3>1. i \in p + 1..p + n + n /\ i - p \in 1..n
      BY <2>2
    <3>2. all[i] = both[i - p]
      BY ONLY <1>7, <3>1
    <3>3. both[i - p] = out[i - p]
      BY ONLY <1>6, <3>1
    <3> QED BY ONLY <2>2, <3>1, <3>2, <3>3, n \in Nat, p \in Nat, i \in Int
  <2>3. CASE i > p + n
    <3>1. i \in p + 1..p + n + n /\ i - p \in n + 1..n + n /\ i - p - n \in 1..n /\ (i - p) - n = i - p - n
      BY <2>3
    <3>2. all[i] = both[i - p]
      BY ONLY <1>7, <3>1
    <3>3. both[i - p] = back[(i - p) - n]
      BY ONLY <1>6, <3>1
    <3>4. back[i - p - n] = -out[i - p - n]
      BY ONLY <1>4, <3>1
    <3> QED BY ONLY <2>3, <3>1, <3>2, <3>3, <3>4, n \in Nat, p \in Nat, i \in Int
  <2> QED BY <2>1, <2>2, <2>3
<1> QED
  BY <1>1, <1>2, <1>3, <1>7, <1>8, <1>9

LEMMA WiggleAt ==
  /\ Len(Wiggle) = Repeat * Len(Round) - PauseTicks /\ Len(Wiggle) \in Nat
  /\ \A i \in 1..Len(Wiggle) : /\ Ticks(i - 1) \in 0..Len(Round) - 1
                               /\ Wiggle[i] = Round[1 + Ticks(i - 1)]
<1>1. PICK r \in Nat \ {0} : r = Len(Round) /\ r >= PauseTicks
  BY RoundAt, SupervisionConstants, ToolConstants
<1>2. PICK n \in Int : n = Repeat * r - PauseTicks
  BY ToolConstants
<1>3. n \in Nat
  <2>1. Repeat * r = r + (Repeat - 1) * r /\ (Repeat - 1) * r \in Nat
    BY ToolConstants
  <2> QED BY <1>1, <1>2, <2>1, ToolConstants
<1>4. Wiggle = [k \in 1..n |-> Round[1 + ((k + PauseTicks - 1) % r)]]
  BY <1>1, <1>2 DEF Wiggle
<1>5. Len(Wiggle) = n
  BY ONLY <1>3, <1>4
<1>6. ASSUME NEW i \in 1..n
      PROVE  Ticks(i - 1) = (i + PauseTicks - 1) % r /\ Ticks(i - 1) \in 0..r - 1
  <2>1. PICK x \in Nat : x = i + PauseTicks - 1 /\ x = (i - 1) + PauseTicks
    BY <1>3, ToolConstants
  <2>2. x % r \in 0..r - 1
    BY ONLY x \in Nat, r \in Nat \ {0}
  <2> QED BY <1>1, <2>1, <2>2 DEF Ticks
<1> QED
  BY <1>1, <1>2, <1>3, <1>4, <1>5, <1>6

\* A jog sends its velocity.
LEMMA JogSpeed ==
  ASSUME cmd = "jog", velocity \in Int
  PROVE  /\ Len(Speeds) = JogTicks(Head(ids)) /\ Len(Speeds) \in Nat
         /\ \A i \in 1..Len(Speeds) : Speeds[i] = velocity
<1>1. PICK n : n = JogTicks(Head(ids))
  OBVIOUS
<1>2. n \in Nat
  <2>1. CASE JointOf(Head(ids)) \in Gizmo
    BY <1>1, <2>1, CutDuration, TRUE \in BOOLEAN DEF JogTicks
  <2>2. CASE JointOf(Head(ids)) \notin Gizmo
    BY <1>1, <2>2, CutDuration, FALSE \in BOOLEAN DEF JogTicks
  <2> QED BY <2>1, <2>2
<1>3. Speeds = [i \in 1..n |-> velocity]
  BY <1>1 DEF Speeds
<1>4. Len(Speeds) = n
  BY ONLY <1>2, <1>3
<1>5. \A i \in 1..Len(Speeds) : Speeds[i] = velocity
  BY ONLY <1>3, <1>4
<1> QED
  BY <1>1, <1>2, <1>4, <1>5

SafeSpeed(v) == FullSpeed - Abs(v) > Larger(Margin, Abs(v))

\* No speed the tool sends is near what a runaway drive does.
LEMMA SpeedsSafe ==
  ASSUME ToolInductive, SpeedsOnly, pc = "move", NEW i \in 1..Len(Speeds)
  PROVE  Speeds[i] \in Int /\ SafeSpeed(Speeds[i])
<1>1. cmd \in {"identify", "jog"} /\ velocity \in Int /\ velocity \in Velocities \cup {0}
  BY ToolConstants DEF ToolInductive, ToolTypes, StepTypes, Places
<1>2. \A v \in {0} \cup ToSet(Profile) \cup {w \in Velocities : Abs(w) <= MaxVelocity} : SafeSpeed(v)
  BY SupervisionAssumption DEF SafeSpeed
<1>3. Speeds[i] \in Int
  BY <1>1, SpeedsType
<1>4. CASE cmd = "identify"
  <2>1. Speeds = Wiggle
    BY <1>4 DEF Speeds
  <2>2. PICK k \in 1..Len(Round) : Speeds[i] = Round[k]
    <3>1. PICK t \in 0..Len(Round) - 1 : Speeds[i] = Round[1 + t]
      BY <2>1, WiggleAt
    <3>2. 1 + t \in 1..Len(Round)
      BY RoundAt
    <3> QED BY <3>1, <3>2
  <2>3. \A j \in 1..Len(Profile) : Profile[j] \in ToSet(Profile) /\ Profile[j] \in Int
    BY SupervisionConstants DEF ToSet
  <2>4. \A v \in Int : Abs(-v) = Abs(v)
    BY DEF Abs
  <2>5. \A j \in 1..Len(Profile) : SafeSpeed(Profile[j]) /\ SafeSpeed(-Profile[j])
    BY <1>2, <2>3, <2>4 DEF SafeSpeed
  <2>6. \/ Round[k] = 0
        \/ \E j \in 1..Len(Profile) : Round[k] = Profile[j] \/ Round[k] = -Profile[j]
    <3>1. PICK n \in Nat, p \in Nat, r \in Nat : n = Len(Profile) /\ p = PauseTicks /\ r = Len(Round)
      BY RoundAt, SupervisionConstants, ToolConstants
    <3>2. /\ k <= p => Round[k] = 0
          /\ k > p /\ k <= p + n => k - p \in 1..n /\ Round[k] = Profile[k - p]
          /\ k > p + n => k - p - n \in 1..n /\ Round[k] = -Profile[k - p - n]
      BY <3>1, RoundAt
    <3>3. k \in Nat
      BY <3>1
    <3> QED BY ONLY <3>1, <3>2, <3>3
  <2> QED BY <1>2, <1>3, <2>2, <2>5, <2>6
<1>5. CASE cmd = "jog"
  <2>1. Speeds[i] = velocity
    BY <1>1, <1>5, JogSpeed
  <2>2. Abs(velocity) <= MaxVelocity
    BY <1>5 DEF SpeedsOnly
  <2> QED BY <1>1, <1>2, <1>3, <2>1, <2>2
<1> QED
  BY <1>1, <1>4, <1>5

\* So a drive at full speed is told from one that follows.
LEMMA FullSpeedStops ==
  ASSUME NEW v \in Int, SafeSpeed(v), NEW w, AtFullSpeed(w)
  PROVE  ~Follows(w, v)
<1>1. FullSpeed \in Nat /\ Margin \in Nat
  BY ToolConstants
<1>2. Larger(Margin, Abs(v)) \in Nat
  BY <1>1, TowardType DEF Larger
<1>3. PICK far \in Nat : far = Larger(Margin, Abs(v))
  BY <1>2
<1> QED
  BY <1>1, <1>3 DEF SafeSpeed, AtFullSpeed, Follows, Abs

-----------------------------------------------------------------------------
(* What a tick of the motor on the move does and tells *)

\* Nobody else commands it: it turns as it does, for what it was told last.
LEMMA TickTurns ==
  ASSUME MotorTypes, NEW m \in Motor, other = "off", motor[m].mode \in {"idle", "speed"}
  PROVE  LET s == motor[m]
             due == Expire(s)
             t == Ticked(m)
         IN /\ due \in Servo /\ due.mode \in {"idle", "speed"} /\ due.target = s.target
            /\ due.speed = s.speed /\ due.error = s.error /\ due.stuck = s.stuck
            /\ (s.mode = "idle" \/ s.quiet = 0) => due = s
            /\ t.mode = due.mode /\ t.target = due.target
            /\ t.speed = Actual(m, due) /\ t.encoder = Limited(s.encoder + Actual(m, due))
            /\ Actual(m, due) \in Int
<1> DEFINE s == motor[m]
           due == Expire(s)
<1>1. s \in Servo /\ s \in ServoRecord
  BY DEF MotorTypes, Servo
<1>2. due \in Servo /\ due.mode \in {s.mode, "idle"}
  BY <1>1, ExpireServo
<1>3. /\ due.target = s.target /\ due.speed = s.speed /\ due.error = s.error
      /\ due.stuck = s.stuck /\ due.encoder = s.encoder
      /\ (s.mode = "idle" \/ s.quiet = 0) => due = s
  BY <1>1, <1>2 DEF Expire, Release, ServoRecord
<1>4. Ticked(m) = Quieter(Move(due, Actual(m, due)))
  BY DEF Ticked
<1> HIDE DEF due
<1>5. PICK v \in Int : v = Actual(m, due)
  BY <1>2, ActualType
<1>6. PICK t \in Servo : t = Move(due, v)
  BY <1>2, MoveServo
<1>7. t.mode = due.mode /\ t.target = due.target /\ t.speed = v /\ t.encoder = Limited(s.encoder + v)
  BY <1>1, <1>2, <1>3, <1>6 DEF Move, Arrives, Servo, ServoRecord
<1>8. /\ Quieter(t).mode = t.mode /\ Quieter(t).target = t.target /\ Quieter(t).speed = t.speed
      /\ Quieter(t).encoder = t.encoder
  BY DEF Quieter, Servo, ServoRecord
<1>9. due.mode \in {"idle", "speed"}
  BY <1>2
<1> QED
  BY <1>2, <1>3, <1>4, <1>5, <1>6, <1>7, <1>8, <1>9 DEF due

LEMMA RunawayTurns ==
  ASSUME MotorTypes, NEW m \in Motor, other = "off", motor[m].mode \in {"idle", "speed"},
         kind[m] = "runaway", Ticked(m).mode # "idle"
  PROVE  LET target == motor[m].target
             to == IF target = 0 THEN -motor[m].speed ELSE target
         IN /\ to > 0 => Ticked(m).speed = -FullSpeed
            /\ to < 0 => Ticked(m).speed = FullSpeed
            /\ to = 0 => Ticked(m).speed = 0
<1>1. PICK due \in Servo : /\ due = Expire(motor[m]) /\ due.mode \in {"idle", "speed"}
                           /\ due.target = motor[m].target /\ due.speed = motor[m].speed
                           /\ Ticked(m).mode = due.mode /\ Ticked(m).speed = Actual(m, due)
  BY TickTurns
<1>2. due.mode = "speed" /\ due.error = FALSE
  BY <1>1 DEF Servo, ServoRecord
<1>3. due.target \in Int /\ due.speed \in Int /\ FullSpeed \in Nat
  BY ToolConstants DEF Servo, ServoRecord
<1>4. Actual(m, due) = -FullSpeed * Toward(IF due.target = 0 THEN -due.speed ELSE due.target)
  BY <1>2 DEF Actual
<1>5. PICK to \in Int : to = IF due.target = 0 THEN -due.speed ELSE due.target
  BY <1>3
<1>6. /\ to > 0 => Toward(to) = 1
      /\ to < 0 => Toward(to) = -1
      /\ to = 0 => Toward(to) = 0
  BY DEF Toward
<1>7. -FullSpeed * 1 = -FullSpeed /\ -FullSpeed * (-1) = FullSpeed /\ -FullSpeed * 0 = 0
  BY <1>3
<1> QED
  BY <1>1, <1>3, <1>4, <1>5, <1>6, <1>7

\* When the tool has read all frames, a tick brings one of every motor that is not silent.
LEMMA TickTells ==
  ASSUME ToolInductive, Tick, Open, up, rx = <<>>, NEW m \in Motor, ~motor[m].silent
  PROVE  \E i \in DOMAIN rx' : rx'[i].id = m /\ rx'[i].speed = motor'[m].speed
<1> DEFINE S == {k \in Motor : ~motor[k].silent}
<1>1. PICK talking \in Sorted(S) :
        rx' = Received(<<>> \o [i \in DOMAIN talking |-> Status(talking[i], motor'[talking[i]])])
  BY DEF Tick
<1> DEFINE new == [i \in DOMAIN talking |-> Status(talking[i], motor'[talking[i]])]
<1>2. S \subseteq Motor /\ IsFiniteSet(S) /\ Cardinality(S) <= Cardinality(Motor) /\ m \in S
  BY FS_Subset, ToolConstants
<1> HIDE DEF S
<1>3. talking \in Listed(S)
  BY <1>1 DEF Sorted
<1>4. talking \in [1..Cardinality(S) -> S] /\ ToSet(talking) = S /\ Cardinality(S) \in Nat
  BY <1>2, <1>3, FS_CardinalityType DEF Listed
<1>5. Cardinality(Motor) \in Nat /\ Cardinality(Motor) <= Queue /\ Queue \in Nat
  BY FS_CardinalityType, ToolConstants, SupervisionConstants
<1>6. PICK n \in Nat : n = Cardinality(S) /\ n <= Queue
  BY <1>2, <1>4, <1>5
<1>7. \A i \in 1..n : talking[i] \in Motor
  BY <1>2, <1>4, <1>6
<1>8. MotorTypes'
  BY MotorTypesKept DEF Next
<1>9. \A i \in 1..n : Status(talking[i], motor'[talking[i]]) \in StatusFrame
  BY <1>7, <1>8, StatusType DEF MotorTypes
<1>10. DOMAIN talking = 1..n
  BY <1>4, <1>6
<1>11. new \in Seq(StatusFrame) /\ Len(new) = n /\ DOMAIN new = 1..n
  BY ONLY <1>9, <1>10, n \in Nat
<1>12. \A i \in 1..n : new[i] = Status(talking[i], motor'[talking[i]])
  BY ONLY <1>10
<1> HIDE DEF new
<1>13. <<>> \o new = new
  BY <1>11, ConcatEmptySeq
<1>14. rx' = SubSeq(new, 1, n)
  BY <1>1, <1>5, <1>6, <1>11, <1>13 DEF Received, new
<1>15. /\ SubSeq(new, 1, n) \in Seq(StatusFrame) /\ Len(SubSeq(new, 1, n)) = n
       /\ \A i \in 1..n : SubSeq(new, 1, n)[i] = new[i]
  BY ONLY <1>11, SubSeqProperties, n \in Nat
<1>16. PICK i \in 1..n : talking[i] = m
  BY <1>2, <1>4, <1>6 DEF ToSet
<1>17. rx'[i] = Status(m, motor'[m]) /\ i \in DOMAIN rx'
  BY <1>12, <1>14, <1>15, <1>16
<1> QED
  BY <1>17 DEF Status

-----------------------------------------------------------------------------
(* A runaway motor is caught *)

LEMMA OnlyTheMovedKept ==
  ASSUME ToolInductive, Natures, OnlyTheMoved, [Next]_vars PROVE OnlyTheMoved'
<1> SUFFICES ASSUME other' = "off", NEW m \in Motor, astray'[m] > 0
             PROVE  /\ kind'[m] = "runaway" /\ ids' # <<>> /\ m = Head(ids')
                    /\ pc' \in Moving \cup {"ask", "done"}
  BY DEF OnlyTheMoved
<1>0. other = "off" /\ kind' = kind /\ cmd' = cmd /\ astray[m] \in Nat
  BY OtherStays, CommandKept DEF ToolInductive, ToolTypes, PaperTypes
<1>1. CASE Tick
  <2>1. kind[m] = "runaway" /\ motor'[m].mode # "idle" /\ pc \in Moving /\ pc' = pc
    BY <1>1 DEF Tick
  <2>2. cmd \in {"identify", "jog"}
    BY <2>1 DEF Natures
  <2>3. DrivesOne'
    BY DrivesOneKept
  <2>4. ids' # <<>> /\ m = Head(ids')
    BY <1>0, <2>1, <2>2, <2>3 DEF DrivesOne, Idle
  <2> QED BY <1>0, <2>1, <2>4
<1>2. CASE Answer
  BY <1>2 DEF Answer
<1>3. CASE ~Tick /\ ~Answer
  <2>1. astray' = astray
    BY <1>3 DEF Next, ToolStep, Program, Begin, Hear, Deaf, Watch, Decide, SendMove, Sendable, Torn,
       Supervise, Arrive, Brake, Braked, Free, Unsendable, Write, Interrupt, Kill, Link, Inject,
       OtherStarts, Bench, vars, ghosts, Stop, Unmoved
  <2>2. kind[m] = "runaway" /\ ids # <<>> /\ m = Head(ids) /\ pc \in Moving \cup {"ask", "done"}
    BY <1>0, <2>1 DEF OnlyTheMoved
  <2>3. ids' = ids
    BY <1>3, <2>2, IdsKept DEF Moving
  <2>4. pc' \in Moving \cup {"ask", "done"}
    BY <1>3, <2>2 DEF Next, ToolStep, Program, Begin, Hear, Deaf, Watch, Decide, Listened, SendMove,
       Sendable, Torn, Supervise, Arrive, Brake, Braked, Free, Unsendable, Write, Interrupt, Kill,
       Link, Inject, OtherStarts, Bench, vars, Stop, Finish, EndMove, Moving
  <2> QED BY <1>0, <2>2, <2>3, <2>4
<1> QED
  BY <1>1, <1>2, <1>3

\* The frames that stay keep their place behind those that are read.
LEMMA ToldStays ==
  ASSUME ToolInductive, NEW m \in Motor, Told(m), rx # <<>>, rx' = Tail(rx),
         Head(rx).id # m \/ ~AtFullSpeed(Head(rx).speed)
  PROVE  Told(m)'
<1>1. PICK i \in DOMAIN rx : rx[i].id = m /\ AtFullSpeed(rx[i].speed)
  BY DEF Told
<1>2. rx \in Seq(StatusFrame) /\ Head(rx) = rx[1] /\ Len(rx) \in Nat /\ i \in 1..Len(rx)
  BY DEF ToolInductive, ToolTypes, BusTypes
<1>3. i # 1
  BY <1>1, <1>2
<1>4. i - 1 \in 1..Len(rx) - 1
  BY <1>2, <1>3
<1>5. /\ Tail(rx) \in Seq(StatusFrame) /\ Len(Tail(rx)) = Len(rx) - 1
      /\ \A k \in 1..Len(Tail(rx)) : Tail(rx)[k] = rx[k + 1]
  BY <1>2, HeadTailProperties
<1>6. rx'[i - 1] = rx[i] /\ i - 1 \in DOMAIN rx'
  <2>1. (i - 1) + 1 = i
    BY <1>2
  <2>2. DOMAIN Tail(rx) = 1..Len(Tail(rx))
    BY <1>5
  <2>3. Tail(rx)[i - 1] = rx[i] /\ i - 1 \in DOMAIN Tail(rx)
    BY <1>4, <1>5, <2>1, <2>2
  <2> QED BY <2>3
<1> QED
  BY <1>1, <1>6 DEF Told, AtFullSpeed

\* A tick of the move: no frame was left, so none had told of a runaway yet.
LEMMA TickIsTold ==
  ASSUME ToolInductive, SpeedsOnly, ToldInTime, Tick, pc = "move", other = "off", NEW m \in Motor
  PROVE  astray'[m] <= 1 /\ (astray'[m] = 1 => Told(m)')
<1>1. rx = <<>> /\ cmd \in {"identify", "jog"} /\ MotorTypes /\ astray[m] \in Nat
  BY DEF Tick, Due, ToolInductive, ToolTypes, PaperTypes, Places
<1>2. ~Told(m)
  BY <1>1 DEF Told
<1>3. astray[m] = 0
  BY <1>1, <1>2 DEF ToldInTime
<1>4. CASE astray'[m] = 0
  BY <1>4
<1>5. CASE astray'[m] # 0
  <2>1. /\ kind[m] = "runaway" /\ motor'[m].mode # "idle" /\ motor'[m].speed # 0
        /\ ~motor[m].silent /\ up /\ astray'[m] = astray[m] + 1 /\ motor'[m] = Ticked(m)
    BY <1>5 DEF Tick
  <2>2. motor[m].mode \in {"idle", "speed"} /\ motor[m] \in Servo
    BY <1>1 DEF SpeedsOnly, MotorTypes
  <2>3. PICK target \in Int, speed \in Int : target = motor[m].target /\ speed = motor[m].speed
    BY <2>2 DEF Servo, ServoRecord
  <2>4. PICK to \in Int : to = IF target = 0 THEN -speed ELSE target
    BY <2>3
  <2>5. AtFullSpeed(motor'[m].speed)
    BY <1>1, <2>1, <2>2, <2>3, <2>4, RunawayTurns DEF AtFullSpeed
  <2>6. \E i \in DOMAIN rx' : rx'[i].id = m /\ rx'[i].speed = motor'[m].speed
    BY <1>1, <2>1, TickTells DEF Open, Moving
  <2> QED BY <1>3, <2>1, <2>5, <2>6 DEF Told, AtFullSpeed
<1> QED
  BY <1>4, <1>5

\* Reading the frame that tells stops the move.
LEMMA ToldStops ==
  ASSUME ToolInductive, SpeedsOnly, Supervise, AtFullSpeed(Head(rx).speed)
  PROVE  Stopped(Head(rx)) # "none"
<1>1. pc = "move" /\ (sent \/ at > 1) /\ cmd \in {"identify", "jog"} /\ at \in Nat \ {0}
  BY DEF Supervise, ToolInductive, ToolTypes, StepTypes, Places
<1>2. at <= Len(Speeds) + 1 /\ (sent => at <= Len(Speeds)) /\ Len(Speeds) \in Nat
  BY <1>1, SpeedsCount, ToolConstants DEF SpeedsOnly, Moving, ToolInductive, ToolTypes, StepTypes
<1>3. PICK i \in 1..Len(Speeds) : i = IF sent THEN at ELSE at - 1
  BY <1>1, <1>2
<1>4. Commanded = Speeds[i]
  BY <1>3 DEF Commanded
<1>5. Commanded \in Int /\ SafeSpeed(Commanded)
  BY <1>1, <1>4, SpeedsSafe
<1>6. ~Follows(Head(rx).speed, Commanded)
  BY <1>5, FullSpeedStops
<1> QED
  BY <1>6 DEF Stopped

LEMMA ToldInTimeKept ==
  ASSUME ToolInductive, SpeedsOnly, Natures, OnlyTheMoved, ToldInTime, [Next]_vars PROVE ToldInTime'
<1> SUFFICES ASSUME other' = "off", NEW m \in Motor
             PROVE  /\ pc' \in {"begin", "listen", "move"} => cause' = "none"
                    /\ pc' = "move" => astray'[m] <= 1 /\ (astray'[m] = 1 => Told(m)')
                    /\ pc' = "brake" => cause' # "runaway" /\ astray'[m] + left' <= 1 + BrakeTicks
                    /\ pc' \in {"release", "ask", "done"} =>
                         astray'[m] <= IF cause' = "runaway" THEN 1 ELSE 1 + BrakeTicks
  BY DEF ToldInTime
<1>0. /\ other = "off" /\ astray[m] \in Nat /\ left \in Nat /\ BrakeTicks \in Nat
      /\ pc \in {"begin", "listen", "ask", "write", "rename", "done", "bench"} \cup Moving
  BY OtherStays, ToolConstants DEF ToolInductive, ToolTypes, PaperTypes, StepTypes
<1>1. /\ pc \in {"begin", "listen", "move"} => cause = "none"
      /\ pc = "move" => astray[m] <= 1 /\ (astray[m] = 1 => Told(m))
      /\ pc = "brake" => cause # "runaway" /\ astray[m] + left <= 1 + BrakeTicks
      /\ pc \in {"release", "ask", "done"} =>
           astray[m] <= IF cause = "runaway" THEN 1 ELSE 1 + BrakeTicks
      /\ pc \in {"begin", "listen", "write", "rename", "bench"} => astray[m] = 0
  BY <1>0 DEF ToldInTime, OnlyTheMoved, Moving
<1>2. CASE Tick
  <2>1. pc' = pc /\ cause' = cause
    BY <1>2 DEF Tick
  <2>2. CASE pc = "move"
    BY <1>0, <1>1, <1>2, <2>1, <2>2, TickIsTold
  <2>3. CASE pc = "brake"
    <3>1. left > 0 /\ left' = left - 1 /\ (astray'[m] = astray[m] + 1 \/ astray'[m] = 0)
      BY <1>2, <2>3 DEF Tick, Due
    <3> QED BY ONLY <1>0, <1>1, <2>1, <2>3, <3>1
  <2>4. CASE pc \notin {"move", "brake"}
    <3>1. astray'[m] = 0
      BY <1>2, <2>4 DEF Tick, Due, Moving
    <3> QED BY ONLY <1>0, <1>1, <2>1, <2>4, <3>1
  <2> QED BY <2>2, <2>3, <2>4
<1>3. CASE Answer
  BY <1>0, <1>3 DEF Answer, GoOn
<1>4. CASE Supervise
  <2>1. /\ pc = "move" /\ rx # <<>> /\ rx' = Tail(rx) /\ astray' = astray
        /\ LET why == IF Head(rx).id = Head(ids) THEN Stopped(Head(rx)) ELSE "none"
           IN \/ why = "none" /\ pc' = pc /\ cause' = cause
              \/ why # "none" /\ EndMove(why, way) /\ cause' = why
    BY <1>4 DEF Supervise, Unmoved
  <2>2. CASE pc' = pc /\ cause' = cause
    <3>1. (IF Head(rx).id = Head(ids) THEN Stopped(Head(rx)) ELSE "none") = "none"
      BY <2>1, <2>2 DEF EndMove
    <3>2. ASSUME astray[m] = 1 PROVE Told(m)'
      <4>1. m = Head(ids)
        BY <1>0, <3>2 DEF OnlyTheMoved
      <4>2. Head(rx).id # m \/ ~AtFullSpeed(Head(rx).speed)
        BY <1>4, <3>1, <4>1, ToldStops
      <4>3. Told(m)
        BY <1>1, <2>1, <3>2
      <4> QED BY <2>1, <4>2, <4>3, ToldStays
    <3> QED BY <1>1, <2>1, <2>2, <3>2
  <2>3. CASE cause' # "none" /\ EndMove(cause', way)
    BY <1>0, <1>1, <2>1, <2>3 DEF EndMove
  <2> QED BY <2>1, <2>2, <2>3
<1>5. CASE SendMove \/ Torn \/ Arrive \/ Interrupt
  <2>1. /\ astray' = astray
        /\ \/ pc = "move" /\ pc' = "move" /\ cause' = cause /\ rx' = rx
           \/ /\ pc = "move" /\ pc' = "brake" /\ left' = BrakeTicks
              /\ cause' \in {"none", "link", "interrupt"}
           \/ pc # "move" /\ pc' = "done" /\ cause' = cause
    BY <1>1, <1>5 DEF SendMove, Sendable, Torn, Arrive, Interrupt, EndMove, Unmoved, bus
  <2> QED BY <1>0, <1>1, <2>1 DEF Told, AtFullSpeed, Moving
<1>6. CASE Brake \/ Braked \/ Free
  <2>1. astray' = astray /\ cause' = cause
        /\ \/ pc = "brake" /\ pc' \in {"brake", "release"} /\ left' = left
           \/ pc = "release" /\ pc' \in {"release", "ask", "done"}
    BY <1>6 DEF Brake, Braked, Free, Unmoved
  <2> QED BY <1>0, <1>1, <2>1
<1>7. CASE Deaf \/ Unsendable \/ Kill \/ Begin
  <2>1. /\ astray' = astray /\ cause' = cause
        /\ (pc' = "done" \/ (pc = "begin" /\ pc' = "listen"))
    BY <1>7 DEF Deaf, Unsendable, Kill, Begin, Stop, Finish, ghosts
  <2> QED BY <1>0, <1>1, <2>1 DEF Moving
<1>8. CASE Decide
  <2>1. /\ astray' = astray /\ cause' = cause /\ pc = "listen"
        /\ (pc' \in {"done", "move"} \/ (pc' = "brake" /\ left' = BrakeTicks))
    BY <1>1, <1>8 DEF Decide, Listened, Stop, Finish, SetOut, AllHeard
  <2> QED BY <1>0, <1>1, <2>1
<1>9. CASE Write
  <2>1. astray' = astray /\ pc' \in {"rename", "done"} /\ pc \in {"write", "rename"}
    BY <1>9 DEF Write, Stage, Finish, ghosts
  <2> QED BY <1>0, <1>1, <2>1
<1>10. CASE Hear \/ Watch \/ Link \/ Inject \/ OtherStarts \/ Bench \/ UNCHANGED vars
  <2>1. /\ astray' = astray /\ cause' = cause /\ pc' = pc
        /\ ((rx' = rx /\ left' = left) \/ pc = "listen")
    BY <1>10 DEF Hear, Watch, Listened, Link, Inject, OtherStarts, Bench, vars, ghosts, progress,
       bus
  <2> QED BY <1>0, <1>1, <2>1 DEF Told, AtFullSpeed
<1> QED
  BY <1>2, <1>3, <1>4, <1>5, <1>6, <1>7, <1>8, <1>9, <1>10 DEF Next, ToolStep, Program

LEMMA CaughtIsCaught ==
  ASSUME ToolInductive, OnlyTheMoved, ToldInTime PROVE RunawayCaught
<1> SUFFICES ASSUME other = "off", NEW m \in Motor
             PROVE  astray[m] <= IF cause = "runaway" THEN 1 ELSE 1 + BrakeTicks
  BY DEF RunawayCaught
<1>1. /\ astray[m] \in Nat /\ left \in Nat /\ BrakeTicks \in Nat
      /\ pc \in {"begin", "listen", "ask", "write", "rename", "done", "bench"} \cup Moving
  BY ToolConstants DEF ToolInductive, ToolTypes, PaperTypes, StepTypes
<1>2. /\ pc \in {"begin", "listen", "move"} => cause = "none"
      /\ pc = "move" => astray[m] <= 1
      /\ pc = "brake" => cause # "runaway" /\ astray[m] + left <= 1 + BrakeTicks
      /\ pc \in {"release", "ask", "done"} =>
           astray[m] <= IF cause = "runaway" THEN 1 ELSE 1 + BrakeTicks
      /\ pc \in {"begin", "listen", "write", "rename", "bench"} => astray[m] = 0
  BY <1>1 DEF ToldInTime, OnlyTheMoved, Moving
<1> QED
  BY ONLY <1>1, <1>2 DEF Moving

-----------------------------------------------------------------------------
(* While nothing goes wrong *)

LEMMA CalmStep ==
  ASSUME ToolInductive, Undisturbed, [Next]_vars, Calm'
  PROVE  /\ Calm /\ (Tick \/ ToolStep \/ UNCHANGED vars) /\ up' = up /\ other' = other
         /\ up /\ other = "off" /\ budget' = budget
<1>1. cmd' = cmd /\ cmd \in {"identify", "jog"} /\ budget' = Mishaps[cmd]
  BY CommandKept DEF Calm
<1>2. PICK n \in Nat : n = Mishaps[cmd] /\ budget \in 0..n
  BY ToolConstants DEF ToolInductive, ToolTypes, StepTypes, PaperTypes
<1>3. budget' = budget \/ (budget > 0 /\ budget' = budget - 1)
  <2>1. CASE ToolStep
    BY <2>1 DEF ToolStep, Program, Begin, Hear, Deaf, Watch, Decide, SendMove, Sendable, Torn,
       Supervise, Arrive, Brake, Braked, Free, Unsendable, Answer, Write, Unmoved
  <2>2. CASE ~ToolStep
    BY <2>2 DEF Next, Interrupt, Kill, Link, Inject, OtherStarts, Bench, vars, Tick, Mishap
  <2> QED BY <2>1, <2>2
<1>4. budget' = budget
  BY <1>1, <1>2, <1>3
<1>5. Calm /\ up /\ other = "off"
  BY <1>1, <1>4 DEF Calm, Undisturbed
<1>6. ~Mishap
  BY <1>2, <1>4 DEF Mishap
<1>7. Tick \/ ToolStep \/ UNCHANGED vars
  BY <1>1, <1>5, <1>6 DEF Next, Interrupt, Kill, Link, Inject, OtherStarts, Bench, ToolInductive,
     Places
<1>8. up' = up /\ other' = other
  BY <1>7 DEF ToolStep, Program, Begin, Hear, Deaf, Watch, Decide, SendMove, Sendable, Torn,
     Supervise, Arrive, Brake, Braked, Free, Unsendable, Answer, Write, Tick, bus, Stop, EndMove,
     Unmoved, SetOut, vars
<1> QED
  BY <1>4, <1>5, <1>7, <1>8

\* Then what changes a motor is a tick or a frame of the tool.
LEMMA CalmChanges ==
  ASSUME ToolInductive, Undisturbed, [Next]_vars, Calm', NEW m \in Motor
  PROVE  \/ motor'[m] = motor[m]
         \/ Tick /\ motor'[m] = Ticked(m)
         \/ SendMove /\ m = Head(ids) /\ motor'[m] = Command(motor[m], Speed(Speeds[at]))
         \/ Brake /\ todo # <<>> /\ m = Head(todo) /\ motor'[m] = Command(motor[m], Speed(0))
         \/ Free /\ todo # <<>> /\ m = Head(todo) /\ motor'[m] = Command(motor[m], ZeroCurrent)
<1>1. Calm /\ budget' = budget
  BY CalmStep
<1>2. PICK n \in Nat : budget = n
  BY <1>1, ToolConstants DEF ToolInductive, ToolTypes, StepTypes, PaperTypes, Calm
<1>3. ~Inject
  BY <1>1, <1>2 DEF Inject, Mishap
<1>4. ~Bench
  BY <1>1 DEF Bench, Calm, ToolInductive, Places
<1> QED
  BY <1>3, <1>4, MotorChanges

LEMMA AscendingTail ==
  ASSUME NEW list \in Seq(Nat), list # <<>>, Ascends(list)
  PROVE  Ascends(Tail(list)) /\ Head(list) \notin ToSet(Tail(list))
<1>1. PICK n \in Nat : n = Len(list) /\ n # 0
  BY EmptySeq
<1>2. /\ Head(list) = list[1] /\ DOMAIN list = 1..n
      /\ Tail(list) \in Seq(Nat) /\ Len(Tail(list)) = n - 1
      /\ \A k \in 1..n - 1 : Tail(list)[k] = list[k + 1]
  BY <1>1, HeadTailProperties
<1>3. DOMAIN Tail(list) = 1..n - 1
  BY <1>2
<1>4. Ascends(Tail(list))
  <2> SUFFICES ASSUME NEW i \in 1..n - 1, NEW j \in 1..n - 1, i < j
               PROVE  Tail(list)[i] < Tail(list)[j]
    BY <1>3 DEF Ascends
  <2>1. i + 1 \in 1..n /\ j + 1 \in 1..n /\ i + 1 < j + 1
    BY <1>1
  <2>2. list[i + 1] < list[j + 1]
    BY <1>2, <2>1 DEF Ascends
  <2> QED BY <1>2, <2>2
<1>5. ASSUME NEW k \in 1..n - 1 PROVE Tail(list)[k] # Head(list)
  <2>1. k + 1 \in 1..n /\ 1 \in 1..n /\ 1 < k + 1
    BY <1>1
  <2>2. list[1] < list[k + 1]
    BY <1>2, <2>1 DEF Ascends
  <2>3. list[1] \in Nat /\ list[k + 1] \in Nat
    BY <1>2, <2>1
  <2> QED BY <1>2, <2>2, <2>3
<1> QED
  BY <1>3, <1>4, <1>5 DEF ToSet

\* A frame is for the motor on the move.
LEMMA OthersNotTold ==
  ASSUME ToolInductive, Undisturbed, Calm, NEW m \in Motor, Waits(m)
  PROVE  /\ SendMove => m # Head(ids)
         /\ (Brake \/ Free) /\ todo # <<>> => m # Head(todo)
<1>1. ids \in Seq(Nat) /\ (pc \in Moving => ids # <<>>) /\ cmd # "stop" /\ EndsTheMove
  BY DEF ToolInductive, ToolTypes, StepTypes, Places, Calm
<1>2. ASSUME pc \in Moving PROVE m # Head(ids)
  <2>1. Ascends(ids) /\ m \in ToSet(Tail(ids))
    BY <1>2 DEF Undisturbed, Waits, Moving
  <2> QED BY <1>1, <1>2, <2>1, AscendingTail
<1>3. SendMove => pc \in Moving
  BY DEF SendMove, Sendable, Torn, Moving
<1>4. Brake \/ Free => pc \in Moving /\ pc \in {"brake", "release"}
  BY DEF Brake, Free, Moving
<1>5. ASSUME Brake \/ Free, todo # <<>> PROVE todo = <<Head(ids)>>
  BY <1>1, <1>4, <1>5 DEF EndsTheMove
<1> QED
  BY <1>2, <1>3, <1>4, <1>5

\* A motor at rest rests on.
LEMMA RestTicks ==
  ASSUME ToolInductive, NEW m \in Motor, other = "off", Idle(m), motor[m].speed = 0
  PROVE  /\ Ticked(m).mode = "idle" /\ Ticked(m).speed = 0 /\ Ticked(m).encoder = motor[m].encoder
<1>1. MotorTypes /\ motor[m] \in Servo /\ motor[m].mode = "idle"
  BY DEF ToolInductive, ToolTypes, MotorTypes, Idle
<1>2. /\ Ticked(m).mode = "idle" /\ Ticked(m).speed = Actual(m, motor[m])
      /\ Ticked(m).encoder = Limited(motor[m].encoder + Actual(m, motor[m]))
  BY <1>1, TickTurns
<1>3. Actual(m, motor[m]) = Turning(motor[m])
  BY <1>1 DEF Actual
<1>4. motor[m].encoder \in Reach
  BY <1>1 DEF Servo, ServoRecord
<1>5. Toward(0) * (Abs(0) \div 2) = 0
  BY DEF Toward, Abs
<1>6. Turning(motor[m]) = 0
  BY <1>1, <1>5 DEF Turning, Arrives
<1>7. Limited(motor[m].encoder) = motor[m].encoder /\ motor[m].encoder + 0 = motor[m].encoder
  BY <1>4 DEF Reach, Limited, Abs
<1> QED
  BY <1>2, <1>3, <1>6, <1>7

LEMMA StillPristine ==
  ASSUME ToolInductive, Undisturbed, [Next]_vars, Calm', NEW m \in Motor, Waits(m)
  PROVE  Pristine(m)'
<1>1. /\ Calm /\ (Tick \/ ToolStep \/ UNCHANGED vars) /\ other = "off"
  BY CalmStep
<1>2. Pristine(m)
  BY <1>1 DEF Undisturbed
<1>3. CASE motor'[m] = motor[m]
  BY <1>2, <1>3 DEF Pristine, Idle
<1>4. CASE motor'[m] = Ticked(m)
  BY <1>1, <1>2, <1>4, RestTicks DEF Pristine, Idle
<1> QED
  BY <1>1, <1>3, <1>4, CalmChanges, OthersNotTold

\* Who waits now waited before.
LEMMA WaitedBefore ==
  ASSUME ToolInductive, Undisturbed, [Next]_vars, Calm', NEW m \in Motor, Waits(m)'
  PROVE  Waits(m)
<1>1. /\ Calm /\ (Tick \/ ToolStep \/ UNCHANGED vars)
      /\ ids \in Seq(Nat) /\ (pc \in Moving \cup {"ask"} => ids # <<>>)
  BY CalmStep DEF ToolInductive, ToolTypes, StepTypes, Places
<1>2. CASE pc' \in {"begin", "listen"}
  <2>1. pc \in {"begin", "listen"}
    BY <1>1, <1>2 DEF ToolStep, Program, Begin, Hear, Deaf, Watch, Listened, Decide, SendMove,
       Sendable, Torn, Supervise, Arrive, Brake, Braked, Free, Unsendable, Answer, GoOn, Write,
       Stage, Tick, vars, Stop, Finish, SetOut, EndMove, bus, Calm
  <2> QED BY <2>1 DEF Waits
<1>3. CASE pc' \in Moving \cup {"ask"} /\ m \in ToSet(Tail(ids'))
  <2>1. pc = "listen" \/ pc \in Moving \cup {"ask"}
    BY <1>1, <1>3 DEF ToolStep, Program, Begin, Hear, Deaf, Watch, Listened, Decide, SendMove,
       Sendable, Torn, Supervise, Arrive, Brake, Braked, Free, Unsendable, Answer, GoOn, Write,
       Stage, Tick, vars, Stop, Finish, SetOut, EndMove, bus, Calm, Moving
  <2>2. CASE ids' = ids
    BY <1>3, <2>1, <2>2 DEF Waits
  <2>3. CASE pc = "listen"
    BY <2>3 DEF Waits
  <2>4. CASE pc = "ask" /\ ids' = Tail(ids) /\ ids' # <<>>
    <3>1. PICK rest \in Seq(Nat) : rest = Tail(ids) /\ rest # <<>>
      BY <1>1, <2>4, TailType
    <3>2. PICK n \in Nat : n = Len(rest) /\ n # 0
      BY <3>1, EmptySeq
    <3>3. /\ Len(Tail(rest)) = n - 1 /\ Tail(rest) \in Seq(Nat)
          /\ \A k \in 1..n - 1 : Tail(rest)[k] = rest[k + 1]
      BY <3>1, <3>2, HeadTailProperties
    <3>4. PICK k \in 1..n - 1 : m = Tail(rest)[k]
      <4>1. DOMAIN Tail(rest) = 1..n - 1
        BY <3>2, <3>3
      <4>2. Tail(ids') = Tail(rest)
        BY <2>4, <3>1
      <4> QED BY <1>3, <4>1, <4>2 DEF ToSet
    <3>5. k + 1 \in DOMAIN rest /\ m = rest[k + 1]
      BY <3>2, <3>3, <3>4
    <3> QED BY <2>4, <3>1, <3>5 DEF Waits, ToSet
  <2> QED BY <2>1, <2>2, <2>3, <2>4, IdsKept
<1> QED
  BY <1>2, <1>3 DEF Waits

LEMMA SoundMotors ==
  ASSUME ToolInductive, Undisturbed, [Next]_vars, Calm', NEW m \in Motor
  PROVE  ~motor'[m].error /\ ~motor'[m].silent
<1>1. /\ Calm /\ MotorTypes /\ motor[m] \in Servo /\ ~motor[m].error /\ ~motor[m].silent
  BY CalmStep DEF Undisturbed, ToolInductive, ToolTypes, MotorTypes
<1>2. \A c : Frame(c) => Command(motor[m], c).error = motor[m].error /\ Command(motor[m], c).silent = motor[m].silent
  BY <1>1, CommandKeeps
<1>3. SendMove => Speeds[at] \in Int
  BY SpeedsType, ToolConstants DEF SendMove, Sendable, Torn, ToolInductive, ToolTypes, StepTypes
<1> QED
  BY <1>1, <1>2, <1>3, FramesSent, TickKeeps, CalmChanges, 0 \in Int

\* The tool starts to move a motor that waited for it.
LEMMA StartsAtRest ==
  ASSUME ToolInductive, SpeedsOnly, Undisturbed, [Next]_vars, Calm', pc' \in Moving \cup {"ask"}
  PROVE  start' = 0 /\ Ascends(ids')
<1>1. /\ Calm /\ (Tick \/ ToolStep \/ UNCHANGED vars) /\ cmd \in {"identify", "jog"}
      /\ ids \in Seq(Motor) /\ ids \in Seq(Nat) /\ (pc \in Moving \cup {"ask"} => ids # <<>>)
  BY CalmStep DEF ToolInductive, ToolTypes, StepTypes, Places, Calm
<1>2. \A k \in Motor : Waits(k) => motor[k].encoder = 0
  BY <1>1 DEF Undisturbed, Pristine
<1>3. CASE Decide
  <2>1. PICK list \in Chosen \ {<<>>} : SetOut("move", list)
    BY <1>1, <1>3 DEF Decide, Stop, Finish, Moving
  <2>2. list \in Seq(Motor) /\ list # <<>>
    BY <1>1, <2>1, ChosenType
  <2>3. Head(list) \in Motor
    BY <2>2, TailType
  <2>4. pc = "listen"
    BY <1>3 DEF Decide, Listened
  <2>5. start' = 0
    BY <1>2, <2>1, <2>3, <2>4 DEF SetOut, Waits
  <2>6. Ascends(list)
    <3>1. CASE cmd = "identify"
      BY <2>1, <3>1 DEF Chosen, Sorted, Ascends
    <3>2. CASE cmd = "jog"
      <4>1. PICK k \in Motor : list = <<k>>
        BY <1>1, <2>1, <3>2 DEF Chosen, SpeedsOnly
      <4> QED BY <4>1 DEF Ascends
    <3> QED BY <1>1, <3>1, <3>2
  <2> QED BY <2>1, <2>5, <2>6 DEF SetOut
<1>4. CASE Answer
  <2>1. pc = "ask" /\ budget' = budget /\ budget \in Nat
    BY <1>4, CalmStep, ToolConstants DEF Answer, ToolInductive, ToolTypes, PaperTypes, StepTypes
  <2>2. Len(ids) > 1 /\ ids' = Tail(ids) /\ start' = motor[ids[2]].encoder
    BY <1>4, <2>1 DEF Answer, GoOn, Moving
  <2>3. Ascends(ids) /\ ids # <<>>
    BY <1>1, <2>1 DEF Undisturbed
  <2>4. PICK n \in Nat : n = Len(ids) /\ n > 1
    BY <1>1, <2>2
  <2>5. /\ Len(Tail(ids)) = n - 1 /\ Tail(ids) \in Seq(Motor)
        /\ \A k \in 1..n - 1 : Tail(ids)[k] = ids[k + 1]
    BY <1>1, <2>3, <2>4, HeadTailProperties
  <2>6. 1 \in DOMAIN Tail(ids) /\ Tail(ids)[1] = ids[2] /\ ids[2] \in Motor
    <3>1. 1 \in 1..n - 1 /\ 1 + 1 = 2 /\ 2 \in 1..n
      BY <2>4
    <3> QED BY <1>1, <2>4, <2>5, <3>1
  <2>7. Waits(ids[2])
    BY <2>1, <2>6 DEF Waits, ToSet
  <2> QED BY <1>1, <1>2, <2>2, <2>3, <2>6, <2>7, AscendingTail
<1>5. CASE ~Decide /\ ~Answer
  <2>1. pc \in Moving \cup {"ask"} /\ start' = start
    BY <1>1, <1>5 DEF ToolStep, Program, Begin, Hear, Deaf, Watch, Listened, SendMove, Sendable,
       Torn, Supervise, Arrive, Brake, Braked, Free, Unsendable, Write, Stage, Tick, vars, Stop,
       Finish, EndMove, Unmoved, ghosts, bus, Calm, Moving
  <2>2. ids' = ids
    BY <1>5, IdsKept
  <2> QED BY <1>1, <2>1, <2>2 DEF Undisturbed
<1> QED
  BY <1>3, <1>4, <1>5

LEMMA UndisturbedKept ==
  ASSUME ToolInductive, SpeedsOnly, Undisturbed, [Next]_vars PROVE Undisturbed'
<1> SUFFICES ASSUME Calm'
             PROVE  /\ up' /\ other' = "off"
                    /\ \A m \in Motor : ~motor'[m].error /\ ~motor'[m].silent /\ (Waits(m)' => Pristine(m)')
                    /\ pc' \in Moving \cup {"ask"} => start' = 0 /\ Ascends(ids')
  BY DEF Undisturbed
<1>1. up' /\ other' = "off"
  BY CalmStep
<1>2. ASSUME NEW m \in Motor PROVE Waits(m)' => Pristine(m)'
  BY WaitedBefore, StillPristine
<1> QED
  BY <1>1, <1>2, SoundMotors, StartsAtRest

\* The motor on the move got the frame of this tick.
LEMMA OnCourseKept ==
  ASSUME ToolInductive, SpeedsOnly, Undisturbed, OnCourse, [Next]_vars PROVE OnCourse'
<1> DEFINE Obeys(v) == motor'[Head(ids)].mode = "speed" /\ motor'[Head(ids)].target = v
                       /\ motor'[Head(ids)].quiet = 0
<1> SUFFICES ASSUME Calm', ids' # <<>>
             PROVE  LET s == motor'[Head(ids')] IN
                    /\ pc' = "move" /\ sent' => s.mode = "speed" /\ s.target = Speeds'[at'] /\ s.quiet = 0
                    /\ pc' = "brake" /\ todo' = <<>> => s.mode = "speed" /\ s.target = 0 /\ s.quiet = 0
  BY DEF OnCourse
<1>1. /\ Calm /\ (Tick \/ ToolStep \/ UNCHANGED vars) /\ cmd \in {"identify", "jog"} /\ up
      /\ ids \in Seq(Motor) /\ ids \in Seq(Nat) /\ (pc \in Moving \cup {"ask"} => ids # <<>>)
      /\ cmd' = cmd /\ velocity' = velocity /\ EndsTheMove
  BY CalmStep, CommandKept DEF ToolInductive, ToolTypes, StepTypes, Places, Calm
<1>2. CASE SendMove
  <2>1. pc = "move" /\ Sent(Head(ids), Speed(Speeds[at])) /\ pc' = pc /\ at' = at /\ ids' = ids /\ file' = file
    BY <1>1, <1>2 DEF SendMove, Sendable, Torn, Unmoved, paper
  <2>2. Speeds' = Speeds
    BY <1>1, <2>1, SpeedsStay
  <2>3. Speeds[at] \in Int
    BY <1>2, SpeedsType, ToolConstants DEF SendMove, Sendable, Torn, ToolInductive, ToolTypes,
       StepTypes
  <2>4. Head(ids) \in Motor
    BY <1>1, <2>1, TailType DEF Moving
  <2>5. motor[Head(ids)] \in Servo /\ ~motor[Head(ids)].error
    BY <1>1, <2>4 DEF Undisturbed, ToolInductive, ToolTypes, MotorTypes
  <2>6. motor'[Head(ids)] = Command(motor[Head(ids)], Speed(Speeds[at]))
    BY <1>1, <2>1, <2>4 DEF Sent
  <2>7. Obeys(Speeds[at])
    BY <2>3, <2>5, <2>6, SpeedCommand, CommandKeeps, FramesSent
  <2> QED BY <2>1, <2>2, <2>7
<1>3. CASE Brake
  <2>1. /\ pc = "brake" /\ todo # <<>> /\ Sent(Head(todo), Speed(0)) /\ pc' = pc /\ ids' = ids
    BY <1>3 DEF Brake
  <2>2. ids # <<>> /\ todo = <<Head(ids)>>
    BY <1>1, <2>1 DEF EndsTheMove, Moving
  <2>3. Head(ids) \in Motor
    BY <1>1, <2>2, TailType
  <2>4. motor[Head(ids)] \in Servo /\ ~motor[Head(ids)].error
    BY <1>1, <2>3 DEF Undisturbed, ToolInductive, ToolTypes, MotorTypes
  <2>5. motor'[Head(ids)] = Command(motor[Head(ids)], Speed(0))
    BY <1>1, <2>1, <2>2, <2>3 DEF Sent
  <2>6. Obeys(0)
    BY <2>4, <2>5, SpeedCommand, CommandKeeps, FramesSent, 0 \in Int
  <2> QED BY <2>1, <2>6
<1>4. CASE ~SendMove /\ ~Brake
  <2>1. ASSUME pc' = "move", sent'
        PROVE  pc = "move" /\ sent /\ motor' = motor /\ at' = at /\ ids' = ids /\ file' = file
    <3>1. ~Tick /\ ~Decide /\ ~Answer
      BY <2>1 DEF Tick, Decide, SetOut, Stop, Finish, Answer
    <3>2. Supervise \/ UNCHANGED vars
      BY <1>1, <1>4, <2>1, <3>1 DEF ToolStep, Program, Begin, Hear, Deaf, Watch, Listened, Torn,
         Arrive, Braked, Free, Unsendable, Write, Stage, Stop, Finish, EndMove, Calm
    <3>3. CASE Supervise
      BY <2>1, <3>3 DEF Supervise, Unmoved, paper
    <3>4. CASE UNCHANGED vars
      BY <2>1, <3>4 DEF vars, bus, progress, paper
    <3> QED BY <3>2, <3>3, <3>4
  <2>2. ASSUME pc' = "brake", todo' = <<>>
        PROVE  pc = "brake" /\ todo = <<>> /\ motor' = motor /\ ids' = ids
    <3>1. ~(pc \in Moving /\ Targets = <<>>)
      BY <1>1, TargetsType DEF Moving
    <3>2. ~Decide /\ ~Answer
      BY <1>1, <2>2 DEF Decide, SetOut, Stop, Finish, Answer, GoOn
    <3>3. ~Tick
      BY <2>2, <3>1 DEF Tick, Moving
    <3>4. ~Torn /\ ~Supervise /\ ~Arrive
      BY <2>2, <3>1 DEF Torn, Supervise, Arrive, EndMove, Moving
    <3>5. UNCHANGED vars
      BY <1>1, <1>4, <2>2, <3>2, <3>3, <3>4 DEF ToolStep, Program, Begin, Hear, Deaf, Watch,
         Listened, Braked, Free, Unsendable, Write, Stage, Stop, Finish, Calm, Moving
    <3> QED BY <2>2, <3>5 DEF vars, bus, progress
  <2>3. CASE pc' = "move" /\ sent'
    <3>1. Speeds' = Speeds
      BY <1>1, <2>1, <2>3, SpeedsStay
    <3> QED BY <1>1, <2>1, <2>3, <3>1 DEF OnCourse
  <2>4. CASE pc' = "brake" /\ todo' = <<>>
    BY <1>1, <2>2, <2>4 DEF OnCourse
  <2> QED BY <2>3, <2>4
<1> QED
  BY <1>2, <1>3, <1>4

-----------------------------------------------------------------------------
(* How far a jog gets *)

LEMMA EffectiveFacts ==
  ASSUME NEW how, NEW v \in Int
  PROVE  /\ Effective(how, v) \in Int /\ Effective(how, 0) = 0
         /\ Effective(how, -v) = -Effective(how, v)
         /\ Fastest(v) \in Nat /\ Abs(Effective(how, v)) <= Fastest(v)
<1>1. PICK m \in Nat : m = Margin
  BY ToolConstants
<1>2. PICK a \in Nat : a = Abs(v) /\ a = Abs(-v) /\ (v > 0 => a = v) /\ (v < 0 => a = -v) /\ (v = 0 => a = 0)
  BY DEF Abs
<1>3. PICK far \in Nat : far = Larger(Margin, Abs(v)) /\ far = Larger(Margin, Abs(-v))
  BY <1>1, <1>2 DEF Larger
<1>4. /\ Toward(v) = (IF v < 0 THEN -1 ELSE IF v = 0 THEN 0 ELSE 1)
      /\ Toward(-v) = (IF v < 0 THEN 1 ELSE IF v = 0 THEN 0 ELSE -1)
  BY DEF Toward
<1>5. PICK turns \in Int : turns = v + Toward(v) * far
  BY <1>3, <1>4
<1>6. PICK back \in Int : back = -v + Toward(-v) * far
  BY <1>3, <1>4
<1>7. /\ v > 0 => turns = v + far /\ back = -v - far
      /\ v < 0 => turns = v - far /\ back = -v + far
      /\ v = 0 => turns = 0 /\ back = 0
  BY ONLY <1>3, <1>4, <1>5, <1>6
<1>8. Effective(how, v) \in {0, v, turns} /\ Effective(how, -v) = -Effective(how, v)
  <2>1. Effective(how, v) = IF how = "stuck" THEN 0 ELSE IF how = "fast" THEN turns ELSE v
    BY <1>3, <1>5 DEF Effective
  <2>2. Effective(how, -v) = IF how = "stuck" THEN 0 ELSE IF how = "fast" THEN back ELSE -v
    BY <1>3, <1>6 DEF Effective
  <2>3. back = -turns
    BY ONLY <1>7, v \in Int, turns \in Int, back \in Int, far \in Nat
  <2> QED BY ONLY <2>1, <2>2, <2>3, turns \in Int
<1>9. Effective(how, 0) = 0
  <2>1. Toward(0) = 0 /\ Larger(Margin, Abs(0)) \in Nat
    BY <1>1 DEF Toward, Larger, Abs
  <2>2. 0 + Toward(0) * Larger(Margin, Abs(0)) = 0
    BY <2>1
  <2> QED BY <2>2 DEF Effective
<1>10. Fastest(v) = IF v = 0 THEN 0 ELSE a + far
  BY <1>2, <1>3 DEF Fastest
<1>11. Abs(Effective(how, v)) <= Fastest(v)
  BY <1>2, <1>7, <1>8, <1>10 DEF Abs
<1> QED
  BY <1>8, <1>9, <1>10, <1>11

LEMMA LimitedShrinks ==
  ASSUME NEW x \in Int, NEW n \in Nat, Abs(x) <= n
  PROVE  Abs(Limited(x)) <= n
  BY ServoConstants DEF Limited, Abs, Toward

LEMMA LimitedIsNone ==
  ASSUME NEW x \in Int, Abs(x) <= MaxPosition
  PROVE  Limited(x) = x
  BY DEF Limited

\* A drive that does not run away turns as fast as it can for what it is told.
LEMMA EffectiveTurns ==
  ASSUME NEW m \in Motor, NEW s \in Servo, s.mode = "speed", ~s.error,
         s.stuck = (kind[m] = "stuck"), kind[m] # "runaway"
  PROVE  Actual(m, s) = Effective(kind[m], s.target)
<1>1. ~Arrives(s)
  BY DEF Arrives
<1>2. Turning(s) = IF s.stuck THEN 0 ELSE s.target
  BY <1>1 DEF Turning
<1>3. CASE kind[m] = "fast"
  BY <1>3 DEF Actual, Effective
<1>4. CASE kind[m] # "fast"
  BY <1>2, <1>4 DEF Actual, Effective
<1> QED
  BY <1>3, <1>4

\* A tick of the motor on the move, for the speed it was told for this tick.
LEMMA TickOfMove ==
  ASSUME ToolInductive, SpeedsOnly, Natures, Undisturbed, OnCourse, Calm, Tick, pc \in Moving
  PROVE  LET h == Head(ids)
             told == IF pc = "move" THEN Speeds[at] ELSE 0
         IN /\ h \in Motor /\ pc \in {"move", "brake"} /\ told \in Int
            /\ pc = "move" => at \in 1..Len(Speeds)
            /\ motor[h].mode = "speed" /\ motor[h].target = told
            /\ motor'[h] = Ticked(h) /\ Ticked(h).mode = "speed"
            /\ kind[h] # "runaway" =>
                 /\ Ticked(h).speed = Effective(kind[h], told)
                 /\ Ticked(h).encoder = Limited(motor[h].encoder + Effective(kind[h], told))
            /\ kind[h] = "runaway" =>
                 /\ Ticked(h).encoder = Limited(motor[h].encoder + Ticked(h).speed)
                 /\ Ticked(h).speed \in {0, FullSpeed, -FullSpeed}
                 /\ Ticked(h).speed = 0 => told = 0 /\ motor[h].speed = 0
<1> DEFINE h == Head(ids)
<1>1. /\ cmd \in {"identify", "jog"} /\ other = "off" /\ ids \in Seq(Motor) /\ ids # <<>> /\ MotorTypes
      /\ velocity \in Int /\ at \in Nat \ {0}
  BY ToolConstants DEF ToolInductive, ToolTypes, StepTypes, Places, Calm, Undisturbed
<1>2. h \in Motor
  BY <1>1, TailType
<1>3. pc \in {"move", "brake"} /\ (pc = "move" => sent) /\ (pc = "brake" => todo = <<>>)
  BY DEF Tick, Due, Moving
<1>4. pc = "move" => at \in 1..Len(Speeds)
  <2>1. pc = "move" => at <= Len(Speeds)
    BY <1>1, <1>3 DEF SpeedsOnly
  <2>2. Len(Speeds) \in Nat
    BY <1>1, SpeedsCount
  <2> QED BY <1>1, <2>1, <2>2
<1>5. PICK told \in Int : told = IF pc = "move" THEN Speeds[at] ELSE 0
  BY <1>1, <1>4, SpeedsType
<1>6. PICK s \in Servo : s = motor[h]
  BY <1>1, <1>2 DEF MotorTypes
<1>7. s.mode = "speed" /\ s.target = told /\ s.quiet = 0
  BY <1>1, <1>3, <1>5, <1>6 DEF OnCourse
<1>8. ~s.error /\ s.stuck = (kind[h] = "stuck")
  BY <1>2, <1>6 DEF Undisturbed, Natures
<1>9. /\ Ticked(h).mode = "speed" /\ Ticked(h).speed = Actual(h, s)
      /\ Ticked(h).encoder = Limited(s.encoder + Actual(h, s))
  <2>1. Expire(s) = s
    BY <1>1, <1>2, <1>6, <1>7, TickTurns
  <2> QED BY <1>1, <1>2, <1>6, <1>7, <2>1, TickTurns
<1>10. motor'[h] = Ticked(h)
  BY <1>2 DEF Tick
<1>11. kind[h] # "runaway" => Actual(h, s) = Effective(kind[h], told)
  BY <1>2, <1>7, <1>8, EffectiveTurns
<1>12. ASSUME kind[h] = "runaway"
       PROVE  /\ Ticked(h).speed \in {0, FullSpeed, -FullSpeed}
              /\ Ticked(h).speed = 0 => told = 0 /\ s.speed = 0
  <2>1. FullSpeed \in Nat /\ FullSpeed > 0
    <3>1. SafeSpeed(0)
      BY SupervisionAssumption DEF SafeSpeed
    <3>2. Abs(0) = 0 /\ Margin \in Nat /\ FullSpeed \in Nat
      BY ToolConstants DEF Abs
    <3>3. Larger(Margin, Abs(0)) \in Nat
      BY <3>2 DEF Larger
    <3> QED BY <3>1, <3>2, <3>3 DEF SafeSpeed
  <2>2. s.speed \in Int
    BY DEF Servo, ServoRecord
  <2>3. PICK to \in Int : to = IF told = 0 THEN -s.speed ELSE told
    BY <2>2
  <2>4. /\ to > 0 => Ticked(h).speed = -FullSpeed
        /\ to < 0 => Ticked(h).speed = FullSpeed
        /\ to = 0 => Ticked(h).speed = 0
    BY <1>1, <1>2, <1>6, <1>7, <1>9, <1>12, <2>3, RunawayTurns
  <2>5. to = 0 => told = 0 /\ s.speed = 0
    BY <2>2, <2>3
  <2> QED BY <2>1, <2>4, <2>5
<1> QED
  BY <1>2, <1>3, <1>4, <1>5, <1>6, <1>7, <1>9, <1>10, <1>11, <1>12

\* What is not a tick does not move a motor.
LEMMA MotorsStay ==
  ASSUME ToolInductive, Undisturbed, [Next]_vars, Calm', ~Tick, NEW m \in Motor
  PROVE  motor'[m].encoder = motor[m].encoder /\ motor'[m].speed = motor[m].speed
<1>1. motor[m] \in Servo
  BY DEF ToolInductive, ToolTypes, MotorTypes
<1>2. \A c : Frame(c) => /\ Command(motor[m], c).encoder = motor[m].encoder
                         /\ Command(motor[m], c).speed = motor[m].speed
  BY <1>1, CommandKeeps
<1>3. SendMove => Speeds[at] \in Int
  BY SpeedsType, ToolConstants DEF SendMove, Sendable, Torn, ToolInductive, ToolTypes, StepTypes
<1> QED
  BY <1>1, <1>2, <1>3, FramesSent, CalmChanges, 0 \in Int

\* A move that goes on, or one that starts with a motor that waited for it.
LEMMA CalmMove ==
  ASSUME ToolInductive, SpeedsOnly, Undisturbed, [Next]_vars, Calm', pc' \in Moving
  PROVE  \/ /\ pc \in Moving /\ ids' = ids /\ file' = file /\ pc # "begin"
            /\ \/ Tick /\ pc' = pc /\ at' = IF pc = "move" THEN at + 1 ELSE at
               \/ ~Tick /\ at' = at /\ astray' = astray
         \/ /\ pc' = "move" /\ at' = 1 /\ ids' # <<>> /\ Head(ids') \in Motor
            /\ motor'[Head(ids')].encoder = 0 /\ motor'[Head(ids')].speed = 0
            /\ pc \in {"listen", "ask"}
<1>1. /\ Calm /\ cmd \in {"identify", "jog"} /\ (Tick \/ ToolStep \/ UNCHANGED vars)
  BY CalmStep DEF Calm
<1>2. CASE Decide \/ Answer
  <2>1. pc' = "move" /\ at' = 1 /\ motor' = motor /\ pc \in {"listen", "ask"}
    BY <1>1, <1>2 DEF Decide, Answer, GoOn, Stop, Finish, SetOut, Listened, Moving, bus
  <2>2. /\ ids \in Seq(Motor) /\ ids' \in Seq(Motor) /\ ids' # <<>> /\ (pc = "ask" => ids # <<>>)
        /\ Head(ids') \in Motor
    <3>1. ToolInductive'
      BY ToolInductiveStays
    <3>2. ids' \in Seq(Motor) /\ ids' # <<>>
      BY <3>1, <2>1 DEF ToolInductive, ToolTypes, StepTypes, Places, Moving
    <3> QED BY <1>1, <3>2, TailType DEF ToolInductive, ToolTypes, StepTypes, Places, Moving
  <2>3. Waits(Head(ids'))
    <3>1. CASE Decide
      BY <3>1 DEF Decide, Listened, Waits
    <3>2. CASE Answer
      <4>1. budget' = budget /\ budget \in Nat /\ pc = "ask"
        BY <3>2, CalmStep, ToolConstants DEF Answer, ToolInductive, ToolTypes, PaperTypes, StepTypes
      <4>2. Len(ids) > 1 /\ ids' = Tail(ids)
        BY <2>1, <3>2, <4>1 DEF Answer, GoOn
      <4>3. ids'[1] = Head(ids') /\ 1 \in DOMAIN Tail(ids)
        <5>1. PICK rest \in Seq(Motor) : rest = ids' /\ rest # <<>>
          BY <2>2
        <5>2. Len(rest) \in Nat /\ Len(rest) # 0
          BY <5>1, EmptySeq
        <5>3. Head(rest) = rest[1] /\ 1 \in DOMAIN rest
          BY <5>1, <5>2
        <5> QED BY <4>2, <5>1, <5>3
      <4> QED BY <4>1, <4>2, <4>3 DEF Waits, ToSet
    <3> QED BY <1>2, <3>1, <3>2
  <2>4. Pristine(Head(ids'))
    BY <1>1, <2>2, <2>3 DEF Undisturbed
  <2> QED BY <2>1, <2>2, <2>4 DEF Pristine
<1>3. CASE Tick
  <2>1. pc \in Moving /\ pc' = pc /\ ids' = ids /\ file' = file /\ at' = IF pc = "move" THEN at + 1 ELSE at
    BY <1>3 DEF Tick, paper
  <2> QED BY <1>3, <2>1 DEF Moving
<1>4. CASE ~Decide /\ ~Answer /\ ~Tick
  <2>1. pc \in Moving /\ ids' = ids /\ file' = file /\ at' = at
    BY <1>1, <1>4, OnTheMove
  <2>2. astray' = astray
    BY <1>1, <1>4 DEF ToolStep, Program, Begin, Hear, Deaf, Watch, SendMove, Sendable, Torn,
       Supervise, Arrive, Brake, Braked, Free, Unsendable, Write, vars, ghosts, Stop, Unmoved
  <2> QED BY <1>4, <2>1, <2>2 DEF Moving
<1> QED
  BY <1>2, <1>3, <1>4

\* Every tick of a jog turns a motor that follows by as much, and one that runs away is at full
\* speed as long as it is astray.
LEMMA JogTravelKept ==
  ASSUME ToolInductive, SpeedsOnly, Natures, OnlyTheMoved, Undisturbed, OnCourse, JogTravel, [Next]_vars
  PROVE  JogTravel'
<1> SUFFICES ASSUME Calm', cmd' = "jog", pc' \in Moving
             PROVE  LET h == Head(ids') IN
                    IF kind'[h] = "runaway"
                    THEN /\ Abs(motor'[h].encoder) <= FullSpeed * astray'[h]
                         /\ (astray'[h] > 0 => motor'[h].speed # 0)
                    ELSE Abs(motor'[h].encoder) <= (at' - 1) * Fastest(velocity')
  BY DEF JogTravel
<1> DEFINE h == Head(ids')
<1>1. /\ Calm /\ cmd = "jog" /\ kind' = kind /\ velocity' = velocity /\ velocity \in Int
      /\ other = "off" /\ other' = "off" /\ up /\ at \in Nat \ {0} /\ FullSpeed \in Nat /\ Fastest(velocity) \in Nat
  <2>1. /\ Calm /\ cmd' = cmd /\ kind' = kind /\ velocity' = velocity /\ velocity \in Int
        /\ other = "off" /\ other' = other /\ up /\ at \in Nat \ {0} /\ FullSpeed \in Nat
    BY CalmStep, CommandKept, ToolConstants DEF ToolInductive, ToolTypes, StepTypes
  <2> QED BY <2>1, EffectiveFacts
<1>2. CASE /\ pc' = "move" /\ at' = 1 /\ h \in Motor /\ motor'[h].encoder = 0
           /\ motor'[h].speed = 0 /\ pc \in {"listen", "ask"}
  <2>1. astray'[h] = 0
    <3>1. Decide \/ Answer
      BY <1>1, <1>2, CalmStep DEF ToolStep, Program, Begin, Hear, Deaf, Watch, Listened, SendMove,
         Sendable, Torn, Supervise, Arrive, Brake, Braked, Free, Unsendable, Write, Tick, vars,
         Stop, Finish, Calm
    <3>2. CASE Decide
      <4>1. pc = "listen" /\ astray' = astray
        BY <1>2, <3>2 DEF Decide, Listened, Stop, Finish
      <4>2. astray[h] \in Nat /\ ~(astray[h] > 0)
        BY <1>1, <1>2, <4>1 DEF OnlyTheMoved, Moving, ToolInductive, ToolTypes, PaperTypes
      <4> QED BY <4>1, <4>2
    <3>3. CASE Answer
      BY <1>2, <3>3 DEF Answer
    <3> QED BY <3>1, <3>2, <3>3
  <2>2. Abs(0) = 0 /\ FullSpeed * 0 = 0 /\ (1 - 1) * Fastest(velocity) = 0
    BY <1>1 DEF Abs
  <2> QED BY <1>1, <1>2, <2>1, <2>2
<1>3. CASE pc \in Moving /\ ids' = ids /\ ~Tick /\ at' = at /\ astray' = astray
  <2>1. h \in Motor /\ h = Head(ids)
    <3>1. ids \in Seq(Motor) /\ ids # <<>>
      BY <1>1, <1>3 DEF ToolInductive, ToolTypes, StepTypes, Places, Moving
    <3> QED BY <1>3, <3>1, TailType
  <2>2. motor'[h].encoder = motor[h].encoder /\ motor'[h].speed = motor[h].speed
    BY <1>3, <2>1, MotorsStay
  <2> QED BY <1>1, <1>3, <2>1, <2>2 DEF JogTravel
<1>4. CASE pc \in Moving /\ ids' = ids /\ Tick /\ at' = IF pc = "move" THEN at + 1 ELSE at
  <2>1. h = Head(ids)
    BY <1>4
  <2>2. PICK told \in Int : told = IF pc = "move" THEN Speeds[at] ELSE 0
    BY <1>1, <1>4, TickOfMove
  <2>3. /\ h \in Motor /\ motor'[h] = Ticked(h) /\ Ticked(h).mode = "speed"
        /\ kind[h] # "runaway" => Ticked(h).encoder = Limited(motor[h].encoder + Effective(kind[h], told))
        /\ kind[h] = "runaway" =>
             /\ Ticked(h).encoder = Limited(motor[h].encoder + Ticked(h).speed)
             /\ Ticked(h).speed \in {0, FullSpeed, -FullSpeed}
             /\ Ticked(h).speed = 0 => motor[h].speed = 0
    BY <1>1, <1>4, <2>1, <2>2, TickOfMove
  <2>4. PICK x \in Int : x = motor[h].encoder
    BY <2>3 DEF ToolInductive, ToolTypes, MotorTypes, Servo, ServoRecord, Reach
  <2>5. CASE kind[h] # "runaway"
    <3>1. Abs(x) <= (at - 1) * Fastest(velocity)
      BY <1>1, <1>4, <2>1, <2>4, <2>5 DEF JogTravel
    <3>2. told = IF pc = "move" THEN velocity ELSE 0
      <4>1. pc = "move" => at \in 1..Len(Speeds)
        BY <1>1, <1>4, TickOfMove
      <4> QED BY <1>1, <2>2, <4>1, JogSpeed
    <3>3. PICK e \in Int : e = Effective(kind[h], told) /\ (pc # "move" => e = 0) /\ Abs(e) <= Fastest(velocity)
      <4>1. Effective(kind[h], told) = IF pc = "move" THEN Effective(kind[h], velocity) ELSE 0
        BY <3>2, EffectiveFacts
      <4>2. Abs(0) = 0
        BY DEF Abs
      <4> QED BY <1>1, <4>1, <4>2, EffectiveFacts
    <3>4. PICK f \in Nat : f = Fastest(velocity)
      BY <1>1
    <3>5. PICK n \in Nat : n = (at' - 1) * f
      BY <1>1, <1>4, <3>4
    <3>6. Abs(x + e) <= n
      <4>1. pc = "move" => n = (at - 1) * f + f
        BY <1>1, <1>4, <3>5
      <4>2. pc # "move" => n = (at - 1) * f
        BY <1>1, <1>4, <3>5
      <4>3. (at - 1) * f \in Int
        BY <1>1
      <4>4. Abs(x) <= (at - 1) * f /\ Abs(e) <= f /\ (pc # "move" => e = 0)
        BY <3>1, <3>3, <3>4
      <4> QED BY ONLY <4>1, <4>2, <4>3, <4>4, x \in Int, e \in Int, f \in Nat, n \in Nat DEF Abs
    <3>7. Abs(Limited(x + e)) <= n
      BY <3>6, LimitedShrinks
    <3> QED BY <1>1, <2>3, <2>4, <2>5, <3>3, <3>4, <3>5, <3>7
  <2>6. CASE kind[h] = "runaway"
    <3>1. Abs(x) <= FullSpeed * astray[h] /\ (astray[h] > 0 => motor[h].speed # 0) /\ astray[h] \in Nat
      BY <1>1, <1>4, <2>1, <2>3, <2>4, <2>6 DEF JogTravel, ToolInductive, ToolTypes, PaperTypes
    <3>2. PICK v \in Int : v = Ticked(h).speed /\ v \in {0, FullSpeed, -FullSpeed}
      BY <1>1, <2>3, <2>6
    <3>3. astray'[h] = IF v # 0 THEN astray[h] + 1 ELSE 0
      <4>1. ~motor[h].silent
        BY <1>1, <2>3 DEF Undisturbed
      <4>2. astray'[h] = IF kind[h] = "runaway" /\ motor'[h].mode # "idle" /\ motor'[h].speed # 0
                              /\ ~motor[h].silent /\ pc \in Moving /\ up
                         THEN astray[h] + 1 ELSE 0
        BY <1>4, <2>3 DEF Tick
      <4> QED BY <1>1, <1>4, <2>3, <2>6, <3>2, <4>1, <4>2
    <3>4. CASE v = 0
      <4>1. astray[h] = 0 /\ FullSpeed * 0 = 0
        BY <1>1, <2>3, <2>6, <3>1, <3>2, <3>4
      <4>2. Abs(x + v) <= 0
        BY <3>1, <3>4, <4>1
      <4>3. Abs(Limited(x + v)) <= 0
        BY <4>2, LimitedShrinks
      <4> QED BY <1>1, <2>3, <2>4, <2>6, <3>2, <3>3, <3>4, <4>1, <4>3
    <3>5. CASE v # 0
      <4>1. PICK n \in Nat : n = FullSpeed * (astray[h] + 1)
        BY <1>1, <3>1
      <4>2. n = FullSpeed * astray[h] + FullSpeed /\ FullSpeed * astray[h] \in Nat
        BY <1>1, <3>1, <4>1
      <4>3. Abs(x + v) <= n
        <5>1. PICK p \in Nat : p = FullSpeed * astray[h] /\ n = p + FullSpeed /\ Abs(x) <= p
          BY <3>1, <4>2
        <5> QED BY ONLY <1>1, <3>2, <5>1, x \in Int, n \in Nat DEF Abs
      <4>4. Abs(Limited(x + v)) <= n
        BY <4>3, LimitedShrinks
      <4> QED BY <1>1, <2>3, <2>4, <2>6, <3>2, <3>3, <3>5, <4>1, <4>4
    <3> QED BY <3>4, <3>5
  <2> QED BY <2>5, <2>6
<1> QED
  BY <1>2, <1>3, <1>4, CalmMove

\* What is left between the ticks of the travel limit, and what the motors add to their command.
LEMMA TravelIsBound ==
  ASSUME ToolInductive, SpeedsOnly, OnlyTheMoved, ToldInTime, Undisturbed, JogTravel
  PROVE  TravelBound
<1> DEFINE h == Head(ids)
<1> SUFFICES ASSUME cmd = "jog", pc \in Moving, JointOf(h) \in Gizmo, budget = Mishaps[cmd]
             PROVE  Abs(motor[h].encoder - start) <= MaxTravel + Slack(h)
  BY DEF TravelBound
<1>1. /\ Calm /\ other = "off" /\ start = 0 /\ h \in Motor /\ velocity \in Int /\ at \in Nat \ {0}
      /\ at <= Len(Speeds) + 1 /\ FullSpeed \in Nat /\ MaxTravel \in Nat /\ Margin \in Nat /\ BrakeTicks \in Nat
  <2>1. Calm
    BY DEF Calm
  <2>2. ids \in Seq(Motor) /\ ids # <<>>
    BY DEF ToolInductive, ToolTypes, StepTypes, Places
  <2>3. h \in Motor
    BY <2>2, TailType
  <2> QED
    BY <2>1, <2>3, ToolConstants DEF Undisturbed, SpeedsOnly, ToolInductive, ToolTypes, StepTypes
<1>2. PICK x \in Int : x = motor[h].encoder /\ motor[h].encoder - start = x
  BY <1>1 DEF ToolInductive, ToolTypes, MotorTypes, Servo, ServoRecord, Reach
<1>20. PICK y \in Nat : y = Abs(x) /\ y = Abs(motor[h].encoder - start)
  BY <1>2, TowardType
<1>3. CASE kind[h] = "runaway"
  <2>1. astray[h] \in Nat /\ astray[h] <= 1 + BrakeTicks
    <3>1. astray[h] \in Nat /\ astray[h] <= IF cause = "runaway" THEN 1 ELSE 1 + BrakeTicks
      BY <1>1, CaughtIsCaught DEF RunawayCaught, ToolInductive, ToolTypes, PaperTypes
    <3> QED BY <1>1, <3>1
  <2>2. PICK n \in Nat : n = 1 + BrakeTicks
    BY <1>1
  <2>3. PICK k \in Nat : k = n - astray[h]
    BY <2>1, <2>2
  <2>4. FullSpeed * n = FullSpeed * astray[h] + FullSpeed * k /\ FullSpeed * k \in Nat
    <3>1. n = astray[h] + k
      BY <2>1, <2>3
    <3> QED BY <1>1, <2>1, <3>1
  <2>5. Abs(x) <= FullSpeed * astray[h]
    BY <1>1, <1>2, <1>3 DEF JogTravel
  <2>6. Slack(h) = FullSpeed * n
    BY <1>3, <2>2 DEF Slack
  <2>7. FullSpeed * astray[h] \in Nat
    BY <1>1, <2>1
  <2> QED BY ONLY <1>1, <1>20, <2>4, <2>5, <2>6, <2>7
<1>4. CASE kind[h] # "runaway"
  <2>1. PICK n \in Nat : n = Len(Speeds) /\ n = JogTicks(h) /\ at - 1 <= n
    BY <1>1, JogSpeed
  <2>2. PICK f \in Nat : f = Fastest(velocity)
    BY <1>1, EffectiveFacts
  <2>3. Abs(x) <= (at - 1) * f
    BY <1>1, <1>2, <1>4, <2>2 DEF JogTravel
  <2>4. PICK i \in Nat : i = at - 1 /\ i <= n
    BY <1>1, <2>1
  <2>5. Abs(x) <= n * f
    <3>1. PICK k \in Nat : n = i + k
      <4>1. n - i \in Nat /\ n = i + (n - i)
        BY <2>4
      <4> QED BY <4>1
    <3>2. n * f = i * f + k * f /\ k * f \in Nat /\ i * f \in Nat
      BY <3>1
    <3> QED BY <2>3, <2>4, <3>2, TowardType
  <2>6. PICK a \in Nat : a = Abs(velocity) /\ (velocity # 0 => a > 0)
    BY <1>1, TowardType DEF Abs
  <2>7. PICK far \in Nat : far = Larger(Margin, Abs(velocity))
    BY <1>1, <2>6 DEF Larger
  <2>8. PICK d \in Nat : d = MaxTravel \div Larger(1, Abs(velocity))
    <3>1. PICK w \in Nat \ {0} : w = Larger(1, Abs(velocity))
      BY <2>6 DEF Larger
    <3>2. MaxTravel \div w \in Nat
      BY <1>1, <3>1
    <3> QED BY <3>1, <3>2
  <2>9. Slack(h) = a + far * (d + 1)
    BY <1>4, <2>6, <2>7, <2>8 DEF Slack
  <2>10. far * (d + 1) \in Nat
    BY <2>7, <2>8
  <2>11. CASE velocity = 0
    <3>1. n * f = 0
      BY <2>1, <2>2, <2>11 DEF Fastest
    <3> QED BY ONLY <1>1, <1>20, <2>5, <2>9, <2>10, <3>1, a \in Nat
  <2>12. CASE velocity # 0
    <3>1. /\ n = IF TRUE /\ Duration * Abs(velocity) > MaxTravel
                 THEN -((-MaxTravel) \div Abs(velocity)) ELSE Duration
      BY <2>1 DEF JogTicks
    <3>2. n * Abs(velocity) <= MaxTravel + Abs(velocity) - 1 /\ n <= (MaxTravel \div Abs(velocity)) + 1
      BY <1>1, <2>12, <3>1, CutDuration, TRUE \in BOOLEAN
    <3>3. Larger(1, Abs(velocity)) = Abs(velocity)
      BY <2>6, <2>12 DEF Larger
    <3>4. n * a <= MaxTravel + a - 1 /\ n <= d + 1
      BY <2>6, <2>8, <3>2, <3>3
    <3>5. f = a + far
      BY <2>2, <2>6, <2>7, <2>12 DEF Fastest
    <3>6. n * f = n * a + n * far /\ n * a \in Nat /\ n * far \in Nat
      BY <3>5
    <3>7. n * far <= far * (d + 1)
      <4>1. PICK k \in Nat : d + 1 = n + k
        <5>1. d + 1 - n \in Nat /\ d + 1 = n + (d + 1 - n)
          BY <3>4
        <5> QED BY <5>1
      <4>2. far * (n + k) = n * far + far * k /\ far * k \in Nat
        OBVIOUS
      <4>3. n * far + far * k = far * (d + 1)
        BY <4>1, <4>2
      <4> QED BY ONLY <3>6, <4>2, <4>3
    <3> QED BY ONLY <1>1, <1>20, <2>5, <2>9, <2>10, <3>4, <3>6, <3>7, a \in Nat
  <2> QED BY <2>11, <2>12
<1> QED
  BY <1>3, <1>4

-----------------------------------------------------------------------------
(* Where a move of identify is *)

LEMMA LeastNumber ==
  ASSUME NEW T, T \subseteq Nat, T # {}
  PROVE  \E x \in T : \A y \in T : x <= y
<1>1. \E x \in T : \A y \in T : ~(<<y, x>> \in OpToRel(<, Nat))
  BY WFMin, NatLessThanWellFounded
<1>2. PICK x \in T : \A y \in T : ~(<<y, x>> \in OpToRel(<, Nat))
  BY <1>1
<1>3. ASSUME NEW y \in T PROVE x <= y
  <2>1. ~(y < x)
    BY <1>2 DEF OpToRel
  <2> QED BY <2>1
<1> QED
  BY <1>3

\* The places of a leg, tick by tick, as far as its n-th.
LegOf(f, how, n) == f = [k \in 0..n |-> IF k = 0 THEN 0 ELSE f[k - 1] + Effective(how, Profile[k])]

LEMMA LegsExist ==
  ASSUME NEW how
  PROVE  \E f \in [0..Len(Profile) -> Int] : LegOf(f, how, Len(Profile))
<1> DEFINE Gaps == {n \in 0..Len(Profile) : ~\E f \in [0..n -> Int] : LegOf(f, how, n)}
<1>0. Len(Profile) \in Nat /\ \A k \in 1..Len(Profile) : Effective(how, Profile[k]) \in Int
  BY SupervisionConstants, EffectiveFacts
<1>1. Gaps \subseteq Nat
  BY <1>0
<1> SUFFICES ASSUME Gaps # {} PROVE FALSE
  BY <1>0
<1>2. PICK n \in Gaps : \A m \in Gaps : n <= m
  BY <1>1, LeastNumber
<1>3. n # 0
  <2>1. ASSUME n = 0 PROVE LegOf([k \in 0..0 |-> 0], how, n)
    BY <2>1 DEF LegOf
  <2>2. [k \in 0..0 |-> 0] \in [0..0 -> Int]
    OBVIOUS
  <2> QED BY <1>2, <2>1, <2>2
<1>4. n \in 1..Len(Profile) /\ n - 1 \in 0..Len(Profile) /\ ~(n <= n - 1)
  BY <1>0, <1>1, <1>2, <1>3
<1>5. n - 1 \notin Gaps
  <2> HIDE DEF Gaps
  <2> QED BY <1>2, <1>4
<1>6. PICK f \in [0..(n - 1) -> Int] : LegOf(f, how, n - 1)
  BY <1>4, <1>5
<1>7. PICK e \in Int : e = Effective(how, Profile[n])
  BY <1>0, <1>4
<1> DEFINE g == [k \in 0..n |-> IF k < n THEN f[k] ELSE f[n - 1] + e]
<1>8. g \in [0..n -> Int]
  BY <1>4, <1>7
<1>9. ASSUME NEW k \in 0..n PROVE g[k] = IF k = 0 THEN 0 ELSE g[k - 1] + Effective(how, Profile[k])
  <2>1. CASE k = n
    BY <1>4, <1>7, <2>1
  <2>2. CASE k # n
    <3>1. k \in 0..(n - 1) /\ g[k] = f[k] /\ (k # 0 => k - 1 \in 0..n /\ g[k - 1] = f[k - 1])
      BY <1>4, <2>2
    <3>2. f[k] = IF k = 0 THEN 0 ELSE f[k - 1] + Effective(how, Profile[k])
      BY <1>6, <3>1 DEF LegOf
    <3> QED BY <3>1, <3>2
  <2> QED BY <2>1, <2>2
<1>10. LegOf(g, how, n)
  BY <1>9 DEF LegOf
<1> QED
  BY <1>2, <1>8, <1>10

\* Tick by tick, a leg gets as far as its speeds take the motor, and no further than half of what
\* a status frame can report.
LEMMA LegAt ==
  ASSUME NEW how
  PROVE  /\ Leg(how)[0] = 0
         /\ \A k \in 0..Len(Profile) : /\ Leg(how)[k] \in Int /\ 2 * Abs(Leg(how)[k]) <= MaxPosition
                                       /\ k # 0 => Leg(how)[k] = Leg(how)[k - 1] + Effective(how, Profile[k])
<1> DEFINE leg == CHOOSE f : LegOf(f, how, Len(Profile))
<1>1. LegOf(leg, how, Len(Profile))
  BY LegsExist
<1>2. Leg(how) = leg
  BY DEF Leg, LegOf
<1> HIDE DEF leg
<1>3. PICK n \in Nat \ {0} : n = Len(Profile)
  BY SupervisionConstants
<1>4. \A k \in 0..n : leg[k] = IF k = 0 THEN 0 ELSE leg[k - 1] + Effective(how, Profile[k])
  BY <1>1, <1>3 DEF LegOf
<1>5. PICK most \in Nat : most = MaxPosition
  BY ServoConstants
<1>6. ASSUME NEW k \in 1..n
      PROVE  /\ Effective(how, Profile[k]) \in Int
             /\ 2 * n * Abs(Effective(how, Profile[k])) <= most
  <2>1. PICK v \in Int : v = Profile[k] /\ v \in ToSet(Profile)
    BY <1>3, SupervisionConstants DEF ToSet
  <2>2. PICK w \in Int : w = Abs(v) + Larger(Margin, Abs(v))
    <3>1. Abs(v) \in Nat /\ Margin \in Nat
      BY TowardType, ToolConstants
    <3> QED BY <3>1 DEF Larger
  <2>3. 2 * n * w <= most
    BY <1>3, <1>5, <2>1, <2>2, SupervisionAssumption
  <2>4. PICK e \in Int : e = Effective(how, v)
    BY EffectiveFacts
  <2>5. PICK a \in Nat : a = Abs(e) /\ a <= w
    <3>1. Abs(e) \in Nat /\ Abs(e) <= Fastest(v) /\ Fastest(v) \in Nat
      BY <2>4, EffectiveFacts, TowardType
    <3>2. Fastest(v) <= w
      <4>1. Abs(v) \in Nat /\ Larger(Margin, Abs(v)) \in Nat
        BY TowardType, ToolConstants DEF Larger
      <4> QED BY <2>2, <4>1 DEF Fastest
    <3> QED BY <2>2, <3>1, <3>2
  <2>6. 2 * n * a <= 2 * n * w
    <3>1. PICK d \in Nat : w = a + d
      <4>1. w - a \in Nat /\ w = a + (w - a)
        BY <2>5
      <4> QED BY <4>1
    <3>2. 2 * n * (a + d) = 2 * n * a + 2 * n * d /\ 2 * n * d \in Nat /\ 2 * n * a \in Nat
      OBVIOUS
    <3> QED BY <3>1, <3>2
  <2>7. 2 * n * a \in Nat /\ 2 * n * w \in Int
    OBVIOUS
  <2> QED BY <2>1, <2>3, <2>4, <2>5, <2>6, <2>7
<1> DEFINE Near(k) == leg[k] \in Int /\ 2 * n * Abs(leg[k]) <= k * most
           Far == {k \in 0..n : ~Near(k)}
<1>7. ASSUME Far # {} PROVE FALSE
  <2>1. PICK k \in Far : \A j \in Far : k <= j
    <3>1. Far \subseteq Nat
      BY <1>3
    <3> HIDE DEF Far
    <3> QED BY <1>7, <3>1, LeastNumber
  <2>2. k \in 0..n /\ ~Near(k)
    BY <2>1
  <2>3. k # 0
    <3>1. ASSUME k = 0 PROVE leg[k] = 0
      BY <1>4, <2>2, <3>1
    <3>2. Abs(0) = 0 /\ 2 * n * 0 = 0 /\ 0 * most = 0
      BY DEF Abs
    <3> QED BY <2>2, <3>1, <3>2
  <2>4. k \in 1..n /\ k - 1 \in 0..n /\ ~(k <= k - 1)
    BY <2>2, <2>3
  <2>5. Near(k - 1)
    <3> HIDE DEF Near
    <3> QED BY <2>1, <2>4
  <2>6. PICK x \in Int : x = leg[k - 1] /\ 2 * n * Abs(x) <= (k - 1) * most
    BY <2>5
  <2>7. PICK e \in Int : e = Effective(how, Profile[k]) /\ 2 * n * Abs(e) <= most
    BY <1>6, <2>4
  <2>8. leg[k] = x + e
    BY <1>4, <2>2, <2>3, <2>6, <2>7
  <2>9. PICK a \in Nat, b \in Nat, c \in Nat : a = Abs(x) /\ b = Abs(e) /\ c = Abs(x + e) /\ c <= a + b
    <3>1. Abs(x) \in Nat /\ Abs(e) \in Nat /\ Abs(x + e) \in Nat /\ Abs(x + e) <= Abs(x) + Abs(e)
      BY DEF Abs
    <3> QED BY <3>1
  <2>10. 2 * n * c <= 2 * n * a + 2 * n * b
    <3>1. PICK d \in Nat : a + b = c + d
      <4>1. a + b - c \in Nat /\ a + b = c + (a + b - c)
        BY <2>9
      <4> QED BY <4>1
    <3>2. 2 * n * (c + d) = 2 * n * c + 2 * n * d /\ 2 * n * (a + b) = 2 * n * a + 2 * n * b
          /\ 2 * n * d \in Nat /\ 2 * n * c \in Nat
      OBVIOUS
    <3> QED BY <3>1, <3>2
  <2>11. (k - 1) * most + most = k * most /\ (k - 1) * most \in Int
    BY <2>4
  <2>12. 2 * n * c \in Nat /\ 2 * n * a \in Nat /\ 2 * n * b \in Nat
    OBVIOUS
  <2>13. 2 * n * c <= k * most
    BY <2>6, <2>7, <2>9, <2>10, <2>11, <2>12
  <2> QED BY <2>2, <2>8, <2>9, <2>13
<1>8. ASSUME NEW k \in 0..n PROVE leg[k] \in Int /\ 2 * Abs(leg[k]) <= MaxPosition
  <2>1. Near(k)
    BY <1>7
  <2>2. PICK a \in Nat : a = Abs(leg[k])
    BY <2>1, TowardType
  <2>3. 2 * n * a <= k * most
    BY <2>1, <2>2
  <2>4. k * most <= n * most
    <3>1. PICK d \in Nat : n = k + d
      <4>1. n - k \in Nat /\ n = k + (n - k)
        OBVIOUS
      <4> QED BY <4>1
    <3>2. (k + d) * most = k * most + d * most /\ d * most \in Nat /\ k * most \in Nat
      OBVIOUS
    <3> QED BY <3>1, <3>2
  <2>5. 2 * a <= most
    <3> SUFFICES ASSUME 2 * a > most PROVE FALSE
      OBVIOUS
    <3>1. PICK d \in Nat \ {0} : 2 * a = most + d
      <4>1. 2 * a - most \in Nat \ {0} /\ 2 * a = most + (2 * a - most)
        OBVIOUS
      <4> QED BY <4>1
    <3>2. n * (most + d) = n * most + n * d /\ n * d > 0 /\ n * (2 * a) = 2 * n * a
      OBVIOUS
    <3>3. n * most \in Nat /\ n * d \in Nat /\ 2 * n * a \in Nat /\ k * most \in Nat
      OBVIOUS
    <3> QED BY <2>3, <2>4, <3>1, <3>2, <3>3
  <2> QED BY <1>5, <2>1, <2>2, <2>5
<1>9. leg[0] = 0
  BY <1>3, <1>4
<1> QED
  BY <1>2, <1>3, <1>4, <1>8, <1>9

LEMMA Remainder ==
  ASSUME NEW x \in Nat, NEW r \in Nat \ {0}, NEW q \in Int, NEW s \in 0..r - 1, x = r * q + s
  PROVE  x % r = s
<1>1. PICK p \in Int : p = x \div r
  OBVIOUS
<1>2. PICK t \in 0..r - 1 : t = x % r
  OBVIOUS
<1>3. x = r * p + t
  BY ONLY <1>1, <1>2, x \in Nat, r \in Nat \ {0}
<1>4. r * (p - q) = s - t
  <2>1. r * (p - q) = r * p - r * q
    OBVIOUS
  <2>2. r * p \in Int /\ r * q \in Int
    OBVIOUS
  <2> QED BY ONLY <1>3, <2>1, <2>2, x = r * q + s, s \in 0..r - 1, t \in 0..r - 1, r \in Nat
<1>5. PICK d \in Int : d = p - q
  OBVIOUS
<1>6. ~(d >= 1)
  <2> SUFFICES ASSUME d >= 1 PROVE FALSE
    OBVIOUS
  <2>1. r * d = r + r * (d - 1) /\ r * (d - 1) >= 0 /\ r * (d - 1) \in Int
    OBVIOUS
  <2> QED BY <1>4, <1>5, <2>1
<1>7. ~(d <= -1)
  <2> SUFFICES ASSUME d <= -1 PROVE FALSE
    OBVIOUS
  <2>1. r * d = -r - r * (-d - 1) /\ r * (-d - 1) >= 0 /\ r * (-d - 1) \in Int
    OBVIOUS
  <2> QED BY <1>4, <1>5, <2>1
<1>8. d = 0
  BY <1>6, <1>7
<1>9. r * d = 0
  BY <1>8
<1> QED
  BY <1>2, <1>4, <1>5, <1>9

\* The tick of a round after this one.
After(p) == IF p + 1 = Len(Round) THEN 0 ELSE p + 1

\* A move begins behind the pause of its first round and ends with its last round.
LEMMA TicksOfMove ==
  /\ Ticks(0) = PauseTicks /\ Ticks(Len(Wiggle)) = 0
  /\ \A i \in Nat : Ticks(i) \in 0..Len(Round) - 1 /\ Ticks(i + 1) = After(Ticks(i))
<1>1. PICK r \in Nat \ {0} : r = Len(Round)
  BY RoundAt
<1>2. PICK p \in Nat : p = PauseTicks /\ p < r
  BY <1>1, RoundAt, SupervisionConstants, ToolConstants
<1>3. Ticks(0) = PauseTicks
  <2>1. p \in 0..r - 1 /\ p = r * 0 + p
    BY <1>2
  <2>2. p % r = p
    BY ONLY <2>1, Remainder, p \in Nat, r \in Nat \ {0}, 0 \in Int
  <2>3. 0 + p = p
    OBVIOUS
  <2> QED BY <1>1, <1>2, <2>2, <2>3 DEF Ticks
<1>4. Ticks(Len(Wiggle)) = 0
  <2>1. PICK n \in Nat : n = Repeat
    BY ToolConstants
  <2>2. PICK x \in Nat : x = n * r
    OBVIOUS
  <2>3. Len(Wiggle) + PauseTicks = x
    <3>1. Len(Wiggle) = x - p
      BY <1>1, <1>2, <2>1, <2>2, WiggleAt
    <3>2. (x - p) + p = x
      OBVIOUS
    <3> QED BY <1>2, <3>1, <3>2
  <2>4. x = r * n + 0 /\ 0 \in 0..r - 1
    BY <2>2
  <2>5. x % r = 0
    BY ONLY <2>4, Remainder, x \in Nat, r \in Nat \ {0}, n \in Int
  <2> QED BY <1>1, <2>3, <2>5 DEF Ticks
<1>5. ASSUME NEW i \in Nat
      PROVE  Ticks(i) \in 0..Len(Round) - 1 /\ Ticks(i + 1) = After(Ticks(i))
  <2>1. PICK x \in Nat : x = i + p
    OBVIOUS
  <2>2. PICK q \in Int : q = x \div r
    OBVIOUS
  <2>3. PICK s \in 0..r - 1 : s = x % r
    OBVIOUS
  <2>4. x = r * q + s
    BY ONLY <2>2, <2>3, x \in Nat, r \in Nat \ {0}
  <2>5. PICK y \in Nat : y = x + 1 /\ y = (i + 1) + p
    BY <2>1
  <2>6. y % r = IF s + 1 = r THEN 0 ELSE s + 1
    <3>1. CASE s + 1 = r
      <4>1. r * (q + 1) = r * q + r /\ r * q \in Int
        OBVIOUS
      <4>2. y = r * (q + 1) + 0 /\ 0 \in 0..r - 1 /\ q + 1 \in Int
        BY <2>4, <2>5, <3>1, <4>1
      <4>3. y % r = 0
        BY ONLY <4>2, Remainder, y \in Nat, r \in Nat \ {0}
      <4> QED BY <3>1, <4>3
    <3>2. CASE s + 1 # r
      <4>1. y = r * q + (s + 1) /\ s + 1 \in 0..r - 1
        <5>1. r * q \in Int
          OBVIOUS
        <5> QED BY <2>4, <2>5, <3>2, <5>1
      <4>2. y % r = s + 1
        BY ONLY <4>1, Remainder, y \in Nat, r \in Nat \ {0}, q \in Int
      <4> QED BY <3>2, <4>2
    <3> QED BY <3>1, <3>2
  <2>7. Ticks(i) = s /\ Ticks(i + 1) = y % r
    BY <1>1, <1>2, <2>1, <2>3, <2>5 DEF Ticks
  <2> QED BY <1>1, <2>6, <2>7 DEF After
<1> QED
  BY <1>3, <1>4, <1>5

\* Each tick of a round takes the motor from one place of the excursion to the next.
LEMMA ExcursionStep ==
  ASSUME NEW how, NEW p \in 0..Len(Round) - 1
  PROVE  /\ Round[1 + p] \in Int /\ Excursion(how, p) \in Int
         /\ Excursion(how, After(p)) = Excursion(how, p) + Effective(how, Round[1 + p])
         /\ Abs(Excursion(how, After(p))) <= MaxPosition
<1>1. PICK n \in Nat \ {0} : n = Len(Profile)
  BY SupervisionConstants
<1>2. PICK w \in Nat : w = PauseTicks
  BY ToolConstants
<1>3. PICK r \in Nat \ {0} : r = Len(Round) /\ r = w + 2 * n
  BY <1>1, <1>2, RoundAt
<1>4. PICK leg : leg = Leg(how)
  OBVIOUS
<1>5. /\ leg[0] = 0
      /\ \A k \in 0..n : leg[k] \in Int /\ 2 * Abs(leg[k]) <= MaxPosition
      /\ \A k \in 1..n : leg[k] = leg[k - 1] + Effective(how, Profile[k])
  <2>1. /\ leg[0] = 0
        /\ \A k \in 0..n : /\ leg[k] \in Int /\ 2 * Abs(leg[k]) <= MaxPosition
                           /\ k # 0 => leg[k] = leg[k - 1] + Effective(how, Profile[k])
    BY <1>1, <1>4, LegAt
  <2> QED BY ONLY <2>1, n \in Nat \ {0}
<1>6. \A i \in 0..r : Excursion(how, i) = IF i <= w THEN 0 ELSE IF i <= w + n THEN leg[i - w]
                                          ELSE leg[n] - leg[i - w - n]
  BY <1>1, <1>2, <1>4 DEF Excursion
<1>7. p \in 0..r - 1 /\ p \in 0..r /\ p + 1 \in 0..r /\ 1 + p = p + 1 /\ p + 1 \in 1..r
      /\ n \in 0..n /\ 0 \in 0..r /\ 0 \in 0..n
  BY <1>3
<1>8. MaxPosition \in Nat
  BY ServoConstants
<1>9. /\ p + 1 <= w => Round[1 + p] = 0
      /\ p + 1 > w /\ p + 1 <= w + n => p + 1 - w \in 1..n /\ Round[1 + p] = Profile[p + 1 - w]
      /\ p + 1 > w + n => p + 1 - w - n \in 1..n /\ Round[1 + p] = -Profile[p + 1 - w - n]
  BY <1>1, <1>2, <1>3, <1>7, RoundAt
<1>10. Round[1 + p] \in Int
  <2>1. p + 1 \in 1..Len(Round)
    BY <1>3, <1>7
  <2> QED BY <1>7, <2>1, RoundAt
<1>11. CASE p + 1 <= w
  <2>1. Excursion(how, p) = 0 /\ Excursion(how, p + 1) = 0
    <3>1. p <= w
      BY <1>11
    <3> QED BY <1>6, <1>7, <1>11, <3>1
  <2>2. After(p) = p + 1
    BY <1>1, <1>3, <1>11 DEF After
  <2>3. Effective(how, 0) = 0 /\ Abs(0) = 0
    BY EffectiveFacts, 0 \in Int DEF Abs
  <2> QED BY <1>8, <1>9, <1>10, <1>11, <2>1, <2>2, <2>3
<1>12. CASE p + 1 > w /\ p + 1 <= w + n
  <2>1. PICK j \in 1..n : j = p + 1 - w /\ Round[1 + p] = Profile[j]
    BY <1>9, <1>12
  <2>2. j - 1 \in 0..n /\ j \in 0..n /\ p - w = j - 1 /\ (p + 1) - w = j /\ ~(p + 1 <= w) /\ p <= w + n
    BY <1>12, <2>1
  <2>3. Excursion(how, p) = leg[j - 1]
    <3>1. CASE p <= w
      <4>1. j - 1 = 0
        BY <1>12, <2>1, <3>1
      <4> QED BY <1>5, <1>6, <1>7, <3>1, <4>1
    <3>2. CASE ~(p <= w)
      BY <1>6, <1>7, <2>2, <3>2
    <3> QED BY <3>1, <3>2
  <2>4. Excursion(how, p + 1) = leg[j]
    BY <1>6, <1>7, <1>12, <2>2
  <2>5. After(p) = p + 1
    BY <1>1, <1>3, <1>12 DEF After
  <2>6. leg[j] = leg[j - 1] + Effective(how, Profile[j])
    BY <1>5
  <2>7. PICK x \in Int : x = leg[j] /\ 2 * Abs(x) <= MaxPosition
    BY <1>5, <2>2
  <2>8. Abs(x) <= MaxPosition
    BY ONLY <1>8, <2>7, x \in Int DEF Abs
  <2>9. leg[j - 1] \in Int
    BY <1>5, <2>2
  <2> QED BY <1>10, <2>1, <2>3, <2>4, <2>5, <2>6, <2>7, <2>8, <2>9
<1>13. CASE p + 1 > w + n
  <2>1. PICK j \in 1..n : j = p + 1 - w - n /\ Round[1 + p] = -Profile[j]
    BY <1>9, <1>13
  <2>2. /\ j - 1 \in 0..n /\ j \in 0..n /\ p - w - n = j - 1 /\ (p + 1) - w - n = j
        /\ ~(p + 1 <= w) /\ ~(p <= w) /\ ~(p + 1 <= w + n)
    BY <1>13, <2>1
  <2>3. PICK x \in Int, y \in Int, z \in Int :
          /\ x = leg[n] /\ y = leg[j - 1] /\ z = leg[j]
          /\ 2 * Abs(x) <= MaxPosition /\ 2 * Abs(z) <= MaxPosition
    BY <1>5, <1>7, <2>2
  <2>4. Excursion(how, p) = x - y
    <3>1. CASE p <= w + n
      <4>1. j - 1 = 0 /\ p - w = n
        BY <1>13, <2>1, <3>1
      <4>2. y = 0
        BY <1>5, <2>3, <4>1
      <4> QED BY <1>6, <1>7, <2>2, <2>3, <3>1, <4>1, <4>2
    <3>2. CASE ~(p <= w + n)
      BY <1>6, <1>7, <2>2, <2>3, <3>2
    <3> QED BY <3>1, <3>2
  <2>5. Excursion(how, After(p)) = x - z
    <3>1. CASE p + 1 = r
      <4>1. After(p) = 0 /\ j = n
        BY <1>3, <2>1, <3>1 DEF After
      <4>2. Excursion(how, 0) = 0
        BY <1>6, <1>7
      <4> QED BY <2>3, <4>1, <4>2
    <3>2. CASE p + 1 # r
      <4>1. After(p) = p + 1
        BY <1>3, <3>2 DEF After
      <4> QED BY <1>6, <1>7, <2>2, <2>3, <4>1
    <3> QED BY <3>1, <3>2
  <2>6. PICK v \in Int : v = Profile[j]
    BY <1>1, SupervisionConstants
  <2>7. PICK e \in Int : e = Effective(how, v) /\ Effective(how, -v) = -e
    BY EffectiveFacts
  <2>8. z = y + e
    BY <1>5, <2>3, <2>6, <2>7
  <2>9. Abs(x - z) <= MaxPosition
    <3>1. 2 * Abs(x) <= MaxPosition /\ 2 * Abs(z) <= MaxPosition
      BY <2>3
    <3> QED BY ONLY <1>8, <3>1, x \in Int, z \in Int DEF Abs
  <2> QED BY <1>10, <2>1, <2>4, <2>5, <2>6, <2>7, <2>8, <2>9
<1> QED
  BY <1>3, <1>7, <1>11, <1>12, <1>13

LEMMA JogEndsKept == ASSUME ToolInductive, JogEnds, [Next]_vars PROVE JogEnds'
<1> SUFFICES ASSUME cmd' = "jog"
             PROVE  pc' \notin {"ask", "write", "rename"} /\ (pc' \in Moving => way' = "exit")
  BY DEF JogEnds
<1>1. cmd = "jog" /\ pc \notin {"ask", "write", "rename"} /\ (pc \in Moving => way = "exit")
  BY CommandKept DEF JogEnds
<1>2. CASE ToolStep
  BY <1>1, <1>2 DEF ToolStep, Program, Begin, Hear, Deaf, Watch, Listened, Decide, SendMove,
     Sendable, Torn, Supervise, Arrive, Brake, Braked, Free, Unsendable, Answer, Write, Stop,
     Finish, SetOut, EndMove, progress, Moving
<1>3. CASE ~ToolStep
  BY <1>1, <1>3 DEF Next, Tick, Interrupt, Kill, Link, Inject, OtherStarts, Bench, vars, Stop,
     Finish, EndMove, progress, Moving
<1> QED
  BY <1>2, <1>3

\* A motor that follows its commands, whatever their scale, is where the move has it, and back
\* when the move is over.
LEMMA WiggleTravelKept ==
  ASSUME ToolInductive, SpeedsOnly, Natures, Undisturbed, OnCourse, WiggleTravel, [Next]_vars
  PROVE  WiggleTravel'
<1> DEFINE h == Head(ids')
           how == kind[h]
           s == motor'[h]
<1> SUFFICES ASSUME Calm', cmd' = "identify", ids' # <<>>, kind'[h] # "runaway"
             PROVE  /\ pc' = "move" => s.encoder = Excursion(kind'[h], Ticks(at' - 1))
                    /\ pc' = "brake" /\ cause' = "none" =>
                         s.encoder = 0 /\ (left' < BrakeTicks => s.speed = 0)
                    /\ pc' \in {"release", "ask"} /\ cause' = "none" => s.encoder = 0 /\ s.speed = 0
  BY DEF WiggleTravel
<1>1. /\ Calm /\ cmd = "identify" /\ kind' = kind /\ at \in Nat \ {0} /\ up /\ other = "off"
      /\ (Tick \/ ToolStep \/ UNCHANGED vars) /\ how # "runaway" /\ BrakeTicks \in Nat /\ left \in Nat
      /\ (pc \in Moving \cup {"ask"} => ids # <<>>) /\ ids \in Seq(Motor)
  BY CalmStep, CommandKept, ToolConstants DEF ToolInductive, ToolTypes, StepTypes, Places
<1>2. Speeds = Wiggle
  BY <1>1 DEF Speeds
<1>3. CASE Decide \/ Answer
  <2>1. CASE pc' = "move"
    <3>1. at' = 1 /\ s.encoder = 0
      <4>1. CASE pc \in Moving
        BY <1>3, <4>1 DEF Decide, Listened, Answer, Moving
      <4> QED BY <2>1, <4>1, CalmMove DEF Moving
    <3>2. Excursion(how, PauseTicks) = 0
      BY ToolConstants DEF Excursion
    <3>3. at' - 1 = 0
      BY <3>1
    <3> QED BY <1>1, <2>1, <3>1, <3>2, <3>3, TicksOfMove
  <2>2. CASE pc' # "move"
    BY <1>1, <1>3, <2>2 DEF Decide, Answer, GoOn, Stop, Finish, SetOut
  <2> QED BY <2>1, <2>2
<1>4. CASE Tick /\ pc \in Moving
  <2>1. /\ pc' = pc /\ ids' = ids /\ cause' = cause /\ h \in Motor /\ s = Ticked(h)
        /\ at' = (IF pc = "move" THEN at + 1 ELSE at) /\ h = Head(ids) /\ ids # <<>>
    BY <1>1, <1>4, TickOfMove DEF Tick
  <2>2. PICK told \in Int : told = IF pc = "move" THEN Speeds[at] ELSE 0
    BY <1>1, <1>4, TickOfMove
  <2>3. /\ s.speed = Effective(how, told) /\ s.encoder = Limited(motor[h].encoder + Effective(how, told))
        /\ (pc = "move" => at \in 1..Len(Speeds)) /\ pc \in {"move", "brake"}
    BY <1>1, <1>4, <2>1, <2>2, TickOfMove
  <2>4. CASE pc = "move"
    <3>1. PICK p \in 0..Len(Round) - 1 : p = Ticks(at - 1) /\ told = Round[1 + p]
      BY <1>2, <2>2, <2>3, <2>4, WiggleAt
    <3>2. motor[h].encoder = Excursion(how, p)
      BY <1>1, <2>1, <2>4, <3>1 DEF WiggleTravel
    <3>3. PICK i \in Nat : i = at - 1 /\ i + 1 = at
      BY <1>1
    <3>4. After(p) = Ticks(at)
      BY <3>1, <3>3, TicksOfMove
    <3>5. /\ Excursion(how, After(p)) = Excursion(how, p) + Effective(how, told)
          /\ Abs(Excursion(how, After(p))) <= MaxPosition
          /\ Excursion(how, p) \in Int /\ Effective(how, told) \in Int
      BY <3>1, ExcursionStep, EffectiveFacts
    <3>6. PICK x \in Int : x = Excursion(how, p) + Effective(how, told) /\ Abs(x) <= MaxPosition
      BY <3>5
    <3>7. s.encoder = x
      BY <2>3, <3>2, <3>6, LimitedIsNone
    <3>8. at' - 1 = at
      BY <1>1, <2>1, <2>4
    <3> QED BY <1>1, <2>1, <2>4, <3>4, <3>5, <3>6, <3>7, <3>8
  <2>5. CASE pc = "brake"
    <3>1. told = 0 /\ Effective(how, told) = 0
      BY <2>2, <2>5, EffectiveFacts, 0 \in Int
    <3>2. Limited(0 + 0) = 0
      BY ServoConstants DEF Limited, Abs
    <3> QED BY <1>1, <2>1, <2>3, <2>5, <3>1, <3>2 DEF WiggleTravel
  <2> QED BY <2>3, <2>4, <2>5
<1>5. CASE Tick /\ pc \notin Moving
  <2>1. pc' = pc /\ ids' = ids /\ cause' = cause
    BY <1>5 DEF Tick
  <2>2. CASE pc = "ask"
    <3>1. h \in Motor /\ h = Head(ids) /\ ids # <<>>
      BY <1>1, <2>1, <2>2, TailType
    <3>2. Idle(h) /\ motor'[h] = Ticked(h)
      <4>1. RestsBetween /\ ~cut
        BY <2>2 DEF ToolInductive, Places
      <4>2. Idle(h)
        BY <1>1, <2>2, <3>1, <4>1 DEF RestsBetween, Moving
      <4>3. motor'[h] = Ticked(h)
        BY <1>5, <3>1 DEF Tick
      <4> QED BY <4>2, <4>3
    <3>3. cause = "none" => motor[h].encoder = 0 /\ motor[h].speed = 0
      BY <1>1, <2>2, <3>1 DEF WiggleTravel
    <3> QED BY <1>1, <2>1, <2>2, <3>1, <3>2, <3>3, RestTicks
  <2>3. CASE pc # "ask"
    BY <1>5, <2>1, <2>3 DEF Moving
  <2> QED BY <2>2, <2>3
<1>6. CASE ~Decide /\ ~Answer /\ ~Tick
  <2>1. CASE pc' \in Moving \cup {"ask"}
    <3>1. ids' = ids
      BY <1>6, IdsKept
    <3>2. pc \in Moving \cup {"ask"}
      BY <1>1, <1>6, <2>1 DEF ToolStep, Program, Begin, Hear, Deaf, Watch, Listened, SendMove,
         Sendable, Torn, Supervise, Arrive, Brake, Braked, Free, Unsendable, Write, Stage, vars,
         Stop, Finish, EndMove, Calm, Moving, bus
    <3>3. h \in Motor /\ h = Head(ids) /\ ids # <<>>
      BY <1>1, <3>1, <3>2, TailType
    <3>4. s.encoder = motor[h].encoder /\ s.speed = motor[h].speed
      BY <1>6, <3>3, MotorsStay
    <3>5. /\ pc = "move" => motor[h].encoder = Excursion(how, Ticks(at - 1))
          /\ pc = "brake" /\ cause = "none" => motor[h].encoder = 0 /\ (left < BrakeTicks => motor[h].speed = 0)
          /\ pc \in {"release", "ask"} /\ cause = "none" => motor[h].encoder = 0 /\ motor[h].speed = 0
      BY <1>1, <3>3 DEF WiggleTravel
    <3>6. CASE pc' = "move"
      <4>1. pc = "move" /\ at' = at
        BY <1>1, <1>6, <3>2, <3>6 DEF ToolStep, Program, Begin, Hear, Deaf, Watch, SendMove,
           Sendable, Torn, Supervise, Arrive, Brake, Braked, Free, Unsendable, Write, Stage, vars,
           Stop, Finish, EndMove, progress, Moving
      <4> QED BY <1>1, <3>4, <3>5, <3>6, <4>1
    <3>7. CASE pc' = "brake" /\ cause' = "none"
      <4>1. CASE Arrive
        <5>1. pc = "move" /\ at > Len(Speeds) /\ left' = BrakeTicks
          BY <3>7, <4>1 DEF Arrive, EndMove
        <5>2. at - 1 = Len(Wiggle)
          <6>1. at <= Len(Speeds) + 1 /\ Len(Speeds) \in Nat
            BY <1>1, <1>2, <5>1, WiggleAt DEF SpeedsOnly, Moving
          <6> QED BY <1>1, <1>2, <5>1, <6>1
        <5>3. Excursion(how, 0) = 0
          BY ToolConstants DEF Excursion
        <5>4. motor[h].encoder = 0
          BY <3>5, <5>1, <5>2, <5>3, TicksOfMove
        <5> QED BY <1>1, <3>4, <3>7, <5>1, <5>4
      <4>2. CASE ~Arrive
        <5>1. pc = "brake" /\ cause = "none" /\ left' = left
          <6>1. CASE Supervise
            BY <3>7, <6>1 DEF Supervise, EndMove
          <6>2. CASE ~Supervise
            BY <1>1, <1>6, <3>2, <3>7, <4>2, <6>2 DEF ToolStep, Program, Begin, Hear, Deaf, Watch,
               SendMove, Sendable, Torn, Brake, Braked, Free, Unsendable, Write, Stage, vars, Stop,
               Finish, EndMove, progress, ghosts, Moving
          <6> QED BY <6>1, <6>2
        <5> QED BY <1>1, <3>4, <3>5, <3>7, <5>1
      <4> QED BY <4>1, <4>2
    <3>8. CASE pc' \in {"release", "ask"} /\ cause' = "none"
      <4>1. \/ pc \in {"release", "ask"} /\ cause = "none"
            \/ pc = "brake" /\ cause = "none" /\ left = 0
        <5>1. CASE Supervise
          BY <3>8, <5>1 DEF Supervise, EndMove
        <5>2. CASE Arrive
          BY <3>8, <5>2 DEF Arrive, EndMove
        <5>3. CASE ~Supervise /\ ~Arrive
          BY <1>1, <1>6, <3>2, <3>8, <5>3 DEF ToolStep, Program, Begin, Hear, Deaf, Watch, SendMove,
             Sendable, Torn, Brake, Braked, Free, Unsendable, Write, Stage, vars, Stop, Finish,
             EndMove, progress, ghosts, Moving
        <5> QED BY <5>1, <5>2, <5>3
      <4>2. 0 < BrakeTicks
        BY SupervisionConstants
      <4> QED BY <1>1, <3>4, <3>5, <3>8, <4>1, <4>2
    <3> QED BY <2>1, <3>6, <3>7, <3>8 DEF Moving
  <2>2. CASE pc' \notin Moving \cup {"ask"}
    BY <2>2 DEF Moving
  <2> QED BY <2>1, <2>2
<1> QED
  BY <1>3, <1>4, <1>5, <1>6

LEMMA WiggleIsBack ==
  ASSUME ToolInductive, Undisturbed, JogEnds, WiggleTravel PROVE WiggleReturns
<1> SUFFICES ASSUME pc = "ask", cause = "none", budget = Mishaps[cmd], kind[Head(ids)] # "runaway"
             PROVE  motor[Head(ids)].encoder = start
  BY DEF WiggleReturns
<1>1. cmd \in {"identify", "jog"} /\ ids # <<>>
  BY DEF ToolInductive, Places
<1>2. cmd = "identify" /\ Calm
  BY <1>1 DEF JogEnds, Calm
<1>3. start = 0
  BY <1>2 DEF Undisturbed
<1>4. motor[Head(ids)].encoder = 0
  BY <1>1, <1>2 DEF WiggleTravel
<1> QED
  BY <1>3, <1>4

-----------------------------------------------------------------------------
Supervision ==
  /\ SpeedsOnly /\ Natures /\ JogEnds
  /\ OnlyTheMoved /\ ToldInTime
  /\ Undisturbed /\ OnCourse /\ JogTravel /\ WiggleTravel

LEMMA SupervisionInit == ASSUME Init PROVE Supervision
<1> DEFINE First(k, load, ignores) ==
      [PowerUp EXCEPT !.load = load, !.stuck = (k = "stuck"), !.ignore_origin = ignores,
                      !.mode = IF cmd = "stop" THEN "speed" ELSE @,
                      !.target = IF cmd = "stop" THEN Margin ELSE 0]
<1>1. PICK k, load, ignores :
        /\ kind = [m \in Motor |-> k] /\ motor = [m \in Motor |-> First(k, load, ignores)]
        /\ k = "runaway" => cmd \in {"identify", "jog"}
  <2>1. \E k \in IF cmd \in {"identify", "jog"} THEN Kinds ELSE {"good"} :
        \E load \in IF cmd = "identify" /\ k \in {"stuck", "runaway"} THEN Loads ELSE {0} :
        \E ignores \in {b \in BOOLEAN : b => cmd = "bench"} :
          kind = [m \in Motor |-> k] /\ motor = [m \in Motor |-> First(k, load, ignores)]
    BY DEF Init
  <2> HIDE DEF First
  <2>2. PICK k \in (IF cmd \in {"identify", "jog"} THEN Kinds ELSE {"good"}),
             load \in Loads \cup {0}, ignores \in BOOLEAN :
          kind = [m \in Motor |-> k] /\ motor = [m \in Motor |-> First(k, load, ignores)]
    BY <2>1
  <2>3. k = "runaway" => cmd \in {"identify", "jog"}
    BY <2>2
  <2> QED BY <2>2, <2>3
<1>2. PICK s : s = First(k, load, ignores)
  OBVIOUS
<1>3. /\ s.stuck = (k = "stuck") /\ s.error = FALSE /\ s.silent = FALSE /\ s.encoder = 0 /\ s.speed = 0
      /\ (cmd # "stop" => s.mode = "idle")
  BY <1>2 DEF PowerUp
<1> HIDE DEF First
<1>4. ASSUME NEW m \in Motor PROVE motor[m] = s /\ kind[m] = k
  BY <1>1, <1>2
<1>5. /\ pc \in {"begin", "bench"} /\ (pc = "bench" <=> cmd = "bench") /\ other = "off" /\ up
      /\ astray = [m \in Motor |-> 0] /\ cause = "none" /\ sent = FALSE
      /\ (cmd = "jog" => \E m \in Motor : ids = <<m>>)
  BY DEF Init
<1>6. \A m \in Motor : astray[m] = 0
  BY <1>5
<1>7. SpeedsOnly
  BY <1>3, <1>4, <1>5 DEF SpeedsOnly, Moving
<1>8. Natures
  BY <1>1, <1>3, <1>4 DEF Natures
<1>9. OnlyTheMoved /\ ToldInTime /\ JogEnds
  BY <1>5, <1>6 DEF OnlyTheMoved, ToldInTime, JogEnds, Moving
<1>10. Undisturbed
  <2>1. cmd # "stop" => \A m \in Motor : ~motor[m].error /\ ~motor[m].silent /\ Pristine(m)
    BY <1>3, <1>4 DEF Pristine, Idle
  <2> QED BY <1>5, <2>1 DEF Undisturbed, Calm, Moving
<1>11. OnCourse /\ JogTravel /\ WiggleTravel
  BY <1>5 DEF OnCourse, JogTravel, WiggleTravel, Moving
<1> QED
  BY <1>7, <1>8, <1>9, <1>10, <1>11 DEF Supervision

LEMMA SupervisionKept == ToolInductive /\ Supervision /\ [Next]_vars => Supervision'
  BY SpeedsOnlyKept, NaturesKept, JogEndsKept, OnlyTheMovedKept, ToldInTimeKept, UndisturbedKept,
     OnCourseKept, JogTravelKept, WiggleTravelKept DEF Supervision

\* The inductive invariant of a supervised move: the frame that tells of a runaway is read before
\* the next tick, and while nothing else goes wrong the tool knows where the motor is.
THEOREM SupervisionHolds == Spec => [](ToolInductive /\ Supervision)
<1>1. Init => ToolInductive /\ Supervision
  BY ToolInit, SupervisionInit
<1>2. (ToolInductive /\ Supervision) /\ [Next]_vars => (ToolInductive /\ Supervision)'
  BY ToolInductiveStays, SupervisionKept
<1> QED
  BY <1>1, <1>2, PTL DEF Spec

\* For any motors, speeds, brake and travel limit: a runaway motor is let go before it turned for
\* a second tick, a jog keeps a gizmo joint within its travel and the slack of its supervision,
\* and a move of identify that nothing stopped ends where it began.
THEOREM MovesAreSupervised == Spec => []SupervisedMoves
<1>1. ToolInductive /\ Supervision => SupervisedMoves
  BY CaughtIsCaught, TravelIsBound, WiggleIsBack DEF Supervision, SupervisedMoves
<1> QED
  BY <1>1, SupervisionHolds, PTL
=============================================================================
