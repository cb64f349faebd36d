----------------------------- MODULE WebDriveProof -----------------------------
(***************************************************************************)
(* Theorems about WebDrive for every set of clients, sensors and speeds    *)
(* and every timeout: its type invariant, the inductive invariant that     *)
(* ties the published twist to the driver's lock, and what follows from    *)
(* it: one driver, the dead-man, the E-stop and the obstacle guard.        *)
(***************************************************************************)
EXTENDS WebDrive, TLAPS

-----------------------------------------------------------------------------
(* The inductive invariant. *)

\* Whoever holds the lock has an open socket: release(disconnected) takes it from the others.
HolderIsConnected == Holder \in connected \cup {NoOne}

\* A command is the driver's own, has not outlived the lock, and is as old as it says.
CommandIsDrivers ==
  \A t \in command : /\ t.by = driver /\ driver \in Client /\ ~t.old
                     /\ idle <= since /\ asked <= since

\* The timer has dropped every command it found too old.
TimerDropsStale == command # {} /\ ~due => since < CommandTimeout

\* An engaged E-stop has taken the command.
EstopTakesCommand == estop => command = {}

\* self.published is only set while the command it came from stands, and a twist that
\* moves the robot is not forgotten before a zero follows it, or an E-stop from elsewhere.
PublishedIsLive == published => command # {} /\ out.by = driver
MotionIsPublished == Moves(out) /\ ~cut => published

\* Only the driver can have had a command accepted within driver_timeout.
ControlIsDrivers ==
  \A c \in connected : control[c] < DriverTimeout => driver = c /\ idle <= control[c]

\* A reading that lets the robot forward is fresh for no longer than it is trusted.
TrustOutlastsReading ==
  \A s \in Side : ranges[s].distance # NoData /\ ranges[s].distance >= StopDistance =>
                    trust[s] + ranges[s].age >= SensorTimeout

Inductive ==
  /\ HolderIsConnected /\ CommandIsDrivers /\ TimerDropsStale /\ EstopTakesCommand
  /\ PublishedIsLive /\ MotionIsPublished /\ ControlIsDrivers /\ TrustOutlastsReading
  /\ NoResume

\* What EyesOpen needs of the parameters: the guard is on (0.0 disables it,
\* web_controller.yaml:31), and its cap is no shorter than the stop distance.
GuardOn == StopDistance > 0 /\ GuardCap >= StopDistance

-----------------------------------------------------------------------------
(* Types. *)

\* The guard leaves a speed of Linear, or stops it.
LEMMA GuardedType == ASSUME NEW v \in Linear \cup {0} PROVE Guarded(v) \in Linear \cup {0}
  BY ConstantsAssumption DEF Guarded, Least

\* The braking distance is a distance, whatever the deceleration.
LEMMA BrakingType == ASSUME NEW v \in Linear PROVE BrakingDistance(v) \in Nat
<1>1. v \in Int
  BY ConstantsAssumption
<1>2. CASE v <= 0
  BY <1>2 DEF BrakingDistance
<1>3. CASE v > 0
  <2>1. v * ReactionTime \in Nat /\ v * v \in Nat /\ 2 * Deceleration \in Nat
    BY <1>1, <1>3, ConstantsAssumption
  <2>2. \A a, b \in Nat : b > 0 => a \div b \in Nat
    OBVIOUS
  <2>3. (v * ReactionTime) \div 1000 \in Nat
    BY <2>1, <2>2
  <2>4. Deceleration > 0 => (v * v) \div (2 * Deceleration) \in Nat
    BY <2>1, <2>2, ConstantsAssumption
  <2>5. QED
    BY <1>1, <1>3, <2>3, <2>4 DEF BrakingDistance
<1>4. QED
  BY <1>1, <1>2, <1>3

\* The twists a client may ask for are twists, and so is what the guard leaves of one.
LEMMA TwistType ==
  /\ Zero \in Twist
  /\ \A t \in Twist : [t EXCEPT !.linear = Guarded(t.linear)] \in Twist
  /\ \A v \in Linear, w \in Angular, c \in Client :
       [linear |-> v, angular |-> w, by |-> c, old |-> FALSE] \in Twist
  BY GuardedType, ConstantsAssumption DEF Twist, Zero

\* The counters' types after one period.
LEMMA LeastType ==
  ASSUME NEW n \in Nat, NEW cap \in Nat PROVE Least(n + 1, cap) \in 0..cap
  BY DEF Least

\* The values the counters are reset to are within their ranges.
LEMMA Bounds ==
  /\ 0 \in 0..CommandTimeout /\ {0, CommandTimeout + 1} \subseteq 0..(CommandTimeout + 1)
  /\ {0, DriverTimeout} \subseteq 0..DriverTimeout /\ {0, SensorTimeout} \subseteq 0..SensorTimeout
  BY ConstantsAssumption

\* So is a countdown's next value.
LEMMA CountdownType ==
  ASSUME NEW cap \in Nat, NEW n \in 0..cap PROVE (IF n = 0 THEN 0 ELSE n - 1) \in 0..cap
  OBVIOUS

\* A client's request leaves every variable well typed.
LEMMA WebThreadType == TypeOK /\ WebThread => TypeOK'
<1> SUFFICES ASSUME TypeOK, WebThread PROVE TypeOK'
  OBVIOUS
<1>a. \A c \in Client : /\ [control EXCEPT ![c] = 0] \in [Client -> 0..DriverTimeout]
                        /\ [control EXCEPT ![c] = DriverTimeout] \in [Client -> 0..DriverTimeout]
  BY Bounds DEF TypeOK
<1> USE DEF TypeOK, bridge
<1>1. ASSUME NEW c \in Client, Connect(c) PROVE TypeOK'
  BY <1>1, <1>a DEF Connect, Silent
<1>2. ASSUME NEW c \in Client, AimGizmo(c) PROVE TypeOK'
  BY <1>2, <1>a, Bounds DEF AimGizmo, Silent
<1>3. ASSUME NEW c \in Client, NEW v \in Linear, NEW w \in Angular, Drive(c, v, w)
      PROVE TypeOK'
  <2>1. command' \in {{t} : t \in Twist}
    BY <1>3, TwistType DEF Drive
  <2>2. control' \in [Client -> 0..DriverTimeout]
    BY <1>3, <1>a DEF Drive
  <2>3. QED
    BY <1>3, <2>1, <2>2, Bounds DEF Drive, Silent
<1>4. ASSUME NEW c \in Client, NEW disconnected \in BOOLEAN, Release(c, disconnected)
      PROVE TypeOK'
  <2>1. out' \in Twist /\ sent' \in BOOLEAN /\ cut' \in BOOLEAN
    BY <1>4, TwistType DEF Release, LetGo, Publish, Silent
  <2>2. control' \in [Client -> 0..DriverTimeout]
    BY <1>4, <1>a DEF Release
  <2>3. driver' \in Client \cup {NoOne} /\ idle' \in 0..DriverTimeout
    BY <1>4, Bounds DEF Release
  <2>4. /\ command' \in {{}} \cup {{t} : t \in Twist} /\ since' \in 0..CommandTimeout
        /\ guard' \in BOOLEAN /\ published' \in BOOLEAN /\ asked' \in 0..(CommandTimeout + 1)
    BY <1>4, Bounds DEF Release
  <2>5. QED
    BY <1>4, <2>1, <2>2, <2>3, <2>4 DEF Release
<1>5. ASSUME NEW engaged \in BOOLEAN, SetEstop(engaged) PROVE TypeOK'
  <2>1. out' \in Twist /\ sent' \in BOOLEAN /\ cut' \in BOOLEAN
    BY <1>5, TwistType DEF SetEstop, Publish, Silent
  <2>2. /\ command' \in {{}} \cup {{t} : t \in Twist} /\ since' \in 0..CommandTimeout
        /\ guard' \in BOOLEAN /\ published' \in BOOLEAN
    BY <1>5, Bounds DEF SetEstop, DropCommand
  <2>3. QED
    BY <1>5, <2>1, <2>2 DEF SetEstop
<1>6. ASSUME NEW m \in {"drive", "follow"}, SetMode(m) PROVE TypeOK'
  BY <1>6 DEF SetMode, Silent
<1>7. QED
  BY <1>1, <1>2, <1>3, <1>4, <1>5, <1>6 DEF WebThread

\* So does a message or a run of the drive timer.
LEMMA RosThreadType == TypeOK /\ RosThread => TypeOK'
<1> SUFFICES ASSUME TypeOK, RosThread PROVE TypeOK'
  OBVIOUS
<1> USE DEF TypeOK
<1>1. CASE DriveTimer
  <2>1. command' \in {{}} \cup {{t} : t \in Twist} /\ LiveCommand \subseteq Twist
    BY <1>1 DEF DriveTimer, LiveCommand
  <2>2. out' \in Twist /\ sent' \in BOOLEAN /\ cut' \in BOOLEAN
    BY <1>1, <2>1, TwistType DEF DriveTimer, Publish, Silent
  <2>3. since' \in 0..CommandTimeout
    BY <1>1, Bounds DEF DriveTimer
  <2>4. guard' \in BOOLEAN /\ published' \in BOOLEAN
    BY <1>1 DEF DriveTimer
  <2>5. QED
    BY <1>1, <2>1, <2>2, <2>3, <2>4 DEF DriveTimer
<1>2. ASSUME NEW engaged \in BOOLEAN, OnEstop(engaged) PROVE TypeOK'
  <2>1. /\ command' \in {{}} \cup {{t} : t \in Twist} /\ since' \in 0..CommandTimeout
        /\ guard' \in BOOLEAN /\ published' \in BOOLEAN
    BY <1>2, Bounds DEF OnEstop, DropCommand
  <2>2. cut' \in BOOLEAN
    BY <1>2 DEF OnEstop
  <2>3. QED
    BY <1>2, <2>1, <2>2 DEF OnEstop
<1>3. ASSUME NEW s \in Side, NEW d \in Reading \cup {NoData}, OnRange(s, d) PROVE TypeOK'
  <2>1. Least(trust[s], 1) \in 0..SensorTimeout
    BY ConstantsAssumption DEF Least
  <2>2. trust' \in [Side -> 0..SensorTimeout]
    BY <1>3, <2>1, Bounds DEF OnRange
  <2>3. ranges' \in [Side -> [distance : Reading \cup {NoData}, age : 0..SensorTimeout]]
    BY <1>3, Bounds DEF OnRange
  <2>4. QED
    BY <1>3, <2>2, <2>3 DEF OnRange, Silent
<1>4. QED
  BY <1>1, <1>2, <1>3 DEF RosThread

\* And a period of the timer.
LEMMA TickType == TypeOK /\ Tick => TypeOK'
<1> SUFFICES ASSUME TypeOK, Tick PROVE TypeOK'
  OBVIOUS
<1> USE DEF TypeOK, Tick
<1>1. idle' \in 0..DriverTimeout /\ since' \in 0..CommandTimeout
      /\ asked' \in 0..(CommandTimeout + 1)
  BY LeastType, Bounds, ConstantsAssumption
<1>2. control' \in [Client -> 0..DriverTimeout]
  BY LeastType, ConstantsAssumption
<1>3. trust' \in [Side -> 0..SensorTimeout]
  BY CountdownType, ConstantsAssumption
<1>4. ASSUME NEW s \in Side
      PROVE [ranges[s] EXCEPT !.age = Least(@ + 1, SensorTimeout)]
              \in [distance : Reading \cup {NoData}, age : 0..SensorTimeout]
  <2>1. Least(ranges[s].age + 1, SensorTimeout) \in 0..SensorTimeout
    BY LeastType, ConstantsAssumption
  <2>2. QED
    BY <2>1
<1>5. ranges' \in [Side -> [distance : Reading \cup {NoData}, age : 0..SensorTimeout]]
  BY <1>4
<1>6. QED
  BY <1>1, <1>2, <1>3, <1>5 DEF Silent

\* WebDrive's variables keep their types: whatever the web clients and the ROS graph send,
\* the command is at most one twist and every age stays within its timeout.
THEOREM DriveTypes == Spec => []TypeOK
<1>1. Init => TypeOK
  <2> SUFFICES ASSUME Init PROVE TypeOK
    OBVIOUS
  <2> USE DEF Init
  <2>1. /\ ranges \in [Side -> [distance : Reading \cup {NoData}, age : 0..SensorTimeout]]
        /\ control \in [Client -> 0..DriverTimeout] /\ trust \in [Side -> 0..SensorTimeout]
    BY Bounds
  <2>2. QED
    BY <2>1, TwistType, Bounds DEF TypeOK
<1>2. TypeOK /\ [Next]_vars => TypeOK'
  <2>1. TypeOK /\ UNCHANGED vars => TypeOK'
    BY DEF TypeOK, vars, bridge, ghosts
  <2>2. QED
    BY <2>1, WebThreadType, RosThreadType, TickType DEF Next
<1>3. QED
  BY <1>1, <1>2, PTL DEF Spec

-----------------------------------------------------------------------------
(* The inductive invariant is one. *)

\* The parts of TypeOK that the steps below reason with.
LEMMA Typed ==
  ASSUME TypeOK
  PROVE  /\ idle \in Nat /\ since \in Nat /\ since <= CommandTimeout /\ asked \in Nat
         /\ \A c \in Client : control[c] \in Nat /\ control[c] <= DriverTimeout
         /\ \A s \in Side : /\ trust[s] \in Nat /\ ranges[s].age \in Nat
                            /\ ranges[s].age <= SensorTimeout
                            /\ ranges[s].distance \in Nat \cup {NoData}
         /\ command = {} \/ \E t \in Twist : command = {t}
         /\ CommandTimeout \in Nat /\ DriverTimeout \in Nat /\ SensorTimeout \in Nat
         /\ CommandTimeout < DriverTimeout /\ CommandTimeout > 0 /\ SensorTimeout > 0
         /\ StopDistance \in Nat
  BY ConstantsAssumption DEF TypeOK

\* While a command stands its client holds the lock: the lock outlives every command.
LEMMA CommandHoldsLock ==
  ASSUME TypeOK, Inductive, command # {}
  PROVE  Holder = driver /\ driver \in connected /\ idle < DriverTimeout
<1>1. PICK t \in command : TRUE
  OBVIOUS
<1>2. driver \in Client /\ idle <= since
  BY <1>1 DEF Inductive, CommandIsDrivers
<1>3. idle < DriverTimeout
  BY <1>2, Typed
<1>4. Holder = driver
  BY <1>3, Typed DEF Holder
<1>5. QED
  BY <1>2, <1>3, <1>4, ConstantsAssumption DEF Inductive, HolderIsConnected

\* Initially nobody drives and nothing was published.
LEMMA InitInductive == Init => Inductive
  BY ConstantsAssumption
  DEF Init, Inductive, HolderIsConnected, CommandIsDrivers, TimerDropsStale, EstopTakesCommand,
      PublishedIsLive, MotionIsPublished, ControlIsDrivers, TrustOutlastsReading, NoResume,
      Holder, Moves, Zero

\* A client that connects has had no command accepted yet.
LEMMA ConnectInductive ==
  ASSUME TypeOK, Inductive, NEW c \in Client, Connect(c) PROVE Inductive'
<1> USE Typed DEF Connect, bridge, Silent, Inductive
<1>1. HolderIsConnected'
  BY DEF HolderIsConnected, Holder
<1>2. ControlIsDrivers'
  BY DEF ControlIsDrivers, TypeOK
<1>3. QED
  BY <1>1, <1>2 DEF CommandIsDrivers, TimerDropsStale, EstopTakesCommand, PublishedIsLive,
                    MotionIsPublished, TrustOutlastsReading, NoResume, Moves

\* Whoever takes the lock with a command or with the gizmo finds it free, or its own; what
\* was commanded before is then its own, too.
LEMMA TakeLock ==
  ASSUME TypeOK, Inductive, NEW c \in connected, MayDrive(c),
         driver' = c /\ idle' = 0 /\ control' = [control EXCEPT ![c] = 0],
         UNCHANGED connected
  PROVE  HolderIsConnected' /\ ControlIsDrivers' /\ (command # {} => driver = c)
<1>0. c \in Client
  BY DEF TypeOK
<1>1. HolderIsConnected'
  BY Typed DEF HolderIsConnected, Holder
<1>2. command # {} => driver = c
  BY CommandHoldsLock, ConstantsAssumption, <1>0 DEF MayDrive, TypeOK
<1>3. ControlIsDrivers'
  <2> SUFFICES ASSUME NEW d \in connected', control'[d] < DriverTimeout
               PROVE  driver' = d /\ idle' <= control'[d]
    BY DEF ControlIsDrivers
  <2>1. CASE d = c
    BY <2>1, <1>0 DEF TypeOK
  <2>2. CASE d # c
    <3>1. d \in Client /\ control[d] < DriverTimeout
      BY <2>2 DEF TypeOK
    <3>2. driver = d /\ idle < DriverTimeout
      BY <3>1, Typed DEF Inductive, ControlIsDrivers
    <3>3. Holder = d
      BY <3>2, Typed DEF Holder
    <3>4. QED
      BY <3>1, <3>3, <2>2, ConstantsAssumption DEF MayDrive
  <2>3. QED
    BY <2>1, <2>2
<1>4. QED
  BY <1>1, <1>2, <1>3

LEMMA DriveInductive ==
  ASSUME TypeOK, Inductive, NEW c \in Client, NEW v \in Linear, NEW w \in Angular, Drive(c, v, w)
  PROVE  Inductive'
<1> USE DEF Drive, Silent
<1>1. HolderIsConnected' /\ ControlIsDrivers' /\ (command # {} => driver = c)
  BY TakeLock
<1>2. CommandIsDrivers' /\ TimerDropsStale' /\ EstopTakesCommand'
  BY Typed DEF CommandIsDrivers, TimerDropsStale, EstopTakesCommand, DriveAllowed
<1>3. PublishedIsLive'
  BY <1>1 DEF Inductive, PublishedIsLive
<1>4. QED
  BY <1>1, <1>2, <1>3 DEF Inductive, MotionIsPublished, Moves, TrustOutlastsReading, NoResume

LEMMA AimInductive ==
  ASSUME TypeOK, Inductive, NEW c \in Client, AimGizmo(c) PROVE Inductive'
<1> USE DEF AimGizmo, Silent
<1>1. HolderIsConnected' /\ ControlIsDrivers' /\ (command # {} => driver = c)
  BY TakeLock
<1>2. CommandIsDrivers' /\ PublishedIsLive'
  BY <1>1, Typed DEF Inductive, CommandIsDrivers, PublishedIsLive
<1>3. QED
  BY <1>1, <1>2 DEF Inductive, MotionIsPublished, Moves, TrustOutlastsReading, NoResume,
                    TimerDropsStale, EstopTakesCommand

\* A driver who lets go leaves a zero behind if it was publishing; letting go of a lock
\* that expired, or belongs to somebody else, changes nothing that moves.
LEMMA ReleaseInductive ==
  ASSUME TypeOK, Inductive, NEW c \in Client, NEW disconnected \in BOOLEAN,
         Release(c, disconnected)
  PROVE  Inductive'
<1> USE DEF Release
<1>1. HolderIsConnected'
  BY ConstantsAssumption, Typed DEF Inductive, HolderIsConnected, Holder, TypeOK
<1>2. ControlIsDrivers'
  <2> SUFFICES ASSUME NEW d \in connected', control'[d] < DriverTimeout
               PROVE  driver' = d /\ idle' <= control'[d]
    BY DEF ControlIsDrivers
  <2>1. d \in connected /\ d \in Client /\ control[d] < DriverTimeout
        /\ control'[d] = control[d] /\ (disconnected => d # c)
    BY Typed DEF TypeOK
  <2>2. driver = d /\ idle <= control[d] /\ idle < DriverTimeout
    BY <2>1, Typed DEF Inductive, ControlIsDrivers
  <2>3. Holder = d
    BY <2>2, Typed DEF Holder
  <2>4. QED
    BY <2>1, <2>2, <2>3
<1>3. CASE Holder = c
  <2>1. command' = {} /\ published' = FALSE /\ UNCHANGED <<ranges, trust, estop, due>>
    BY <1>3
  <2>2. MotionIsPublished' /\ NoResume'
    BY <1>3, <2>1 DEF Inductive, MotionIsPublished, NoResume, LetGo, Publish, Silent, Zero, Moves
  <2>3. QED
    BY <1>1, <1>2, <2>1, <2>2
    DEF Inductive, CommandIsDrivers, TimerDropsStale, EstopTakesCommand, PublishedIsLive,
        TrustOutlastsReading
<1>4. CASE Holder # c
  BY <1>1, <1>2, <1>4
  DEF Inductive, CommandIsDrivers, TimerDropsStale, EstopTakesCommand, PublishedIsLive,
      MotionIsPublished, TrustOutlastsReading, NoResume, Silent, Moves
<1>5. QED
  BY <1>3, <1>4

\* An E-stop from the page sends a zero and takes the command; its release resumes nothing.
LEMMA SetEstopInductive ==
  ASSUME TypeOK, Inductive, NEW engaged \in BOOLEAN, SetEstop(engaged) PROVE Inductive'
<1> USE DEF SetEstop
<1>1. HolderIsConnected' /\ ControlIsDrivers' /\ TrustOutlastsReading'
  BY DEF Inductive, HolderIsConnected, Holder, ControlIsDrivers, TrustOutlastsReading
<1>2. CASE engaged
  BY <1>1, <1>2
  DEF Inductive, CommandIsDrivers, TimerDropsStale, EstopTakesCommand, PublishedIsLive,
      MotionIsPublished, NoResume, Publish, DropCommand, Zero, Moves
<1>3. CASE ~engaged
  BY <1>1, <1>3
  DEF Inductive, CommandIsDrivers, TimerDropsStale, EstopTakesCommand, PublishedIsLive,
      MotionIsPublished, NoResume, Silent, Moves
<1>4. QED
  BY <1>2, <1>3

\* Another publisher's E-stop takes the command, too, and cuts what was last published.
LEMMA OnEstopInductive ==
  ASSUME TypeOK, Inductive, NEW engaged \in BOOLEAN, OnEstop(engaged) PROVE Inductive'
<1> USE DEF OnEstop
<1>1. HolderIsConnected' /\ ControlIsDrivers' /\ TrustOutlastsReading'
  BY DEF Inductive, HolderIsConnected, Holder, ControlIsDrivers, TrustOutlastsReading
<1>2. QED
  BY <1>1
  DEF Inductive, CommandIsDrivers, TimerDropsStale, EstopTakesCommand, PublishedIsLive,
      MotionIsPublished, NoResume, DropCommand, Moves

\* A reading is trusted for as long as it can be fresh.
LEMMA OnRangeInductive ==
  ASSUME TypeOK, Inductive, NEW s \in Side, NEW d \in Reading \cup {NoData}, OnRange(s, d)
  PROVE  Inductive'
<1> USE DEF OnRange
<1>1. TrustOutlastsReading'
  <2> SUFFICES ASSUME NEW r \in Side, ranges'[r].distance # NoData,
                      ranges'[r].distance >= StopDistance
               PROVE  trust'[r] + ranges'[r].age >= SensorTimeout
    BY DEF TrustOutlastsReading
  <2>1. CASE r = s
    BY <2>1, Typed DEF TypeOK
  <2>2. CASE r # s
    BY <2>2, Typed DEF TypeOK, Inductive, TrustOutlastsReading
  <2>3. QED
    BY <2>1, <2>2
<1>2. QED
  BY <1>1
  DEF Inductive, HolderIsConnected, Holder, ControlIsDrivers, CommandIsDrivers, TimerDropsStale,
      EstopTakesCommand, PublishedIsLive, MotionIsPublished, NoResume, Silent, Moves

\* The timer publishes the driver's command, or ends it with a zero.
LEMMA DriveTimerInductive ==
  ASSUME TypeOK, Inductive, DriveTimer PROVE Inductive'
<1> USE DEF DriveTimer
<1>1. HolderIsConnected' /\ ControlIsDrivers' /\ TrustOutlastsReading'
  BY DEF Inductive, HolderIsConnected, Holder, ControlIsDrivers, TrustOutlastsReading
<1>2. CASE command' = {}
  <2>1. published' = FALSE /\ IF published THEN Publish(Zero) ELSE Silent
    BY <1>2
  <2>2. MotionIsPublished' /\ NoResume'
    BY <2>1 DEF Inductive, MotionIsPublished, NoResume, Publish, Silent, Zero, Moves
  <2>3. QED
    BY <1>1, <1>2, <2>1, <2>2
    DEF Inductive, CommandIsDrivers, TimerDropsStale, EstopTakesCommand, PublishedIsLive
<1>3. CASE command' # {}
  <2>1. command' = command /\ since < CommandTimeout
    BY <1>3, Typed DEF LiveCommand
  <2>2. PICK t \in command : /\ out' = [t EXCEPT !.linear = Guarded(t.linear)]
                             /\ cut' = FALSE /\ published' = TRUE /\ since' = since
    BY <1>3, <2>1 DEF LiveCommand, Publish
  <2>3. t \in Twist /\ t.by = driver /\ ~t.old
    BY <2>2, Typed DEF Inductive, CommandIsDrivers
  <2>4. out'.by = driver /\ ~out'.old
    BY <2>2, <2>3 DEF Twist
  <2>5. PublishedIsLive' /\ MotionIsPublished' /\ NoResume'
    BY <1>3, <2>2, <2>4 DEF PublishedIsLive, MotionIsPublished, NoResume
  <2>6. CommandIsDrivers' /\ TimerDropsStale' /\ EstopTakesCommand'
    BY <2>1, <2>2 DEF Inductive, CommandIsDrivers, TimerDropsStale, EstopTakesCommand
  <2>7. QED
    BY <1>1, <2>5, <2>6 DEF Inductive
<1>4. QED
  BY <1>2, <1>3

\* With a period of the timer everything ages by one, up to what can still be told apart.
LEMMA TickInductive ==
  ASSUME TypeOK, Inductive, Tick PROVE Inductive'
<1> USE Typed DEF Tick, Least
<1>1. HolderIsConnected'
  BY DEF Inductive, HolderIsConnected, Holder
<1>2. CommandIsDrivers'
  <2>1. command # {} => since < CommandTimeout
    BY DEF Inductive, TimerDropsStale
  <2>2. QED
    BY <2>1 DEF Inductive, CommandIsDrivers
<1>3. ControlIsDrivers'
  BY DEF Inductive, ControlIsDrivers, TypeOK
<1>4. TrustOutlastsReading'
  <2> SUFFICES ASSUME NEW s \in Side, ranges'[s].distance # NoData,
                      ranges'[s].distance >= StopDistance
               PROVE  trust'[s] + ranges'[s].age >= SensorTimeout
    BY DEF TrustOutlastsReading
  <2>1. /\ ranges'[s].distance = ranges[s].distance
        /\ ranges'[s].age = Least(ranges[s].age + 1, SensorTimeout)
    BY DEF TypeOK
  <2>2. trust[s] + ranges[s].age >= SensorTimeout
    BY <2>1 DEF Inductive, TrustOutlastsReading
  <2>3. trust'[s] = IF trust[s] = 0 THEN 0 ELSE trust[s] - 1
    OBVIOUS
  <2>4. QED
    BY <2>1, <2>2, <2>3
<1>5. QED
  BY <1>1, <1>2, <1>3, <1>4
  DEF Inductive, TimerDropsStale, EstopTakesCommand, PublishedIsLive, MotionIsPublished, NoResume,
      Silent, Moves

\* Every step of WebDrive keeps the relation between the driver's lock, the command, what is
\* published and the age of all three.
THEOREM InductiveHolds == Spec => []Inductive
<1>1. TypeOK /\ Inductive /\ [Next]_vars => Inductive'
  <2> SUFFICES ASSUME TypeOK, Inductive, [Next]_vars PROVE Inductive'
    OBVIOUS
  <2>1. CASE UNCHANGED vars
    BY <2>1
    DEF vars, bridge, ghosts, Inductive, HolderIsConnected, Holder, CommandIsDrivers,
        TimerDropsStale, EstopTakesCommand, PublishedIsLive, MotionIsPublished, Moves,
        ControlIsDrivers, TrustOutlastsReading, NoResume
  <2>2. CASE WebThread
    <3>1. ASSUME NEW m \in {"drive", "follow"}, SetMode(m) PROVE Inductive'
      BY <3>1
      DEF SetMode, Inductive, HolderIsConnected, Holder, CommandIsDrivers, TimerDropsStale,
          EstopTakesCommand, PublishedIsLive, MotionIsPublished, Moves, ControlIsDrivers,
          TrustOutlastsReading, NoResume, Silent
    <3>2. QED
      BY <2>2, <3>1, ConnectInductive, AimInductive, DriveInductive, ReleaseInductive,
         SetEstopInductive
      DEF WebThread
  <2>3. CASE RosThread
    BY <2>3, DriveTimerInductive, OnEstopInductive, OnRangeInductive DEF RosThread
  <2>4. CASE Tick
    BY <2>4, TickInductive
  <2>5. QED
    BY <2>1, <2>2, <2>3, <2>4 DEF Next
<1>2. QED
  BY InitInductive, DriveTypes, <1>1, PTL DEF Spec

-----------------------------------------------------------------------------
(* What follows from it. *)

\* Dead-man: for any timeouts, the twist in effect moves the robot only while a driver who
\* has not let go asked for motion within command_timeout, or an E-stop from elsewhere cut it.
THEOREM DeadManHolds == Spec => []DeadMan
<1>1. TypeOK /\ Inductive => DeadMan
  BY Typed DEF Inductive, DeadMan, MotionIsPublished, PublishedIsLive, CommandIsDrivers
<1>2. QED
  BY <1>1, DriveTypes, InductiveHolds, PTL

\* For any number of browsers, what moves the robot was asked for by one with an open socket.
THEOREM MovedByTheDriver == Spec => []MovedByDriver
<1>1. TypeOK /\ Inductive => MovedByDriver
  BY CommandHoldsLock DEF Inductive, MovedByDriver, MotionIsPublished, PublishedIsLive
<1>2. QED
  BY <1>1, DriveTypes, InductiveHolds, PTL

\* No twist that was asked for before an E-stop is published after it.
THEOREM NothingResumes == Spec => []NoResume
  BY InductiveHolds, PTL DEF Inductive

\* One person drives at a time, for any number of browsers and any driver_timeout longer
\* than command_timeout.
THEOREM OnePersonDrives == Spec => []OneDriver
<1>1. TypeOK /\ Inductive => OneDriver
  BY Typed DEF Inductive, OneDriver, ControlIsDrivers, TypeOK
<1>2. QED
  BY <1>1, DriveTypes, InductiveHolds, PTL

-----------------------------------------------------------------------------
(* The guard. *)

\* While the guard is on and readings are required, a speed it lets through is over
\* ground that every sensor sees to be free.
LEMMA ForwardIsSeen ==
  ASSUME TypeOK, StopDistance > 0, NEW v \in Linear \cup {0}, Guarded(v) > 0
  PROVE  /\ v \in Linear /\ Guarded(v) = v
         /\ StopAt(v) \in Nat /\ StopAt(v) = Least(Needed(v), GuardCap) /\ StopAt(v) > 0
         /\ \A s \in Side : Fresh(s) # NoData => Fresh(s) >= StopAt(v)
         /\ RequireData => \A s \in Side : Fresh(s) # NoData
<1>1. v \in Linear /\ v \in Int
  BY ConstantsAssumption
<1>2. StopAt(v) \in Nat /\ StopAt(v) = Least(Needed(v), GuardCap) /\ StopAt(v) > 0
  BY <1>1, BrakingType, ConstantsAssumption DEF StopAt, Needed, Least
<1>3. ~Blocked(StopAt(v)) /\ Guarded(v) = v
  BY <1>1 DEF Guarded, Least
<1>4. \A s \in Side : Fresh(s) = NoData \/ Fresh(s) \in Nat
  BY Typed DEF Fresh
<1>5. ASSUME NEW s \in Side
      PROVE /\ Fresh(s) # NoData => Fresh(s) >= StopAt(v)
            /\ RequireData => Fresh(s) # NoData
  BY <1>2, <1>3, <1>4 DEF Blocked
<1>6. QED
  BY <1>1, <1>2, <1>3, <1>5

\* What the timer publishes that goes forward is the command the guard let through.
LEMMA ForwardIsGuarded ==
  ASSUME TypeOK, DriveTimer, sent', out'.linear > 0
  PROVE  \E v \in Linear \cup {0} : out'.linear = Guarded(v) /\ Guarded(v) > 0
<1>1. CASE LiveCommand = {} /\ out' = Zero
  BY <1>1 DEF Zero
<1>2. CASE \E t \in LiveCommand : Publish([t EXCEPT !.linear = Guarded(t.linear)])
  <2>1. PICK t \in LiveCommand : out' = [t EXCEPT !.linear = Guarded(t.linear)]
    BY <1>2 DEF Publish
  <2>2. t \in Twist
    BY <2>1, Typed DEF LiveCommand
  <2>3. out'.linear = Guarded(t.linear) /\ t.linear \in Linear \cup {0}
    BY <2>1, <2>2 DEF Twist
  <2>4. QED
    BY <2>3
<1>3. QED
  BY <1>1, <1>2 DEF DriveTimer, Publish, Silent

\* Only the timer publishes anything but a zero.
LEMMA OnlyTimerMoves ==
  ASSUME TypeOK, Next, sent', Moves(out') PROVE DriveTimer
<1>1. Moves(Zero) = FALSE
  BY DEF Moves, Zero
<1>2. WebThread => ~sent' \/ out' = Zero
  BY DEF WebThread, Connect, AimGizmo, Drive, Release, LetGo, SetEstop, SetMode, Silent, Publish
<1>3. QED
  BY <1>1, <1>2 DEF Next, RosThread, OnEstop, OnRange, Tick, Silent

\* For any parameters, nothing but zero is published while the E-stop is engaged: the
\* command is gone with it, and none is accepted.
THEOREM EstopHoldsThroughout == Spec => EstopHolds
<1>1. TypeOK /\ Inductive /\ [Next]_vars => [estop /\ sent' => ~Moves(out')]_vars
  <2> SUFFICES ASSUME TypeOK, Inductive, Next, estop, sent', Moves(out') PROVE FALSE
    OBVIOUS
  <2>1. DriveTimer
    BY OnlyTimerMoves
  <2>2. LiveCommand = {}
    BY DEF Inductive, EstopTakesCommand, LiveCommand
  <2>3. out' = Zero
    BY <2>1, <2>2 DEF DriveTimer, Publish, Silent
  <2>4. QED
    BY <2>3 DEF Zero, Moves
<1>2. QED
  BY <1>1, DriveTypes, InductiveHolds, PTL DEF EstopHolds, Spec

\* With the guard on, forward motion outlasts neither a silent sensor by more than
\* sensor_timeout nor an obstacle by more than a period, for any number of sensors.
LEMMA EyesOpenStep ==
  ASSUME GuardOn, TypeOK, Inductive, EyesOpen, [Next]_vars PROVE EyesOpen'
<1> SUFFICES ASSUME RequireData, out'.linear > 0, ~cut', ~due', NEW s \in Side
             PROVE  trust'[s] > 0
  BY DEF EyesOpen
<1>1. CASE DriveTimer /\ sent'
  <2>1. PICK v \in Linear \cup {0} : out'.linear = Guarded(v) /\ Guarded(v) > 0
    BY <1>1, ForwardIsGuarded
  <2>2. Fresh(s) # NoData /\ Fresh(s) >= StopDistance
    <3>1. v \in Linear /\ Fresh(s) # NoData /\ Fresh(s) >= Least(Needed(v), GuardCap)
      BY <2>1, ForwardIsSeen DEF GuardOn
    <3>2. Needed(v) \in Nat /\ Needed(v) >= StopDistance
      BY <3>1, BrakingType, ConstantsAssumption DEF Needed
    <3>3. Fresh(s) \in Nat
      BY <3>1, Typed DEF Fresh
    <3>4. QED
      BY <3>1, <3>2, <3>3, ConstantsAssumption DEF Least, GuardOn
  <2>3. trust[s] > 0
    BY <2>2, Typed DEF Fresh, Inductive, TrustOutlastsReading
  <2>4. QED
    BY <1>1, <2>3 DEF DriveTimer
<1>2. CASE DriveTimer /\ ~sent'
  <2>1. ~published /\ out' = out /\ cut' = cut
    BY <1>2 DEF DriveTimer, Publish, Silent
  <2>2. Moves(out)
    BY <2>1 DEF Moves
  <2>3. QED
    BY <2>1, <2>2 DEF Inductive, MotionIsPublished
<1>3. CASE WebThread
  <2>1. out' = Zero \/ UNCHANGED <<out, cut>>
    BY <1>3 DEF WebThread, Connect, AimGizmo, Drive, Release, LetGo, SetEstop, SetMode, Silent,
                Publish
  <2>2. UNCHANGED <<due, trust>>
    BY <1>3 DEF WebThread, Connect, AimGizmo, Drive, Release, SetEstop, SetMode
  <2>3. QED
    BY <2>1, <2>2 DEF EyesOpen, Zero
<1>4. ASSUME NEW engaged \in BOOLEAN, OnEstop(engaged) PROVE trust'[s] > 0
  BY <1>4 DEF OnEstop, EyesOpen, TypeOK
<1>5. ASSUME NEW r \in Side, NEW d \in Reading \cup {NoData}, OnRange(r, d)
      PROVE  trust'[s] > 0
  <2>1. trust[s] > 0
    BY <1>5 DEF OnRange, Silent, EyesOpen
  <2>2. QED
    BY <1>5, <2>1, Typed DEF OnRange, Least, TypeOK
<1>6. CASE Tick
  BY <1>6 DEF Tick
<1>7. CASE UNCHANGED vars
  BY <1>7 DEF vars, ghosts, EyesOpen
<1>8. QED
  BY <1>1, <1>2, <1>3, <1>4, <1>5, <1>6, <1>7 DEF Next, RosThread

\* The driver lock and the sensors, for any number of browsers and sensors, with the guard
\* on: types, one driver at a time, and no motion forward without fresh readings.
THEOREM DriveIsSafe == ASSUME GuardOn PROVE Spec => []DriveSafety
<1>1. Init => EyesOpen
  BY DEF Init, EyesOpen, Zero
<1>2. TypeOK /\ Inductive /\ EyesOpen /\ [Next]_vars => EyesOpen'
  BY EyesOpenStep
<1>3. Spec => []EyesOpen
  BY <1>1, <1>2, DriveTypes, InductiveHolds, PTL DEF Spec
<1>4. QED
  BY <1>3, DriveTypes, OnePersonDrives, PTL DEF DriveSafety

\* For every speed, stop distance, reaction time, deceleration and cap, and any sensors: a
\* forward twist is only published with the room the guard keeps for that speed (all it needs
\* to stop, or as much of it as the cap leaves), and none during an E-stop.
THEOREM TwistsAreSafe == Spec => SafeTwists
<1>1. TypeOK /\ [Next]_vars =>
        [sent' /\ out'.linear > 0 /\ StopDistance > 0 =>
           \A s \in Side :
             IF Fresh(s) = NoData THEN ~RequireData
                                  ELSE Fresh(s) >= Least(Needed(out'.linear), GuardCap)]_vars
  <2> SUFFICES ASSUME TypeOK, Next, sent', out'.linear > 0, StopDistance > 0, NEW s \in Side
               PROVE  IF Fresh(s) = NoData THEN ~RequireData
                                           ELSE Fresh(s) >= Least(Needed(out'.linear), GuardCap)
    OBVIOUS
  <2>1. DriveTimer
    BY OnlyTimerMoves DEF Moves
  <2>2. PICK v \in Linear \cup {0} : out'.linear = Guarded(v) /\ Guarded(v) > 0
    BY <2>1, ForwardIsGuarded
  <2>3. /\ out'.linear = v /\ StopAt(v) = Least(Needed(v), GuardCap)
        /\ Fresh(s) # NoData => Fresh(s) >= StopAt(v)
        /\ RequireData => Fresh(s) # NoData
    BY <2>2, ForwardIsSeen
  <2>4. QED
    BY <2>3
<1>2. Spec => RoomWithinCap
  BY <1>1, DriveTypes, PTL DEF RoomWithinCap, Spec
<1>3. QED
  BY <1>2, EstopHoldsThroughout DEF SafeTwists
=============================================================================
