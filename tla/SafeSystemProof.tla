---------------------------- MODULE SafeSystemProof ----------------------------
(***************************************************************************)
(* Theorems about SafeSystem for every set of joints and every timeout:    *)
(* its type invariant, the inductive invariant, the stops it implies and   *)
(* the refinement of MotorPromise.                                         *)
(***************************************************************************)
EXTENDS SafeSystem, TLAPS

USE DEF Live, Outcome, Idle, guards, release, flow, loop, queue, world

\* The timeouts bound the ranges the counters of TypeOK run over.
LEMMA Ranges ==
  /\ SilenceCap \in Nat /\ LongestCall \in Nat
  /\ BrakeTime \in 0..LongestCall /\ ActivationWait \in 0..LongestCall
  /\ StatusTimeout + 1 \in Nat /\ StallTime + 1 \in Nat
  BY ConstantsAssumption DEF SilenceCap, Blind, LongestCall

\* The initial values have their types.
LEMMA InitType == Init => TypeOK
<1> SUFFICES ASSUME Init PROVE TypeOK
  OBVIOUS
<1> USE Ranges, ConstantsAssumption DEF Init
<1>1. lifecycle \in Live \cup {"unconfigured", "finalized", "gone"}
  OBVIOUS
<1>2. socket \in BOOLEAN /\ active \in BOOLEAN /\ stopped \in BOOLEAN /\ bus \in BOOLEAN
      /\ paused \in BOOLEAN
  OBVIOUS
<1>3. releaseIn \in [Joint -> 0..BrakeTime]
  OBVIOUS
<1>4. over \in [Joint -> 0..(StallTime + 1)] /\ age \in [Joint -> 0..(StatusTimeout + 1)]
  OBVIOUS
<1>5. silent \in [Joint -> 0..SilenceCap] /\ left \in 0..LongestCall
  OBVIOUS
<1>6. cmd \in [Joint -> {"nan", "fresh", "stale"}]
      /\ motor \in [Joint -> {"off", "zero", "drive", "stale"}]
  OBVIOUS
<1>7. QED
  BY <1>1, <1>2, <1>3, <1>4, <1>5, <1>6 DEF TypeOK

\* A delivered frame leaves a well-typed motor state.
LEMMA DeliverType ==
  ASSUME TypeOK, NEW S, NEW m \in {"off", "zero", "drive"}
  PROVE  Deliver(S, m) \in [Joint -> {"off", "zero", "drive", "stale"}]
  BY DEF Deliver, TypeOK

\* drain_status leaves the status of every joint well typed.
LEMMA DrainType ==
  ASSUME TypeOK, Drain
  PROVE  /\ fault' \subseteq Joint /\ high' \subseteq Joint
         /\ age' \in [Joint -> 0..(StatusTimeout + 1)]
         /\ queued' \subseteq Joint /\ queuedFault' \subseteq Joint /\ queuedHigh' \subseteq Joint
  BY ConstantsAssumption DEF TypeOK, Drain, Heard

\* So does the end of a callback.
LEMMA SettleType ==
  ASSUME TypeOK, NEW next \in Outcome, Settle(next)
  PROVE  /\ lifecycle' \in Live \cup {"unconfigured", "finalized", "gone"}
         /\ socket' \in BOOLEAN /\ claimed' \subseteq Joint
         /\ call' \in {"idle", "stop", "wait", "zero", "pause"}
         /\ left' \in 0..LongestCall /\ after' \in Outcome
  BY ConstantsAssumption DEF TypeOK, Settle, Ends, LongestCall

\* And a stop, taken or skipped.
LEMMA StopType ==
  ASSUME TypeOK, NEW next \in Outcome, StopMotors(next) \/ StopUnlessStopped(next)
  PROVE  /\ lifecycle' \in Live \cup {"unconfigured", "finalized", "gone"}
         /\ socket' \in BOOLEAN /\ claimed' \subseteq Joint /\ stopped' \in BOOLEAN
         /\ releasing' \subseteq Joint
         /\ motor' \in [Joint -> {"off", "zero", "drive", "stale"}]
         /\ call' \in {"idle", "stop", "wait", "zero", "pause"}
         /\ left' \in 0..LongestCall /\ after' \in Outcome
<1>1. CASE StopMotors(next) /\ socket
  <2> motor' = Deliver(Joint, "zero") /\ stopped' = TRUE /\ releasing' = {}
    BY <1>1 DEF StopMotors
  <2> motor' \in [Joint -> {"off", "zero", "drive", "stale"}]
    BY DeliverType
  <2> QED
    BY <1>1, Ranges DEF StopMotors, TypeOK
<1>2. CASE StopMotors(next) /\ ~socket
  BY <1>2, SettleType DEF StopMotors, TypeOK
<1>3. CASE StopUnlessStopped(next) /\ stopped
  BY <1>3, SettleType DEF StopUnlessStopped, TypeOK
<1>4. QED
  BY <1>1, <1>2, <1>3 DEF StopUnlessStopped, TypeOK

\* And zero current to any set of joints.
LEMMA ReleaseType ==
  ASSUME TypeOK, NEW S \in SUBSET Joint, Release(S)
  PROVE  motor' \in [Joint -> {"off", "zero", "drive", "stale"}] /\ unreached' \subseteq Joint
  BY DeliverType DEF Release, TypeOK

\* Marking the commands as left over keeps their type.
LEMMA LeftoverType == TypeOK => Leftover \in [Joint -> {"nan", "fresh", "stale"}]
  BY DEF Leftover, TypeOK

\* on_configure keeps the types.
LEMMA ConfigureType == TypeOK /\ Configure => TypeOK'
  BY DEF TypeOK, Configure

\* on_activate, up to its wait, keeps the types.
LEMMA ActivateType == TypeOK /\ Activate => TypeOK'
<1> SUFFICES ASSUME TypeOK, Activate PROVE TypeOK'
  OBVIOUS
<1>1. CASE call' = "wait" /\ UNCHANGED <<lifecycle, socket, stopped, releasing, after, claimed, motor>>
           /\ left' = ActivationWait
  BY <1>1, Ranges DEF TypeOK, Activate
<1>2. CASE StopUnlessStopped("failed")
  BY <1>2, StopType DEF TypeOK, Activate
<1>3. QED
  BY <1>1, <1>2 DEF Activate

\* The end of a blocking stop keeps the types.
LEMMA EndStopType == TypeOK /\ EndStop => TypeOK'
<1> SUFFICES ASSUME TypeOK, EndStop PROVE TypeOK'
  OBVIOUS
<1>1. after \in Outcome
  BY DEF TypeOK
<1>2. QED
  BY <1>1, SettleType, ReleaseType DEF TypeOK, EndStop

\* on_deactivate keeps the types.
LEMMA DeactivateType == TypeOK /\ Deactivate => TypeOK'
  BY StopType, LeftoverType DEF TypeOK, Deactivate

\* on_cleanup, on_shutdown and the destructor keep the types.
LEMMA TearDownType ==
  ASSUME TypeOK, NEW from, NEW next \in Outcome, TearDown(from, next)
  PROVE  TypeOK'
  BY StopType, LeftoverType DEF TypeOK, TearDown

\* The middle of on_activate keeps the types of what it changes.
LEMMA StartZeroingType ==
  ASSUME TypeOK, StartZeroing
  PROVE  /\ lifecycle' \in Live \cup {"unconfigured", "finalized", "gone"}
         /\ socket' \in BOOLEAN /\ active' \in BOOLEAN /\ stopped' \in BOOLEAN
         /\ releasing' \subseteq Joint /\ over' \in [Joint -> 0..(StallTime + 1)]
         /\ call' \in {"idle", "stop", "wait", "zero", "pause"}
         /\ left' \in 0..LongestCall /\ after' \in Outcome
         /\ pending' \subseteq ZeroOnActivate /\ claimed' \subseteq Joint
         /\ cmd' \in [Joint -> {"nan", "fresh", "stale"}]
         /\ motor' \in [Joint -> {"off", "zero", "drive", "stale"}]
         /\ unreached' \subseteq Joint
<1>1. over' \in [Joint -> 0..(StallTime + 1)] /\ cmd' \in [Joint -> {"nan", "fresh", "stale"}]
  BY Ranges DEF StartZeroing, FreshCommands
<1>2. CASE ZeroOnActivate = {}
  <2>1. /\ stopped' = FALSE /\ releasing' = {} /\ active' = TRUE /\ lifecycle' = "active"
        /\ call' = "idle" /\ left' = 0
        /\ UNCHANGED <<socket, after, pending, claimed, motor, unreached>>
    BY <1>2 DEF StartZeroing, StoppedOnActivate
  <2>2. active' \in BOOLEAN /\ stopped' \in BOOLEAN /\ socket' \in BOOLEAN
    BY <2>1 DEF TypeOK
  <2>3. left' \in 0..LongestCall /\ pending' \subseteq ZeroOnActivate /\ releasing' \subseteq Joint
    BY <2>1, Ranges DEF TypeOK
  <2>4. QED
    BY <1>1, <2>1, <2>2, <2>3 DEF TypeOK
<1>3. CASE ZeroOnActivate # {} /\ bus
  <2>1. Release(ZeroOnActivate)
    BY <1>3 DEF StartZeroing
  <2>2. QED
    BY <1>1, <1>3, <2>1, ReleaseType, Ranges, ConstantsAssumption
    DEF StartZeroing, StoppedOnActivate, TypeOK
<1>4. CASE ZeroOnActivate # {} /\ ~bus
  <2>1. StopMotors("failed")
    BY <1>4 DEF StartZeroing
  <2>2. QED
    BY <1>1, <1>4, <2>1, StopType DEF StartZeroing, TypeOK
<1>5. QED
  BY <1>2, <1>3, <1>4 DEF StartZeroing

\* A poll of wait_for_status keeps the types.
LEMMA WaitPollType == TypeOK /\ WaitPoll => TypeOK'
<1> SUFFICES ASSUME TypeOK, WaitPoll PROVE TypeOK'
  OBVIOUS
<1>1. Drain /\ UNCHANGED <<releaseIn, posClaimed, cycle, paused, link, bus, silent>>
  BY DEF WaitPoll
<1>2. CASE UNCHANGED <<lifecycle, socket, active, stopped, releasing, over, flow, claimed,
                       cmd, motor, unreached>>
  BY <1>1, <1>2, DrainType DEF TypeOK
<1>3. CASE StartZeroing
  BY <1>1, <1>3, DrainType, StartZeroingType DEF TypeOK
<1>4. CASE /\ StopUnlessStopped("failed")
           /\ UNCHANGED <<active, over, pending, cmd, unreached>>
  BY <1>1, <1>4, DrainType, StopType DEF TypeOK
<1>5. QED
  BY <1>2, <1>3, <1>4 DEF WaitPoll

\* A poll of zero_joints keeps the types.
LEMMA ZeroPollType == TypeOK /\ ZeroPoll => TypeOK'
<1> SUFFICES ASSUME TypeOK, ZeroPoll PROVE TypeOK'
  OBVIOUS
<1>1. /\ Drain /\ pending' \subseteq ZeroOnActivate
      /\ UNCHANGED <<releaseIn, posClaimed, over, cycle, paused, cmd, link, bus, silent,
                     unreached>>
  BY DEF ZeroPoll, TypeOK
<1>2. CASE pending' = {}
  <2>1. /\ active' = TRUE /\ lifecycle' = "active" /\ call' = "idle" /\ left' = 0
        /\ UNCHANGED <<socket, stopped, releasing, after, claimed, motor>>
    BY <1>2 DEF ZeroPoll
  <2>2. QED
    BY <1>1, <2>1, DrainType, Ranges DEF TypeOK
<1>3. CASE pending' # {} /\ left > 0
  BY <1>1, <1>3, DrainType DEF TypeOK, ZeroPoll
<1>4. CASE pending' # {} /\ left = 0
  <2>1. StopMotors("failed") /\ UNCHANGED active
    BY <1>4 DEF ZeroPoll
  <2>2. QED
    BY <1>1, <2>1, DrainType, StopType DEF TypeOK
<1>5. QED
  BY <1>2, <1>3, <1>4 DEF ZeroPoll

\* perform_command_mode_switch keeps the types.
LEMMA ModeSwitchType ==
  ASSUME TypeOK, NEW drop \in SUBSET Joint, NEW take \in SUBSET Joint, ModeSwitch(drop, take)
  PROVE  TypeOK'
  BY ConstantsAssumption DEF TypeOK, ModeSwitch, LetGo, PositionClaims

\* read keeps the types.
LEMMA ReadType ==
  ASSUME TypeOK, NEW recvError \in BOOLEAN, NEW upstreamError \in BOOLEAN,
         Read(recvError, upstreamError)
  PROVE  TypeOK'
<1>1. /\ Drain
      /\ UNCHANGED <<releaseIn, posClaimed, pending, paused, link, bus, silent, unreached>>
  BY DEF Read
<1>2. [j \in Joint |-> StallCount(j)] \in [Joint -> 0..(StallTime + 1)]
  BY ConstantsAssumption DEF StallCount, TypeOK
<1>3. CASE /\ active' = FALSE /\ cmd' = Leftover /\ UNCHANGED cycle
           /\ StopMotors("error") \/ StopUnlessStopped("error")
  <2>1. over' \in [Joint -> 0..(StallTime + 1)]
    BY <1>2 DEF Read, TypeOK
  <2>2. QED
    BY <1>1, <1>3, <2>1, DrainType, StopType, LeftoverType DEF TypeOK
<1>4. CASE /\ cycle' = "write"
           /\ UNCHANGED <<lifecycle, socket, active, stopped, releasing, call, left, after,
                          claimed, cmd, motor>>
  <2>1. over' \in [Joint -> 0..(StallTime + 1)]
    BY <1>2 DEF Read, TypeOK
  <2>2. QED
    BY <1>1, <1>4, <2>1, DrainType DEF TypeOK
<1>5. QED
  BY <1>3, <1>4 DEF Read

\* write keeps the types.
LEMMA WriteType ==
  ASSUME TypeOK, NEW upstreamError \in BOOLEAN, Write(upstreamError)
  PROVE  TypeOK'
<1>1. UNCHANGED <<releaseIn, posClaimed, guards, pending, paused, queue, world>>
  BY DEF Write
<1>2. CASE WritesFrames /\ ~upstreamError
  <2>1. motor' \in [Joint -> {"off", "zero", "drive", "stale"}]
    BY <1>2 DEF Write, TypeOK
  <2>2. QED
    BY <1>1, <1>2, <2>1 DEF Write, TypeOK, Due
<1>3. CASE WritesFrames /\ upstreamError
  <2>1. StopUnlessStopped("error") /\ active' = FALSE /\ cmd' = Leftover
        /\ UNCHANGED <<cycle, unreached>>
    BY <1>3 DEF Write
  <2>2. QED
    BY <1>1, <2>1, StopType, LeftoverType DEF TypeOK
<1>4. CASE ~WritesFrames
  BY <1>1, <1>4 DEF Write, TypeOK
<1>5. QED
  BY <1>2, <1>3, <1>4

\* Motors, cables, bus and controllers keep the types.
LEMMA EnvironmentType == TypeOK /\ Environment => TypeOK'
<1> SUFFICES ASSUME TypeOK, Environment PROVE TypeOK'
  OBVIOUS
<1>1. ASSUME NEW j \in Joint, Command(j) PROVE TypeOK'
  BY <1>1 DEF TypeOK, Command
<1>2. ASSUME NEW j \in Joint, LinkDown(j) \/ LinkUp(j) PROVE TypeOK'
  BY <1>2 DEF TypeOK, LinkDown, LinkUp
<1>3. ASSUME NEW j \in Joint, NEW faulty \in BOOLEAN, NEW effort \in BOOLEAN,
             Status(j, faulty, effort)
      PROVE TypeOK'
  BY <1>3, Ranges DEF TypeOK, Status
<1>4. CASE BusToggle
  BY <1>4 DEF TypeOK, BusToggle
<1>5. CASE Pause
  BY <1>5, Ranges DEF TypeOK, Pause
<1>6. QED
  BY <1>1, <1>2, <1>3, <1>4, <1>5 DEF Environment

\* The passage of time keeps every countdown and every age in its range.
LEMMA TickType == TypeOK /\ Tick => TypeOK'
<1> SUFFICES ASSUME TypeOK, Tick PROVE TypeOK'
  OBVIOUS
<1>1. age' \in [Joint -> 0..(StatusTimeout + 1)]
  BY Ranges DEF Tick, TypeOK, Least
<1>2. silent' \in [Joint -> 0..SilenceCap] /\ over' \in [Joint -> 0..(StallTime + 1)]
  BY Ranges DEF Tick, TypeOK, Least
<1>3. releaseIn' \in [Joint -> 0..BrakeTime] /\ left' \in 0..LongestCall
  BY Ranges, ConstantsAssumption DEF Tick, TypeOK
<1>4. motor' \in [Joint -> {"off", "zero", "drive", "stale"}]
  BY DeliverType DEF Tick, TypeOK
<1>5. paused' \in BOOLEAN /\ cycle' \in {"read", "write", "done"}
  BY DEF Tick, TypeOK
<1>6. UNCHANGED <<lifecycle, socket, active, stopped, releasing, posClaimed, fault, high, call,
                  after, pending, claimed, cmd, link, bus, queue, unreached>>
  BY DEF Tick
<1>7. QED
  BY <1>1, <1>2, <1>3, <1>4, <1>5, <1>6 DEF TypeOK

\* SafeSystem's variables keep their types: among them that the countdowns and the age
\* counters never leave their ranges.
THEOREM TypeCorrect == Spec => []TypeOK
<1>1. TypeOK /\ [Next]_vars => TypeOK'
  <2> SUFFICES ASSUME TypeOK, [Next]_vars PROVE TypeOK'
    OBVIOUS
  <2>1. CASE UNCHANGED vars
    BY <2>1 DEF vars, TypeOK
  <2>2. CASE Callback
    <3>1. CASE Resume
      BY <3>1 DEF Resume, TypeOK
    <3>2. QED
      BY <2>2, <3>1, ConfigureType, ActivateType, WaitPollType, ZeroPollType, EndStopType
      DEF Callback
  <2>3. CASE LoopStep
    BY <2>3, ReadType, WriteType DEF LoopStep
  <2>4. CASE Manager
    BY <2>4, DeactivateType, TearDownType, ModeSwitchType
    DEF Manager, Cleanup, Shutdown, Destroy
  <2>5. CASE Environment
    BY <2>5, EnvironmentType
  <2>6. CASE Tick
    BY <2>6, TickType
  <2>7. QED
    BY <2>1, <2>2, <2>3, <2>4, <2>5, <2>6 DEF Next
<1>2. QED
  BY InitType, <1>1, PTL DEF Spec

-----------------------------------------------------------------------------
(* The inductive invariant.  The parts that carry it: what a delivered frame, a  *)
(* release, a stop and the end of a callback do to the motors.                   *)

\* The promise of a component that is off, without its guard.
Off(j) == motor[j] = "off" \/ j \in unreached

\* A release turns off, or accounts for, the joints it is sent to, and disturbs no other.
LEMMA ReleaseTurnsOff ==
  ASSUME TypeOK, NEW S \in SUBSET Joint, Release(S)
  PROVE  /\ \A j \in S : Off(j)'
         /\ \A j \in Joint : Off(j) => Off(j)'
         /\ \A j \in Joint : motor[j] # "stale" => motor'[j] # "stale"
  BY DEF Off, Release, Deliver, TypeOK

\* A stop makes no motor obey a leftover command.
LEMMA StopKeepsMotorsFresh ==
  ASSUME TypeOK, NoLeftoverCommand, NEW next, StopMotors(next) \/ StopUnlessStopped(next)
  PROVE  NoLeftoverCommand'
<1>1. motor' = motor \/ motor' = Deliver(Joint, "zero")
  BY DEF StopMotors, StopUnlessStopped
<1>2. QED
  BY <1>1 DEF NoLeftoverCommand, Deliver, TypeOK

\* A component that was off, or whose stop has begun, keeps the invariant through the
\* stop that an error, a teardown or a failed activation takes.
LEMMA StopKeepsInductive ==
  ASSUME TypeOK, Inductive, NEW next \in Outcome, StopMotors(next) \/ StopUnlessStopped(next),
         active' = FALSE, UNCHANGED unreached, call # "stop",
         next = "deactivated" => lifecycle \in Live
  PROVE  Inductive'
<1>1. call' \in {"idle", "stop"}
  BY DEF StopMotors, StopUnlessStopped, Settle
<1>2. CASE call' = "stop"
  <2>1. socket'
    BY <1>2 DEF StopMotors, StopUnlessStopped, Settle
  <2>2. QED
    BY <1>1, <1>2, <2>1, StopKeepsMotorsFresh
    DEF Inductive, StopNotSkipped, StoppedUnlessActive, UnclaimedIsReleased
<1>3. CASE call' = "idle"
  <2>1. ~active
    BY <1>3 DEF StopMotors, StopUnlessStopped, Inductive, StopNotSkipped
  <2>2. UNCHANGED motor
    BY <1>3 DEF StopMotors, StopUnlessStopped
  <2>3. Settle(next)
    BY <1>3 DEF StopMotors, StopUnlessStopped
  <2>4. lifecycle' \in Live => next = "deactivated"
    BY <2>3 DEF Settle, Ends
  <2>5. lifecycle' \in Live => socket'
    BY <2>3, <2>4 DEF Settle, Inductive
  <2>6. QED
    BY <1>3, <2>1, <2>2, <2>5 DEF Inductive, StopNotSkipped, StoppedUnlessActive,
                                  UnclaimedIsReleased, NoLeftoverCommand
<1>4. QED
  BY <1>1, <1>2, <1>3

\* The initial state satisfies the inductive invariant.
LEMMA InitInductive == Init => Inductive
  BY DEF Init, Inductive, StopNotSkipped, StoppedUnlessActive, UnclaimedIsReleased,
         NoLeftoverCommand

\* on_activate, up to its wait, keeps the inductive invariant.
LEMMA ActivateInductive == TypeOK /\ Inductive /\ Activate => Inductive'
<1> SUFFICES ASSUME TypeOK, Inductive, Activate PROVE Inductive'
  OBVIOUS
<1>1. ~active /\ UNCHANGED <<active, cmd, unreached>> /\ call # "stop" /\ lifecycle \in Live
  BY DEF Activate, Inductive
<1>2. CASE call' = "wait" /\ UNCHANGED <<lifecycle, socket, stopped, releasing, after, claimed, motor>>
  BY <1>1, <1>2 DEF Inductive, StopNotSkipped, StoppedUnlessActive, UnclaimedIsReleased,
                    NoLeftoverCommand
<1>3. CASE StopUnlessStopped("failed")
  BY <1>1, <1>3, StopKeepsInductive DEF TypeOK
<1>4. QED
  BY <1>2, <1>3 DEF Activate

\* Clearing the commands comes before the component is active, so nothing is left over.
LEMMA StartZeroingInductive ==
  ASSUME TypeOK, Inductive, StartZeroing, call = "wait"
  PROVE  Inductive'
<1>1. ~active /\ socket /\ \A j \in Joint : Off(j) /\ motor[j] # "stale"
  BY DEF Inductive, StoppedUnlessActive, NoLeftoverCommand, Off
<1>2. \A j \in Joint : cmd'[j] = "nan"
  BY DEF StartZeroing, FreshCommands
<1>3. CASE ZeroOnActivate = {}
  <2>1. UNCHANGED <<motor, unreached, socket>> /\ call' = "idle" /\ lifecycle' = "active"
        /\ stopped' = FALSE /\ active' = TRUE
    BY <1>3 DEF StartZeroing, StoppedOnActivate
  <2>2. QED
    BY <1>1, <1>2, <2>1
    DEF Inductive, StopNotSkipped, StoppedUnlessActive, UnclaimedIsReleased,
        NoLeftoverCommand, Off
<1>4. CASE ZeroOnActivate # {} /\ bus
  <2>1. /\ Release(ZeroOnActivate) /\ UNCHANGED <<active, socket>> /\ call' = "zero"
        /\ stopped' = FALSE
    BY <1>4 DEF StartZeroing, StoppedOnActivate
  <2>2. \A j \in Joint : Off(j)' /\ motor'[j] # "stale"
    BY <1>1, <2>1, ReleaseTurnsOff, ConstantsAssumption
  <2>3. QED
    BY <1>1, <1>2, <2>1, <2>2
    DEF Inductive, StopNotSkipped, StoppedUnlessActive, UnclaimedIsReleased,
        NoLeftoverCommand, Off
<1>5. CASE ZeroOnActivate # {} /\ ~bus
  <2>1. StopMotors("failed") /\ UNCHANGED <<active, unreached>>
    BY <1>5 DEF StartZeroing
  <2>2. active' = FALSE /\ UNCHANGED unreached /\ call # "stop"
    BY <1>1, <2>1 DEF TypeOK
  <2>3. QED
    BY <2>1, <2>2, StopKeepsInductive
<1>6. QED
  BY <1>3, <1>4, <1>5

\* The invariant depends on neither the timers nor the status of the joints.
LEMMA SameInductive ==
  ASSUME Inductive,
         UNCHANGED <<lifecycle, socket, active, stopped, releasing, call, claimed, cmd, motor,
                     unreached>>
  PROVE  Inductive'
  BY DEF Inductive, StopNotSkipped, StoppedUnlessActive, UnclaimedIsReleased,
         NoLeftoverCommand

\* A poll of wait_for_status keeps the inductive invariant.
LEMMA WaitPollInductive == TypeOK /\ Inductive /\ WaitPoll => Inductive'
<1> SUFFICES ASSUME TypeOK, Inductive, WaitPoll PROVE Inductive'
  OBVIOUS
<1>1. call = "wait" /\ ~active
  BY DEF WaitPoll, Inductive
<1>2. CASE UNCHANGED <<lifecycle, socket, active, stopped, releasing, over, flow, claimed,
                       cmd, motor, unreached>>
  BY <1>2, SameInductive
<1>3. CASE StartZeroing
  BY <1>1, <1>3, StartZeroingInductive
<1>4. CASE /\ StopUnlessStopped("failed")
           /\ UNCHANGED <<active, over, pending, cmd, unreached>>
  <2>1. active' = FALSE /\ UNCHANGED unreached /\ call # "stop"
    BY <1>1, <1>4 DEF TypeOK
  <2>2. QED
    BY <1>4, <2>1, StopKeepsInductive
<1>5. QED
  BY <1>2, <1>3, <1>4 DEF WaitPoll

\* A poll of zero_joints keeps the inductive invariant.
LEMMA ZeroPollInductive == TypeOK /\ Inductive /\ ZeroPoll => Inductive'
<1> SUFFICES ASSUME TypeOK, Inductive, ZeroPoll PROVE Inductive'
  OBVIOUS
<1>1. call = "zero" /\ ~active /\ UNCHANGED <<cmd, unreached>>
  BY DEF ZeroPoll, Inductive
<1>2. CASE pending' = {}
  <2>1. active' = TRUE /\ lifecycle' = "active" /\ call' = "idle"
        /\ UNCHANGED <<socket, stopped, releasing, claimed, motor>>
    BY <1>2 DEF ZeroPoll
  <2>2. QED
    BY <1>1, <2>1 DEF Inductive, StopNotSkipped, StoppedUnlessActive, UnclaimedIsReleased,
                      NoLeftoverCommand
<1>3. CASE pending' # {} /\ left > 0
  BY <1>1, <1>3, SameInductive DEF ZeroPoll
<1>4. CASE pending' # {} /\ left = 0
  <2>1. StopMotors("failed") /\ active' = FALSE /\ UNCHANGED unreached /\ call # "stop"
    BY <1>1, <1>4 DEF ZeroPoll, TypeOK
  <2>2. QED
    BY <2>1, StopKeepsInductive
<1>5. QED
  BY <1>2, <1>3, <1>4 DEF ZeroPoll, TypeOK

\* The end of a blocking stop leaves every motor released or accounted for.
LEMMA EndStopInductive == TypeOK /\ Inductive /\ EndStop => Inductive'
<1> SUFFICES ASSUME TypeOK, Inductive, EndStop PROVE Inductive'
  OBVIOUS
<1>1. ~active /\ ~active' /\ call' = "idle" /\ UNCHANGED cmd
  BY DEF EndStop, Inductive, Settle
<1>2. lifecycle' \in Live => socket'
  BY DEF EndStop, Inductive, Settle, Ends
<1>3. \A j \in Joint : Off(j)' /\ motor'[j] # "stale"
  BY ReleaseTurnsOff DEF EndStop, Inductive, NoLeftoverCommand
<1>4. QED
  BY <1>1, <1>2, <1>3 DEF Inductive, StopNotSkipped, StoppedUnlessActive, UnclaimedIsReleased,
                    NoLeftoverCommand, Off

\* A joint that loses its controller is marked for release before anyone can look.
LEMMA ModeSwitchInductive ==
  ASSUME TypeOK, Inductive, NEW drop \in SUBSET Joint, NEW take \in SUBSET Joint,
         ModeSwitch(drop, take)
  PROVE  Inductive'
<1>1. UNCHANGED <<lifecycle, socket, active, stopped, call, motor, unreached>>
  BY DEF ModeSwitch
<1>2. \A j \in Joint : cmd'[j] \in {"nan", cmd[j]}
  BY DEF ModeSwitch, TypeOK
<1>3. UnclaimedIsReleased'
  <2> SUFFICES ASSUME active, NEW j \in Joint \ claimed'
               PROVE  Off(j) \/ j \in releasing'
    BY <1>1 DEF UnclaimedIsReleased, Off
  <2>1. CASE j \in drop
    BY <2>1 DEF ModeSwitch, LetGo
  <2>2. CASE j \notin drop
    BY <2>2 DEF ModeSwitch, Inductive, UnclaimedIsReleased, Off
  <2>3. QED
    BY <2>1, <2>2
<1>4. QED
  BY <1>1, <1>2, <1>3 DEF Inductive, StopNotSkipped, StoppedUnlessActive, NoLeftoverCommand

\* read either stops the motors or changes nothing the invariant speaks of.
LEMMA ReadInductive ==
  ASSUME TypeOK, Inductive, NEW recvError \in BOOLEAN, NEW upstreamError \in BOOLEAN,
         Read(recvError, upstreamError)
  PROVE  Inductive'
<1>1. CASE /\ active' = FALSE
           /\ StopMotors("error") \/ StopUnlessStopped("error")
  <2>1. UNCHANGED unreached /\ call # "stop"
    BY DEF Read
  <2>2. QED
    BY <1>1, <2>1, StopKeepsInductive
<1>2. CASE UNCHANGED <<lifecycle, socket, active, stopped, releasing, call, left,
                       after, claimed, cmd, motor>>
  BY <1>2, SameInductive DEF Read
<1>3. QED
  BY <1>1, <1>2 DEF Read

\* write drives claimed joints only, and forgets a release only when it sends it.
LEMMA WriteInductive ==
  ASSUME TypeOK, Inductive, NEW upstreamError \in BOOLEAN, Write(upstreamError)
  PROVE  Inductive'
<1>1. CASE WritesFrames /\ ~upstreamError
  <2>1. active /\ UNCHANGED <<lifecycle, socket, active, stopped, call, claimed, cmd>>
    BY <1>1 DEF Write, WritesFrames
  <2>2. NoLeftoverCommand'
    BY <1>1, <2>1 DEF Write, Inductive, NoLeftoverCommand, TypeOK
  <2>3. UnclaimedIsReleased'
    <3> SUFFICES ASSUME NEW j \in Joint \ claimed
                 PROVE  Off(j)' \/ j \in releasing'
      BY <2>1 DEF UnclaimedIsReleased, Off
    <3>1. Off(j) \/ j \in releasing
      BY <2>1 DEF Inductive, UnclaimedIsReleased, Off
    <3>2. j \notin Commanded
      BY DEF Commanded
    <3>3. CASE j \in Due
      BY <1>1, <3>2, <3>3 DEF Write, Off, Due, TypeOK
    <3>4. CASE j \notin Due /\ j \in releasing
      BY <1>1, <3>4 DEF Write
    <3>5. CASE j \notin releasing
      BY <1>1, <3>1, <3>2, <3>5 DEF Write, Off, Due, TypeOK
    <3>6. QED
      BY <3>3, <3>4, <3>5
  <2>4. QED
    BY <2>1, <2>2, <2>3 DEF Inductive, StopNotSkipped, StoppedUnlessActive
<1>2. CASE WritesFrames /\ upstreamError
  <2>1. active' = FALSE /\ StopUnlessStopped("error") /\ UNCHANGED unreached /\ call # "stop"
    BY <1>2 DEF Write
  <2>2. QED
    BY <2>1, StopKeepsInductive
<1>3. CASE ~WritesFrames
  BY <1>3, SameInductive DEF Write
<1>4. QED
  BY <1>1, <1>2, <1>3

\* on_cleanup, on_shutdown and the destructor keep the inductive invariant.
LEMMA TearDownInductive ==
  ASSUME TypeOK, Inductive, NEW from, NEW next \in Outcome \ {"deactivated"},
         TearDown(from, next)
  PROVE  Inductive'
<1>1. StopUnlessStopped(next) /\ active' = FALSE /\ UNCHANGED unreached /\ call # "stop"
  BY DEF TearDown
<1>2. QED
  BY <1>1, StopKeepsInductive

\* on_deactivate keeps the inductive invariant.
LEMMA DeactivateInductive == TypeOK /\ Inductive /\ Deactivate => Inductive'
<1> SUFFICES ASSUME TypeOK, Inductive, Deactivate PROVE Inductive'
  OBVIOUS
<1>1. /\ StopMotors("deactivated") /\ active' = FALSE /\ UNCHANGED unreached /\ call # "stop"
      /\ lifecycle \in Live
  BY DEF Deactivate
<1>2. QED
  BY <1>1, StopKeepsInductive

\* Motors, cables, bus and controllers keep the inductive invariant.
LEMMA EnvironmentInductive == TypeOK /\ Inductive /\ Environment => Inductive'
<1> SUFFICES ASSUME TypeOK, Inductive, Environment PROVE Inductive'
  OBVIOUS
<1> USE DEF Inductive, StopNotSkipped, StoppedUnlessActive, UnclaimedIsReleased,
            NoLeftoverCommand
<1>1. ASSUME NEW j \in Joint, Command(j) PROVE Inductive'
  BY <1>1 DEF TypeOK, Command
<1>2. ASSUME NEW j \in Joint, LinkDown(j) \/ LinkUp(j) PROVE Inductive'
  BY <1>2 DEF TypeOK, LinkDown, LinkUp
<1>3. ASSUME NEW j \in Joint, NEW faulty \in BOOLEAN, NEW effort \in BOOLEAN,
             Status(j, faulty, effort)
      PROVE Inductive'
  BY <1>3 DEF Status
<1>4. CASE BusToggle \/ Pause
  BY <1>4 DEF BusToggle, Pause
<1>5. QED
  BY <1>1, <1>2, <1>3, <1>4 DEF Environment

\* The passage of time, and with it a blocking stop, keeps the inductive invariant.
LEMMA TickInductive == TypeOK /\ Inductive /\ Tick => Inductive'
<1> SUFFICES ASSUME TypeOK, Inductive, Tick PROVE Inductive'
  OBVIOUS
<1>1. CASE call = "stop"
  BY <1>1 DEF Tick, Inductive, StopNotSkipped, StoppedUnlessActive, UnclaimedIsReleased,
              NoLeftoverCommand, Deliver, TypeOK
<1>2. CASE call # "stop"
  BY <1>2, SameInductive DEF Tick
<1>3. QED
  BY <1>1, <1>2

\* Every step keeps the inductive invariant.
THEOREM InductiveCorrect == Spec => []Inductive
<1>1. TypeOK /\ Inductive /\ [Next]_vars => Inductive'
  <2> SUFFICES ASSUME TypeOK, Inductive, [Next]_vars PROVE Inductive'
    OBVIOUS
  <2>1. CASE UNCHANGED vars
    BY <2>1, SameInductive DEF vars
  <2>2. CASE Callback
    <3>1. CASE Configure
      BY <3>1 DEF Configure, Inductive, StopNotSkipped, StoppedUnlessActive,
                  UnclaimedIsReleased, NoLeftoverCommand
    <3>2. CASE Resume
      BY <3>2 DEF Resume, Inductive, StopNotSkipped, StoppedUnlessActive,
                  UnclaimedIsReleased, NoLeftoverCommand
    <3>3. QED
      BY <2>2, <3>1, <3>2, ActivateInductive, WaitPollInductive, ZeroPollInductive,
         EndStopInductive DEF Callback
  <2>3. CASE LoopStep
    BY <2>3, ReadInductive, WriteInductive DEF LoopStep
  <2>4. CASE Manager
    BY <2>4, DeactivateInductive, TearDownInductive, ModeSwitchInductive
    DEF Manager, Cleanup, Shutdown, Destroy
  <2>5. CASE Environment
    BY <2>5, EnvironmentInductive
  <2>6. CASE Tick
    BY <2>6, TickInductive
  <2>7. QED
    BY <2>1, <2>2, <2>3, <2>4, <2>5, <2>6 DEF Next
<1>2. QED
  BY InitInductive, TypeCorrect, <1>1, PTL DEF Spec

-----------------------------------------------------------------------------
(* What follows from the inductive invariant. *)

\* A component that is not active drives no motor its release could reach.
THEOREM StopsWhenInactive == Spec => []StoppedUnlessActive
  BY InductiveCorrect, PTL DEF Inductive

\* A joint no controller holds is being released, or is released, while active.
THEOREM ReleasesUnclaimed == Spec => []UnclaimedIsReleased
  BY InductiveCorrect, PTL DEF Inductive

\* No stop is skipped while the component is active.
THEOREM NeverSkipsStop == Spec => []StopNotSkipped
  BY InductiveCorrect, PTL DEF Inductive

\* No motor ever obeys a command left over from before a deactivation or an error.
THEOREM DropsLeftovers == Spec => []NoLeftoverCommand
  BY InductiveCorrect, PTL DEF Inductive

\* Only write starts to drive a motor, and only while active, so not while latched.
LEMMA DriveNeedsActive ==
  ASSUME TypeOK, Inductive, [Next]_vars, NEW j \in Joint,
         motor'[j] \notin {"off", "zero", motor[j]}
  PROVE  active /\ active' /\ ~stopped
<1>1. ASSUME NEW S, NEW m, motor' = Deliver(S, m), m \in {"off", "zero"} PROVE FALSE
  BY <1>1 DEF Deliver, TypeOK
<1>2. ~UNCHANGED motor
  OBVIOUS
<1>3. ASSUME NEW next, StopMotors(next) \/ StopUnlessStopped(next) PROVE FALSE
  BY <1>1, <1>2, <1>3 DEF StopMotors, StopUnlessStopped
<1>4. ASSUME NEW S, Release(S) PROVE FALSE
  BY <1>1, <1>4 DEF Release
<1>5. ~Callback
  BY <1>2, <1>3, <1>4 DEF Callback, Configure, Activate, WaitPoll, StartZeroing, ZeroPoll,
                          EndStop, Resume
<1>6. ~Manager
  BY <1>2, <1>3 DEF Manager, Deactivate, Cleanup, Shutdown, Destroy, TearDown, ModeSwitch
<1>7. ~Environment
  BY <1>2 DEF Environment, Command, LinkDown, LinkUp, Status, BusToggle, Pause, TypeOK
<1>8. ~Tick
  BY <1>1, <1>2 DEF Tick
<1>9. ASSUME NEW recvError \in BOOLEAN, NEW upstreamError \in BOOLEAN,
             Read(recvError, upstreamError)
      PROVE FALSE
  BY <1>2, <1>3, <1>9 DEF Read
<1>10. ASSUME NEW upstreamError \in BOOLEAN, Write(upstreamError)
       PROVE active /\ active'
  BY <1>2, <1>3, <1>10 DEF Write, WritesFrames
<1>11. ~UNCHANGED vars
  BY <1>2 DEF vars
<1>12. QED
  BY <1>5, <1>6, <1>7, <1>8, <1>9, <1>10, <1>11 DEF Next, LoopStep, Inductive, StopNotSkipped

\* The stop is latched: after it no motor starts to be driven before an activation.
THEOREM Latched == Spec => StopIsLatched
<1>1. TypeOK /\ Inductive /\ [Next]_vars =>
        [stopped /\ stopped' =>
           \A j \in Joint : motor'[j] = "drive" => motor[j] = "drive"]_vars
  BY DriveNeedsActive
<1>2. QED
  BY <1>1, TypeCorrect, InductiveCorrect, PTL DEF Spec, StopIsLatched
-----------------------------------------------------------------------------
(* The refinement of MotorPromise. *)

\* A motor that starts to run does so under a component that is on: active, or stopping
\* its motors.
LEMMA RunNeedsOn ==
  ASSUME TypeOK, Inductive, [Next]_vars, NEW j \in Joint, motor'[j] \notin {"off", motor[j]}
  PROVE  active \/ call = "stop" \/ call' = "stop"
<1> SUFFICES ASSUME ~active, call # "stop", call' # "stop" PROVE FALSE
  OBVIOUS
<1>1. ~UNCHANGED motor /\ ~UNCHANGED vars
  BY DEF vars
<1>2. ASSUME NEW next, StopMotors(next) \/ StopUnlessStopped(next) PROVE FALSE
  BY <1>1, <1>2 DEF StopMotors, StopUnlessStopped
<1>3. ASSUME NEW S, Release(S) PROVE FALSE
  BY <1>3 DEF Release, Deliver, TypeOK
<1>4. ~Callback
  BY <1>1, <1>2, <1>3 DEF Callback, Configure, Activate, WaitPoll, StartZeroing, ZeroPoll,
                          EndStop, Resume
<1>5. ~Manager
  BY <1>1, <1>2 DEF Manager, Deactivate, Cleanup, Shutdown, Destroy, TearDown, ModeSwitch
<1>6. ~Environment
  BY <1>1 DEF Environment, Command, LinkDown, LinkUp, Status, BusToggle, Pause, TypeOK
<1>7. ~Tick
  BY <1>1 DEF Tick
<1>8. ~LoopStep
  BY <1>1, <1>2 DEF LoopStep, Read, Write, WritesFrames
<1>9. QED
  BY <1>1, <1>4, <1>5, <1>6, <1>7, <1>8 DEF Next

\* The initial state of a component is one of a component that is off.
LEMMA InitPromise == Init => Promise!Init
  BY DEF Init, Promise!Init

\* Every step of a component turns it on or off, runs it, or leaves it at rest.
LEMMA StepPromise ==
  ASSUME TypeOK, TypeOK', Inductive, Inductive', [Next]_vars
  PROVE  [Promise!Next]_Promise!vars
<1> DEFINE on == active \/ call = "stop"
<1> DEFINE driven == {j \in Joint : motor[j] # "off"}
<1>1. on \in BOOLEAN /\ on' \in BOOLEAN
  BY DEF TypeOK
<1>2. driven' \subseteq Joint /\ unreached' \subseteq Joint
  BY DEF TypeOK
<1>3. ~on' => driven' \subseteq unreached'
  BY DEF Inductive, StoppedUnlessActive
<1>4. ~on /\ ~on' => driven' \subseteq driven
  BY RunNeedsOn DEF TypeOK
<1>5. CASE on'
  BY <1>1, <1>2, <1>5 DEF Promise!Next, Promise!TurnOn, Promise!Run
<1>6. CASE on /\ ~on'
  BY <1>1, <1>2, <1>3, <1>6 DEF Promise!Next, Promise!TurnOff
<1>7. CASE ~on /\ ~on'
  BY <1>1, <1>3, <1>4, <1>7 DEF Promise!Next, Promise!Rest
<1>8. QED
  BY <1>5, <1>6, <1>7

\* The component implements its promise: whatever its callbacks, its loop and its timers
\* do, motors run only while it is on, and turning off leaves running only those that
\* missed their release.
THEOREM Implements == Spec => KeepsPromise
  BY InitPromise, StepPromise, TypeCorrect, InductiveCorrect, PTL
  DEF Spec, KeepsPromise, Promise!Spec

-----------------------------------------------------------------------------
(* The watchdog: how old a frame may be that is heard too late. *)

\* The ticks the socket may have gone undrained so far, while read is called: the one between
\* two cycles, those of this component's own stop, and those of the other one's.
OwnStop == IF call = "stop" THEN BrakeTime - left ELSE IF active THEN 0 ELSE BrakeTime
OtherStop ==
  IF OtherReads = "never" THEN 0
  ELSE IF call = "pause" THEN BrakeTime - left
  ELSE IF OtherReads = "before" THEN IF cycle = "read" /\ paused THEN BrakeTime ELSE 0
  ELSE IF cycle = "read" \/ paused THEN BrakeTime ELSE 0
Undrained == (IF cycle = "read" THEN 1 ELSE 0) + OwnStop + OtherStop

\* The calls that keep the loop from draining, each no longer than a brake.
Blocked ==
  /\ call \in {"stop", "pause"} => left <= BrakeTime
  /\ call = "pause" => /\ paused
                       /\ \/ OtherReads = "before" /\ cycle = "read"
                          \/ OtherReads = "after" /\ cycle = "write"
  /\ call \in {"wait", "zero"} => lifecycle = "inactive"
  /\ lifecycle = "active" => active \/ call = "stop"
  /\ call = "stop" /\ after = "deactivated" => lifecycle = "active"

\* The states read is called in, and the stop that leads back to one.
Reads == lifecycle \in Live /\ (call = "stop" => after = "deactivated")

\* A frame waits no longer than the socket went undrained, and a status that is not too old
\* hides a silence of no more than that.
HeardLate ==
  /\ Reads => \A j \in queued : silent[j] <= Undrained
  /\ \A j \in Joint : age[j] <= StatusTimeout => silent[j] <= age[j] + 1 + Blind

\* How long the socket can go undrained.
LEMMA UndrainedBound ==
  ASSUME TypeOK, Blocked
  PROVE  OwnStop \in 0..BrakeTime /\ Undrained \in Nat /\ Undrained <= 1 + Blind
  BY ConstantsAssumption
  DEF TypeOK, Blocked, OwnStop, OtherStop, Undrained, Blind, LongestCall

\* A stop that does not come from on_deactivate ends where nothing is drained any more.
LEMMA StopEndsReads ==
  ASSUME TypeOK, Blocked, NEW next \in Outcome \ {"deactivated"},
         StopMotors(next) \/ StopUnlessStopped(next)
  PROVE  Blocked' /\ ~Reads'
<1>1. CASE Settle(next)
  BY <1>1 DEF Settle, Ends, Blocked, Reads
<1>2. CASE socket /\ StopMotors(next)
  BY <1>2, ConstantsAssumption DEF StopMotors, Blocked, Reads
<1>3. QED
  BY <1>1, <1>2 DEF StopMotors, StopUnlessStopped

\* Draining leaves no frame behind, and dates what it hears by how long it had to wait.
LEMMA DrainHears ==
  ASSUME TypeOK, Blocked, HeardLate, Reads, socket, Drain, UNCHANGED silent
  PROVE  /\ queued' = {}
         /\ \A j \in Joint : age'[j] <= StatusTimeout => silent'[j] <= age'[j] + 1 + Blind
<1>1. queued' = {}
  BY DEF Drain, Heard
<1>2. ASSUME NEW j \in Joint, age'[j] <= StatusTimeout
      PROVE  silent[j] <= age'[j] + 1 + Blind
  <2>1. CASE j \in queued
    <3>1. silent[j] <= Undrained /\ age'[j] = 0
      BY <2>1 DEF HeardLate, Reads, Drain, Heard
    <3>2. QED
      BY <3>1, UndrainedBound, Ranges, ConstantsAssumption DEF TypeOK, Blind
  <2>2. CASE j \notin queued
    BY <1>2, <2>2 DEF HeardLate, Drain, Heard
  <2>3. QED
    BY <2>1, <2>2
<1>3. QED
  BY <1>1, <1>2

\* What no longer reads, and drains or leaves what it has heard, keeps the invariant.
LEMMA DrainKeepsHeardLate ==
  ASSUME TypeOK, Blocked, HeardLate, Reads, socket, Drain, UNCHANGED silent
  PROVE  HeardLate'
  BY DrainHears DEF HeardLate

\* on_activate, its wait and its zeroing keep the age of what they hear.
LEMMA ActivationHeardLate ==
  ASSUME TypeOK, Inductive, Blocked, HeardLate, Activate \/ WaitPoll \/ ZeroPoll
  PROVE  Blocked' /\ HeardLate'
<1>1. CASE Activate
  <2>1. UNCHANGED <<active, age, queued, silent, cycle, paused>> /\ ~active /\ Idle
        /\ lifecycle = "inactive"
    BY <1>1 DEF Activate, Inductive
  <2>2. CASE StopUnlessStopped("failed")
    BY <2>1, <2>2, StopEndsReads DEF HeardLate
  <2>3. CASE call' = "wait" /\ UNCHANGED <<lifecycle, socket, after>>
    BY <2>1, <2>3 DEF Blocked, HeardLate, Reads, Undrained, OwnStop, OtherStop
  <2>4. QED
    BY <1>1, <2>2, <2>3 DEF Activate
<1>2. CASE WaitPoll \/ ZeroPoll
  <2>1. /\ Drain /\ UNCHANGED <<silent, cycle, paused>> /\ socket /\ ~active
        /\ call \in {"wait", "zero"}
    BY <1>2 DEF WaitPoll, ZeroPoll, Inductive
  <2>2. lifecycle = "inactive" /\ Reads
    BY <2>1 DEF Blocked, Reads
  <2>3. HeardLate'
    BY <2>1, <2>2, DrainKeepsHeardLate
  <2>4. CASE UNCHANGED <<lifecycle, active, call, left, after>>
    BY <2>1, <2>2, <2>3, <2>4 DEF Blocked
  <2>5. CASE lifecycle' = "active" /\ active' /\ call' = "idle"
    BY <2>3, <2>5 DEF Blocked
  <2>6. CASE StopMotors("failed") \/ StopUnlessStopped("failed")
    BY <2>3, <2>6, StopEndsReads
  <2>7. CASE call' = "zero" /\ UNCHANGED <<lifecycle, active>>
    BY <2>1, <2>2, <2>3, <2>7 DEF Blocked
  <2>8. QED
    BY <1>2, <2>4, <2>5, <2>6, <2>7 DEF WaitPoll, StartZeroing, ZeroPoll
<1>3. QED
  BY <1>1, <1>2

\* A deactivation starts its stop with the socket just as drained as it was.
LEMMA DeactivateHeardLate ==
  ASSUME TypeOK, Inductive, Blocked, HeardLate, Deactivate
  PROVE  Blocked' /\ HeardLate'
<1>1. /\ active /\ socket /\ Idle /\ lifecycle = "active"
      /\ UNCHANGED <<age, queued, silent, cycle, paused>>
  BY DEF Deactivate, Blocked, Inductive
<1>2. /\ call' = "stop" /\ left' = BrakeTime /\ after' = "deactivated" /\ lifecycle' = "active"
  BY <1>1 DEF Deactivate, StopMotors
<1>3. OwnStop = 0 /\ OwnStop' = 0 /\ OtherStop' = OtherStop
  BY <1>1, <1>2, ConstantsAssumption DEF OwnStop, OtherStop
<1>4. QED
  BY <1>1, <1>2, <1>3, ConstantsAssumption DEF Blocked, HeardLate, Reads, Undrained

\* The end of a stop leaves the socket as undrained as the brake was long.
LEMMA EndStopHeardLate ==
  ASSUME TypeOK, Inductive, Blocked, HeardLate, EndStop
  PROVE  Blocked' /\ HeardLate'
<1>1. /\ call = "stop" /\ left = 0 /\ call' = "idle" /\ ~active /\ ~active'
      /\ UNCHANGED <<age, queued, silent, cycle, paused>> /\ Settle(after)
  BY DEF EndStop, Settle, Inductive
<1>2. Blocked'
  BY <1>1 DEF Blocked, Settle, Ends
<1>3. after = "deactivated" => lifecycle = "active"
  BY <1>1 DEF Blocked
<1>4. Reads' => Reads
  BY <1>1, <1>3 DEF Reads, Settle, Ends
<1>5. OwnStop = BrakeTime /\ OwnStop' = BrakeTime /\ OtherStop' = OtherStop
  BY <1>1, ConstantsAssumption DEF OwnStop, OtherStop
<1>6. QED
  BY <1>1, <1>2, <1>4, <1>5 DEF HeardLate, Undrained

\* on_cleanup, on_shutdown and the destructor end the reads.
LEMMA TearDownHeardLate ==
  ASSUME TypeOK, Blocked, HeardLate, NEW from, NEW next \in Outcome \ {"deactivated"},
         TearDown(from, next)
  PROVE  Blocked' /\ HeardLate'
  BY StopEndsReads DEF TearDown, HeardLate

\* read hears everything, and goes on only while no frame it relies on is too old.
LEMMA ReadHeardLate ==
  ASSUME TypeOK, Inductive, Blocked, HeardLate, NEW recvError \in BOOLEAN,
         NEW upstreamError \in BOOLEAN, Read(recvError, upstreamError)
  PROVE  Blocked' /\ HeardLate'
<1>1. Drain /\ UNCHANGED silent /\ socket /\ Reads /\ Idle
  BY DEF Read, Inductive, Reads
<1>2. HeardLate'
  BY <1>1, DrainKeepsHeardLate
<1>3. CASE StopMotors("error") \/ StopUnlessStopped("error")
  BY <1>2, <1>3, StopEndsReads
<1>4. CASE UNCHANGED <<lifecycle, active, call, left, after>>
  BY <1>1, <1>2, <1>4 DEF Blocked
<1>5. QED
  BY <1>3, <1>4 DEF Read

\* write hears nothing.
LEMMA WriteHeardLate ==
  ASSUME TypeOK, Inductive, Blocked, HeardLate, NEW upstreamError \in BOOLEAN,
         Write(upstreamError)
  PROVE  Blocked' /\ HeardLate'
<1>1. Idle /\ cycle = "write" /\ UNCHANGED <<age, queued, silent, paused>>
  BY DEF Write
<1>2. CASE StopUnlessStopped("error")
  BY <1>1, <1>2, StopEndsReads DEF HeardLate
<1>3. CASE cycle' = "done" /\ UNCHANGED <<lifecycle, active, call, after>>
  <2>1. Undrained' = Undrained
    BY <1>1, <1>3 DEF Undrained, OwnStop, OtherStop
  <2>2. QED
    BY <1>1, <1>3, <2>1 DEF Blocked, HeardLate, Reads
<1>4. QED
  BY <1>2, <1>3 DEF Write

\* A frame that arrives is fresh; the other component's stop starts or ends; the rest of
\* the environment leaves the socket alone.
LEMMA EnvironmentHeardLate ==
  ASSUME TypeOK, Inductive, Blocked, HeardLate, Environment
  PROVE  Blocked' /\ HeardLate'
<1>1. ASSUME NEW j \in Joint, NEW faulty \in BOOLEAN, NEW effort \in BOOLEAN,
             Status(j, faulty, effort)
      PROVE  Blocked' /\ HeardLate'
  <2>1. /\ silent' = [silent EXCEPT ![j] = 0] /\ queued' \in {queued, queued \cup {j}}
        /\ UNCHANGED <<lifecycle, active, call, left, after, cycle, paused, age>>
    BY <1>1 DEF Status
  <2>2. Blocked' /\ Undrained' = Undrained /\ (Reads' <=> Reads)
    BY <2>1 DEF Blocked, Undrained, OwnStop, OtherStop, Reads
  <2>3. Undrained \in Nat /\ 1 + Blind \in Nat
    BY UndrainedBound, ConstantsAssumption DEF Blind
  <2>4. \A k \in Joint : silent'[k] = IF k = j THEN 0 ELSE silent[k]
    BY <2>1 DEF TypeOK
  <2>5. Reads' => \A k \in queued' : silent'[k] <= Undrained'
    BY <2>1, <2>2, <2>3, <2>4 DEF HeardLate, TypeOK
  <2>6. \A k \in Joint : age'[k] <= StatusTimeout => silent'[k] <= age'[k] + 1 + Blind
    <3>1. Blind \in Nat /\ \A k \in Joint : age[k] \in Nat
      BY Ranges, ConstantsAssumption DEF TypeOK, Blind
    <3>2. QED
      BY <2>1, <2>4, <3>1 DEF HeardLate
  <2>7. QED
    BY <2>2, <2>5, <2>6 DEF HeardLate
<1>2. CASE Pause
  <2>1. /\ Idle /\ ~paused /\ paused' /\ call' = "pause" /\ left' = BrakeTime
        /\ UNCHANGED <<lifecycle, active, after, cycle, age, silent, queued>>
        /\ \/ OtherReads = "before" /\ cycle = "read"
           \/ OtherReads = "after" /\ cycle = "write"
    BY <1>2 DEF Pause
  <2>2. OwnStop' = OwnStop /\ OtherStop = 0 /\ OtherStop' = 0
    BY <2>1, ConstantsAssumption DEF OwnStop, OtherStop
  <2>3. QED
    BY <2>1, <2>2, ConstantsAssumption DEF Blocked, HeardLate, Reads, Undrained
<1>3. ASSUME UNCHANGED <<lifecycle, active, call, left, after, cycle, paused, age, silent, queued>>
      PROVE  Blocked' /\ HeardLate'
  BY <1>3 DEF Blocked, HeardLate, Reads, Undrained, OwnStop, OtherStop
<1>4. QED
  BY <1>1, <1>2, <1>3 DEF Environment, Command, LinkDown, LinkUp, BusToggle

\* A tick in which something stays undrained counts; the other ones find nothing to hear.
LEMMA TickHeardLate ==
  ASSUME TypeOK, Inductive, Blocked, HeardLate, Tick
  PROVE  Blocked' /\ HeardLate'
<1>1. UNCHANGED <<lifecycle, socket, active, call, after, queued>>
  BY DEF Tick
<1>2. left \in Nat /\ left' = (IF left = 0 THEN 0 ELSE left - 1)
  BY Ranges DEF Tick, TypeOK
<1>3. Blocked'
  BY <1>1, <1>2, ConstantsAssumption DEF Blocked, Tick
<1>4. \A j \in Joint : silent[j] \in Nat /\ silent'[j] <= silent[j] + 1
  BY Ranges DEF Tick, TypeOK, Least
<1>5. ASSUME NEW j \in Joint, age'[j] <= StatusTimeout
      PROVE  silent'[j] <= age'[j] + 1 + Blind
  <2>1. age[j] \in Nat /\ age'[j] = age[j] + 1
    BY <1>5, Ranges, ConstantsAssumption DEF Tick, TypeOK, Least
  <2>2. silent[j] <= age[j] + 1 + Blind
    BY <1>5, <2>1, ConstantsAssumption DEF HeardLate
  <2>3. silent'[j] \in Nat /\ Blind \in Nat
    BY TickType, Ranges, ConstantsAssumption DEF TypeOK, Blind
  <2>4. QED
    BY <1>4, <2>1, <2>2, <2>3
<1>6. ASSUME Reads, NEW j \in queued
      PROVE  silent'[j] <= Undrained'
  <2>1. call \notin {"wait", "zero"}
    BY <1>6 DEF Tick, Heard, Inductive, Reads
  <2>2. Undrained' \in Nat /\ Undrained' >= Undrained + 1
    <3>1. CASE call = "stop"
      BY <1>1, <1>2, <3>1, ConstantsAssumption
      DEF Tick, Blocked, Undrained, OwnStop, OtherStop
    <3>2. CASE call = "pause"
      BY <1>1, <1>2, <3>2, ConstantsAssumption
      DEF Tick, Blocked, Undrained, OwnStop, OtherStop
    <3>3. CASE Idle
      BY <1>1, <1>6, <3>3, ConstantsAssumption
      DEF Tick, Reads, Undrained, OwnStop, OtherStop
    <3>4. QED
      BY <2>1, <3>1, <3>2, <3>3 DEF TypeOK
  <2>3. Undrained \in Nat
    BY UndrainedBound
  <2>4. silent[j] <= Undrained /\ j \in Joint
    BY <1>6 DEF HeardLate, TypeOK
  <2>5. silent'[j] \in Nat
    BY <2>4, TickType, Ranges DEF TypeOK
  <2>6. QED
    BY <1>4, <2>2, <2>3, <2>4, <2>5, Ranges
<1>7. QED
  BY <1>1, <1>3, <1>5, <1>6 DEF HeardLate, Reads

\* Every step keeps the socket's delay within what the watchdog may be blind for.
LEMMA HeardLateStep ==
  ASSUME TypeOK, Inductive, Blocked, HeardLate, [Next]_vars
  PROVE  Blocked' /\ HeardLate'
<1>1. ASSUME UNCHANGED <<lifecycle, active, call, left, after, cycle, paused, age, silent, queued>>
      PROVE  Blocked' /\ HeardLate'
  BY <1>1 DEF Blocked, HeardLate, Reads, Undrained, OwnStop, OtherStop
<1>2. CASE UNCHANGED vars
  BY <1>1, <1>2 DEF vars
<1>3. CASE Configure
  <2>1. /\ Idle /\ lifecycle = "unconfigured" /\ queued' = {} /\ UNCHANGED <<age, silent, call>>
        /\ lifecycle' \in {"inactive", "unconfigured"}
    BY <1>3 DEF Configure
  <2>2. QED
    BY <2>1 DEF Blocked, HeardLate
<1>4. CASE Resume
  <2>1. /\ call = "pause" /\ left = 0 /\ call' = "idle" /\ paused' = paused
        /\ UNCHANGED <<lifecycle, active, after, cycle, age, silent, queued>>
    BY <1>4 DEF Resume
  <2>2. OwnStop' = OwnStop /\ OtherStop' = OtherStop
    BY <2>1, ConstantsAssumption DEF Blocked, OwnStop, OtherStop
  <2>3. QED
    BY <2>1, <2>2 DEF Blocked, HeardLate, Reads, Undrained
<1>5. CASE Callback
  BY <1>3, <1>4, <1>5, ActivationHeardLate, EndStopHeardLate DEF Callback
<1>6. CASE LoopStep
  BY <1>6, ReadHeardLate, WriteHeardLate DEF LoopStep
<1>7. CASE Manager
  BY <1>1, <1>7, DeactivateHeardLate, TearDownHeardLate
  DEF Manager, Cleanup, Shutdown, Destroy, ModeSwitch
<1>8. QED
  BY <1>2, <1>5, <1>6, <1>7, EnvironmentHeardLate, TickHeardLate DEF Next

\* Nothing is queued before the socket exists, and no status has been heard.
LEMMA InitHeardLate == Init => Blocked /\ HeardLate
  BY ConstantsAssumption, Ranges DEF Init, Blocked, HeardLate

\* The watchdog: what read calls recent is no older than the timeout, the cycle and the
\* time the socket went undrained, whoever's stop blocked the loop.
THEOREM WatchdogBounds == Spec => SilenceBound
<1>1. TypeOK /\ Inductive /\ Blocked /\ HeardLate /\ [Next]_vars => Blocked' /\ HeardLate'
  BY HeardLateStep
<1>2. Spec => [](Blocked /\ HeardLate)
  BY InitHeardLate, TypeCorrect, InductiveCorrect, <1>1, PTL DEF Spec
<1>3. ASSUME TypeOK, Inductive, Blocked, HeardLate, [Next]_vars,
             active, active', cycle = "read", cycle' = "write", NEW j \in Joint
      PROVE  silent[j] <= StatusTimeout + 1 + Blind
  <2>1. PICK recvError, upstreamError \in BOOLEAN : Read(recvError, upstreamError)
    BY <1>3 DEF Next, vars, Callback, Configure, Activate, WaitPoll, ZeroPoll, EndStop, Resume,
                LoopStep, Write, Manager, Deactivate, Cleanup, Shutdown, Destroy, TearDown,
                ModeSwitch, Environment, Command, LinkDown, LinkUp, Status, BusToggle, Pause,
                Tick
  <2>2. socket /\ Drain /\ UNCHANGED silent /\ Reads
    BY <1>3, <2>1 DEF Read, Inductive, Reads
  <2>3. Healthy(recvError)
    BY <1>3, <2>1 DEF Read
  <2>4. age'[j] <= StatusTimeout
    BY <1>3, <2>2, <2>3 DEF Healthy
  <2>5. silent'[j] <= age'[j] + 1 + Blind
    BY <1>3, <2>2, <2>4, DrainHears
  <2>6. age'[j] \in Nat /\ silent[j] \in Nat /\ Blind \in Nat /\ silent'[j] = silent[j]
    BY <1>3, <2>2, DrainType, Ranges, ConstantsAssumption DEF TypeOK, Blind
  <2>7. QED
    BY <2>4, <2>5, <2>6, ConstantsAssumption
<1>4. TypeOK /\ Inductive /\ Blocked /\ HeardLate /\ [Next]_vars =>
        [active /\ active' /\ cycle = "read" /\ cycle' = "write" =>
           \A j \in Joint : silent[j] <= StatusTimeout + 1 + Blind]_vars
  BY <1>3
<1>5. QED
  BY TypeCorrect, InductiveCorrect, <1>2, <1>4, PTL DEF Spec, SilenceBound
=============================================================================
