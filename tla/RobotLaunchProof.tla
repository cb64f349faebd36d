--------------------------- MODULE RobotLaunchProof ---------------------------
(***************************************************************************)
(* Theorems about RobotLaunch for every set of spawners and processes and  *)
(* any number of mishaps: whoever dies first, and whatever happens         *)
(* meanwhile, the motors are left released, and by a launch that reports   *)
(* what went wrong.  Safety needs none of the fairness of LaunchSpec.      *)
(***************************************************************************)
EXTENDS RobotLaunch, TLAPS

-----------------------------------------------------------------------------
(* The inductive invariant. *)

Event == [of : Process, code : {0, 1}]

\* A process is dead once: what launch has yet to handle is one event of each, and nothing
\* of a launch that has not started its processes, or has ended.
OneEventEach ==
  /\ events \in Seq(Event)
  /\ \A i, j \in 1..Len(events) : events[i].of = events[j].of => i = j
NothingRuns ==
  pc \in {"none", "setup", "check"} =>
    events = <<>> /\ \A p \in Process : proc[p] \in {"none", "gone"}

\* An exit that would end the launch was either nobody's wish, or the launch's own.
ExitsBlamed ==
  \A i \in 1..Len(events) :
    events[i].code # 0 /\ events[i].of \notin Respawned \cup Plain => fault \/ Signalled

\* While send_motor_stop waits, the exit of the control node is the event at hand, and the
\* SIGINT that caused it has been handled.
StopsForNode ==
  pc \in {"brake", "release"} =>
    /\ events # <<>> /\ events[1].of = ControlNode
    /\ events[1].code # 0 => fault \/ is_shutdown

\* A motor without power does not turn.
NoPowerNoMotion == ~powered => motor = "free"

\* systemd starts a launch only when the one before, and what it left, are gone.
UnitFollows ==
  IF by = "systemd" THEN unit \in {"off", "kill", "brake", "release", "wait"} => pc = "none"
                    ELSE unit = "off"
StrayIsKilled ==
  by = "systemd" /\ stray => pc = "none" /\ unit \in {"active", "stop", "kill"}

LaunchInductive ==
  /\ OneEventEach /\ NothingRuns /\ ExitsBlamed /\ StopsForNode /\ NoPowerNoMotion
  /\ UnitFollows /\ StrayIsKilled
  /\ LaunchStopsMotors /\ RestsReleased /\ ExpectedExits

-----------------------------------------------------------------------------
(* The event queue. *)

\* What is left of a queue once its first event is handled.
LEMMA TailAt ==
  ASSUME NEW S, NEW s \in Seq(S), s # <<>>
  PROVE  /\ Head(s) = s[1] /\ s[1] \in S /\ Len(s) \in Nat /\ Len(s) > 0
         /\ Tail(s) \in Seq(S) /\ Len(Tail(s)) = Len(s) - 1
         /\ \A i \in 1..Len(Tail(s)) : i + 1 \in 2..Len(s) /\ Tail(s)[i] = s[i + 1]
  OBVIOUS

\* And what it is once one more event is appended.
LEMMA AppendAt ==
  ASSUME NEW S, NEW s \in Seq(S), NEW e \in S
  PROVE  /\ Append(s, e) \in Seq(S) /\ Append(s, e) # <<>>
         /\ \A i \in 1..Len(Append(s, e)) :
              \/ i \in 1..Len(s) /\ Append(s, e)[i] = s[i]
              \/ i = Len(s) + 1 /\ Append(s, e)[i] = e
         /\ s # <<>> => Append(s, e)[1] = s[1]
<1>1. /\ Append(s, e) \in Seq(S) /\ Len(Append(s, e)) = Len(s) + 1 /\ Len(s) \in Nat
      /\ \A i \in 1..Len(s) : Append(s, e)[i] = s[i]
      /\ Append(s, e)[Len(s) + 1] = e
  OBVIOUS
<1>2. s # <<>> => Len(s) >= 1
  OBVIOUS
<1>3. Append(s, e) # <<>>
  BY <1>1
<1>4. ASSUME NEW i \in 1..Len(Append(s, e))
      PROVE  i \in 1..Len(s) \/ i = Len(s) + 1
  BY <1>1
<1>5. QED
  BY <1>1, <1>2, <1>3, <1>4

\* The parts of the invariant about the launch, and those about the motors.
Queue == OneEventEach /\ NothingRuns /\ ExitsBlamed /\ StopsForNode /\ ExpectedExits
Motors == NoPowerNoMotion /\ UnitFollows /\ StrayIsKilled /\ LaunchStopsMotors /\ RestsReleased

LEMMA Split ==
  (LaunchInductive <=> Queue /\ Motors) /\ (LaunchInductive' <=> Queue' /\ Motors')
  BY DEF LaunchInductive, Queue, Motors

\* What the user, systemd and the bus do leaves the launch's own parts as they are.
LEMMA SameQueue ==
  ASSUME LaunchTypeOK, Queue, UNCHANGED <<by, pc, stage, sigint, failed, proc, events, fault>>
  PROVE  Queue'
  BY DEF Queue, OneEventEach, NothingRuns, ExitsBlamed, StopsForNode, ExpectedExits, Signalled,
         is_shutdown

\* A new launch begins with nothing to handle.
LEMMA BeginQueue ==
  ASSUME Begin PROVE Queue'
<1>1. <<>> \in Seq(Event) /\ Len(<<>>) = 0
  OBVIOUS
<1>2. QED
  BY <1>1 DEF Begin, Queue, OneEventEach, NothingRuns, ExitsBlamed, StopsForNode, ExpectedExits

\* A launch that was killed leaves nothing to handle.
LEMMA OrphansQueue ==
  ASSUME Orphans PROVE Queue'
<1>1. <<>> \in Seq(Event) /\ Len(<<>>) = 0
  OBVIOUS
<1>2. QED
  BY <1>1 DEF Orphans, Queue, OneEventEach, NothingRuns, ExitsBlamed, StopsForNode, ExpectedExits

\* A process that exits adds its one event, blamed on whoever caused it.
LEMMA ExitsQueue ==
  ASSUME LaunchTypeOK, Queue, NEW p \in Alive, NEW code \in {0, 1}, Exits(p, code)
  PROVE  /\ Queue'
         /\ proc' \in [Process -> {"none", "run", "serving", "stuck", "latched", "dead", "wait", "gone"}]
         /\ \A i \in DOMAIN events' : proc'[events'[i].of] = "dead" /\ events'[i].code \in {0, 1}
         /\ \A q \in Process : proc'[q] = "wait" => q \in Respawned /\ pc' # "none"
         /\ fault' \in BOOLEAN
<1> DEFINE e == [of |-> p, code |-> code]
<1> USE DEF Exits
<1>1. p \in Process /\ proc[p] \notin {"none", "wait", "dead", "gone"} /\ e \in Event
  BY DEF Alive, Event
<1>2. /\ events' = Append(events, e) /\ events \in Seq(Event)
      /\ \A i \in 1..Len(events) : events[i] \in Event /\ proc[events[i].of] = "dead"
  BY DEF Queue, OneEventEach, LaunchTypeOK
<1>3. \A i \in 1..Len(events) : events[i].of # p /\ events[i].of \in Process
  BY <1>1, <1>2 DEF Event
<1>4. /\ events' \in Seq(Event) /\ events' # <<>>
      /\ \A i \in 1..Len(events') : \/ i \in 1..Len(events) /\ events'[i] = events[i]
                                    \/ i = Len(events) + 1 /\ events'[i] = e
      /\ events # <<>> => events'[1] = events[1]
  BY <1>1, <1>2, AppendAt
<1>5. OneEventEach'
  BY <1>3, <1>4 DEF Queue, OneEventEach
<1>6. NothingRuns' /\ ExpectedExits'
  BY <1>1 DEF Queue, NothingRuns, ExpectedExits, launch
<1>7. ExitsBlamed'
  <2>1. fault => fault'
    OBVIOUS
  <2>2. Signalled' = Signalled
    BY DEF Signalled, is_shutdown, launch
  <2>3. code # 0 /\ p \notin Respawned \cup Plain => fault' \/ Signalled'
    BY <2>2
  <2>4. ASSUME NEW i \in 1..Len(events'), events'[i].code # 0,
               events'[i].of \notin Respawned \cup Plain
        PROVE  fault' \/ Signalled'
    <3>1. CASE i \in 1..Len(events) /\ events'[i] = events[i]
      BY <2>1, <2>2, <2>4, <3>1 DEF Queue, ExitsBlamed
    <3>2. CASE events'[i] = e
      BY <2>3, <2>4, <3>2
    <3>3. QED
      BY <1>4, <3>1, <3>2
  <2>5. QED
    BY <2>4 DEF ExitsBlamed
<1>8. StopsForNode'
  BY <1>4 DEF Queue, StopsForNode, launch, is_shutdown
<1>9. /\ proc' \in [Process -> {"none", "run", "serving", "stuck", "latched", "dead", "wait", "gone"}]
      /\ proc'[p] = "dead" /\ \A q \in Process : q # p => proc'[q] = proc[q]
  BY <1>1 DEF LaunchTypeOK
<1>10. \A i \in DOMAIN events' : proc'[events'[i].of] = "dead" /\ events'[i].code \in {0, 1}
  <2> SUFFICES ASSUME NEW i \in 1..Len(events')
               PROVE  proc'[events'[i].of] = "dead" /\ events'[i].code \in {0, 1}
    BY <1>4
  <2>1. CASE i \in 1..Len(events) /\ events'[i] = events[i]
    BY <1>2, <1>3, <1>9, <2>1 DEF Event
  <2>2. CASE events'[i] = e
    BY <1>9, <2>2
  <2>3. QED
    BY <1>4, <2>1, <2>2
<1>11. \A q \in Process : proc'[q] = "wait" => q \in Respawned /\ pc' # "none"
  BY <1>9 DEF LaunchTypeOK, launch
<1>12. fault' \in BOOLEAN
  BY DEF LaunchTypeOK
<1>13. QED
  BY <1>5, <1>6, <1>7, <1>8, <1>9, <1>10, <1>11, <1>12 DEF Queue

\* Once its first event has been handled, the queue is as sound as it was.
LEMMA HandledQueue ==
  ASSUME LaunchTypeOK, Queue, events # <<>>, events' = Tail(events),
         NEW state \in {"gone", "wait"}, state = "wait" => Head(events).of \in Respawned,
         proc' = [proc EXCEPT ![Head(events).of] = state],
         pc' = "up", UNCHANGED fault, Signalled => Signalled'
  PROVE  /\ OneEventEach' /\ NothingRuns' /\ ExitsBlamed' /\ StopsForNode'
         /\ proc' \in [Process -> {"none", "run", "serving", "stuck", "latched", "dead", "wait", "gone"}]
         /\ \A i \in DOMAIN events' : proc'[events'[i].of] = "dead" /\ events'[i].code \in {0, 1}
         /\ \A q \in Process : proc'[q] = "wait" => q \in Respawned /\ pc' # "none"
<1>1. /\ events \in Seq(Event)
      /\ \A i, j \in 1..Len(events) : events[i].of = events[j].of => i = j
      /\ \A i \in 1..Len(events) : proc[events[i].of] = "dead" /\ events[i] \in Event
  BY DEF Queue, OneEventEach, LaunchTypeOK
<1>2. /\ Head(events) = events[1] /\ events[1] \in Event /\ Len(events) \in Nat /\ Len(events) > 0
      /\ events' \in Seq(Event) /\ Len(events') = Len(events) - 1
      /\ \A i \in 1..Len(events') : i + 1 \in 2..Len(events) /\ events'[i] = events[i + 1]
  BY <1>1, TailAt
<1>3. \A i \in 1..Len(events') : i + 1 \in 1..Len(events) /\ 1 \in 1..Len(events) /\ i + 1 # 1
  BY <1>2
<1>4. OneEventEach'
  <2> SUFFICES ASSUME NEW i \in 1..Len(events'), NEW j \in 1..Len(events'),
                      events'[i].of = events'[j].of
               PROVE  i = j
    BY <1>2 DEF OneEventEach
  <2>1. i + 1 = j + 1
    BY <1>1, <1>2, <1>3
  <2>2. i \in Nat /\ j \in Nat
    BY <1>2
  <2>3. QED
    BY <2>1, <2>2
<1>5. NothingRuns' /\ StopsForNode'
  BY DEF NothingRuns, StopsForNode
<1>6. ExitsBlamed'
  <2> SUFFICES ASSUME NEW i \in 1..Len(events'), events'[i].code # 0,
                      events'[i].of \notin Respawned \cup Plain
               PROVE  fault' \/ Signalled'
    BY DEF ExitsBlamed
  <2>1. fault \/ Signalled
    BY <1>2, <1>3 DEF Queue, ExitsBlamed
  <2>2. QED
    BY <2>1
<1>7. /\ proc' \in [Process -> {"none", "run", "serving", "stuck", "latched", "dead", "wait", "gone"}]
      /\ proc'[Head(events).of] = state
      /\ \A q \in Process : q # Head(events).of => proc'[q] = proc[q]
  BY <1>2 DEF LaunchTypeOK, Event
<1>8. \A i \in 1..Len(events') : events'[i].of # Head(events).of
  BY <1>1, <1>2, <1>3
<1>9. \A i \in 1..Len(events') :
        events'[i].of \in Process /\ proc[events'[i].of] = "dead" /\ events'[i].code \in {0, 1}
  BY <1>1, <1>2, <1>3 DEF Event
<1>10. \A i \in DOMAIN events' : proc'[events'[i].of] = "dead" /\ events'[i].code \in {0, 1}
  BY <1>2, <1>7, <1>8, <1>9
<1>11. \A q \in Process : proc'[q] = "wait" => q \in Respawned /\ pc' # "none"
  BY <1>7 DEF LaunchTypeOK
<1>12. QED
  BY <1>4, <1>5, <1>6, <1>7, <1>10, <1>11

-----------------------------------------------------------------------------
(* The motors and the bus. *)

LaunchInv == LaunchTypeOK /\ LaunchInductive

\* A mishap is one of those left.
LEMMA MishapType == LaunchTypeOK /\ (Mishap \/ UNCHANGED budget) => budget' \in 0..Mishaps
  BY LaunchAssumption DEF LaunchTypeOK, Mishap

\* Every event launch has yet to handle is the exit of one of its processes.
LEMMA EventAt ==
  LaunchInv => \A i \in DOMAIN events : i \in 1..Len(events) /\ events[i].of \in Process
<1> SUFFICES ASSUME LaunchInv PROVE \A i \in DOMAIN events : i \in 1..Len(events) /\ events[i].of \in Process
  OBVIOUS
<1>1. events \in Seq(Event)
  BY DEF LaunchInv, LaunchInductive, OneEventEach
<1>2. DOMAIN events = 1..Len(events) /\ \A i \in 1..Len(events) : events[i] \in Event
  BY <1>1
<1>3. QED
  BY <1>2 DEF Event

\* The variables of the bus, the service and the launch, without the processes.
LEMMA BusInv ==
  ASSUME LaunchInv, Drive \/ Link \/ Power PROVE LaunchInv'
<1> USE DEF LaunchInv, service, launch
<1>1. Queue'
  BY SameQueue, Split DEF Drive, Link, Power
<1>2. LaunchTypeOK'
  <2>1. CASE Drive
    BY <2>1 DEF Drive, LaunchTypeOK
  <2>2. CASE Link
    <3>1. budget' \in 0..Mishaps
      BY <2>2, MishapType DEF Link
    <3>2. QED
      BY <2>2, <3>1 DEF Link, LaunchTypeOK
  <2>3. CASE Power
    BY <2>3, MishapType DEF Power, LaunchTypeOK
  <2>4. QED
    BY <2>1, <2>2, <2>3
<1>3. CASE Drive
  <2>1. proc[ControlNode] # "gone" \/ stray
    BY <1>3 DEF Drive
  <2>2. by = "systemd" => unit \notin {"off", "wait"}
    <3>1. CASE proc[ControlNode] = "serving"
      BY <1>3, <3>1 DEF Drive, LaunchInductive, NothingRuns, UnitFollows, Process
    <3>2. CASE stray
      BY <1>3, <3>2 DEF LaunchInductive, StrayIsKilled
    <3>3. QED
      BY <1>3, <3>1, <3>2 DEF Drive
  <2>3. QED
    BY <1>1, <1>2, <1>3, <2>1, <2>2, Split
    DEF Drive, Motors, NoPowerNoMotion, UnitFollows, StrayIsKilled, LaunchStopsMotors,
        RestsReleased
<1>4. CASE Link \/ Power
  BY <1>1, <1>2, <1>4, Split
  DEF Link, Power, Motors, NoPowerNoMotion, UnitFollows, StrayIsKilled, LaunchStopsMotors,
      RestsReleased
<1>5. QED
  BY <1>3, <1>4

-----------------------------------------------------------------------------
(* The processes. *)

\* Only a process of a launch that is up can do anything, and then the service does not rest.
LEMMA AliveIsUp ==
  ASSUME LaunchInv, NEW p \in Alive
  PROVE  /\ pc \in {"up", "brake", "release"} /\ p \in Process
         /\ proc[p] \in {"run", "serving", "stuck", "latched"}
         /\ by = "systemd" => unit \in {"active", "stop"}
  BY DEF LaunchInv, LaunchTypeOK, LaunchInductive, NothingRuns, UnitFollows, Alive

\* A process may exit at any time, with any code, and the motors stay or are released.
LEMMA ExitsInv ==
  ASSUME LaunchInv, NEW p \in Alive, NEW code \in {0, 1}, Exits(p, code),
         UNCHANGED motor \/ (p = ControlNode /\ PluginStops),
         UNCHANGED budget \/ Mishap
  PROVE  LaunchInv'
<1> USE DEF LaunchInv, service, launch
<1>1. Queue' /\ LaunchTypeOK'
  <2>1. /\ motor' \in {"turn", "hold", "free"} /\ budget' \in 0..Mishaps
    BY MishapType DEF PluginStops, LaunchTypeOK
  <2>2. /\ Queue'
        /\ proc' \in [Process -> {"none", "run", "serving", "stuck", "latched", "dead", "wait", "gone"}]
        /\ \A i \in DOMAIN events' : proc'[events'[i].of] = "dead" /\ events'[i].code \in {0, 1}
        /\ \A q \in Process : proc'[q] = "wait" => q \in Respawned /\ pc' # "none"
        /\ fault' \in BOOLEAN
    BY ExitsQueue, Split
  <2>3. UNCHANGED <<by, mock, wanted, unit, pc, stage, sigint, failed, up, powered, stray, cut>>
    BY DEF Exits
  <2>4. QED
    BY <2>1, <2>2, <2>3 DEF LaunchTypeOK
<1>2. NoPowerNoMotion' /\ UnitFollows' /\ StrayIsKilled'
  BY DEF Exits, PluginStops, LaunchInductive, NoPowerNoMotion, UnitFollows, StrayIsKilled
<1>3. proc'[ControlNode] = "gone" => p # ControlNode /\ proc[ControlNode] = "gone"
  BY AliveIsUp DEF Exits, LaunchTypeOK, Process
<1>4. LaunchStopsMotors'
  BY <1>3 DEF Exits, PluginStops, LaunchInductive, LaunchStopsMotors
<1>5. RestsReleased'
  BY AliveIsUp DEF Exits, RestsReleased
<1>6. QED
  BY <1>1, <1>2, <1>4, <1>5, Split DEF Motors

\* Every end of a process, in order or not.
LEMMA ProcessEndsInv ==
  ASSUME LaunchInv,
         \/ LoadFails \/ NodeFails \/ NodeEnds
         \/ \E s \in Spawners : SpawnerEnds(s)
         \/ \E p \in Respawned \cup Plain : OtherFails(p) \/ OtherEnds(p)
  PROVE  LaunchInv'
<1>1. ControlNode \in Process
  BY DEF Process
<1>2. proc[ControlNode] = "run" => ControlNode \in Alive
  BY <1>1 DEF Alive
<1>3. CASE LoadFails \/ NodeFails \/ NodeEnds
  BY <1>2, <1>3, ExitsInv DEF LoadFails, NodeFails, NodeEnds, Alive
<1>4. ASSUME NEW s \in Spawners, SpawnerEnds(s) PROVE LaunchInv'
  BY <1>4, ExitsInv DEF SpawnerEnds
<1>5. ASSUME NEW p \in Respawned \cup Plain, OtherFails(p) \/ OtherEnds(p) PROVE LaunchInv'
  BY <1>5, ExitsInv DEF OtherFails, OtherEnds
<1>6. QED
  BY <1>3, <1>4, <1>5

\* The plugin is loaded, or hangs.
LEMMA LoadInv == ASSUME LaunchInv, Load PROVE LaunchInv'
<1> USE DEF LaunchInv, service, launch, bus
<1>1. ControlNode \in Alive /\ ControlNode \in Process
  BY DEF Load, Alive, Process
<1>2. pc \in {"up", "brake", "release"} /\ (by = "systemd" => unit \in {"active", "stop"})
  BY <1>1, AliveIsUp
<1>3. /\ proc' \in [Process -> {"none", "run", "serving", "stuck", "latched", "dead", "wait", "gone"}]
      /\ proc'[ControlNode] \in {"serving", "stuck"}
      /\ \A q \in Process : q # ControlNode => proc'[q] = proc[q]
  BY <1>1 DEF Load, LaunchTypeOK
<1>4. /\ \A i \in DOMAIN events : proc[events[i].of] = "dead" /\ events[i].code \in {0, 1}
      /\ \A i \in DOMAIN events : events[i].of \in Process
  BY EventAt DEF LaunchTypeOK
<1>5. \A i \in DOMAIN events' : proc'[events'[i].of] = "dead" /\ events'[i].code \in {0, 1}
  BY <1>3, <1>4 DEF Load
<1>6. \A q \in Process : proc'[q] = "wait" => q \in Respawned /\ pc' # "none"
  BY <1>3 DEF Load, LaunchTypeOK
<1>7. LaunchTypeOK'
  BY <1>3, <1>5, <1>6, MishapType DEF Load, LaunchTypeOK
<1>8. Queue'
  BY <1>2, Split DEF Load, Queue, OneEventEach, NothingRuns, ExitsBlamed, StopsForNode,
                     ExpectedExits, Signalled, is_shutdown
<1>9. Motors'
  BY <1>2, <1>3 DEF Load, LaunchInductive, Motors, NoPowerNoMotion, UnitFollows, StrayIsKilled,
                     LaunchStopsMotors, RestsReleased
<1>10. QED
  BY <1>7, <1>8, <1>9, Split

\* A control node that latches goes on running, and its motors are braked or free, or the bus
\* was gone before.
LEMMA NodeLatchesInv == ASSUME LaunchInv, NodeLatches PROVE LaunchInv'
<1> USE DEF LaunchInv, service, launch
<1>1. ControlNode \in Alive /\ ControlNode \in Process
  BY DEF NodeLatches, Alive, Process
<1>2. pc \in {"up", "brake", "release"} /\ (by = "systemd" => unit \in {"active", "stop"})
  BY <1>1, AliveIsUp
<1>3. /\ proc' \in [Process -> {"none", "run", "serving", "stuck", "latched", "dead", "wait", "gone"}]
      /\ proc'[ControlNode] = "latched"
      /\ \A q \in Process : q # ControlNode => proc'[q] = proc[q]
  BY <1>1 DEF NodeLatches, LaunchTypeOK
<1>4. /\ \A i \in DOMAIN events : proc[events[i].of] = "dead" /\ events[i].code \in {0, 1}
      /\ \A i \in DOMAIN events : events[i].of \in Process
  BY EventAt DEF LaunchTypeOK
<1>5. \A i \in DOMAIN events' : proc'[events'[i].of] = "dead" /\ events'[i].code \in {0, 1}
  BY <1>3, <1>4 DEF NodeLatches
<1>6. \A q \in Process : proc'[q] = "wait" => q \in Respawned /\ pc' # "none"
  BY <1>3 DEF NodeLatches, LaunchTypeOK
<1>7. motor' \in {"turn", "hold", "free"} /\ NoPowerNoMotion'
  BY DEF NodeLatches, SilenceStops, LaunchTypeOK, LaunchInductive, NoPowerNoMotion
<1>8. LaunchTypeOK'
  BY <1>3, <1>5, <1>6, <1>7 DEF NodeLatches, LaunchTypeOK
<1>9. Queue'
  BY <1>2, Split DEF NodeLatches, Queue, OneEventEach, NothingRuns, ExitsBlamed, StopsForNode,
                     ExpectedExits, Signalled, is_shutdown
<1>10. Motors'
  BY <1>2, <1>3, <1>7 DEF NodeLatches, LaunchInductive, Motors, UnitFollows, StrayIsKilled,
                          LaunchStopsMotors, RestsReleased
<1>11. QED
  BY <1>8, <1>9, <1>10, Split

\* A process that is started again, or no longer.
LEMMA RespawnInv == ASSUME LaunchInv, NEW p \in Respawned, Respawn(p) PROVE LaunchInv'
<1> USE DEF LaunchInv, service, launch, bus
<1>1. p \in Process /\ p # ControlNode /\ ControlNode \in Process /\ pc = "up"
  BY LaunchAssumption DEF Respawn, Process
<1>2. /\ proc' \in [Process -> {"none", "run", "serving", "stuck", "latched", "dead", "wait", "gone"}]
      /\ proc'[p] \in {"run", "gone"} /\ proc[p] = "wait"
      /\ \A q \in Process : q # p => proc'[q] = proc[q]
  BY <1>1 DEF Respawn, LaunchTypeOK
<1>3. /\ \A i \in DOMAIN events : proc[events[i].of] = "dead" /\ events[i].code \in {0, 1}
      /\ \A i \in DOMAIN events : events[i].of \in Process
  BY EventAt DEF LaunchTypeOK
<1>4. \A i \in DOMAIN events' : proc'[events'[i].of] = "dead" /\ events'[i].code \in {0, 1}
  BY <1>2, <1>3 DEF Respawn
<1>5. \A q \in Process : proc'[q] = "wait" => q \in Respawned /\ pc' # "none"
  BY <1>2 DEF Respawn, LaunchTypeOK
<1>6. LaunchTypeOK'
  BY <1>2, <1>4, <1>5 DEF Respawn, LaunchTypeOK
<1>7. Queue'
  BY <1>1, Split DEF Respawn, Queue, OneEventEach, NothingRuns, ExitsBlamed, StopsForNode,
                     ExpectedExits, Signalled, is_shutdown
<1>8. Motors'
  BY <1>1, <1>2 DEF Respawn, LaunchInductive, Motors, NoPowerNoMotion, UnitFollows, StrayIsKilled,
                     LaunchStopsMotors, RestsReleased
<1>9. QED
  BY <1>6, <1>7, <1>8, Split

-----------------------------------------------------------------------------
(* The launch. *)

\* launch_setup and check_can: everything is started at once, or nothing.
LEMMA SetupInv == ASSUME LaunchInv, LaunchSetup \/ CheckCan PROVE LaunchInv'
<1> USE DEF LaunchInv, service, bus
<1>1. pc \in {"setup", "check"} /\ events = <<>> /\ events' = <<>>
      /\ \A p \in Process : proc[p] \in {"none", "gone"}
  BY DEF LaunchSetup, CheckCan, LaunchInductive, NothingRuns
<1>2. \/ StartAll
      \/ Refuse
      \/ pc' = "check" /\ UNCHANGED <<stage, failed, fault, proc>>
  BY DEF LaunchSetup, CheckCan
<1>3. budget' \in 0..Mishaps
  BY MishapType DEF LaunchSetup, CheckCan
<1>4. UNCHANGED <<by, mock, unit, wanted, sigint, events, up, powered, motor, stray, cut>>
  BY DEF LaunchSetup, CheckCan
<1>5. <<>> \in Seq(Event) /\ Len(<<>>) = 0
  OBVIOUS
<1>6. ControlNode \in Process
  BY DEF Process
<1>7. CASE StartAll
  <2>1. /\ proc' \in [Process -> {"none", "run", "serving", "stuck", "latched", "dead", "wait", "gone"}]
        /\ \A q \in Process : proc'[q] = "run"
    BY <1>7 DEF StartAll
  <2>2. LaunchTypeOK'
    BY <1>1, <1>3, <1>4, <1>5, <1>7, <2>1 DEF StartAll, LaunchTypeOK
  <2>3. Queue'
    BY <1>1, <1>5, <1>7, <2>1
    DEF StartAll, Queue, OneEventEach, NothingRuns, ExitsBlamed, StopsForNode, ExpectedExits,
        LaunchInductive
  <2>4. Motors'
    BY <1>1, <1>4, <1>6, <1>7, <2>1
    DEF StartAll, LaunchInductive, Motors, NoPowerNoMotion, UnitFollows, StrayIsKilled,
        LaunchStopsMotors, RestsReleased
  <2>5. QED
    BY <2>2, <2>3, <2>4, Split
<1>8. CASE Refuse
  <2>1. LaunchTypeOK'
    BY <1>1, <1>3, <1>4, <1>5, <1>8 DEF Refuse, LaunchTypeOK
  <2>2. Queue'
    BY <1>1, <1>5, <1>8
    DEF Refuse, Queue, OneEventEach, NothingRuns, ExitsBlamed, StopsForNode, ExpectedExits
  <2>3. Motors'
    BY <1>1, <1>4, <1>8
    DEF Refuse, LaunchInductive, Motors, NoPowerNoMotion, UnitFollows, StrayIsKilled,
        LaunchStopsMotors, RestsReleased
  <2>4. QED
    BY <2>1, <2>2, <2>3, Split
<1>9. CASE pc' = "check" /\ UNCHANGED <<stage, failed, fault, proc>>
  <2>1. LaunchTypeOK'
    BY <1>1, <1>3, <1>4, <1>5, <1>9 DEF LaunchTypeOK
  <2>2. Queue'
    BY <1>1, <1>5, <1>9
    DEF Queue, OneEventEach, NothingRuns, ExitsBlamed, StopsForNode, ExpectedExits,
        LaunchInductive
  <2>3. Motors'
    BY <1>1, <1>4, <1>9
    DEF LaunchInductive, Motors, NoPowerNoMotion, UnitFollows, StrayIsKilled,
        LaunchStopsMotors, RestsReleased
  <2>4. QED
    BY <2>1, <2>2, <2>3, Split
<1>10. QED
  BY <1>2, <1>7, <1>8, <1>9

\* What only moves the shutdown on, or asks for it.
LEMMA SignalInv == ASSUME LaunchInv, OnSigint \/ Escalate \/ CtrlC PROVE LaunchInv'
<1> USE DEF LaunchInv, service, bus
<1>1. /\ UNCHANGED <<by, mock, unit, wanted, pc, failed, proc, events, up, powered, motor, stray,
                     budget, fault, cut>>
      /\ sigint' \in BOOLEAN /\ stage' \in {"none", "int", "term", "kill"}
      /\ is_shutdown => is_shutdown'
      /\ Signalled => Signalled'
  BY DEF OnSigint, Escalate, CtrlC, ShutDown, is_shutdown, Signalled, LaunchTypeOK
<1>2. LaunchTypeOK'
  BY <1>1 DEF LaunchTypeOK
<1>3. Queue'
  BY <1>1, Split DEF Queue, OneEventEach, NothingRuns, ExitsBlamed, StopsForNode, ExpectedExits
<1>4. Motors'
  BY <1>1, Split DEF Motors, NoPowerNoMotion, UnitFollows, StrayIsKilled, LaunchStopsMotors,
                     RestsReleased
<1>5. QED
  BY <1>2, <1>3, <1>4, Split

\* shutdown_if_failed and on_control_node_exit raise only for an exit that can be blamed,
\* and never take a shutdown back.
LEMMA RaiseBlamed ==
  ASSUME LaunchInv, NEW code \in {0, 1},
         AfterStop(code) \/ shutdown_if_failed(code) \/ UNCHANGED <<stage, failed>>,
         code # 0 => fault \/ is_shutdown \/ UNCHANGED <<stage, failed>>
  PROVE  /\ stage' \in {"none", "int", "term", "kill"} /\ failed' \in BOOLEAN
         /\ is_shutdown => is_shutdown'
         /\ failed' => failed \/ fault
<1>1. failed \in BOOLEAN /\ stage \in {"none", "int", "term", "kill"}
  BY DEF LaunchInv, LaunchTypeOK
<1>2. \/ Raise /\ ~is_shutdown /\ code # 0
      \/ ShutDown /\ UNCHANGED failed
      \/ UNCHANGED <<stage, failed>>
  BY DEF AfterStop, shutdown_if_failed
<1>3. CASE Raise /\ ~is_shutdown /\ code # 0
  BY <1>1, <1>3 DEF Raise, ShutDown, is_shutdown
<1>4. CASE ShutDown /\ UNCHANGED failed
  BY <1>1, <1>4 DEF ShutDown, is_shutdown
<1>5. CASE UNCHANGED <<stage, failed>>
  BY <1>1, <1>5 DEF is_shutdown
<1>6. QED
  BY <1>2, <1>3, <1>4, <1>5

\* A ProcessExited event is handled: send_motor_stop begins, or the next event is up.
LEMMA OnProcessExitInv == ASSUME LaunchInv, OnProcessExit PROVE LaunchInv'
<1> USE DEF LaunchInv
<1> DEFINE e == Head(events)
<1>1. /\ events \in Seq(Event) /\ events # <<>> /\ e = events[1] /\ e \in Event
      /\ 1 \in 1..Len(events) /\ pc = "up" /\ ~sigint
      /\ UNCHANGED <<by, mock, unit, wanted, sigint, up, powered, motor, stray, budget, fault, cut>>
  <2>1. events \in Seq(Event) /\ events # <<>>
    BY DEF OnProcessExit, LaunchInductive, OneEventEach
  <2>2. QED
    BY <2>1, TailAt DEF OnProcessExit, service, bus
<1>2. e.of \in Process /\ e.code \in {0, 1} /\ proc[e.of] = "dead"
  BY <1>1 DEF Event, LaunchTypeOK
<1>3. e.code # 0 /\ e.of \notin Respawned \cup Plain => fault \/ is_shutdown
  BY <1>1, Split DEF Queue, ExitsBlamed, Signalled
<1>4. CASE pc' = "brake" /\ UNCHANGED <<stage, failed, proc, events>> /\ e.of = ControlNode
  <2>1. LaunchTypeOK'
    BY <1>1, <1>4 DEF LaunchTypeOK
  <2>2. Queue'
    <3>1. StopsForNode'
      BY <1>1, <1>2, <1>3, <1>4, LaunchAssumption DEF StopsForNode, is_shutdown
    <3>2. QED
      BY <1>1, <1>4, <3>1, Split
      DEF Queue, OneEventEach, NothingRuns, ExitsBlamed, ExpectedExits, Signalled, is_shutdown
  <2>3. Motors'
    BY <1>1, <1>4, Split DEF Motors, NoPowerNoMotion, UnitFollows, StrayIsKilled,
                             LaunchStopsMotors, RestsReleased
  <2>4. QED
    BY <2>1, <2>2, <2>3, Split
<1>5. CASE /\ ~(e.of = ControlNode /\ SendsStop)
           /\ proc' = [proc EXCEPT ![e.of] = AfterExit(e.of)] /\ events' = Tail(events)
           /\ UNCHANGED pc
           /\ CASE e.of = ControlNode -> AfterStop(e.code)
                [] e.of \in Spawners -> shutdown_if_failed(e.code)
                [] OTHER -> UNCHANGED <<stage, failed>>
  <2>1. /\ stage' \in {"none", "int", "term", "kill"} /\ failed' \in BOOLEAN
        /\ is_shutdown => is_shutdown'
        /\ failed' => failed \/ fault
    <3>1. CASE e.of \in Respawned \cup Plain
      <4>1. UNCHANGED <<stage, failed>>
        BY <1>5, <3>1, LaunchAssumption
      <4>2. QED
        BY <4>1, <1>2, RaiseBlamed
    <3>2. CASE e.of \notin Respawned \cup Plain
      <4>1. AfterStop(e.code) \/ shutdown_if_failed(e.code) \/ UNCHANGED <<stage, failed>>
        BY <1>5
      <4>2. e.code # 0 => fault \/ is_shutdown
        BY <1>3, <3>2
      <4>3. QED
        BY <4>1, <4>2, <1>2, RaiseBlamed
    <3>3. QED
      BY <3>1, <3>2
  <2>2. AfterExit(e.of) \in {"gone", "wait"} /\ (AfterExit(e.of) = "wait" => e.of \in Respawned)
    BY DEF AfterExit
  <2>3. Signalled => Signalled'
    BY <1>1, <2>1 DEF Signalled
  <2>4. /\ OneEventEach' /\ NothingRuns' /\ ExitsBlamed' /\ StopsForNode'
        /\ proc' \in [Process -> {"none", "run", "serving", "stuck", "latched", "dead", "wait", "gone"}]
        /\ \A i \in DOMAIN events' : proc'[events'[i].of] = "dead" /\ events'[i].code \in {0, 1}
        /\ \A q \in Process : proc'[q] = "wait" => q \in Respawned /\ pc' # "none"
    BY <1>1, <1>5, <2>2, <2>3, HandledQueue, Split
  <2>5. Queue'
    BY <1>1, <2>1, <2>4, Split DEF Queue, ExpectedExits
  <2>6. LaunchTypeOK'
    BY <1>1, <1>5, <2>1, <2>4 DEF LaunchTypeOK
  <2>7. LaunchStopsMotors'
    <3> SUFFICES ASSUME proc'[ControlNode] = "gone", ~mock, ~stray PROVE motor = "free" \/ cut
      BY <1>1 DEF LaunchStopsMotors
    <3>1. e.of # ControlNode
      BY <1>5 DEF SendsStop
    <3>2. proc[ControlNode] = "gone"
      BY <1>2, <1>5, <3>1 DEF LaunchTypeOK, Process
    <3>3. QED
      BY <1>1, <3>2, Split DEF Motors, LaunchStopsMotors
  <2>8. Motors'
    BY <1>1, <1>5, <2>7, Split DEF Motors, NoPowerNoMotion, UnitFollows, StrayIsKilled,
                                   RestsReleased
  <2>9. QED
    BY <2>5, <2>6, <2>8, Split
<1>6. QED
  BY <1>4, <1>5 DEF OnProcessExit

\* A frame to the motors is taken, or the motors have no power and are free, or it is cut.
LEMMA SentInv ==
  ASSUME LaunchInv, NEW frame \in {"hold", "free"}, Sent(frame), UNCHANGED powered
  PROVE  /\ motor' \in {"turn", "hold", "free"} /\ cut' \in BOOLEAN /\ NoPowerNoMotion'
         /\ frame = "free" => motor' = "free" \/ cut'
<1>1. motor \in {"turn", "hold", "free"} /\ cut \in BOOLEAN /\ (~powered => motor = "free")
  BY DEF LaunchInv, LaunchTypeOK, LaunchInductive, NoPowerNoMotion
<1>2. CASE up
  BY <1>1, <1>2 DEF Sent, NoPowerNoMotion
<1>3. CASE ~up
  BY <1>1, <1>3 DEF Sent, NoPowerNoMotion
<1>4. QED
  BY <1>2, <1>3

\* send_motor_stop leaves the motors released, or could not send its frames.
LEMMA SendMotorStopInv == ASSUME LaunchInv, SendMotorStop PROVE LaunchInv'
<1> USE DEF LaunchInv
<1> DEFINE e == Head(events)
<1>1. /\ events \in Seq(Event) /\ events # <<>> /\ e = events[1] /\ e \in Event
      /\ pc \in {"brake", "release"}
      /\ UNCHANGED <<by, mock, unit, wanted, sigint, up, powered, stray, budget, fault>>
  <2>1. events \in Seq(Event) /\ events # <<>>
    BY DEF SendMotorStop, LaunchInductive, OneEventEach, StopsForNode
  <2>2. QED
    BY <2>1, TailAt DEF SendMotorStop, service
<1>2. e.of = ControlNode /\ e.code \in {0, 1} /\ (e.code # 0 => fault \/ is_shutdown)
  BY <1>1 DEF Event, LaunchInductive, StopsForNode
<1>3. motor' \in {"turn", "hold", "free"} /\ cut' \in BOOLEAN /\ NoPowerNoMotion'
  BY <1>1, SentInv DEF SendMotorStop
<1>4. UnitFollows' /\ StrayIsKilled' /\ RestsReleased'
  BY <1>1 DEF SendMotorStop, LaunchInductive, UnitFollows, StrayIsKilled, RestsReleased
<1>5. CASE pc' = "release" /\ UNCHANGED <<stage, failed, proc, events>>
  <2>1. LaunchTypeOK'
    BY <1>1, <1>3, <1>5 DEF LaunchTypeOK
  <2>2. Queue'
    BY <1>1, <1>5, Split
    DEF Queue, OneEventEach, NothingRuns, ExitsBlamed, StopsForNode, ExpectedExits, Signalled,
        is_shutdown
  <2>3. Motors'
    BY <1>3, <1>4, <1>5 DEF Motors, LaunchStopsMotors
  <2>4. QED
    BY <2>1, <2>2, <2>3, Split
<1>6. CASE /\ Sent("free") /\ pc' = "up"
           /\ proc' = [proc EXCEPT ![ControlNode] = "gone"] /\ events' = Tail(events)
           /\ AfterStop(e.code)
  <2>1. /\ stage' \in {"none", "int", "term", "kill"} /\ failed' \in BOOLEAN
        /\ is_shutdown => is_shutdown'
        /\ failed' => failed \/ fault
    BY <1>2, <1>6, RaiseBlamed
  <2>2. Signalled => Signalled'
    BY <1>1, <2>1 DEF Signalled
  <2>3. /\ OneEventEach' /\ NothingRuns' /\ ExitsBlamed' /\ StopsForNode'
        /\ proc' \in [Process -> {"none", "run", "serving", "stuck", "latched", "dead", "wait", "gone"}]
        /\ \A i \in DOMAIN events' : proc'[events'[i].of] = "dead" /\ events'[i].code \in {0, 1}
        /\ \A q \in Process : proc'[q] = "wait" => q \in Respawned /\ pc' # "none"
    BY <1>1, <1>2, <1>6, <2>2, HandledQueue, Split
  <2>4. Queue'
    BY <1>1, <2>1, <2>3, Split DEF Queue, ExpectedExits
  <2>5. LaunchTypeOK'
    BY <1>1, <1>3, <1>6, <2>1, <2>3 DEF LaunchTypeOK
  <2>6. LaunchStopsMotors'
    BY <1>1, <1>6, SentInv DEF LaunchStopsMotors
  <2>7. QED
    BY <1>3, <1>4, <2>4, <2>5, <2>6, Split DEF Motors
<1>7. QED
  BY <1>5, <1>6 DEF SendMotorStop

\* Nothing runs any more, or the launch was killed.
LEMMA LaunchEndsInv == ASSUME LaunchInv, End \/ Killed \/ StopTimeout PROVE LaunchInv'
<1> USE DEF LaunchInv, service, bus
<1>1. CASE End
  <2>1. LaunchTypeOK'
    BY <1>1 DEF End, LaunchTypeOK
  <2>2. Queue'
    BY <1>1, Split DEF End, Queue, OneEventEach, NothingRuns, ExitsBlamed, StopsForNode,
                       ExpectedExits
  <2>3. Motors'
    BY <1>1, Split DEF End, Motors, NoPowerNoMotion, UnitFollows, StrayIsKilled,
                       LaunchStopsMotors, RestsReleased
  <2>4. QED
    BY <2>1, <2>2, <2>3, Split
<1>2. CASE Killed \/ StopTimeout
  <2>1. Orphans /\ pc # "none" /\ UNCHANGED <<by, mock, unit, wanted, up, powered, motor, cut>>
    BY <1>2 DEF Killed, StopTimeout
  <2>2. budget' \in 0..Mishaps
    BY <1>2, MishapType DEF Killed, StopTimeout
  <2>3. proc' = [p \in Process |-> "gone"] /\ events' = <<>> /\ DOMAIN <<>> = {}
    BY <2>1 DEF Orphans
  <2>4. LaunchTypeOK'
    <3>1. stray' \in BOOLEAN
      BY <2>1 DEF Orphans
    <3>2. QED
      BY <2>1, <2>2, <2>3, <3>1 DEF Orphans, LaunchTypeOK
  <2>5. Queue'
    BY <2>1, OrphansQueue
  <2>6. Motors'
    <3>1. by = "systemd" => unit \in {"active", "stop"}
      BY <2>1 DEF LaunchInductive, UnitFollows, LaunchTypeOK
    <3>2. QED
      BY <2>1, <3>1 DEF Orphans, LaunchInductive, Motors, NoPowerNoMotion, UnitFollows,
                        StrayIsKilled, LaunchStopsMotors, RestsReleased
  <2>7. QED
    BY <2>4, <2>5, <2>6, Split
<1>3. QED
  BY <1>1, <1>2

\* A launch begins: from a terminal, or by a service that rests.
LEMMA BeginInv == ASSUME LaunchInv, Run \/ SystemctlStart \/ RestartSec PROVE LaunchInv'
<1> USE DEF LaunchInv, service, bus
<1>1. /\ Begin /\ UNCHANGED <<by, mock, up, powered, motor, stray, budget, cut>>
      /\ wanted' \in BOOLEAN
      /\ by = "systemd" => unit \in {"off", "wait"} /\ unit' = "active"
      /\ by = "terminal" => unit' = unit
  BY DEF Run, SystemctlStart, RestartSec, LaunchTypeOK, LaunchInductive, UnitFollows
<1>2. proc' = [p \in Process |-> "none"] /\ events' = <<>> /\ DOMAIN <<>> = {}
  BY <1>1 DEF Begin
<1>3. LaunchTypeOK'
  BY <1>1, <1>2 DEF Begin, LaunchTypeOK
<1>4. Queue'
  BY <1>1, BeginQueue
<1>5. Motors'
  BY <1>1, Split DEF Begin, Motors, NoPowerNoMotion, UnitFollows, StrayIsKilled,
                     LaunchStopsMotors, RestsReleased, LaunchTypeOK
<1>6. QED
  BY <1>3, <1>4, <1>5, Split

-----------------------------------------------------------------------------
(* The user and systemd. *)

\* systemd kills what is left, then stops the motors, and only then rests.
LEMMA UnitInv ==
  ASSUME LaunchInv, OnMainExit \/ KillGroup \/ ExecStopPost \/ SystemctlStop PROVE LaunchInv'
<1> USE DEF LaunchInv, launch, service
<1>0. unit # "off" => by = "systemd"
  BY DEF LaunchTypeOK, LaunchInductive, UnitFollows
<1>1. CASE OnMainExit \/ KillGroup
  <2>1. LaunchTypeOK'
    <3>1. stray' \in BOOLEAN /\ unit' \in {"kill", "brake"}
      BY <1>1 DEF OnMainExit, KillGroup, KillRest, AfterKill, LaunchTypeOK
    <3>2. QED
      BY <1>1, <3>1 DEF OnMainExit, KillGroup, bus, LaunchTypeOK
  <2>2. Queue'
    BY <1>1, SameQueue, Split DEF OnMainExit, KillGroup
  <2>3. Motors'
    BY <1>0, <1>1, Split
    DEF OnMainExit, KillGroup, KillRest, AfterKill, bus, Motors, NoPowerNoMotion, UnitFollows,
        StrayIsKilled, LaunchStopsMotors, RestsReleased
  <2>4. QED
    BY <2>1, <2>2, <2>3, Split
<1>2. CASE ExecStopPost
  <2>1. /\ unit \in {"brake", "release"} /\ by = "systemd" /\ pc = "none"
        /\ \/ unit' = "release"
           \/ Sent("free") /\ unit' \in {"wait", "off"}
        /\ UNCHANGED <<by, mock, wanted, pc, stage, sigint, failed, proc, events, up, powered,
                       stray, budget, fault>>
    BY <1>0, <1>2 DEF ExecStopPost, Rests, LaunchInductive, UnitFollows
  <2>2. motor' \in {"turn", "hold", "free"} /\ cut' \in BOOLEAN /\ NoPowerNoMotion'
    BY <1>2, <2>1, SentInv DEF ExecStopPost
  <2>3. LaunchTypeOK'
    BY <2>1, <2>2 DEF LaunchTypeOK
  <2>4. Queue'
    BY <2>1, SameQueue, Split
  <2>5. RestsReleased'
    BY <2>1, SentInv DEF RestsReleased
  <2>6. Motors'
    BY <2>1, <2>2, <2>5, Split DEF Motors, UnitFollows, StrayIsKilled, LaunchStopsMotors
  <2>7. QED
    BY <2>3, <2>4, <2>6, Split
<1>3. CASE SystemctlStop
  <2>1. /\ by = "systemd" /\ wanted' = FALSE
        /\ \/ unit = "active" /\ unit' = "stop" /\ sigint' = (pc # "none")
           \/ unit = "wait" /\ unit' = "off" /\ UNCHANGED sigint
           \/ UNCHANGED <<unit, sigint>>
        /\ UNCHANGED <<by, mock, pc, stage, failed, proc, events, up, powered, motor, stray,
                       budget, fault, cut>>
    BY <1>3 DEF SystemctlStop, bus
  <2>2. sigint' \in BOOLEAN
    BY <2>1 DEF LaunchTypeOK
  <2>3. LaunchTypeOK'
    BY <2>1, <2>2 DEF LaunchTypeOK
  <2>4. Queue'
    BY <2>1, Split DEF Queue, OneEventEach, NothingRuns, ExitsBlamed, StopsForNode,
                       ExpectedExits, Signalled, is_shutdown
  <2>5. Motors'
    BY <2>1, Split DEF Motors, NoPowerNoMotion, UnitFollows, StrayIsKilled, LaunchStopsMotors,
                       RestsReleased
  <2>6. QED
    BY <2>3, <2>4, <2>5, Split
<1>4. QED
  BY <1>1, <1>2, <1>3

\* A control node left over ends, and releases the motors, or could not.
LEMMA StrayEndsInv == ASSUME LaunchInv, StrayEnds PROVE LaunchInv'
<1> USE DEF LaunchInv, service, launch
<1>1. LaunchTypeOK'
  <2>1. stray' \in BOOLEAN /\ cut' \in BOOLEAN /\ motor' \in {"turn", "hold", "free"}
    BY DEF StrayEnds, PluginStops, LaunchTypeOK
  <2>2. QED
    BY <2>1 DEF StrayEnds, LaunchTypeOK
<1>2. Queue'
  BY SameQueue, Split DEF StrayEnds
<1>3. LaunchStopsMotors'
  BY DEF StrayEnds, PluginStops, LaunchStopsMotors, LaunchInductive, NoPowerNoMotion
<1>4. Motors'
  BY <1>3, Split DEF StrayEnds, PluginStops, Motors, NoPowerNoMotion, UnitFollows, StrayIsKilled,
                     RestsReleased
<1>5. QED
  BY <1>1, <1>2, <1>4, Split

\* A control node left over that latches commands nothing any more; what it could not say to
\* its motors is a stop without frames.
LEMMA StrayLatchesInv == ASSUME LaunchInv, StrayLatches PROVE LaunchInv'
<1> USE DEF LaunchInv, service, launch
<1>1. /\ motor' \in {"turn", "hold", "free"} /\ NoPowerNoMotion'
      /\ stray' = FALSE /\ cut' \in BOOLEAN /\ (motor' = "free" \/ cut')
  BY DEF StrayLatches, SilenceStops, LaunchTypeOK, LaunchInductive, NoPowerNoMotion
<1>2. LaunchTypeOK'
  BY <1>1 DEF StrayLatches, LaunchTypeOK
<1>3. Queue'
  BY SameQueue, Split DEF StrayLatches
<1>4. Motors'
  BY <1>1, Split DEF StrayLatches, Motors, UnitFollows, StrayIsKilled, LaunchStopsMotors,
                     RestsReleased
<1>5. QED
  BY <1>2, <1>3, <1>4, Split

-----------------------------------------------------------------------------
(* The theorems. *)

\* Types, one event for each exit, and the relation of the launch to systemd, are kept by
\* every step, for any processes and any number of mishaps.
THEOREM LaunchInductiveHolds == LaunchSpec => []LaunchInv
<1>1. LaunchInit => LaunchInv
  <2>1. <<>> \in Seq(Event) /\ Len(<<>>) = 0 /\ DOMAIN <<>> = {}
    OBVIOUS
  <2>2. LaunchInit => LaunchTypeOK
    <3> SUFFICES ASSUME LaunchInit PROVE LaunchTypeOK
      OBVIOUS
    <3>1. budget \in 0..Mishaps
      BY LaunchAssumption DEF LaunchInit
    <3>2. /\ proc \in [Process -> {"none", "run", "serving", "stuck", "latched", "dead", "wait", "gone"}]
          /\ \A p \in Process : proc[p] = "none"
      BY DEF LaunchInit
    <3>3. {sigint, failed, up, powered, stray, fault, cut} \subseteq BOOLEAN
      BY DEF LaunchInit
    <3>4. QED
      BY <2>1, <3>1, <3>2, <3>3 DEF LaunchInit, LaunchTypeOK
  <2>3. LaunchInit => LaunchInductive
    BY <2>1 DEF LaunchInit, LaunchInductive, OneEventEach, NothingRuns, ExitsBlamed,
                StopsForNode, NoPowerNoMotion, UnitFollows, StrayIsKilled, LaunchStopsMotors,
                RestsReleased, ExpectedExits
  <2>4. QED
    BY <2>2, <2>3 DEF LaunchInv
<1>2. LaunchInv /\ [LaunchNext]_vars => LaunchInv'
  <2> SUFFICES ASSUME LaunchInv, [LaunchNext]_vars PROVE LaunchInv'
    OBVIOUS
  <2>1. CASE UNCHANGED vars
    <3>1. Queue'
      BY <2>1, SameQueue, Split DEF LaunchInv, vars, launch
    <3>2. LaunchTypeOK' /\ Motors'
      BY <2>1, Split
      DEF LaunchInv, LaunchTypeOK, vars, service, launch, bus, Motors, NoPowerNoMotion,
          UnitFollows, StrayIsKilled, LaunchStopsMotors, RestsReleased
    <3>3. QED
      BY <3>1, <3>2, Split DEF LaunchInv
  <2>2. CASE LaunchStep
    BY <2>2, SetupInv, SignalInv, OnProcessExitInv, SendMotorStopInv, LaunchEndsInv
    DEF LaunchStep
  <2>3. CASE UnitStep
    BY <2>3, LaunchEndsInv, UnitInv, BeginInv DEF UnitStep
  <2>4. CASE Outside
    BY <2>4, BusInv, LaunchEndsInv, BeginInv, SignalInv, StrayEndsInv, UnitInv DEF Outside
  <2>5. QED
    BY <2>1, <2>2, <2>3, <2>4, LoadInv, NodeLatchesInv, StrayLatchesInv, ProcessEndsInv, RespawnInv
    DEF LaunchNext
<1>3. QED
  BY <1>1, <1>2, PTL DEF LaunchSpec

\* Whoever dies first, and for any number of spawners, processes and mishaps: the motors are
\* left released by the launch and by the service, no control node drives beside a stray
\* one, and a launch reports failure only for what nobody asked for.
THEOREM LaunchIsSafe == LaunchSpec => []LaunchSafety
<1>1. LaunchInv => OneCommander
  BY DEF LaunchInv, LaunchInductive, StrayIsKilled, NothingRuns, OneCommander, Process
<1>2. LaunchInv => LaunchSafety
  BY <1>1 DEF LaunchInv, LaunchInductive, LaunchSafety
<1>3. QED
  BY <1>2, LaunchInductiveHolds, PTL
=============================================================================
