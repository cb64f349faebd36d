------------------------------ MODULE ServoMotor ------------------------------
(***************************************************************************)
(* One servo-mode motor as fake_cubemars emulates it (FakeMotor), as       *)
(* operators on a record: what a command frame, a tick of the emulator and *)
(* an injection make of it.  A tick is one period of the bench tool, and   *)
(* speeds are output speeds in travel per tick.                            *)
(***************************************************************************)
EXTENDS Integers

CONSTANTS
  PositionSpeed,  \* travel per tick of the position loop
  FullDuty,       \* travel per tick at duty cycle 1
  Timeout,        \* the motor's own CAN timeout in ticks, 0 for none
  MaxPosition     \* positions beyond it are not told apart (MAX_STATUS_POSITION)

ASSUME MotorAssumption ==
  PositionSpeed \in Nat \ {0} /\ FullDuty \in Nat /\ Timeout \in Nat /\ MaxPosition \in Nat

Abs(n) == IF n < 0 THEN -n ELSE n
Toward(n) == IF n < 0 THEN -1 ELSE IF n = 0 THEN 0 ELSE 1
Limited(x) == IF Abs(x) <= MaxPosition THEN x ELSE Toward(x) * MaxPosition

PowerUp == [encoder |-> 0, origin |-> 0, permanent |-> 0, speed |-> 0, error |-> FALSE,
            mode |-> "idle", amps |-> 0, target |-> 0, move |-> PositionSpeed,
            silent |-> FALSE, ignore_origin |-> FALSE, stuck |-> FALSE, load |-> 0, quiet |-> 0]

Position(m) == m.encoder - m.origin

Release(m) == [m EXCEPT !.mode = "idle", !.amps = 0]

\* Off and on again: the temporary origin and the position are forgotten.
PowerCycle(m) ==
  [Release(m) EXCEPT !.speed = 0, !.error = FALSE, !.origin = m.permanent, !.encoder = m.permanent]

\* A fault stops the motor; clearing it does not start it.
Fault(m, code) == [IF code THEN Release(m) ELSE m EXCEPT !.error = code]

SetOrigin(m, kind) ==
  IF kind = "default" THEN [m EXCEPT !.origin = 0, !.permanent = 0]
  ELSE [m EXCEPT !.origin = m.encoder,
                 !.permanent = IF kind = "permanent" THEN m.encoder ELSE @]

\* The speed of the position loop: a position-speed frame may slow it down.
MoveSpeed(c) ==
  IF c.mode = "position" \/ c.speed = 0 \/ Abs(c.speed) > PositionSpeed THEN PositionSpeed
  ELSE Abs(c.speed)

\* Where a drive without a fault goes, by servo mode.
Driven(m, c) ==
  CASE c.mode = "duty"     -> [m EXCEPT !.mode = "speed", !.target = c.value * FullDuty]
    [] c.mode = "speed"    -> [m EXCEPT !.mode = "speed", !.target = c.value]
    [] c.mode = "brake"    -> [m EXCEPT !.mode = "brake", !.amps = c.value]
    [] c.mode = "current"  -> [m EXCEPT !.mode = IF c.value = 0 THEN "idle" ELSE "current",
                                        !.amps = c.value]
    [] c.mode \in {"position", "position_speed"} ->
         [m EXCEPT !.mode = "position", !.target = c.value, !.move = MoveSpeed(c)]

\* A command frame.  A drive with a fault takes an origin and nothing else, and one that ignores
\* origins notes the frame for its timeout.
Command(m, c) ==
  LET heard == [m EXCEPT !.quiet = 0] IN
  IF c.mode = "origin" THEN IF m.ignore_origin THEN heard ELSE SetOrigin(heard, c.value)
  ELSE IF m.error THEN heard
  ELSE Driven(heard, c)

Speed(v) == [mode |-> "speed", value |-> v]
ZeroCurrent == [mode |-> "current", value |-> 0]

\* The position loop is within a step of its target.
Arrives(m) == m.mode = "position" /\ Abs(m.target - Position(m)) <= m.move

\* The speed after a tick.
Turning(m) ==
  IF m.error \/ m.stuck \/ m.mode = "brake" \/ Arrives(m) THEN 0
  ELSE CASE m.mode = "speed" -> m.target
         [] m.mode = "position" -> Toward(m.target - Position(m)) * m.move
         [] OTHER -> Toward(m.speed) * (Abs(m.speed) \div 2)    \* it coasts

Move(m, v) ==
  [m EXCEPT !.speed = v,
            !.encoder = Limited(IF Arrives(m) /\ ~m.error /\ ~m.stuck
                                THEN m.target + m.origin ELSE @ + v)]

\* Mutant: there is no timeout.
Expire_Never(m) == m
\* Released when no command came for longer than the timeout.
Expire(m) ==
  IF Timeout > 0 /\ m.mode # "idle" /\ m.quiet > Timeout THEN Release(m) ELSE m

\* Time passes since the last command; it does not matter to an idle motor.
Quieter(m) ==
  [m EXCEPT !.quiet = IF m.mode = "idle" THEN 0 ELSE IF @ > Timeout THEN @ ELSE @ + 1]

\* The current a motor reports.
Current(m) ==
  IF m.error THEN 0
  ELSE CASE m.mode \in {"current", "brake"} -> m.amps
         [] m.mode \in {"speed", "position"} -> m.load
         [] OTHER -> 0
=============================================================================
