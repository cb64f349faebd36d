----------------------------- MODULE TargetFollower -----------------------------
(***************************************************************************)
(* target_follower and the end of its velocity chain: the diff drive       *)
(* controller keeps the last command until cmd_vel_timeout.  Positions are *)
(* abstracted to where the target is seen from the robot: -1 and 1 to the  *)
(* side in front of it, -2 and 2 behind it; and farther away than          *)
(* follow_distance, nearer, or just there.                                 *)
(***************************************************************************)
EXTENDS Integers

CONSTANTS
  LostTimeout, SearchTimeout, CmdVelTimeout,  \* in ticks
  LoopPeriod,       \* of the control loop, at most
  YawLimit          \* as a bearing

ASSUME FollowerAssumption ==
  /\ LostTimeout \in Nat /\ SearchTimeout \in Nat /\ LostTimeout < SearchTimeout
  /\ CmdVelTimeout \in Nat /\ LoopPeriod \in Nat \ {0} /\ YawLimit \in Nat

Bearings == -2..2
Ranges == -1..1
Endless == SearchTimeout + CmdVelTimeout + LoopPeriod + 1   \* older than anything compared with

VARIABLES
  spot,        \* where the target was last seen, from where the robot is now: bearing and range
  unseen,      \* time since last_seen
  ever,        \* there was a target
  lastBearing, \* its sign: -1 or 1
  tf,          \* the transforms are there
  gizmo,       \* the last gizmo command
  base,        \* what the base does
  age,         \* of its last command
  due          \* time since the control loop ran

followerVars == <<spot, unseen, ever, lastBearing, tf, gizmo, base, age, due>>

Rest == [linear |-> 0, angular |-> 0]
Within(value, limit) == IF value > limit THEN limit ELSE IF value < -limit THEN -limit ELSE value
Sign(n) == IF n < 0 THEN -1 ELSE IF n > 0 THEN 1 ELSE 0

\* The target in the world frame.  Without the transform it is dropped.
OnTarget(seen) ==
  /\ IF tf THEN spot' = seen /\ unseen' = 0 /\ ever' = TRUE ELSE UNCHANGED <<spot, unseen, ever>>
  /\ UNCHANGED <<lastBearing, tf, gizmo, base, age, due>>

Publish(cmd) == base' = cmd /\ age' = 0

Lost_Ever == ~ever
Lost == ~ever \/ unseen > LostTimeout

\* It spins until search_timeout.
Searching == ever /\ unseen < SearchTimeout

Search ==
  /\ gizmo' = [yaw |-> 0, pitch |-> "search"]
  /\ Publish([linear |-> 0, angular |-> IF Searching THEN lastBearing ELSE 0])
  /\ UNCHANGED lastBearing

\* Forward or back only when roughly facing the target.
Track ==
  /\ lastBearing' = IF spot.bearing < 0 THEN -1 ELSE 1
  /\ gizmo' = [yaw |-> Within(spot.bearing, YawLimit), pitch |-> "aimed"]
  /\ Publish([linear |-> IF spot.bearing \in -1..1 THEN Sign(spot.range) ELSE 0,
              angular |-> Sign(spot.bearing)])

ControlLoop ==
  /\ due' = 0
  /\ IF Lost THEN Search
     ELSE IF tf THEN Track
     ELSE UNCHANGED <<lastBearing, gizmo, base, age>>
  /\ UNCHANGED <<spot, unseen, ever, tf>>

\* The robot moves relative to the spot, if it moves or not.
Move ==
  /\ due < LoopPeriod /\ due' = due + 1
  /\ unseen' = IF unseen < Endless THEN unseen + 1 ELSE unseen
  /\ age' = IF age <= CmdVelTimeout THEN age + 1 ELSE age
  /\ base' = IF age' > CmdVelTimeout THEN Rest ELSE base
  /\ spot' \in {[bearing |-> b, range |-> r] : b \in {n \in Bearings : n - spot.bearing \in -1..1},
                                               r \in {n \in Ranges : n - spot.range \in -1..1}}
  /\ UNCHANGED <<ever, lastBearing, tf, gizmo>>

TfChanges ==
  /\ tf' = ~tf
  /\ UNCHANGED <<spot, unseen, ever, lastBearing, gizmo, base, age, due>>

FollowerInit ==
  /\ spot = [bearing |-> 0, range |-> 0] /\ unseen = Endless /\ ever = FALSE /\ lastBearing = 1
  /\ tf = FALSE /\ gizmo = [yaw |-> 0, pitch |-> "search"] /\ base = Rest /\ age = CmdVelTimeout + 1
  /\ due = 0

FollowerNext ==
  \/ \E b \in Bearings, r \in Ranges : OnTarget([bearing |-> b, range |-> r])
  \/ ControlLoop \/ Move \/ TfChanges

FollowerSpec == FollowerInit /\ [][FollowerNext]_followerVars

-----------------------------------------------------------------------------
(* Properties *)

\* The state is well formed, and the gizmo is never sent past its limit.
FollowerTypeOK ==
  /\ spot \in [bearing : Bearings, range : Ranges] /\ unseen \in 0..Endless /\ ever \in BOOLEAN
  /\ lastBearing \in {-1, 1} /\ tf \in BOOLEAN /\ gizmo.yaw \in -YawLimit..YawLimit
  /\ base \in [linear : -1..1, angular : -1..1] /\ age \in 0..CmdVelTimeout + 1 /\ due \in 0..LoopPeriod

\* The base drives forward or back only for a target seen within lost_timeout and what the
\* chain behind it takes, whatever the transforms do.
DrivesOnSight == base.linear # 0 => unseen <= LostTimeout + CmdVelTimeout

\* Without a target it comes to rest after search_timeout: it does not spin for ever, and it
\* never moves when there never was one.
GivesUp == base # Rest => ever /\ unseen < SearchTimeout + CmdVelTimeout + LoopPeriod

\* The base moves for a target seen a moment ago, or for a search that ends.
FollowerSafety == FollowerTypeOK /\ DrivesOnSight /\ GivesUp
=============================================================================
