-------------------------------- MODULE MCPerson --------------------------------
(* The detector and the follower for TLC: a behaviour runs the gestures, the services or   *)
(* the follower.                                                                           *)
EXTENDS PersonDetector, TargetFollower, TLC

VARIABLE part

\* Somebody who always looks the same, and somebody else with two looks.
SomeLooks == ("ann" :> {0}) @@ ("bob" :> {1, 2})

Init == PersonInit /\ FollowerInit /\ part \in {"gestures", "services", "follower"}

Gestures == Process \/ Elapse \/ \E seen \in Groups : \E raised \in SUBSET seen : Frame(seen, raised)
Services == Process \/ Elapse \/ (\E seen \in Groups : Frame(seen, {})) \/ \E p \in Page : Pages(p)

Next ==
  /\ UNCHANGED part
  /\ \/ part = "gestures" /\ Gestures /\ UNCHANGED followerVars
     \/ part = "services" /\ Services /\ UNCHANGED followerVars
     \/ part = "follower" /\ FollowerNext /\ UNCHANGED personVars

\* PersonFairness, where the pages ask.
Spec ==
  /\ Init /\ [][Next]_<<part, personVars, followerVars>>
  /\ WF_personVars(part = "services" /\ Elapse)
  /\ \A p \in Page : WF_personVars(part = "services" /\ (Answer(p) \/ NoAnswer(p)))
=============================================================================
