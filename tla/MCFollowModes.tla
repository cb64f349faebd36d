----------------------------- MODULE MCFollowModes -----------------------------
(* Instances of FollowModes for TLC. *)
EXTENDS FollowModes, TLC

\* ball_follow.launch.py has no enroll service; person_follow.launch.py has.
BothNeeds == [drive |-> {}, ball |-> {"follower"}, person |-> {"follower", "detector"}]

SwapTasks == Permutations(Task)
=============================================================================
