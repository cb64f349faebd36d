------------------------------ MODULE MCWebDrive ------------------------------
(* Instances of WebDrive for TLC: speeds and distances round to what the guard compares. *)
EXTENDS WebDrive, TLC

\* Any two browsers are interchangeable.
SwapClients == Permutations(Client)
\* Reverse, stand, 10 cm/s, whose 27 cm to stop are within the cap, and 40 cm/s, whose 37 cm are
\* not; half and full speed.
Forth == {-100, 0, 100, 400}
Full == {0, 200, 400}
Turning == {0, 1}
Straight == {0}
=============================================================================
