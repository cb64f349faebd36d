----------------------------- MODULE MotorPromise -----------------------------
(***************************************************************************)
(* What a hardware component promises about its motors, whatever it does   *)
(* inside: a motor runs only while the component is on, and turning off    *)
(* leaves running only the motors its frames could not reach.              *)
(***************************************************************************)
CONSTANT Motor

VARIABLES
  on,      \* the component may command motors: active, or stopping them
  driven,  \* the motors that are not released
  lost     \* the motors that missed their last release

vars == <<on, driven, lost>>

Init == on = FALSE /\ driven = {} /\ lost = {}

TurnOn == ~on /\ on' = TRUE /\ driven' \subseteq Motor /\ lost' \subseteq Motor

Run == on /\ on' = TRUE /\ driven' \subseteq Motor /\ lost' \subseteq Motor

\* Off again: whatever still runs missed its release.
TurnOff == on /\ on' = FALSE /\ driven' \subseteq lost' /\ lost' \subseteq Motor

\* While off nothing starts to run, and a motor that runs stays accounted for.
Rest == ~on /\ on' = FALSE /\ driven' \subseteq driven /\ driven' \subseteq lost'

Next == TurnOn \/ Run \/ TurnOff \/ Rest

Spec == Init /\ [][Next]_vars
=============================================================================
