----------------------------- MODULE MCEstopMirror -----------------------------
(* Instances of EstopMirror for TLC: which nodes there are, and what may go wrong. *)
EXTENDS EstopMirror

CONSTANTS page, phone, button

Robot(here, estopped, faults, inFlight) ==
  [here |-> here, estopped |-> estopped, slow |-> faults, restarts |-> faults,
   inFlight |-> inFlight]

\* A lone node with several messages on their way; two pages and a button, where anything
\* restarts and stalls.
AloneAndShared ==
  {Robot({page}, FALSE, FALSE, 3), Robot({page, phone, button}, TRUE, TRUE, 1)}
\* A page and a terminal, and nothing goes wrong.
PageAndTerminal == {Robot({page, button}, FALSE, FALSE, 2)}
=============================================================================
