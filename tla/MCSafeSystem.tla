----------------------------- MODULE MCSafeSystem -----------------------------
(* Instances of SafeSystem for TLC: the configurations give the joints and timeouts. *)
EXTENDS SafeSystem
=============================================================================
