-------------------------- MODULE MCServeLifecycle --------------------------
(* Values of the constants of ServeLifecycle for the run. *)
EXTENDS ServeLifecycle

CONSTANTS job, slot, c1, c2
OneJob == {job}
OneSlot == {slot}
TwoConnections == {c1, c2}
=============================================================================
