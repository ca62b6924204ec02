------------------------- MODULE MCErrorReporting -------------------------
(* Values of the constants of ErrorReporting for the run. *)
EXTENDS ErrorReporting

CONSTANTS r1, j1, s1
OneRequest == {r1}
OneJob == {j1}
OneSubscriber == {s1}
=============================================================================
